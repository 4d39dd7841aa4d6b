---------------------------- MODULE ForwardStudy ----------------------------
(***************************************************************************)
(* The sealed forward study FS1 (trade_rl/evaluation/forward_acquisition   *)
(* and forward_study): an authorized acquisition turns published archives  *)
(* into a Dataset and a seal manifest, a seal record binds the manifest to *)
(* one commit, and an evaluator scores the Dataset exactly once.           *)
(*                                                                         *)
(* Processes of both kinds may run at the same time and be killed at any   *)
(* step; archives are published again, local files and the checkout are    *)
(* edited, and the clock may step back.  A content is a model of its       *)
(* digest: two contents are equal exactly when their digests are.          *)
(***************************************************************************)
EXTENDS Integers, FiniteSets

CONSTANTS Acquirers, Scorers,
  SettledAt,        \* settlement_instant(registry)
  LastTick,         \* bound on the clock
  MaxDisturbances,  \* bound on edits, republications, kills and clock steps
  NoFile            \* the content of a path that does not exist

ASSUME ForwardAssumption ==
  /\ SettledAt \in 0..LastTick /\ LastTick \in Nat /\ MaxDisturbances \in Nat

VARIABLES
  wall,      \* [now, events]: the clock and the bounded disturbances so far
  repo,      \* [head, clean]: the trade_rl checkout
  devFiles,  \* the development archives, source evidence and Dataset on disk
  vision,    \* what Binance Vision publishes for the months to be fetched
  acquirer,  \* the acquisition processes
  root,      \* the output root of the acquisition
  sealNote,  \* the Issue #810 seal record, once posted
  scorer,    \* the evaluator processes
  output     \* the write-once result file

forwardVars == <<wall, repo, devFiles, vision, acquirer, root, sealNote, scorer, output>>

-----------------------------------------------------------------------------
(* Registry and plan *)

\* FS1_REGISTRY and FS1_BUILD_POLICY are constants of the code, so a commit
\* either carries the frozen values or it does not.
Heads == {"sealed", "later", "drifted"}
RegistryDigestFrozen(head) == head # "drifted"

\* registry.arm, roles and roster.
Candidates == {"fs1_a"}
Controls == {"cash", "fs1_c"}
Arms == Candidates \cup Controls
Scenarios == {"base", "cost_x2", "latency"}
DrawdownScenarios == {"base", "cost_x2"}

\* build_params_or_problems: the policy the code implements, its span aligned
\* to months and split at the development end.
BuildParamsOrProblems(head) ==
  IF RegistryDigestFrozen(head) THEN {} ELSE {"build_policy_digest_not_implemented"}

\* plan_acquisition: months before the development end are reused, the others
\* fetched together with their checksum files (reused, fetched, fetch_urls).
Planned == {"dev", "new"}
Reused == {"dev"}
Fetched == Planned \ Reused

\* authorization_problems: an Issue #810 comment URL is required.
AuthorizationProblems(given) == IF given THEN {} ELSE {"authorization_missing"}

-----------------------------------------------------------------------------
(* Acquisition *)

NoRoot == [made |-> FALSE]
NewRoot == [made |-> TRUE, cache |-> [u \in Planned |-> NoFile], checksum |-> NoFile,
            rules |-> NoFile, dataset |-> NoFile, receipt |-> NoFile, manifest |-> NoFile]
Idle == [pc |-> "idle"]

\* The verified development archive and Dataset (DevReference).
DevContent == "d1"

\* _dev_reuse_or_problems: the archive on disk, the roster of the source
\* evidence and the digest bound in the Dataset's identity must all agree.
DevReuseOrProblems ==
  (IF devFiles.archive = NoFile THEN {"dev_archive_missing"} ELSE {})
  \cup (IF devFiles.archive # devFiles.roster THEN {"dev_archive_hash_mismatch"} ELSE {})
  \cup (IF devFiles.roster # DevContent THEN {"dev_roster_digest_mismatch"} ELSE {})

\* current_code_identity: the commit and whether the tree is clean.
CodeIdentity == repo

\* _preflight: every reason that can be known before the first request.
Preflight(given) ==
  AuthorizationProblems(given)
  \cup (IF root.made THEN {"output_exists"} ELSE {})
  \cup BuildParamsOrProblems(repo.head)
  \cup (IF wall.now < SettledAt THEN {"settlement_not_reached"} ELSE {})
  \cup (IF ~CodeIdentity.clean THEN {"code_tree_dirty"} ELSE {})
  \cup DevReuseOrProblems

\* A refusal raises; whatever the root holds by then stays, without a manifest.
Refuse(a) == /\ acquirer' = [acquirer EXCEPT ![a] = Idle]
             /\ UNCHANGED <<wall, repo, devFiles, vision, root, sealNote, scorer, output>>

\* Plan only: without allow_network run_acquire renders the plan and returns.
AcquirePreflight(a) ==
  /\ acquirer[a].pc = "idle"
  /\ Preflight(TRUE) = {}
  /\ acquirer' = [acquirer EXCEPT ![a] = [pc |-> "mkdir", code |-> repo.head]]
  /\ UNCHANGED <<wall, repo, devFiles, vision, root, sealNote, scorer, output>>

\* mkdir(exist_ok=False): of two runs that passed the preflight one goes on.
AcquireRoot(a) ==
  /\ acquirer[a].pc = "mkdir"
  /\ IF root.made THEN Refuse(a)
     ELSE /\ root' = NewRoot
          /\ acquirer' = [acquirer EXCEPT ![a] = [@ EXCEPT !.pc = "copy"]]
          /\ UNCHANGED <<wall, repo, devFiles, vision, sealNote, scorer, output>>

Advance(a, pc) == acquirer' = [acquirer EXCEPT ![a] = [@ EXCEPT !.pc = pc]]

\* _copy_development_archives reads the source again: it may have changed
\* since the preflight hashed it.
CopyDevelopmentArchives(a) ==
  /\ acquirer[a].pc = "copy"
  /\ devFiles.archive # NoFile
  /\ root' = [root EXCEPT !.cache = [@ EXCEPT !["dev"] = devFiles.archive]]
  /\ acquirer' = [acquirer EXCEPT ![a] =
       [pc |-> "archives", code |-> @.code, fetched |-> wall.now]]
  /\ UNCHANGED <<wall, repo, devFiles, vision, sealNote, scorer, output>>

\* sync_binance_vision_urls fetches an archive and its checksum by separate
\* requests; the clock was read before the first of them.
FetchArchive(a) ==
  /\ acquirer[a].pc = "archives"
  /\ root' = [root EXCEPT !.cache = [@ EXCEPT !["new"] = vision]]
  /\ Advance(a, "checksums")
  /\ UNCHANGED <<wall, repo, devFiles, vision, sealNote, scorer, output>>

FetchChecksum(a) ==
  /\ acquirer[a].pc = "checksums"
  /\ root' = [root EXCEPT !.checksum = vision]
  /\ Advance(a, "verify")
  /\ UNCHANGED <<wall, repo, devFiles, vision, sealNote, scorer, output>>

\* _cache_problems: exactly the planned members are in the cache.
CacheProblems ==
  IF \E u \in Planned : root.cache[u] = NoFile THEN {"archives_missing"} ELSE {}

\* _checksum_problems with parse_checksum: every fetched archive has the
\* content its official checksum file names.
ChecksumProblems ==
  IF \E u \in Fetched : root.cache[u] # root.checksum THEN {"archive_checksum_mismatch"} ELSE {}

\* The roster loop: a reused archive is the one the development roster lists.
RosterProblems ==
  IF \E u \in Reused : root.cache[u] # DevContent THEN {"dev_archive_changed"} ELSE {}

VerifyCache(a) ==
  /\ acquirer[a].pc = "verify"
  /\ IF CacheProblems \cup ChecksumProblems \cup RosterProblems # {} THEN Refuse(a)
     ELSE /\ Advance(a, "rules")
          /\ UNCHANGED <<wall, repo, devFiles, vision, root, sealNote, scorer, output>>

\* The exchange rules are one more request, frozen as they are.
FreezeRules(a) ==
  /\ acquirer[a].pc = "rules"
  /\ root' = [root EXCEPT !.rules = "rules"]
  /\ Advance(a, "build")
  /\ UNCHANGED <<wall, repo, devFiles, vision, sealNote, scorer, output>>

\* _build_dataset builds offline from the cache, so its content is the cache's.
BuildDataset == [rows |-> root.cache, rules |-> root.rules]

\* dataset_gap_problems: regular hours up to the scoring end and enough
\* tradable rows between the development end and the scoring end.
DatasetGapProblems(d) ==
  IF d.rows["new"] = "gappy" THEN {"gap_tradable_fraction_low"} ELSE {}

\* dev_span_equality: the rebuilt development rows equal the verified ones;
\* the exchange rules are reported and may differ.
DevSpanEquality(d) == d.rows["dev"] = DevContent

\* Build, check, publish and read back (publish_market_dataset_artifact).
BuildAndPublish(a) ==
  /\ acquirer[a].pc = "build"
  /\ IF DatasetGapProblems(BuildDataset) # {} \/ ~DevSpanEquality(BuildDataset)
     THEN Refuse(a)
     ELSE /\ root' = [root EXCEPT !.dataset = BuildDataset]
          /\ acquirer' = [acquirer EXCEPT ![a] =
               [pc |-> "receipt", code |-> @.code, fetched |-> @.fetched, loaded |-> BuildDataset]]
          /\ UNCHANGED <<wall, repo, devFiles, vision, sealNote, scorer, output>>

\* The receipt records the code identity as it is at this moment.
WriteReceipt(a) ==
  /\ acquirer[a].pc = "receipt"
  /\ root' = [root EXCEPT !.receipt =
       [dataset |-> acquirer[a].loaded, fetched |-> acquirer[a].fetched, builder |-> CodeIdentity]]
  /\ Advance(a, "manifest")
  /\ UNCHANGED <<wall, repo, devFiles, vision, sealNote, scorer, output>>

\* manifest_bytes_from_dataset: binds Dataset, receipt, sources and times; it
\* is written last, and sealed_utc is not before fetched_utc.
ManifestOf(loaded, fetched) ==
  [dataset |-> loaded, receipt |-> root.receipt, roster |-> DevContent,
   fetched |-> fetched,
   sealedAt |-> IF wall.now > fetched THEN wall.now ELSE fetched]

WriteManifest(a) ==
  /\ acquirer[a].pc = "manifest"
  /\ root' = [root EXCEPT !.manifest = ManifestOf(acquirer[a].loaded, acquirer[a].fetched)]
  /\ acquirer' = [acquirer EXCEPT ![a] = Idle]
  /\ UNCHANGED <<wall, repo, devFiles, vision, sealNote, scorer, output>>

AcquireStep(a) ==
  \/ AcquirePreflight(a)        \/ AcquireRoot(a)   \/ CopyDevelopmentArchives(a)
  \/ FetchArchive(a)            \/ FetchChecksum(a) \/ VerifyCache(a)
  \/ FreezeRules(a)             \/ BuildAndPublish(a)
  \/ WriteReceipt(a)            \/ WriteManifest(a)

-----------------------------------------------------------------------------
(* The seal record *)

\* parse_manifest: the bytes are a manifest of the sealed schema.
ParseManifest(m) == m # NoFile

\* _render: manifest and receipt agree with each other and with the registry,
\* and the data were fetched after settlement.
SealRecordProblems ==
  IF ~root.made \/ ~ParseManifest(root.manifest) THEN {"manifest_missing"}
  ELSE (IF root.manifest.receipt # root.receipt
        THEN {"receipt_sha256_not_bound_by_manifest"} ELSE {})
       \cup (IF root.receipt.dataset # root.manifest.dataset
             THEN {"receipt_dataset_id_differs_from_manifest"} ELSE {})
       \cup (IF root.receipt.fetched # root.manifest.fetched
             THEN {"receipt_fetched_utc_differs_from_manifest"} ELSE {})
       \cup (IF root.manifest.fetched < SettledAt
             THEN {"manifest_fetched_before_settlement"} ELSE {})
       \cup (IF root.manifest.sealedAt < root.manifest.fetched
             THEN {"manifest_sealed_before_fetched"} ELSE {})

\* The operator posts what render_seal_record prints: once.
PostSealRecord ==
  /\ sealNote = NoFile /\ SealRecordProblems = {}
  /\ sealNote' = [code |-> "sealed", manifest |-> root.manifest]
  /\ UNCHANGED <<wall, repo, devFiles, vision, acquirer, root, scorer, output>>

-----------------------------------------------------------------------------
(* Scoring *)

\* _authorize: every precondition, against the values of the seal record the
\* operator supplies.
AuthorizeProblems ==
  (IF wall.now < SettledAt THEN {"scoring_window_not_closed"} ELSE {})
  \cup (IF ~RegistryDigestFrozen(repo.head) THEN {"registry_digest_differs_from_frozen"} ELSE {})
  \cup (IF repo.head # sealNote.code THEN {"code_sha_mismatch"} ELSE {})
  \cup (IF ~repo.clean THEN {"code_tree_dirty"} ELSE {})
  \cup (IF ~root.made \/ ~ParseManifest(root.manifest) THEN {"manifest_missing"}
        ELSE (IF root.manifest # sealNote.manifest THEN {"manifest_sha256_mismatch"} ELSE {})
             \cup (IF root.manifest.fetched < SettledAt \/ root.manifest.sealedAt < root.manifest.fetched
                   THEN {"manifest_fetched_before_settlement"} ELSE {}))
  \cup (IF output.state # "absent" THEN {"output_exists"} ELSE {})

\* ScoringPermit: what the scoring step may rely on.
Authorize(s) ==
  /\ scorer[s].pc = "idle" /\ sealNote # NoFile
  /\ AuthorizeProblems = {}
  /\ scorer' = [scorer EXCEPT ![s] =
       [pc |-> "claim", permit |-> [code |-> repo.head, manifest |-> root.manifest]]]
  /\ UNCHANGED <<wall, repo, devFiles, vision, acquirer, root, sealNote, output>>

NoOutput == [state |-> "absent"]

\* Mutation: the path was seen to be free, so it is simply opened.
ClaimOpening(s) ==
  /\ scorer[s].pc = "claim"
  /\ output' = [state |-> "claimed", by |-> s]
  /\ scorer' = [scorer EXCEPT ![s] = [@ EXCEPT !.pc = "load"]]
  /\ UNCHANGED <<wall, repo, devFiles, vision, acquirer, root, sealNote>>

\* open("xb"): the claim is atomic, a second evaluator is refused.
Claim(s) ==
  /\ scorer[s].pc = "claim"
  /\ IF output.state # "absent"
     THEN scorer' = [scorer EXCEPT ![s] = Idle] /\ UNCHANGED output
     ELSE /\ output' = [state |-> "claimed", by |-> s]
          /\ scorer' = [scorer EXCEPT ![s] = [@ EXCEPT !.pc = "load"]]
  /\ UNCHANGED <<wall, repo, devFiles, vision, acquirer, root, sealNote>>

\* dataset_problems, verify_dataset: the Dataset that was loaded is the one
\* the manifest names, and is complete.
DatasetProblems(permit, d) ==
  IF d # permit.manifest.dataset \/ DatasetGapProblems(d) # {}
  THEN {"dataset_id_mismatch"} ELSE {}

\* The failure path removes the claimed path, whoever claimed it.
ScoreFails(s) ==
  /\ output' = NoOutput
  /\ scorer' = [scorer EXCEPT ![s] = Idle]
  /\ UNCHANGED <<wall, repo, devFiles, vision, acquirer, root, sealNote>>

LoadDataset(s) ==
  /\ scorer[s].pc = "load"
  /\ IF ~root.made \/ DatasetProblems(scorer[s].permit, root.dataset) # {} THEN ScoreFails(s)
     ELSE /\ scorer' = [scorer EXCEPT ![s] = [@ EXCEPT !.pc = "score"]]
          /\ UNCHANGED <<wall, repo, devFiles, vision, acquirer, root, sealNote, output>>

\* What the replays and probes of one arm can show (ArmRun, _score_arm): one
\* defect in one scenario, or none; an exception leaves the outcome missing.
Defects == {"replay_failed", "ledger_not_reconciled", "account_terminated",
            "incomplete_daily_equity", "too_few_trades", "causality_probe_not_identical"}
ArmRuns == {[defect |-> "none", in |-> "base"]}
           \cup {[defect |-> d, in |-> c] : d \in Defects, c \in Scenarios}

\* What is no defect of CASH, which trades nothing and has no probe.
NotForCash == {"none", "too_few_trades", "causality_probe_not_identical"}

\* arm_invalid_reasons: any defect of any reported scenario.
ArmInvalidReasons(arm, run) ==
  {run.defect} \ (IF arm = "cash" THEN NotForCash ELSE {"none"})

\* bootstrap and drawdown figures: a number, or missing (_finite, _interval).
Figures == {"good", "bad", "missing"}
EvidenceSet == [drawdown : Figures, cash : Figures, passive : Figures, bonferroni : Figures]

\* assemble_result: an invalid arm has no daily series, hence no interval, and
\* without CASH or the passive control there is nothing to compare with.
CandidateEvidence(arm, runs, figures) ==
  LET invalid == [x \in Arms |-> ArmInvalidReasons(x, runs[x])]
      has(x) == invalid[x] = {}
  IN  [reasons |-> invalid[arm],
       controls |-> \A c \in Controls : has(c),
       drawdown |-> IF runs[arm].defect = "replay_failed" /\ runs[arm].in \in DrawdownScenarios
                    THEN "missing" ELSE figures.drawdown,
       cash |-> IF has(arm) /\ has("cash") THEN figures.cash ELSE "missing",
       bonferroni |-> IF has(arm) /\ has("cash") THEN figures.bonferroni ELSE "missing",
       passive |-> IF has(arm) /\ has("cash") /\ has("fs1_c") THEN figures.passive ELSE "missing"]

\* classify_candidate: INVALID before FAIL before PASS, and the edge claim
\* only for a PASS that also beats the passive control and survives Bonferroni.
ClassifyCandidate(e) ==
  IF e.reasons # {} \/ ~e.controls \/ "missing" \in {e.drawdown, e.cash, e.passive, e.bonferroni}
  THEN [label |-> "FORWARD_INVALID", edge |-> FALSE]
  ELSE LET label == IF e.drawdown = "bad" \/ e.cash = "bad" THEN "FORWARD_FAIL" ELSE "FORWARD_PASS"
       IN  [label |-> label,
            edge |-> label = "FORWARD_PASS" /\ e.passive = "good" /\ e.bonferroni = "good"]

\* run_roster with assemble_result: the labels every combination of one
\* defective arm and of the figures leads to.
Scores ==
  {LET runs == [x \in Arms |-> IF x = arm THEN run ELSE [defect |-> "none", in |-> "base"]]
   IN  [label |-> ClassifyCandidate(CandidateEvidence("fs1_a", runs, figures)),
        sound |-> run.defect = "none" \/ (arm = "cash" /\ run.defect \in NotForCash)] :
     arm \in Arms, run \in ArmRuns, figures \in EvidenceSet}

\* score_fs1 with the write of the result: it names the permit's code and
\* Dataset, and any exception on the way removes the claim.
WriteResult(s) ==
  /\ scorer[s].pc = "score"
  /\ \E score \in Scores :
       output' = [state |-> "result", by |-> s, result |-> score.label, sound |-> score.sound,
                  code |-> scorer[s].permit.code,
                  dataset |-> scorer[s].permit.manifest.dataset,
                  fetched |-> scorer[s].permit.manifest.fetched]
  /\ scorer' = [scorer EXCEPT ![s] = Idle]
  /\ UNCHANGED <<wall, repo, devFiles, vision, acquirer, root, sealNote>>

ScoreRaises(s) == scorer[s].pc = "score" /\ ScoreFails(s)

ScoreStep(s) ==
  Authorize(s) \/ Claim(s) \/ LoadDataset(s) \/ WriteResult(s) \/ ScoreRaises(s)

-----------------------------------------------------------------------------
(* The environment *)

Disturbed == wall.events < MaxDisturbances /\ wall' = [wall EXCEPT !.events = @ + 1]

Tick ==
  /\ wall.now < LastTick /\ wall' = [wall EXCEPT !.now = @ + 1]
  /\ UNCHANGED <<repo, devFiles, vision, acquirer, root, sealNote, scorer, output>>

ClockStepsBack ==
  /\ wall.now > 0 /\ wall.events < MaxDisturbances
  /\ wall' = [now |-> wall.now - 1, events |-> wall.events + 1]
  /\ UNCHANGED <<repo, devFiles, vision, acquirer, root, sealNote, scorer, output>>

EditRepository ==
  /\ Disturbed
  /\ \E h \in Heads, c \in BOOLEAN : repo' = [head |-> h, clean |-> c] /\ repo' # repo
  /\ UNCHANGED <<devFiles, vision, acquirer, root, sealNote, scorer, output>>

EditDevFiles ==
  /\ Disturbed
  /\ \E x \in {"d2", NoFile} : devFiles' = [devFiles EXCEPT !.archive = x]
  /\ UNCHANGED <<repo, vision, acquirer, root, sealNote, scorer, output>>

Republish ==
  /\ Disturbed
  /\ vision' \in {"full", "revised", "gappy"} \ {vision}
  /\ UNCHANGED <<repo, devFiles, acquirer, root, sealNote, scorer, output>>

\* The published Dataset is edited after it was sealed.
EditDataset ==
  /\ Disturbed /\ root.made
  /\ root.dataset # NoFile /\ root' = [root EXCEPT !.dataset =
       [rows |-> [u \in Planned |-> "edited"], rules |-> "rules"]]
  /\ UNCHANGED <<repo, devFiles, vision, acquirer, sealNote, scorer, output>>

\* A kill: an acquisition leaves a partial root, an evaluator its empty claim
\* or, inside the write, a file that is neither empty nor complete.
Kill ==
  /\ Disturbed
  /\ \/ \E a \in Acquirers : acquirer[a].pc # "idle"
          /\ acquirer' = [acquirer EXCEPT ![a] = Idle] /\ UNCHANGED <<scorer, output>>
     \/ \E s \in Scorers : scorer[s].pc # "idle"
          /\ scorer' = [scorer EXCEPT ![s] = Idle] /\ UNCHANGED acquirer
          /\ output' \in {output} \cup (IF scorer[s].pc = "score"
                                       THEN {[state |-> "torn", by |-> s]} ELSE {})
  /\ UNCHANGED <<repo, devFiles, vision, root, sealNote>>

\* A partial root "must be inspected and removed by hand".
RemovePartialRoot ==
  /\ root.made /\ root.manifest = NoFile /\ \A a \in Acquirers : acquirer[a].pc \in {"idle", "mkdir"}
  /\ root' = NoRoot
  /\ UNCHANGED <<wall, repo, devFiles, vision, acquirer, sealNote, scorer, output>>

\* LOW_B_PROCEDURE: an empty claim of a killed evaluator is removed by hand.
RemoveEmptyClaim ==
  /\ output.state = "claimed" /\ scorer[output.by].pc = "idle"
  /\ output' = NoOutput
  /\ UNCHANGED <<wall, repo, devFiles, vision, acquirer, root, sealNote, scorer>>

Environment ==
  \/ Tick \/ ClockStepsBack \/ EditRepository \/ EditDevFiles \/ Republish \/ EditDataset
  \/ Kill \/ RemovePartialRoot \/ RemoveEmptyClaim

ForwardInit ==
  /\ wall = [now |-> 0, events |-> 0]
  /\ repo = [head |-> "sealed", clean |-> TRUE]
  /\ devFiles = [archive |-> DevContent, roster |-> DevContent]
  /\ vision = "full"
  /\ acquirer = [a \in Acquirers |-> Idle]
  /\ root = NoRoot
  /\ sealNote = NoFile
  /\ scorer = [s \in Scorers |-> Idle]
  /\ output = NoOutput

ForwardNext ==
  \/ \E a \in Acquirers : AcquireStep(a)
  \/ PostSealRecord
  \/ \E s \in Scorers : ScoreStep(s)
  \/ Environment

ForwardSpec == ForwardInit /\ [][ForwardNext]_forwardVars

-----------------------------------------------------------------------------
\* A result rests on what was sealed: the sealed commit, the development rows
\* that were verified, new archives with their official checksum and no gap,
\* fetched after settlement, although every one of them was checked at another
\* time than it was used; and it passes only when no arm was defective.
ResultRestsOnSeal ==
  output.state = "result" =>
    /\ output.code = sealNote.code
    /\ output.dataset = sealNote.manifest.dataset
    /\ output.dataset.rows["dev"] = DevContent
    /\ output.dataset.rows["new"] \in {"full", "revised"}
    /\ output.fetched >= SettledAt
    /\ output.result.label # "FORWARD_INVALID" \/ ~output.result.edge
    /\ output.result.label = "FORWARD_PASS" => output.sound

\* "FS1 is scored once": a result is never removed, overwritten or replaced,
\* and one evaluator's failure never removes another one's claim.
ScoredOnce ==
  /\ output.state = "result" => output' = output
  /\ output.state = "claimed" /\ output' # output =>
       scorer[output.by] # scorer'[output.by] \/ scorer[output.by].pc = "idle"

\* The sealed forward study as one property of its steps.
ForwardIsSealed == [][ResultRestsOnSeal' /\ ScoredOnce]_forwardVars
=============================================================================
