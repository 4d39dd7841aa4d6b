---------------------------- MODULE CandidateRun ----------------------------
(***************************************************************************)
(* One candidate run from its configuration to a directory others load       *)
(* (evaluation/runs: candidate.py, config.py, candidate_suite.py,            *)
(* execute.py, provenance.py, artifact.py).                                  *)
(*                                                                          *)
(* Several processes may run towards the same destination while the code and *)
(* the Dataset they read are replaced underneath them. The replays are       *)
(* external: one ends over the whole window or stops early with a reason,    *)
(* flat or not. The destination may hold the result of an earlier release,   *)
(* under an older schema, which the same loader reads.                       *)
(***************************************************************************)
EXTENDS ReturnSeries, FiniteSets

CONSTANTS CandidateRuns,    \* processes that run towards the one destination
          CandidateConfigs, \* configuration files
          DatasetAt,        \* version of the Dataset root |-> the Dataset
          RecordedSchemas,  \* schemas of the result an earlier release left
          MaxCodeVersion,   \* bound: replacements of the code
          MaxCandidateDeaths, \* bound: processes killed
          NoResult          \* no directory, no section

ASSUME CandidateAssumption ==
  /\ RecordedSchemas \subseteq 1..9 /\ NoResult \notin CandidateRuns
  /\ MaxCodeVersion \in Nat /\ MaxCandidateDeaths \in Nat

VARIABLES
  codeVersion,   \* the package the next provenance manifest sees
  datasetVersion,\* the Dataset published at the Dataset root
  candRun,       \* local state of each run
  destination,   \* the directory at output_root, or NoResult
  recorded,      \* what an earlier release left at output_root, or NoResult
  candidateDeaths

candidateVars ==
  <<codeVersion, datasetVersion, candRun, destination, recorded, candidateDeaths>>

-----------------------------------------------------------------------------
(* Configuration and resolution (config.py).                                *)

\* _normalized_timestamp: wall time minus offset; a fraction finer than the clock of
\* the Dataset is refused instead of rounded.
StampIsExact(stamp)        == ~stamp.lossy
NormalizedTimestamp(stamp) == stamp.wall - stamp.offset

\* parse_candidate_run_config and CandidateRunConfig.__post_init__.
ConfigIsValid(c) ==
  /\ StampIsExact(c.cutoff) /\ StampIsExact(c.start) /\ StampIsExact(c.stop)
  /\ (c.layout = "sequential") <=> (c.rollout = 0)
  /\ c.hold > 0 => c.observation = "v3"
  /\ c.observation = "v3" => c.settle /\ c.risk = "strict"

\* _exact_timestamp_index: exactly one bar carries the timestamp.
MatchingBars(data, stamp) ==
  {i \in DOMAIN data.at : data.at[i] = NormalizedTimestamp(stamp)}
ExactTimestampIndex(data, stamp) == CHOOSE i \in MatchingBars(data, stamp) : TRUE

\* require_age_aware_hourly_clock.
RequireHourlyClock(data, c) == c.observation = "v3" => data.hourly

\* resolve_candidate_run_spec.
Resolves(data, c) ==
  /\ RequireHourlyClock(data, c)
  /\ Cardinality(MatchingBars(data, c.start)) = 1
  /\ Cardinality(MatchingBars(data, c.stop)) = 1
  /\ data.at[ExactTimestampIndex(data, c.start)] >= NormalizedTimestamp(c.cutoff)

ResolvedSpec(version, c) ==
  [config |-> c, version |-> version,
   first |-> ExactTimestampIndex(DatasetAt[version], c.start),
   last |-> ExactTimestampIndex(DatasetAt[version], c.stop)]

Data(spec) == DatasetAt[spec.version]

-----------------------------------------------------------------------------
(* The candidate suite (candidate_suite.py, execute.py).                    *)

\* Bars before the cutoff: what the fits may read.
FitBars(spec) ==
  {i \in DOMAIN Data(spec).at : Data(spec).at[i] < NormalizedTimestamp(spec.config.cutoff)}

\* Mutation: only the bar's own timestamp is compared with the cutoff.
PpoFitAllowedByTimestamp(spec) == Cardinality(FitBars(spec)) >= 2

\* _ppo_training_stop_index: two bars, and none whose price became available later.
PpoFitAllowed(spec) ==
  /\ Cardinality(FitBars(spec)) >= 2
  /\ \A i \in FitBars(spec) : Data(spec).available[i] <= NormalizedTimestamp(spec.config.cutoff)

\* expected_ppo_realized_timesteps: whole rollouts.
PpoDefaultSteps == 2
ExpectedRealizedTimesteps(c) ==
  LET rollout == IF c.layout = "sequential" THEN PpoDefaultSteps ELSE c.rollout * c.symbols
  IN  ((c.timesteps + rollout - 1) \div rollout) * rollout

\* run_lean_candidate_suite's own checks; those of the configuration are repeated.
SuiteAccepts(spec) ==
  /\ ConfigIsValid(spec.config) /\ RequireHourlyClock(Data(spec), spec.config)
  /\ spec.first < spec.last
  /\ PpoFitAllowed(spec)

Expected(spec) == spec.last - spec.first

\* How a replay over n bars may end: all bars, or stopped at one of them.
Up == <<5, 4>>
Down == <<3, 4>>
ReplayEnds(n) ==
  {[series |-> [i \in 1..k |-> IF i = 1 THEN Up ELSE Down], stopped |-> k < n,
    lots |-> left[1], orders |-> left[2]] :
     k \in 1..n, left \in {<<0, 0>>, <<1, 0>>, <<0, 1>>}}
    \cup {[series |-> [i \in 1..n |-> Down], stopped |-> TRUE, lots |-> 0, orders |-> 0]}

CleanEnd(e) == ~e.stopped /\ e.lots = 0 /\ e.orders = 0

\* execute_candidate_run: the PPO arm per symbol and, for the age-aware observation,
\* once more with shared cash; at most one of the two ends badly. The constant arms
\* always run to the end.
Executions(spec) ==
  LET ends == ReplayEnds(Expected(spec))
  IN  IF spec.config.observation = "v3"
      THEN {d \in [ppo : ends, shared : ends] : CleanEnd(d.ppo) \/ CleanEnd(d.shared)}
      ELSE [ppo : ends, shared : {NoResult}]

CashReplay(spec) ==
  [series |-> [i \in 1..Expected(spec) |-> <<1, 1>>], stopped |-> FALSE, lots |-> 0, orders |-> 0]

-----------------------------------------------------------------------------
(* The documents (artifact.py).                                             *)

\* terminal_settlement_complete; the coverage of the window counts from schema 6 on.
SettlementComplete(schema, settle, n, end) ==
  /\ settle /\ end.lots = 0 /\ end.orders = 0
  /\ schema >= 6 => Len(end.series) = n /\ ~end.stopped

EntryPayload(schema, spec, key, end) ==
  [key |-> key, metrics |-> EvaluatePerformance(end.series, IF end.stopped THEN 1 ELSE 0),
   reasons |-> IF end.stopped THEN 1 ELSE 0, lots |-> end.lots, orders |-> end.orders,
   complete |-> SettlementComplete(schema, spec.config.settle, Expected(spec), end)]

\* The shared-cash section: the entry, and the counts of its ledger.
SharedPayload(schema, spec, end) ==
  [entry |-> EntryPayload(schema, spec, "shared", end), intervals |-> Len(end.series),
   decisions |-> Len(end.series) - 1, exact |-> end.lots]

\* _result_payload: the summary.
SummaryPayload(schema, spec, done) ==
  [schema |-> schema, observation |-> spec.config.observation, config |-> spec.config,
   realized |-> ExpectedRealizedTimesteps(spec.config),
   expected |-> Expected(spec), settle |-> spec.config.settle, risk |-> spec.config.risk,
   switchCost |-> schema = 10,
   entries |-> <<EntryPayload(schema, spec, "s0_0", CashReplay(spec)),
                 EntryPayload(schema, spec, "s0_1", done.ppo)>>,
   shared |-> IF done.shared = NoResult THEN NoResult
              ELSE SharedPayload(schema, spec, done.shared)]

\* _result_payload: the return archive, key by key.
ReturnsPayload(spec, done) ==
  [key \in {"s0_0", "s0_1"} \cup (IF done.shared = NoResult THEN {} ELSE {"shared"}) |->
     CASE key = "s0_0" -> CashReplay(spec).series
       [] key = "s0_1" -> done.ppo.series
       [] key = "shared" -> done.shared.series]

-----------------------------------------------------------------------------
(* The loader (artifact.py).                                                *)

\* _validate_ppo_training_evidence, for the schemas that have the section.
TrainingEvidenceValid(s) ==
  /\ s.realized = ExpectedRealizedTimesteps(s.config)
  /\ s.schema >= 4 => /\ s.config.hold > 0 => s.config.observation = "v3"
                      /\ s.settle = s.config.settle
                      /\ s.observation = s.config.observation
  /\ s.schema = 10 => s.switchCost
  /\ s.schema >= 5 => /\ s.risk = s.config.risk
                      /\ s.config.observation = "v3" => s.settle /\ s.risk = "strict"

\* One replay's flag against the evidence beside it.
FlagIsConsistent(s, e, full) ==
  e.complete = (/\ s.settle /\ e.lots = 0 /\ e.orders = 0
                /\ full => /\ e.metrics.periods = s.expected
                           /\ e.metrics.terminations = 0 /\ e.reasons = 0)

\* _validate_replay_evidence.
ReplayEvidenceValid(s, full) ==
  /\ full => s.expected > 0
  /\ \A i \in DOMAIN s.entries : FlagIsConsistent(s, s.entries[i], full)

\* _validate_v7_replay_evidence: the shared-cash section covers the window.
SharedEvidenceValid(s) ==
  /\ s.shared # NoResult
  /\ s.shared.entry.key = "shared"
  /\ s.shared.entry.metrics.periods = s.expected
  /\ FlagIsConsistent(s, s.shared.entry, TRUE)
  /\ s.shared.intervals = s.expected /\ s.shared.decisions <= s.expected
  /\ s.shared.entry.complete => s.shared.exact = 0

\* _validate_shared_cash_result_schema.
SharedSchemaSupported(s) == s.shared # NoResult => s.schema \in {7, 9, 10}

\* Which schemas carry the shared-cash section, v10 by its presence.
CarriesShared(s) == s.schema \in {7, 9} \/ (s.schema = 10 /\ s.shared # NoResult)

\* The dispatch of _load_with_evidence over the schemas.
SummaryValid(s) ==
  /\ s.schema # 10 => ~s.switchCost
  /\ s.schema \in {2, 3} => s.observation = "v2"
  /\ s.schema >= 3 => TrainingEvidenceValid(s)
  /\ s.schema >= 5 => ReplayEvidenceValid(s, s.schema >= 6)
  /\ SharedSchemaSupported(s)
  /\ CarriesShared(s) => SharedEvidenceValid(s)

Sections(s) == {s.entries[i] : i \in DOMAIN s.entries}
                 \cup (IF s.shared = NoResult THEN {} ELSE {s.shared.entry})

\* _expected_return_keys and _load_returns.
ReturnKeysMatch(s, returns) == DOMAIN returns = {e.key : e \in Sections(s)}

\* _validate_v6_return_coverage.
ReturnsCovered(s, returns) ==
  \A i \in DOMAIN s.entries :
    /\ s.entries[i].metrics.periods <= s.expected
    /\ Len(returns[s.entries[i].key]) = s.entries[i].metrics.periods

\* _validate_v7_return_coverage: the series is compounded again.
SharedReturnsCovered(s, returns) ==
  LET series == returns["shared"]
      again  == MetricsLoop(series)
  IN  /\ Len(series) = s.expected
      /\ SameRatio(again.wealth, s.shared.entry.metrics.wealth)
      /\ SameRatio(again.drawdown, s.shared.entry.metrics.drawdown)

\* load_candidate_run_artifact. The provenance section is consistent with its digests
\* by construction here.
ArtifactLoads(doc) ==
  /\ SummaryValid(doc.summary)
  /\ ReturnKeysMatch(doc.summary, doc.returns)
  /\ doc.summary.schema >= 6 => ReturnsCovered(doc.summary, doc.returns)
  /\ CarriesShared(doc.summary) => SharedReturnsCovered(doc.summary, doc.returns)

\* has_verified_full_evaluation_coverage.
HasVerifiedFullCoverage(doc) ==
  /\ doc.summary.schema >= 6
  /\ \A e \in IF CarriesShared(doc.summary) THEN Sections(doc.summary)
              ELSE {doc.summary.entries[i] : i \in DOMAIN doc.summary.entries} :
       e.metrics.periods = doc.summary.expected /\ Len(doc.returns[e.key]) = doc.summary.expected

-----------------------------------------------------------------------------
(* The run (candidate.py).                                                  *)

IdleRun == [stage |-> "idle", config |-> NoResult, inspected |-> 0, loaded |-> 0,
            spec |-> NoResult, before |-> 0, done |-> NoResult]

\* A result some earlier release published from a valid configuration: it replayed
\* on the first Dataset and wrote what its schema holds.
RecordedResults ==
  UNION {LET spec == ResolvedSpec(1, c)
         IN  {[spec |-> spec, done |-> d, schema |-> n] :
                n \in {m \in RecordedSchemas : (m \in {7, 9}) <=> c.observation = "v3"},
                d \in Executions(spec)} :
         c \in {x \in CandidateConfigs : /\ ConfigIsValid(x) /\ Resolves(DatasetAt[1], x)
                                         /\ SuiteAccepts(ResolvedSpec(1, x))}}

\* The older release's directory.
RecordedDocument ==
  [by |-> NoResult, summary |-> SummaryPayload(recorded.schema, recorded.spec, recorded.done),
   returns |-> ReturnsPayload(recorded.spec, recorded.done), provenance |-> 0, dataset |-> 1]

CandidateInit ==
  /\ codeVersion = 1 /\ datasetVersion = 1
  /\ candRun = [r \in CandidateRuns |-> IdleRun]
  /\ recorded \in RecordedResults \cup {NoResult}
  /\ destination = IF recorded = NoResult THEN NoResult ELSE RecordedDocument
  /\ candidateDeaths = 0

Ended(stage) == [IdleRun EXCEPT !.stage = stage]
CandidateAt(r, stage) == candRun[r].stage = stage
WorldKept == UNCHANGED <<codeVersion, datasetVersion, recorded, candidateDeaths>>

\* run_candidate_artifact: the destination must not exist.
StartCandidate(r, c) ==
  /\ CandidateAt(r, "idle") /\ destination = NoResult
  /\ candRun' = [candRun EXCEPT ![r].stage = "inspect", ![r].config = c]
  /\ WorldKept /\ UNCHANGED destination

\* inspect_published_market_dataset_artifact: the digest that will be recorded.
InspectDataset(r) ==
  /\ CandidateAt(r, "inspect")
  /\ candRun' = [candRun EXCEPT ![r].stage = "load", ![r].inspected = datasetVersion]
  /\ WorldKept /\ UNCHANGED destination

\* load_market_dataset_artifact: a second read of the same root.
LoadDataset(r) ==
  /\ CandidateAt(r, "load")
  /\ candRun' = [candRun EXCEPT ![r].stage = "resolve", ![r].loaded = datasetVersion]
  /\ WorldKept /\ UNCHANGED destination

\* load_candidate_run_config, resolve_candidate_run_spec.
ResolveSpec(r) ==
  /\ CandidateAt(r, "resolve")
  /\ LET data == DatasetAt[candRun[r].loaded]
         c    == candRun[r].config
     IN  candRun' = [candRun EXCEPT ![r] =
           IF ConfigIsValid(c) /\ Resolves(data, c)
           THEN [@ EXCEPT !.stage = "before", !.spec = ResolvedSpec(candRun[r].loaded, c)]
           ELSE Ended("failed")]
  /\ WorldKept /\ UNCHANGED destination

\* build_candidate_run_provenance: the manifest of every source file.
ProvenanceBefore(r) ==
  /\ CandidateAt(r, "before")
  /\ candRun' = [candRun EXCEPT ![r].stage = "execute", ![r].before = codeVersion]
  /\ WorldKept /\ UNCHANGED destination

\* execute_candidate_run.
ExecuteCandidate(r) ==
  /\ CandidateAt(r, "execute") /\ SuiteAccepts(candRun[r].spec)
  /\ \E d \in Executions(candRun[r].spec) :
       candRun' = [candRun EXCEPT ![r].stage = "after", ![r].done = d]
  /\ WorldKept /\ UNCHANGED destination

SuiteRefuses(r) ==
  /\ CandidateAt(r, "execute") /\ ~SuiteAccepts(candRun[r].spec)
  /\ candRun' = [candRun EXCEPT ![r] = Ended("failed")]
  /\ WorldKept /\ UNCHANGED destination

\* The second manifest must equal the first; publish_candidate_run looks at the
\* destination again, and the three files are written to a staging directory of its own.
ProvenanceAfter(r) ==
  /\ CandidateAt(r, "after")
  /\ candRun' = [candRun EXCEPT ![r] =
       IF codeVersion = candRun[r].before /\ destination = NoResult
       THEN [@ EXCEPT !.stage = "rename"] ELSE Ended("failed")]
  /\ WorldKept /\ UNCHANGED destination

\* What the staging directory of r holds.
Document(r) ==
  [by |-> r, summary |-> SummaryPayload(10, candRun[r].spec, candRun[r].done),
   returns |-> ReturnsPayload(candRun[r].spec, candRun[r].done),
   provenance |-> candRun[r].before, dataset |-> candRun[r].inspected]

\* atomic_rename_directory; when the destination has appeared the staging directory
\* is removed and the error raised.
RenameCandidate(r) ==
  /\ CandidateAt(r, "rename")
  /\ IF destination = NoResult
     THEN /\ destination' = Document(r)
          /\ candRun' = [candRun EXCEPT ![r].stage = "published"]
     ELSE /\ candRun' = [candRun EXCEPT ![r] = Ended("failed")]
          /\ UNCHANGED destination
  /\ WorldKept

\* The process is killed; its staging directory stays behind under its own name.
KillCandidate(r) ==
  /\ candRun[r].stage \notin {"idle", "failed", "published", "dead"}
  /\ candidateDeaths < MaxCandidateDeaths
  /\ candidateDeaths' = candidateDeaths + 1
  /\ candRun' = [candRun EXCEPT ![r] = Ended("dead")]
  /\ UNCHANGED <<codeVersion, datasetVersion, destination, recorded>>

\* The installed package, or the Dataset at the Dataset root, is replaced.
ReplaceCode ==
  /\ codeVersion < MaxCodeVersion
  /\ codeVersion' = codeVersion + 1
  /\ UNCHANGED <<datasetVersion, candRun, destination, recorded, candidateDeaths>>

ReplaceDataset ==
  /\ datasetVersion + 1 \in DOMAIN DatasetAt
  /\ datasetVersion' = datasetVersion + 1
  /\ UNCHANGED <<codeVersion, candRun, destination, recorded, candidateDeaths>>

CandidateNext ==
  \/ ReplaceCode \/ ReplaceDataset
  \/ \E r \in CandidateRuns :
       \/ \E c \in CandidateConfigs : StartCandidate(r, c)
       \/ InspectDataset(r) \/ LoadDataset(r) \/ ResolveSpec(r)
       \/ ProvenanceBefore(r) \/ ExecuteCandidate(r) \/ SuiteRefuses(r)
       \/ ProvenanceAfter(r) \/ RenameCandidate(r) \/ KillCandidate(r)

CandidateSpec == CandidateInit /\ [][CandidateNext]_candidateVars

-----------------------------------------------------------------------------
CoversWindow(end, spec) == Len(end.series) = Expected(spec)

\* What a loaded document says of its replays is what the replays did.
TellsTheTruth(doc, spec, done) ==
  LET s == doc.summary
      Settled(end) == end.lots = 0 /\ end.orders = 0 /\ CoversWindow(end, spec) /\ ~end.stopped
  IN  /\ HasVerifiedFullCoverage(doc)
           => \A e \in {done.ppo, done.shared} \ {NoResult} : CoversWindow(e, spec)
      /\ s.schema >= 6 /\ s.entries[2].complete => Settled(done.ppo)
      /\ CarriesShared(s) => (s.shared.entry.complete => Settled(done.shared))

(* The candidate result is what one run did. The directory at the destination comes from      *)
(* one process, whose code was the same before and after its execution; nothing its fits      *)
(* read became available after the evaluation started; and it loads, unless a shared-cash     *)
(* replay stopped before the end of the window. Whatever loads, under any supported schema,   *)
(* claims full coverage or a complete settlement only of replays that had it                  *)
(* (candidate.py run_candidate_artifact, artifact.py _load_with_evidence).                    *)
CandidateResultIsTrue ==
  /\ destination # NoResult /\ recorded = NoResult =>
       LET run == candRun[destination.by] IN
       /\ run.stage = "published"
       /\ destination.provenance = run.before
       /\ \A i \in FitBars(run.spec) : Data(run.spec).available[i] <= Data(run.spec).at[run.spec.first]
       /\ ArtifactLoads(destination)
            <=> (run.done.shared # NoResult => CoversWindow(run.done.shared, run.spec))
       /\ ArtifactLoads(destination) => TellsTheTruth(destination, run.spec, run.done)
  /\ recorded # NoResult /\ ArtifactLoads(destination)
       => TellsTheTruth(destination, recorded.spec, recorded.done)
=============================================================================
