--------------------------- MODULE RepositoryTools ---------------------------
(***************************************************************************)
(* The tools that read the repository's GitHub state, and the two that       *)
(* delete branches from it (tools/branch_hygiene.py,                         *)
(* verified_merged_branch_prune.py, github_work_inventory.py,                *)
(* github_workflow_attempts.py, github_workflow_artifacts.py,                *)
(* github_workflow_ref_guard.py, github_coordination_registry_snapshot.py,   *)
(* github_coordination_registry_reader.py,                                   *)
(* github_coordination_issue_projection.py, github_lease_reconciliation.py,  *)
(* research_assurance_github.py, independent_research_review.py).            *)
(*                                                                          *)
(* Every call to GitHub is one step, so that the repository can move between *)
(* any two of them. A tool is a script of calls; a call that repeats an      *)
(* earlier one refuses a different answer. GitHub and the people who push,   *)
(* merge, review and run workflows are external.                             *)
(***************************************************************************)
EXTENDS Integers, Sequences, FiniteSets, FiniteSetsExt, SequencesExt

CONSTANTS Topics,        \* branches besides main and the retention branch
          ReservedTopics,\* those with a reserved prefix or an M1 source
          ToolKinds,     \* which tools run
          GraceTicks,    \* RETENTION_GRACE_SECONDS and _GRACE
          MaxDeletes, BatchSize,
          MaxHubEvents,  \* bound: what happens in the repository while a tool runs
          MaxTicks,      \* bound: the clock
          NoReport

ASSUME ToolsAssumption ==
  /\ ReservedTopics \subseteq Topics /\ MaxDeletes \in 1..100 /\ BatchSize \in 1..20
  /\ IsFiniteSet(Topics) /\ Topics \ ReservedTopics # {}
  /\ GraceTicks \in Nat /\ MaxHubEvents \in Nat /\ MaxTicks \in Nat

VARIABLES github,      \* the repository on GitHub
          tool,     \* the tool that runs, with everything it has read
          moments,  \* what the tool could have seen at one moment
          retired   \* the branches tools have deleted, each with its circumstances

toolVars == <<github, tool, moments, retired>>

Absent == 0
NoPull == [state |-> "none", sha |-> Absent]
NeverRan == [attempt |-> 0, state |-> "none", sha |-> Absent]
Unreviewed == [sha |-> Absent, verdict |-> "none", by |-> "other", receipt |-> FALSE]

-----------------------------------------------------------------------------
(* What GitHub answers.                                                     *)

OpenHeads(h) == {<<b, h.pull[b].sha>> : b \in {t \in Topics : h.pull[t].state = "open"}}
Unfinished(h) == {b \in Topics : h.run[b].state = "running"}

\* GitHubApi.branches: tips and protection, with main, what it contains, the retention branch
\* and the branch of the coordination registry.
BranchList(h) == [tip |-> h.tip, protected |-> h.protected, main |-> h.main, history |-> h.history,
                  retention |-> h.retention, registry |-> h.registry.oid]

\* The jobs of one attempt of a run; a run that has ended may still show one at work.
JobsOf(run) == [attempt |-> run.attempt, done |-> run.state = "completed"]
JobAnswers(run, attempt) ==
  IF run.attempt > attempt THEN {[attempt |-> attempt, done |-> TRUE]}
                           ELSE {JobsOf(run), [attempt |-> attempt, done |-> FALSE]}

\* _require_merged_pr and _require_retention_record read one pull request and one record.
RecordsOf(h, b) == {r \in h.retained : r.name = b}

\* The review a packet names.
ReviewNamed(h) == IF h.reviews = <<>> THEN Unreviewed ELSE h.reviews[1]

\* _request_json and the readers on top of it.
HubAnswers(h, part, b, got) ==
  CASE part = "branches" -> {BranchList(h)}
    [] part = "pulls"    -> {OpenHeads(h)}
    [] part = "runs"     -> {Unfinished(h)}
    [] part = "merged"   -> {h.sources}
    [] part = "record"   -> {RecordsOf(h, b)}
    [] part = "issues"   -> {h.issue}
    [] part = "run"      -> {h.run[b]}
    [] part = "jobs"     -> JobAnswers(h.run[b], got.run.attempt)
    [] part = "uploads"  -> {h.uploads}
    [] part = "ref"      -> {h.registry}
    [] part = "pull"     -> {h.pull[b]}
    [] part = "review"   -> {ReviewNamed(h)}
    [] OTHER             -> {h.reviews}

\* What one moment shows to a reader of several parts.
MomentOf(h, b) ==
  [branches |-> BranchList(h), pulls |-> OpenHeads(h), issues |-> h.issue, runs |-> Unfinished(h),
   run |-> h.run[b], jobs |-> JobsOf(h.run[b]), uploads |-> h.uploads, ref |-> h.registry,
   pull |-> h.pull[b], review |-> ReviewNamed(h)]

-----------------------------------------------------------------------------
(* The scripts.                                                             *)

Ask(part) == [part |-> part, again |-> FALSE]
Again(part) == [part |-> part, again |-> TRUE]

Deleting == {"bulk", "prune", "hygiene"}

ReadRoster == <<Ask("branches"), Ask("pulls"), Ask("runs")>>

\* build_inventory with workflow refs: everything is read again, the workflow names twice,
\* and the branches once more after them.
InventoryScript ==
  <<Ask("branches"), Ask("pulls"), Ask("issues"), Again("pulls"), Again("issues"),
    Again("issues"), Again("branches"), Ask("runs"), Again("runs"), Again("branches")>>

\* observe_workflow_attempt.
AttemptScript == <<Ask("run"), Ask("jobs"), Again("run")>>

\* observe_workflow_artifacts.
ArtifactScript == <<Ask("run"), Ask("uploads"), Again("uploads"), Again("run")>>

\* observe_registry_snapshot: the object behind the pinned ref does not change.
RegistryScript == <<Ask("ref"), Again("ref")>>

\* observe_issue_projection: the issue and its comments, three and two times.
IssueScript == <<Ask("issues"), Again("issues"), Again("issues")>>

\* verify_github_review.
AssuranceScript == <<Ask("pull"), Ask("review"), Again("pull"), Again("review")>>

\* The evidence inspect_expired_lease_evidence is given: an inventory, a snapshot of the
\* registry, and the attempt and the artifacts of the same run.
LeaseScript ==
  InventoryScript \o RegistryScript \o AttemptScript
    \o <<Again("run"), Ask("uploads"), Again("uploads"), Again("run")>>

\* The observation of prune_verified_merged_branch.
ObserveScript == ReadRoster \o <<Ask("merged"), Ask("record")>>

ScriptOf(kind) ==
  CASE kind = "bulk"      -> ReadRoster \o <<Ask("merged")>>
    [] kind = "hygiene"   -> ReadRoster
    [] kind = "prune"     -> ObserveScript
    [] kind = "inventory" -> InventoryScript
    [] kind = "attempt"   -> AttemptScript
    [] kind = "artifact"  -> ArtifactScript
    [] kind = "registry"  -> RegistryScript
    [] kind = "issue"     -> IssueScript
    [] kind = "assurance" -> AssuranceScript
    [] kind = "lease"     -> LeaseScript
    [] OTHER              -> <<Ask("pull"), Ask("reviews")>>

-----------------------------------------------------------------------------
(* What the tools make of the answers.                                      *)

\* open_pull_request_branch_names.
OpenNames(got) == {p[1] : p \in got.pulls}

\* anchor_branch_names.
Anchors(got) ==
  {b \in {t \in Topics : got.branches.tip[t] # Absent} : b \in got.branches.protected \cup OpenNames(got) \cup got.runs}

\* anchor_shas and reachable_commits.
Reachable(h, got) ==
  got.branches.history
    \cup (UNION {h.reach[c] : c \in {got.branches.tip[b] : b \in Anchors(got)} \ {Absent}})
    \cup (UNION {h.reach[p[2]] : p \in got.pulls})

\* plan_cleanup: the report of the hygiene run, whose deletions are disabled.
CleanupDecision(got, records, reachable, now, b) ==
  LET seen == {r \in records : r.name = b /\ r.sha = got.branches.tip[b]} IN
  CASE b \in Anchors(got) -> "keep"
    [] b \notin Anchors(got) /\ seen = {} -> "archive-keep"
    [] b \notin Anchors(got) /\ seen # {} /\ \A r \in seen : now - r.at < GraceTicks -> "keep"
    [] OTHER -> IF got.branches.tip[b] \in reachable THEN "delete" ELSE "keep"

\* plan_merged_retirement: the exact source of a merged pull request, inside main's history,
\* that nothing else refers to.
Retirable(got) ==
  {b \in Topics :
     /\ got.branches.tip[b] # Absent
     /\ b \notin Anchors(got) \cup ReservedTopics
     /\ got.branches.tip[b] \in got.branches.history
     /\ <<b, got.branches.tip[b]>> \in got.merged}

\* _request_inputs, _observe and _require_merged_pr of the single prune.
Prunable(got, b, sha) ==
  /\ b \notin ReservedTopics
  /\ got.branches.tip[b] = sha /\ b \notin got.branches.protected
  /\ b \notin OpenNames(got) /\ b \notin got.runs
  /\ <<b, sha>> \in got.merged /\ sha \in got.branches.history

\* _require_retention_record: the record of exactly this tip, on the retention branch that
\* was read and past its grace.
RecordHolds(got, b, sha, now) ==
  \E r \in got.record : /\ r.name = b /\ r.sha = sha /\ r.tip <= got.branches.retention
                        /\ now - r.at >= GraceTicks

\* The comments of an issue that carry a Task status.
StatusComments(issue) == {i \in DOMAIN issue : issue[i].text # "note"}

\* stable_workflow_branch_refs: no unfinished run without its branch.
WorkflowRefsHold(got) == \A b \in got.runs : got.branches.tip[b] # Absent

\* build_inventory: every open head at the tip of its branch, every Task status readable and
\* none of a Task twice.
InventoryHolds(got) ==
  /\ WorkflowRefsHold(got)
  /\ \A p \in got.pulls : got.branches.tip[p[1]] = p[2]
  /\ \A i \in StatusComments(got.issues) : got.issues[i].text # "malformed"
  /\ Cardinality(StatusComments(got.issues)) <= 1

\* _run_identity: there is a run to observe.
RunExists(got) == got.run.attempt > 0

\* The end of observe_workflow_attempt: all jobs done when the run is.
AttemptHolds(got) == RunExists(got) /\ (got.run.state = "completed" => got.jobs.done)

\* _run, _artifact and _scan_artifacts: a complete listing of the artifacts of one run.
ArtifactHolds(got) == RunExists(got)

\* read_registry_bytes: the commit holds one canonical registry of this repository.
RegistryHolds(got) == got.ref.readable

\* observe_issue_projection: one status comment of the Task, as enrolled and by its publisher.
IssueHolds(got) ==
  /\ \A i \in StatusComments(got.issues) : got.issues[i].text \notin {"malformed", "stale"}
  /\ Cardinality(StatusComments(got.issues)) = 1
  /\ \A i \in StatusComments(got.issues) : got.issues[i].text = "status"

\* inspect_expired_lease_evidence: the registry and the inventory agree with the lease.
LeaseRosterHolds(lease, got, now) ==
  /\ now >= lease.expires
  /\ got.ref.holder = lease.branch /\ got.ref.head = lease.head
  /\ got.branches.main = lease.base /\ got.branches.tip[lease.branch] = lease.head
  /\ got.branches.registry = got.ref.oid

\* Its second half: the attempts and the artifacts, when there are any, are of the lease.
LeaseRunsHold(lease, got) ==
  RunExists(got) =>
    /\ got.run.sha = lease.head
    /\ got.run.state = "running" => lease.branch \in got.runs

\* _pr_snapshot and verify_github_review: a review of the head of the open pull request by
\* somebody else.
AssuranceHolds(got, sha) ==
  /\ got.pull.state = "open" /\ got.pull.sha = sha
  /\ got.review.sha = sha /\ got.review.verdict = "approved" /\ got.review.by # "author"

\* resolve_review_outcome: a blocking review of the head blocks until it is dismissed;
\* otherwise the last review of one reviewer must carry a receipt.
ReviewOutcome(got, sha) ==
  LET ofHead == {i \in DOMAIN got.reviews : got.reviews[i].sha = sha}
      latest == {i \in ofHead : \A j \in ofHead : got.reviews[j].by = got.reviews[i].by => j <= i}
  IN
  IF got.pull.sha # sha THEN "pending"
  ELSE IF \E i \in ofHead : got.reviews[i].verdict = "blocked" THEN "blocked"
  ELSE IF \E i \in latest : got.reviews[i].verdict = "approved" /\ got.reviews[i].receipt
       THEN "approved" ELSE "pending"

-----------------------------------------------------------------------------
(* The repository moves.                                                    *)

Subject == CHOOSE b \in Topics \ ReservedTopics : TRUE

\* Merged sources that are still there, with their retention records; a review is of an open
\* pull request.
HubStart(kind) ==
  [tip |-> [b \in Topics |-> 1], protected |-> {}, main |-> 1, retention |-> 1, history |-> {1},
   reach |-> <<{1}>>,
   pull |-> [b \in Topics |-> [state |-> IF kind \in {"assurance", "source"} THEN "open" ELSE "merged",
                               sha |-> 1]],
   sources |-> {<<b, 1>> : b \in Topics},
   retained |-> {[name |-> b, sha |-> 1, at |-> 0, tip |-> 1] : b \in Topics},
   run |-> [b \in Topics |-> NeverRan], uploads |-> 0, issue |-> <<[text |-> "status", updated |-> 0]>>,
   registry |-> [oid |-> 1, holder |-> Subject, head |-> 1, readable |-> TRUE],
   reviews |-> <<>>, clock |-> 0, events |-> 0]

Moved(h) == [h EXCEPT !.events = @ + 1]

\* A new commit on the branch, or on main when the branch is gone: an open pull request
\* follows its branch.
Push(b) ==
  LET commit == Len(github.reach) + 1
      base == IF github.tip[b] = Absent THEN github.history ELSE github.reach[github.tip[b]]
  IN  Moved([github EXCEPT !.reach = Append(@, base \cup {commit}), !.tip[b] = commit,
                        !.pull[b] = IF @.state = "open" THEN [@ EXCEPT !.sha = commit] ELSE @])
OpenPull(b) == Moved([github EXCEPT !.pull[b] = [state |-> "open", sha |-> github.tip[b]]])
ClosePull(b) == Moved([github EXCEPT !.pull[b].state = "closed"])
\* A squash leaves the source outside main's history.
MergePull(b, squash) ==
  Moved([github EXCEPT !.pull[b].state = "merged", !.main = @ + 1,
                    !.sources = @ \cup {<<b, github.pull[b].sha>>},
                    !.history = IF squash THEN @ ELSE @ \cup github.reach[github.pull[b].sha]])
Protect(b) == Moved([github EXCEPT !.protected = @ \cup {b}])
StartRun(b) ==
  Moved([github EXCEPT !.run[b] = [attempt |-> @.attempt + 1, state |-> "running", sha |-> github.tip[b]]])
FinishRun(b) == Moved([github EXCEPT !.run[b].state = "completed"])
UploadArtifact == Moved([github EXCEPT !.uploads = @ + 1])
\* A comment carries when it was updated, so that an edit shows even if it is taken back.
Written(c) == [text |-> c, updated |-> github.events + 1]
Comment(c) == Moved([github EXCEPT !.issue = Append(@, Written(c))])
EditComment(i, c) == Moved([github EXCEPT !.issue[i] = Written(c)])
MoveRegistry(b, readable) ==
  Moved([github EXCEPT !.registry = [oid |-> @.oid + 1, holder |-> b, head |-> github.tip[b], readable |-> readable]])
Retain(b) ==
  Moved([github EXCEPT !.retention = @ + 1,
                    !.retained = @ \cup {[name |-> b, sha |-> github.tip[b], at |-> github.clock,
                                          tip |-> github.retention + 1]}])
Submit(b, verdict, by, receipt) ==
  Moved([github EXCEPT !.reviews = Append(@, [sha |-> github.pull[b].sha, verdict |-> verdict, by |-> by,
                                           receipt |-> receipt])])
DismissReview(i) == Moved([github EXCEPT !.reviews[i].verdict = "dismissed"])
ClockTick == [github EXCEPT !.clock = @ + 1]

\* What can happen, as far as the tool that runs can see it; the rest leaves its answers alone.
Sees(kind) ==
  CASE kind \in Deleting -> {"push", "pull", "protect", "run", "retain", "tick"}
    [] kind = "inventory" -> {"push", "pull", "run", "comment"}
    [] kind \in {"attempt", "artifact"} -> {"run", "upload"}
    [] kind = "registry" -> {"registry"}
    [] kind = "issue" -> {"comment"}
    [] kind = "lease" -> {"push", "run", "registry", "tick"}
    [] OTHER -> {"push", "pull", "review"}

Comments == {"note", "status", "stale", "malformed", "foreign"}

Events(h, kind) ==
  LET when(name, set) == IF name \in Sees(kind) THEN set ELSE {}
      live == {b \in Topics : h.tip[b] # Absent}
      open == {b \in Topics : h.pull[b].state = "open"}
      running == Unfinished(h)
  IN  when("push", {Push(b) : b \in Topics})
      \cup when("pull", {OpenPull(b) : b \in live \ open} \cup {ClosePull(b) : b \in open}
                          \cup {MergePull(b, squash) : b \in open, squash \in BOOLEAN})
      \cup when("protect", {Protect(b) : b \in live})
      \cup when("run", {StartRun(b) : b \in live \ running} \cup {FinishRun(b) : b \in running})
      \cup when("upload", {UploadArtifact}) \cup when("comment", {Comment(c) : c \in Comments}
                             \cup {EditComment(i, c) : i \in DOMAIN h.issue, c \in Comments})
      \cup when("registry", {MoveRegistry(b, readable) : b \in live, readable \in BOOLEAN})
      \cup when("retain", {Retain(b) : b \in {t \in live : <<t, h.tip[t]>> \in h.sources}})
      \cup when("review", {Submit(b, v, by, ok) : b \in open, v \in {"approved", "blocked"},
                             by \in {"author", "other"}, ok \in BOOLEAN}
                            \cup {DismissReview(i) : i \in DOMAIN h.reviews})

Watching == tool.outcome = "running"
InUse == tool.outcome \in {"idle", "running"}
Remember(h) == moments' = IF Watching /\ tool.kind \notin Deleting THEN moments \cup {MomentOf(h, tool.branch)} ELSE moments

HubMoves(h) ==
  /\ InUse /\ github.events < MaxHubEvents /\ h \in Events(github, tool.kind)
  /\ github' = h /\ Remember(h)
  /\ UNCHANGED <<tool, retired>>

TimePasses ==
  /\ InUse /\ "tick" \in Sees(tool.kind) /\ github.clock < MaxTicks
  /\ github' = ClockTick /\ UNCHANGED <<tool, moments, retired>>

-----------------------------------------------------------------------------
(* The tools run.                                                           *)

NoGot == [branches |-> BranchList(HubStart("bulk")), pulls |-> {}, runs |-> {}, merged |-> {}, record |-> {},
          issues |-> <<>>, run |-> NeverRan, jobs |-> JobsOf(NeverRan), uploads |-> 0,
          ref |-> HubStart("bulk").registry, pull |-> NoPull, review |-> Unreviewed, reviews |-> <<>>]

\* A lease of the branch as it stands, that expires at the next tick.
LeaseOf(h, b) == [branch |-> b, head |-> h.tip[b], base |-> h.main, expires |-> 1]

ToolInit ==
  /\ moments = {} /\ retired = {}
  /\ \E kind \in ToolKinds : \E b \in IF kind = "prune" THEN Topics ELSE {Subject} :
       /\ github = HubStart(kind)
       /\ tool = [kind |-> kind, branch |-> b, sha |-> Absent, script |-> ScriptOf(kind), got |-> NoGot,
                  phase |-> "read", first |-> NoReport, queue |-> {}, batch |-> {}, deleted |-> {},
                  outcome |-> "idle", now |-> 0, lease |-> LeaseOf(HubStart(kind), b)]

\* The command line: the branch to prune or review is named with its tip. The clock of the
\* prune and of the lease is read here.
StartTool ==
  /\ tool.outcome = "idle"
  /\ tool' = [tool EXCEPT !.outcome = "running", !.sha = github.tip[tool.branch], !.now = github.clock]
  /\ moments' = {MomentOf(github, tool.branch)}
  /\ UNCHANGED <<github, retired>>

\* The tool raises: what it had read is gone with it, what it has deleted is not.
ToolRefuses ==
  /\ tool' = [tool EXCEPT !.outcome = "refused", !.got = NoGot, !.script = <<>>]
  /\ moments' = {} /\ UNCHANGED <<github, retired>>

\* One call; a repeated one must be answered as before.
CallGitHub(value) ==
  LET call == Head(tool.script) IN
  /\ Watching /\ tool.script # <<>>
  /\ value \in HubAnswers(github, call.part, tool.branch, tool.got)
  /\ ~(call.again /\ value # tool.got[call.part])
  /\ tool' = [tool EXCEPT !.script = Tail(@), !.got[call.part] = value]
  /\ UNCHANGED <<github, moments, retired>>

CallDisagrees ==
  LET call == Head(tool.script) IN
  /\ Watching /\ tool.script # <<>> /\ call.again
  /\ \E value \in HubAnswers(github, call.part, tool.branch, tool.got) : value # tool.got[call.part]
  /\ ToolRefuses

\* An HTTP error, a timeout or a malformed answer.
CallFails == Watching /\ tool.script # <<>> /\ ToolRefuses

ReadDone(kinds, phase) == Watching /\ tool.script = <<>> /\ tool.kind \in kinds /\ tool.phase = phase

\* The tools that only report.
ReportHolds(got) ==
  CASE tool.kind = "inventory" -> InventoryHolds(got)
    [] tool.kind = "attempt"   -> AttemptHolds(got)
    [] tool.kind = "artifact"  -> ArtifactHolds(got)
    [] tool.kind = "registry"  -> RegistryHolds(got)
    [] tool.kind = "issue"     -> IssueHolds(got)
    [] tool.kind = "lease"     -> /\ InventoryHolds(got) /\ (RunExists(got) => AttemptHolds(got)) /\ RegistryHolds(got)
                                  /\ LeaseRosterHolds(tool.lease, got, tool.now)
                                  /\ LeaseRunsHold(tool.lease, got)
    [] tool.kind = "assurance" -> AssuranceHolds(got, tool.sha)
    [] tool.kind = "source"    -> ReviewOutcome(got, tool.sha) = "approved"
    [] OTHER                   -> TRUE

Report ==
  /\ ReadDone(ToolKinds \ {"bulk", "prune"}, "read") /\ ReportHolds(tool.got)
  /\ tool' = [tool EXCEPT !.outcome = "reported",
                !.queue = IF tool.kind # "hygiene" THEN {}
                          ELSE {b \in Topics : /\ tool.got.branches.tip[b] # Absent
                                               /\ CleanupDecision(tool.got, github.retained,
                                                    Reachable(github, tool.got), github.clock, b) = "delete"}]
  /\ UNCHANGED <<github, moments, retired>>

ReportRefused ==
  ReadDone(ToolKinds \ {"bulk", "prune"}, "read") /\ ~ReportHolds(tool.got) /\ ToolRefuses

\* main of --retire-merged, when the main of the checkout is the one GitHub showed: the plan
\* is reported, or apply_merged_retirement starts to check it.
PlanRetirement(queue, apply) ==
  /\ ReadDone({"bulk"}, "read")
  /\ queue \in kSubset(Min({MaxDeletes, Cardinality(Retirable(tool.got))}), Retirable(tool.got))
  /\ tool' = [tool EXCEPT !.queue = queue, !.phase = "check",
                          !.script = <<Ask("merged"), Again("branches"), Ask("pulls"), Ask("runs")>>,
                          !.outcome = IF apply /\ queue # {} THEN @ ELSE "done"]
  /\ UNCHANGED <<github, moments, retired>>

\* The checkout has another main.
StaleMain == ReadDone({"bulk"}, "read") /\ ToolRefuses

\* require_retirement_origin and require_origin_checkout: the checkout is of another repository.
WrongOrigin == ReadDone({"bulk"}, "read") /\ Retirable(tool.got) # {} /\ ToolRefuses
WrongCheckout == Watching /\ tool.kind = "prune" /\ tool.first # NoReport /\ tool.phase = "read"
                   /\ tool.script = ObserveScript /\ ToolRefuses

\* The next branches of the queue, whose order the names decide.
Batches == kSubset(Min({BatchSize, Cardinality(tool.queue)}), tool.queue)

\* A branch of the batch is no longer eligible.
BatchChanged(names) ==
  /\ ReadDone({"bulk"}, "check") /\ names \in Batches /\ ~names \subseteq Retirable(tool.got)
  /\ ToolRefuses

\* Mutation: the push deletes whatever the branches point to now.
LeasesHoldAnyTip(names, tips) == \A b \in names : b \notin github.protected

\* --force-with-lease of an atomic push: every branch still at the tip that was read.
LeasesHold(names, tips) == \A b \in names : github.tip[b] = tips[b] /\ b \notin github.protected

Circumstances(b) ==
  [name |-> b, sha |-> github.tip[b], merged |-> <<b, github.tip[b]>> \in github.sources,
   inMain |-> github.tip[b] \in github.history, by |-> tool.kind, at |-> github.clock,
   kept |-> \E r \in github.retained : r.name = b /\ r.sha = github.tip[b] /\ github.clock - r.at >= GraceTicks]

\* delete_branches_with_leases; GitHub closes what was open on the branches. The answer of
\* a push that went through may be lost.
DeleteBranches(names, answered) ==
  /\ LeasesHold(names, tool.got.branches.tip)
  /\ github' = [github EXCEPT !.tip = [b \in Topics |-> IF b \in names THEN Absent ELSE @[b]],
                        !.pull = [b \in Topics |-> IF b \in names /\ @[b].state = "open"
                                                   THEN [@[b] EXCEPT !.state = "closed"] ELSE @[b]]]
  /\ retired' = retired \cup {Circumstances(b) : b \in names}
  /\ UNCHANGED moments
  /\ tool' = IF answered
             THEN [tool EXCEPT !.phase = "after", !.batch = names,
                               !.got.branches.tip = [b \in Topics |-> IF b \in names THEN Absent ELSE @[b]],
                               !.script = IF tool.kind = "bulk" THEN <<Again("branches")>>
                                                                ELSE <<Ask("branches")>>]
             ELSE [tool EXCEPT !.outcome = "refused"]

\* apply_merged_retirement: a batch, then the readback, then the next one.
DeleteBatch(names, answered) ==
  /\ ReadDone({"bulk"}, "check") /\ names \in Batches /\ names \subseteq Retirable(tool.got)
  /\ DeleteBranches(names, answered)

BatchDone ==
  /\ ReadDone({"bulk"}, "after")
  /\ LET rest == tool.queue \ tool.batch IN
     tool' = [tool EXCEPT !.deleted = @ \cup tool.batch, !.queue = rest, !.phase = "check",
                          !.script = <<Again("branches"), Ask("pulls"), Ask("runs")>>,
                          !.outcome = IF rest = {} THEN "done" ELSE @]
  /\ UNCHANGED <<github, moments, retired>>

\* What two observations of prune_verified_merged_branch must agree on.
AnchorsRead == [main |-> tool.got.branches.main, retention |-> tool.got.branches.retention]

PruneEligible ==
  /\ Prunable(tool.got, tool.branch, tool.sha)
  /\ RecordHolds(tool.got, tool.branch, tool.sha, tool.now)

\* prune_verified_merged_branch: a preview ends with the first observation; otherwise there
\* is a second one.
PruneObserved(apply) ==
  /\ ReadDone({"prune"}, "read") /\ tool.first = NoReport /\ PruneEligible
  /\ tool' = [tool EXCEPT !.first = AnchorsRead, !.script = ObserveScript,
                          !.outcome = IF apply THEN @ ELSE "done"]
  /\ UNCHANGED <<github, moments, retired>>

PruneConfirmed ==
  /\ ReadDone({"prune"}, "read") /\ tool.first = AnchorsRead /\ PruneEligible
  /\ tool' = [tool EXCEPT !.phase = "delete"]
  /\ UNCHANGED <<github, moments, retired>>

PruneRefused ==
  /\ ReadDone({"prune"}, "read")
  /\ ~(PruneEligible /\ tool.first \in {NoReport, AnchorsRead})
  /\ ToolRefuses

PruneDelete(answered) == ReadDone({"prune"}, "delete") /\ DeleteBranches({tool.branch}, answered)

PruneDone ==
  LET gone == tool.got.branches.tip[tool.branch] = Absent /\ AnchorsRead = tool.first IN
  /\ ReadDone({"prune"}, "after")
  /\ tool' = [tool EXCEPT !.outcome = IF gone THEN "done" ELSE "refused",
                          !.deleted = IF gone THEN {tool.branch} ELSE {}]
  /\ UNCHANGED <<github, moments, retired>>

\* The push is rejected: a lease is stale.
DeleteRejected(names) ==
  /\ \/ ReadDone({"prune"}, "delete") /\ names = {tool.branch}
     \/ ReadDone({"bulk"}, "check") /\ names \in Batches /\ names \subseteq Retirable(tool.got)
  /\ ~LeasesHold(names, tool.got.branches.tip)
  /\ ToolRefuses

ToolNext ==
  \/ InUse /\ github.events < MaxHubEvents /\ \E h \in Events(github, tool.kind) : HubMoves(h)
  \/ TimePasses
  \/ StartTool \/ CallDisagrees \/ CallFails \/ Report \/ ReportRefused
  \/ tool.script # <<>> /\ \E value \in HubAnswers(github, Head(tool.script).part, tool.branch, tool.got) :
                              CallGitHub(value)
  \/ \E queue \in SUBSET Topics, apply \in BOOLEAN : PlanRetirement(queue, apply)
  \/ StaleMain \/ WrongOrigin \/ WrongCheckout
  \/ \E names \in SUBSET Topics : BatchChanged(names) \/ DeleteRejected(names)
  \/ \E names \in SUBSET Topics, answered \in BOOLEAN : DeleteBatch(names, answered)
  \/ BatchDone
  \/ \E apply \in BOOLEAN : PruneObserved(apply)
  \/ PruneConfirmed \/ PruneRefused
  \/ \E answered \in BOOLEAN : PruneDelete(answered)
  \/ PruneDone

ToolSpec == ToolInit /\ [][ToolNext]_toolVars

-----------------------------------------------------------------------------
\* What the report of a tool claims to have seen together.
Together(kind) ==
  CASE kind = "inventory" -> {{"branches", "pulls", "issues"}, {"branches", "runs"}}
    [] kind = "attempt"   -> {{"run", "jobs"}}
    [] kind = "artifact"  -> {{"run", "uploads"}}
    [] kind = "lease"     -> {{"branches", "pulls", "issues"}, {"branches", "runs"}, {"run", "uploads"}}
    [] kind = "assurance" -> {{"pull", "review"}}
    [] kind = "registry"  -> {{"ref"}}
    [] OTHER              -> {}

(* A branch is deleted only as the exact source of a merged pull request, with its tip in    *)
(* main's history and outside the reserved names, a single prune only after the tip was       *)
(* retained for the grace, and at most max_deletes of them; a tool names no branch as deleted *)
(* that it did not delete. What a reading tool reports was true at one moment while it looked *)
(* (branch_hygiene.py apply_merged_retirement, verified_merged_branch_prune.py               *)
(* prune_verified_merged_branch, github_work_inventory.py build_inventory and the observers). *)
RepositoryToolsAreExact ==
  /\ \A r \in retired : /\ r.merged /\ r.inMain /\ r.name \notin ReservedTopics
                        /\ r.by = "prune" => r.kept
  /\ Cardinality(retired) <= MaxDeletes
  /\ tool.deleted \subseteq {r.name : r \in retired}
  /\ tool.outcome = "reported" =>
       \A parts \in Together(tool.kind) :
         \E m \in moments : \A part \in parts : m[part] = tool.got[part]
=============================================================================
