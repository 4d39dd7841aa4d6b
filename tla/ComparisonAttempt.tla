-------------------------- MODULE ComparisonAttempt --------------------------
(***************************************************************************)
(* The one-shot comparison attempts of evaluation/runs: a directory is       *)
(* reserved, a started record and the provenance before the comparison are   *)
(* journalled, the arms are replayed in a fixed order, the provenance after  *)
(* it is compared, the result is published and reloaded, the completion      *)
(* record is written; every exception leaves a failure record instead.       *)
(*                                                                          *)
(*   family    portfolio_family_attempt.py                                   *)
(*   scenario  portfolio_family_scenario_attempt_v2.py                       *)
(*   ridge     ridge_comparison_attempt.py                                   *)
(*   synthetic synthetic_value_attempt.py                                    *)
(*   costaware synthetic_value_costaware_attempt.py (its nested three-arm    *)
(*             attempt counts as its first arms)                             *)
(*                                                                          *)
(* The implementation, the runtime and the Dataset are one version that the  *)
(* surroundings may change at any time; a change is never undone. A record   *)
(* is published by a directory rename: it may fail with nothing written, or  *)
(* fail after the record landed (the directory fsync).                       *)
(***************************************************************************)
EXTENDS Naturals, Sequences, FiniteSets

CONSTANTS Kinds,      \* the kinds of attempt explored
          Callers,    \* processes that run the attempt on the same root
          ArmCount,   \* arms of the fixed roster
          MaxVersion, \* bound: changes of the source
          MaxSlips    \* bound: failed writes, raised steps and crashes

Nobody  == "nobody"

ASSUME AttemptsAssumption ==
  /\ Kinds \subseteq {"family", "scenario", "ridge", "synthetic", "costaware"}
  /\ Kinds # {} /\ ArmCount \in Nat \ {0} /\ {MaxVersion, MaxSlips} \subseteq Nat
  /\ Nobody \notin Callers

Records == {"started", "before", "after", "result", "complete", "partial", "failure"}

VARIABLES
  attemptKind, \* which of the runners this root is given to
  version,     \* what the provenance and the source fingerprint see
  rootOwner,   \* the caller whose mkdir created the root
  tree,        \* record |-> who wrote it
  rows,        \* durable arm rows, in roster order: who wrote each
  published,   \* the versions the arms of the published result ran under
  litter,      \* a staging directory was left behind
  caller,      \* local state of each caller
  slips        \* failed writes, raised steps and crashes so far

comparisonVars ==
  <<attemptKind, version, rootOwner, tree, rows, published, litter, caller, slips>>

Pinned     == {"family", "scenario"}               \* digests fixed in the identity
Fingerprinted == {"synthetic", "costaware"}        \* taken in _preflight
Reloaded   == {"family", "scenario", "costaware"}  \* strict attempt reload at the end

Fresh == [stage |-> "idle", ran |-> 0, saw |-> {}, kept |-> 0, first |-> 0, told |-> 0]

ComparisonInit ==
  /\ attemptKind \in Kinds
  /\ version = 0
  /\ rootOwner = Nobody
  /\ tree = [r \in Records |-> Nobody]
  /\ rows = <<>>
  /\ published = {}
  /\ litter = FALSE
  /\ caller = [c \in Callers |-> Fresh]
  /\ slips = 0

On(c, stage)    == caller[c].stage = stage
Proceed(c, stage) == caller' = [caller EXCEPT ![c].stage = stage]
Absent          == rootOwner = Nobody
Written(record) == tree[record] # Nobody

-----------------------------------------------------------------------------
(* The strict loaders.                                                      *)

\* The result loader: the manifest, every arm row and the records it is checked
\* against (load_four_family_portfolio_result_artifact and its siblings).
ResultLoads ==
  /\ Written("result") /\ Written("started")
  /\ attemptKind # "ridge" => Len(rows) = ArmCount
  /\ attemptKind \in Pinned => Written("before") /\ Written("after")

\* load_*_attempt: no failure record, a completion record for this result, and for
\* the family attempts nothing else in the tree. A ridge attempt has no loader of
\* its own: its result directory is read by digest.
Loadable ==
  /\ ResultLoads
  /\ attemptKind # "ridge" => Written("complete") /\ ~Written("failure")
  /\ attemptKind \in Pinned => ~litter

-----------------------------------------------------------------------------
(* Reservation.                                                             *)

\* root.exists() or is_symlink(), and for the synthetic runners _preflight, which
\* fingerprints the Dataset before the root is looked at.
CheckRoot(c) ==
  /\ On(c, "idle") /\ Absent
  /\ caller' = [caller EXCEPT ![c].stage = "absent", ![c].first = version]
  /\ UNCHANGED <<attemptKind, version, rootOwner, tree, rows, published, litter, slips>>

\* root.mkdir(): exclusive.
Reserve(c) ==
  /\ On(c, "absent") /\ Absent
  /\ rootOwner' = c
  /\ Proceed(c, "started")
  /\ UNCHANGED <<attemptKind, version, tree, rows, published, litter, slips>>

\* Mutation: the reservation is inside the guarded block.
LoseRootGuarded(c) ==
  /\ caller[c].stage \in {"idle", "absent"} /\ ~Absent
  /\ Proceed(c, "failing")
  /\ UNCHANGED <<attemptKind, version, rootOwner, tree, rows, published, litter, slips>>

\* FileExistsError from the check or from mkdir, outside the guarded block: the root
\* is left alone.
LoseRoot(c) ==
  /\ caller[c].stage \in {"idle", "absent"} /\ ~Absent
  /\ Proceed(c, "refused")
  /\ UNCHANGED <<attemptKind, version, rootOwner, tree, rows, published, litter, slips>>

-----------------------------------------------------------------------------
(* The journalled steps.                                                    *)

\* _publish_record of a record that is not there yet.
PublishRecord(c, record) == ~Written(record) /\ tree' = [tree EXCEPT ![record] = c]

Untouched == UNCHANGED <<attemptKind, version, rootOwner, rows, published, litter, slips>>

\* The started record.
WriteStarted(c) ==
  /\ On(c, "started")
  /\ PublishRecord(c, "started")
  /\ Proceed(c, IF attemptKind \in Fingerprinted THEN "arm" ELSE "before")
  /\ Untouched

\* build_candidate_run_provenance before the comparison; the family runners refuse
\* another version than the pinned one.
WriteBefore(c) ==
  /\ On(c, "before")
  /\ attemptKind \in Pinned => version = 0
  /\ PublishRecord(c, "before")
  /\ caller' = [caller EXCEPT ![c].stage = "replay", ![c].first = version]
  /\ Untouched

\* The synthetic runners compare the Dataset fingerprint before each arm.
CheckArm(c) ==
  /\ On(c, "arm") /\ version = caller[c].first
  /\ Proceed(c, "replay")
  /\ Untouched /\ UNCHANGED tree

\* One arm of the comparison is replayed.
ReplayArm(c) ==
  /\ On(c, "replay")
  /\ caller' = [caller EXCEPT
       ![c].ran = @ + 1, ![c].saw = @ \cup {version},
       ![c].stage = IF attemptKind = "ridge"
                      THEN (IF caller[c].ran + 1 = ArmCount THEN "after" ELSE "replay")
                      ELSE "row"]
  /\ Untouched /\ UNCHANGED tree

AfterRow(c) ==
  IF caller[c].ran = ArmCount THEN "after"
  ELSE IF attemptKind \in Fingerprinted THEN "arm" ELSE "replay"

\* Mutation: the arm counts as completed before its row is published.
CountedEarly(c) == caller[c].ran

\* completed_families: the arms whose row has been published.
Completed(c) == caller[c].kept

\* persist_completed / _write_record: the row is durable before the next arm starts.
\* The scenario runner first compares its source again.
WriteRow(c) ==
  /\ On(c, "row")
  /\ attemptKind = "scenario" => version = caller[c].first
  /\ rows' = Append(rows, c)
  /\ caller' = [caller EXCEPT ![c].kept = @ + 1, ![c].stage = AfterRow(c)]
  /\ UNCHANGED <<attemptKind, version, rootOwner, tree, published, litter, slips>>

\* Mutation: the provenance after the comparison is journalled and not compared.
AfterAgreesAnyway(c) == TRUE

\* The provenance (or the fingerprint) after the comparison equals the first one;
\* the family runners hold it against the pinned identity as well.
AfterAgrees(c) == version = caller[c].first

\* The after record, and the comparison with the first.
WriteAfter(c) ==
  /\ On(c, "after") /\ AfterAgrees(c)
  /\ IF attemptKind \in Fingerprinted THEN UNCHANGED tree ELSE PublishRecord(c, "after")
  /\ Proceed(c, "publish")
  /\ Untouched

\* publish_*_artifact, or the synthetic result record.
WriteResult(c) ==
  /\ On(c, "publish")
  /\ PublishRecord(c, "result")
  /\ published' = caller[c].saw
  /\ Proceed(c, "reload")
  /\ UNCHANGED <<attemptKind, version, rootOwner, rows, litter, slips>>

\* The strict reload of the result.
ReloadResult(c) ==
  /\ On(c, "reload") /\ ResultLoads
  /\ Proceed(c, "complete")
  /\ Untouched /\ UNCHANGED tree

\* The completion record; some runners then load the whole attempt.
WriteComplete(c) ==
  /\ On(c, "complete")
  /\ PublishRecord(c, "complete")
  /\ Proceed(c, IF attemptKind \in Reloaded THEN "verify" ELSE "returned")
  /\ Untouched

\* The strict reload of the attempt, and the return.
ReloadAttempt(c) ==
  /\ On(c, "verify") /\ Loadable
  /\ Proceed(c, "returned")
  /\ Untouched /\ UNCHANGED tree

-----------------------------------------------------------------------------
(* Failure.                                                                 *)

Guarded == {"started", "before", "arm", "replay", "row", "after", "publish", "reload",
            "complete", "verify"}

\* A check of the step raises: the version is not the one it must be.
RefuseVersion(c) ==
  /\ \/ On(c, "before") /\ attemptKind \in Pinned /\ version # 0
     \/ On(c, "arm") /\ version # caller[c].first
     \/ On(c, "row") /\ attemptKind = "scenario" /\ version # caller[c].first
     \/ On(c, "after") /\ ~AfterAgrees(c)
  /\ caller' = [caller EXCEPT ![c].stage = "failing", ![c].told = Completed(c)]
  /\ Untouched /\ UNCHANGED tree

Slip == slips < MaxSlips /\ slips' = slips + 1

\* Any guarded step raises with nothing written: a validation, a write, an interrupt.
RaiseStep(c) ==
  /\ caller[c].stage \in Guarded /\ Slip
  /\ caller' = [caller EXCEPT ![c].stage = "failing", ![c].told = Completed(c)]
  /\ UNCHANGED <<attemptKind, version, rootOwner, tree, rows, published, litter>>

\* The record a step publishes, if it publishes one.
RecordOf(stage) ==
  CASE stage = "started" -> {"started"} [] stage = "before" -> {"before"}
    [] stage = "after" /\ attemptKind \notin Fingerprinted -> {"after"}
    [] stage = "publish" -> {"result"}  [] stage = "complete" -> {"complete"}
    [] OTHER -> {}

\* atomic_rename_directory raises after the rename (its fsync): the record is there,
\* the runner goes to its failure handler.
RaiseAfterLanding(c) ==
  /\ Slip
  /\ \/ /\ \E record \in RecordOf(caller[c].stage) : PublishRecord(c, record)
        /\ published' = IF On(c, "publish") THEN caller[c].saw ELSE published
        /\ UNCHANGED rows
     \/ /\ On(c, "row") /\ rows' = Append(rows, c)
        /\ UNCHANGED <<tree, published>>
  /\ caller' = [caller EXCEPT ![c].stage = "failing", ![c].told = Completed(c)]
  /\ UNCHANGED <<attemptKind, version, rootOwner, litter>>

\* Mutation: once the completion record exists no failure is recorded.
JournalFailureUnlessComplete(c) ==
  /\ On(c, "failing")
  /\ tree' = IF Written("complete") THEN tree ELSE [tree EXCEPT !["failure"] = c]
  /\ Proceed(c, "raised")
  /\ Untouched

\* The failure handler: a ridge attempt that holds a comparison first saves its
\* partial ledger, then the failure record is published and the error re-raised.
JournalFailure(c) ==
  /\ On(c, "failing")
  /\ tree' = [r \in Records |->
       IF r = "failure" \/ (r = "partial" /\ attemptKind = "ridge" /\ caller[c].ran = ArmCount)
       THEN c ELSE tree[r]]
  /\ Proceed(c, "raised")
  /\ Untouched

\* The failure record cannot be written either: the error carries a note.
JournalFailureFails(c) ==
  /\ On(c, "failing") /\ Slip
  /\ Proceed(c, "unrecorded")
  /\ UNCHANGED <<attemptKind, version, rootOwner, tree, rows, published, litter>>

\* The process dies, possibly inside a record's staging directory.
KillCaller(c) ==
  /\ caller[c].stage \in Guarded \cup {"absent", "failing"} /\ Slip
  /\ litter' \in {litter, litter \/ caller[c].stage \notin {"absent"}}
  /\ Proceed(c, "dead")
  /\ UNCHANGED <<attemptKind, version, rootOwner, tree, rows, published>>

\* The code, the runtime or the Dataset under the attempt changes.
Drift ==
  /\ version < MaxVersion
  /\ version' = version + 1
  /\ UNCHANGED <<attemptKind, rootOwner, tree, rows, published, litter, caller, slips>>

ComparisonNext ==
  \/ Drift
  \/ \E c \in Callers :
       \/ CheckRoot(c) \/ Reserve(c) \/ LoseRoot(c)
       \/ WriteStarted(c) \/ WriteBefore(c) \/ CheckArm(c) \/ ReplayArm(c) \/ WriteRow(c)
       \/ WriteAfter(c) \/ WriteResult(c) \/ ReloadResult(c)
       \/ WriteComplete(c) \/ ReloadAttempt(c)
       \/ RefuseVersion(c) \/ RaiseStep(c) \/ RaiseAfterLanding(c)
       \/ JournalFailure(c) \/ JournalFailureFails(c) \/ KillCaller(c)

ComparisonSpec == ComparisonInit /\ [][ComparisonNext]_comparisonVars

-----------------------------------------------------------------------------
\* What can be loaded was compared like with like: all its arms ran under one
\* version of the code and the data, which for the family attempts is the pinned one.
LoadableMeansOneSource ==
  Loadable => /\ Cardinality(published) = 1
              /\ attemptKind \in Pinned => published = {0}

\* Two callers of one root never mix their records: every record and row is written
\* by the caller whose mkdir created the root.
OneWriterPerRoot ==
  /\ \A r \in Records : tree[r] \in {Nobody, rootOwner}
  /\ \A n \in DOMAIN rows : rows[n] = rootOwner

\* An attempt that raised cannot be loaded as complete, even when the completion
\* record was already written, unless its failure could not be recorded.
RaisedIsNotLoadable ==
  \A c \in Callers : On(c, "raised") /\ attemptKind # "ridge" => ~Loadable

\* What a failure record says is complete is on disk.
ToldRowsAreDurable ==
  \A c \in Callers : caller[c].stage \in {"failing", "raised"} /\ attemptKind # "ridge"
                       => caller[c].told <= Len(rows)

(* An attempt that can be loaded is one writer's, from one source, was not reported as       *)
(* failed, and holds every row its failure record counts.                                    *)
AttemptsAreTrustworthy ==
  /\ LoadableMeansOneSource
  /\ OneWriterPerRoot
  /\ RaisedIsNotLoadable
  /\ ToldRowsAreDurable
=============================================================================
