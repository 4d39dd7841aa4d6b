---------------------------- MODULE ArtifactStore ----------------------------
(* The filesystem store of research runs (trade_rl/artifacts/store.py): a    *)
(* run is staged, validated, renamed into runs/ and named by latest.json.    *)
(* Several publishers share the root.  A step may raise an OSError, a        *)
(* KeyboardInterrupt may hit any step, a process may be killed, and power    *)
(* may fail: a rename that was not fsynced may then be lost.                 *)
EXTENDS Integers, FiniteSets

CONSTANTS
  RunIds,       \* run identifiers
  Publishers,   \* processes with an ArtifactStore on the root
  MaxTrouble    \* bound: errors, interrupts, kills and power failures

NoRunId == "none"

VARIABLES
  stageDirs,    \* .staging/<id>
  runDirs,      \* runs/<id>
  failedDirs,   \* failed/<id>
  latest,       \* the run latest.json names
  unsynced,     \* runs/ entries whose rename is not on the disk yet
  safeLatest,   \* the run latest.json names on the disk
  publisher,    \* local state of each process
  torn,         \* history: a publisher was interrupted after it had replaced latest.json
  trouble

storeVars == <<stageDirs, runDirs, failedDirs, latest, unsynced, safeLatest,
               publisher, torn, trouble>>

AtRest == [pc |-> "idle", run |-> NoRunId]

ArtifactInit ==
  /\ stageDirs = {} /\ runDirs = {} /\ failedDirs = {}
  /\ latest = NoRunId /\ unsynced = {} /\ safeLatest = NoRunId
  /\ publisher = [p \in Publishers |-> AtRest]
  /\ torn = FALSE /\ trouble = 0

Advance(p, pc) == publisher' = [publisher EXCEPT ![p] = [@ EXCEPT !.pc = pc]]
Finish(p) == publisher' = [publisher EXCEPT ![p] = AtRest]
Spend == trouble < MaxTrouble /\ trouble' = trouble + 1

(* stage_run: an exclusive mkdir. *)
StageRun(p, id) ==
  /\ publisher[p].pc = "idle" /\ id \notin stageDirs
  /\ stageDirs' = stageDirs \cup {id}
  /\ UNCHANGED <<runDirs, failedDirs, latest, unsynced, safeLatest, publisher, torn, trouble>>

(* mark_failed *)
MarkFailed(p, id) ==
  /\ publisher[p].pc = "idle" /\ id \in stageDirs /\ id \notin failedDirs
  /\ stageDirs' = stageDirs \ {id}
  /\ failedDirs' = failedDirs \cup {id}
  /\ UNCHANGED <<runDirs, latest, unsynced, safeLatest, publisher, torn, trouble>>

(* publish_run up to the rename: the staged run exists and validates, no run of that name.   *)
CheckStage(p, id) ==
  /\ publisher[p].pc = "idle" /\ id \in stageDirs /\ id \notin runDirs
  /\ publisher' = [publisher EXCEPT ![p] = [pc |-> "move", run |-> id]]
  /\ UNCHANGED <<stageDirs, runDirs, failedDirs, latest, unsynced, safeLatest, torn, trouble>>

(* _replace_directory: raises when another process has moved the staged run, or has put a    *)
(* run in its place.                                                                         *)
MoveRun(p) ==
  LET id == publisher[p].run IN
  /\ publisher[p].pc = "move"
  /\ IF id \in stageDirs /\ id \notin runDirs
     THEN /\ stageDirs' = stageDirs \ {id} /\ runDirs' = runDirs \cup {id}
          /\ unsynced' = unsynced \cup {id}
          /\ Advance(p, "sync")
     ELSE Finish(p) /\ UNCHANGED <<stageDirs, runDirs, unsynced>>
  /\ UNCHANGED <<failedDirs, latest, safeLatest, torn, trouble>>

(* _fsync_directory(runs_root): every rename in the directory so far is durable.  A failure  *)
(* raises and the run stays where it is.                                                     *)
SyncRuns(p) ==
  /\ publisher[p].pc = "sync"
  /\ unsynced' = {} /\ Advance(p, "pointer")
  /\ UNCHANGED <<stageDirs, runDirs, failedDirs, latest, safeLatest, torn, trouble>>

SyncRunsFails(p) ==
  /\ publisher[p].pc = "sync" /\ Spend
  /\ Finish(p)
  /\ UNCHANGED <<stageDirs, runDirs, failedDirs, latest, unsynced, safeLatest, torn>>

(* atomic_replace_bytes: the temporary file is written and replaces latest.json. *)
ReplacePointer(p) ==
  /\ publisher[p].pc = "pointer"
  /\ latest' = publisher[p].run
  /\ Advance(p, "settle")
  /\ UNCHANGED <<stageDirs, runDirs, failedDirs, unsynced, safeLatest, torn, trouble>>

(* The directory is fsynced and publish_run returns. *)
SettlePointer(p) ==
  /\ publisher[p].pc = "settle"
  /\ safeLatest' = latest
  /\ Finish(p)
  /\ UNCHANGED <<stageDirs, runDirs, failedDirs, latest, unsynced, torn, trouble>>

(* Mutation: the durability error is treated like any other one. *)
SettleFailsRollingBack(p) ==
  LET id == publisher[p].run IN
  /\ publisher[p].pc = "settle" /\ Spend
  /\ stageDirs' = stageDirs \cup {id} /\ runDirs' = runDirs \ {id}
  /\ unsynced' = unsynced \ {id}
  /\ Finish(p)
  /\ UNCHANGED <<failedDirs, latest, safeLatest, torn>>

(* AtomicReplaceDurabilityError: the pointer is replaced, so publish_run raises and keeps    *)
(* the run.                                                                                  *)
SettleFails(p) ==
  /\ publisher[p].pc = "settle" /\ Spend
  /\ Finish(p)
  /\ UNCHANGED <<stageDirs, runDirs, failedDirs, latest, unsynced, safeLatest, torn>>

(* The except BaseException of publish_run: the run goes back to staging when its place      *)
(* there is free.                                                                            *)
Rollback(id) ==
  IF id \in runDirs /\ id \notin stageDirs
  THEN /\ stageDirs' = stageDirs \cup {id} /\ runDirs' = runDirs \ {id}
       /\ unsynced' = unsynced \ {id}
  ELSE UNCHANGED <<stageDirs, runDirs, unsynced>>

(* Anything raised before latest.json is replaced. *)
PointerFails(p) ==
  /\ publisher[p].pc = "pointer" /\ Spend
  /\ Rollback(publisher[p].run)
  /\ Finish(p)
  /\ UNCHANGED <<failedDirs, latest, safeLatest, torn>>

(* A KeyboardInterrupt between the replacement and the return is not an                      *)
(* AtomicReplaceDurabilityError: the rollback runs although latest.json names the run.       *)
InterruptAfterReplace(p) ==
  /\ publisher[p].pc = "settle" /\ Spend
  /\ Rollback(publisher[p].run)
  /\ torn' = TRUE
  /\ Finish(p)
  /\ UNCHANGED <<failedDirs, latest, safeLatest>>

KillPublisher(p) ==
  /\ publisher[p].pc # "idle" /\ Spend
  /\ Finish(p)
  /\ UNCHANGED <<stageDirs, runDirs, failedDirs, latest, unsynced, safeLatest, torn>>

(* Power fails: some unsynced renames are lost, and so may be the last pointer. *)
PowerFails(lost) ==
  /\ Spend
  /\ stageDirs' = stageDirs \cup lost /\ runDirs' = runDirs \ lost
  /\ unsynced' = {}
  /\ latest' \in {latest, safeLatest} /\ safeLatest' = latest'
  /\ publisher' = [p \in Publishers |-> AtRest]
  /\ UNCHANGED <<failedDirs, torn>>

ArtifactNext ==
  \/ \E p \in Publishers :
       \/ \E id \in RunIds : StageRun(p, id) \/ MarkFailed(p, id) \/ CheckStage(p, id)
       \/ MoveRun(p) \/ SyncRuns(p) \/ SyncRunsFails(p) \/ ReplacePointer(p)
       \/ SettlePointer(p) \/ SettleFails(p) \/ PointerFails(p)
       \/ InterruptAfterReplace(p) \/ KillPublisher(p)
  \/ \E lost \in SUBSET unsynced : PowerFails(lost)

ArtifactSpec == ArtifactInit /\ [][ArtifactNext]_storeVars

-----------------------------------------------------------------------------
(* latest.json names a run that is published, in memory and on the disk, whatever fails:     *)
(* the run is durable before the pointer, and only a run no pointer names is rolled back.    *)
(* The exception is an interrupt between the replacement and the return of publish_run.      *)
LatestNamesPublishedRun ==
  ~torn => latest \in runDirs \cup {NoRunId} /\ safeLatest \in (runDirs \ unsynced) \cup {NoRunId}
=============================================================================
