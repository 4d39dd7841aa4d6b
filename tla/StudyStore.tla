------------------------------ MODULE StudyStore ------------------------------
(* How the operations of a Study reach the disk                              *)
(* (evaluation/experiments/store.py, called from workflow.py): processes     *)
(* serialise on the mutation lock, rebuild the Study, stage the new artifact *)
(* beside its target and rename it.  A step of a publication may fail, which *)
(* raises, and a process may be killed anywhere, which releases the lock and *)
(* leaves what it had on the disk.                                           *)
EXTENDS Integers

CONSTANTS
  MaxExperiments, Protocols, Evidence, Controlled, Eligible, Score, NoEvidence,
  Procs,      \* processes that work on one Study
  MaxFaults,  \* bound on failing steps of a publication
  MaxKills    \* bound on killed processes

ASSUME StoreAssumption == MaxFaults \in Nat /\ MaxKills \in Nat

VARIABLES
  files, protocol, base, candidate, verdict, compared, decision, failed, freeze,
  bare,     \* experiments/NNNN that exist without a definition.json
  staging,  \* entries beside their targets: where and whose
  lock,     \* holders of .mutation.lock
  pc, request,
  faults, kills

artifacts ==
  <<files, protocol, base, candidate, verdict, compared, decision, failed, freeze>>
vars == <<artifacts, bare, staging, lock, pc, request, faults, kills>>

\* The refinement mapping: the ledger's artifacts are the renamed entries.
Ledger == INSTANCE StudyLedger WITH
  files <- files, protocol <- protocol, base <- base, candidate <- candidate,
  verdict <- verdict, compared <- compared, decision <- decision, failed <- failed,
  freeze <- freeze

ASSUME LedgerConstants == Ledger!LedgerAssumption

Sequences == Ledger!Sequences
Root == 0

-----------------------------------------------------------------------------
(* A call: the operation, the experiment it is about (0 for the Study) and  *)
(* what the caller decides.                                                 *)
Call(op, seq, arg) == [op |-> op, seq |-> seq, arg |-> arg]

Calls ==
  {Call("create", Root, kind) : kind \in Protocols}
    \union {Call("baseline", Root, "none")}
    \union {Call(op, i, "none") :
              op \in {"run", "verify", "compare", "fail"}, i \in Sequences}
    \union {Call("define", i, b) : i \in Sequences, b \in Ledger!Refs}
    \union {Call("decide", i, k) : i \in Sequences, k \in Ledger!Decisions}
    \union {Call("freeze", Root, s) : s \in Sequences \union {Ledger!None}}

Idle == Call("none", Root, "none")

OutcomeOf(selected) == IF selected = Ledger!None THEN "NO_WINNER" ELSE "WINNER"

(* The guard of the operation, on the Study as it was rebuilt.              *)
Permitted(r) ==
  \/ r.op = "create" /\ Ledger!MayCreate
  \/ r.op = "baseline" /\ Ledger!MayRunBaseline
  \/ r.op = "define" /\ Ledger!MayDefine(r.seq, r.arg)
  \/ r.op = "run" /\ Ledger!MayRun(r.seq)
  \/ r.op = "verify" /\ Ledger!MayVerify(r.seq)
  \/ r.op = "compare" /\ Ledger!MayCompare(r.seq)
  \/ r.op = "decide" /\ Ledger!MayDecide(r.seq, r.arg)
  \/ r.op = "fail" /\ Ledger!MayFail(r.seq)
  \/ r.op = "freeze" /\ Ledger!MayFreeze(OutcomeOf(r.arg), r.arg)

(* create_study wants an empty root; every other operation starts with      *)
(* _reconstruct, which refuses an entry it does not know and a sequence     *)
(* directory without its definition.                                        *)
Readable == staging = {} /\ bare = {} /\ Ledger!Reconstructs
Admitted(r) ==
  /\ IF r.op = "create" THEN staging = {} /\ bare = {} ELSE Readable
  /\ Permitted(r)

(* The rename: a complete candidate carries the evidence its run produced.  *)
Rename(r) ==
  \/ r.op = "create" /\ Ledger!PutPlan(r.arg)
  \/ r.op = "baseline" /\ Ledger!PutBaseline
  \/ r.op = "define" /\ Ledger!PutDefinition(r.seq, r.arg)
  \/ r.op = "run" /\ Ledger!PutCandidate(r.seq, r.arg)
  \/ r.op = "verify" /\ Ledger!PutVerification(r.seq)
  \/ r.op = "compare" /\ Ledger!PutComparison(r.seq)
  \/ r.op = "decide" /\ Ledger!PutDecision(r.seq, r.arg)
  \/ r.op = "fail" /\ Ledger!PutFailure(r.seq)
  \/ r.op = "freeze" /\ Ledger!PutFreeze(OutcomeOf(r.arg), r.arg)

-----------------------------------------------------------------------------
Init ==
  /\ Ledger!Init
  /\ bare = {} /\ staging = {} /\ lock = {}
  /\ pc = [p \in Procs |-> "idle"]
  /\ request = [p \in Procs |-> Idle]
  /\ faults = 0 /\ kills = 0

At(p, label) == pc[p] = label
Goto(p, label) == pc' = [pc EXCEPT ![p] = label]

(* The call returns or raises: the lock file is unlocked.                   *)
Leave(p) ==
  /\ Goto(p, "idle")
  /\ lock' = lock \ {p}
  /\ request' = [request EXCEPT ![p] = Idle]

(* Mutation: the lock file is opened and never locked.                      *)
LockShared(p, r) ==
  /\ At(p, "idle")
  /\ lock' = lock \union {p}
  /\ request' = [request EXCEPT ![p] = r]
  /\ Goto(p, "locked")
  /\ UNCHANGED <<artifacts, bare, staging, faults, kills>>

(* A call waits until nobody holds the lock file, and locks it.             *)
Lock(p, r) ==
  /\ At(p, "idle")
  /\ lock = {}
  /\ lock' = {p}
  /\ request' = [request EXCEPT ![p] = r]
  /\ Goto(p, "locked")
  /\ UNCHANGED <<artifacts, bare, staging, faults, kills>>

(* _reconstruct or a check of the operation raises.                         *)
Refuse(p) ==
  /\ At(p, "locked")
  /\ ~Admitted(request[p])
  /\ Leave(p)
  /\ UNCHANGED <<artifacts, bare, staging, faults, kills>>

(* Mutation: the sequence directories are numbered from zero.               *)
BeginFromZero(p) ==
  /\ At(p, "locked")
  /\ Admitted(request[p])
  /\ bare' = IF request[p].op = "define" THEN bare \union {request[p].seq - 1} ELSE bare
  /\ Goto(p, "begun")
  /\ UNCHANGED <<artifacts, staging, lock, request, faults, kills>>

(* The checks pass and the target's parents are made: experiments/NNNN for  *)
(* a definition.                                                            *)
Begin(p) ==
  /\ At(p, "locked")
  /\ Admitted(request[p])
  /\ bare' = IF request[p].op = "define" THEN bare \union {request[p].seq} ELSE bare
  /\ Goto(p, "begun")
  /\ UNCHANGED <<artifacts, staging, lock, request, faults, kills>>

(* The staging entry is created and filled; a run produces its evidence.    *)
Stage(p, ev) ==
  /\ At(p, "begun")
  /\ staging' = staging \union {<<request[p].seq, p>>}
  /\ request' = IF request[p].op = "run" THEN [request EXCEPT ![p] = Call("run", @.seq, ev)]
                ELSE request
  /\ Goto(p, "staged")
  /\ UNCHANGED <<artifacts, bare, lock, faults, kills>>

(* The staging entry cannot be created: nothing is cleaned up, the          *)
(* directories just made stay.                                              *)
StageFails(p) ==
  /\ At(p, "begun")
  /\ faults < MaxFaults /\ faults' = faults + 1
  /\ Leave(p)
  /\ UNCHANGED <<artifacts, bare, staging, kills>>

(* Mutation: the entry of a failed publication is kept.                     *)
BuildFailsKeeping(p) ==
  /\ At(p, "staged")
  /\ faults < MaxFaults /\ faults' = faults + 1
  /\ Leave(p)
  /\ UNCHANGED <<artifacts, bare, staging, kills>>

(* Writing, the run, its analysis or the rename raises: finally removes the *)
(* staging entry.                                                           *)
BuildFails(p) ==
  /\ At(p, "staged")
  /\ faults < MaxFaults /\ faults' = faults + 1
  /\ staging' = staging \ {<<request[p].seq, p>>}
  /\ Leave(p)
  /\ UNCHANGED <<artifacts, bare, kills>>

(* The rename publishes the artifact.  A file replaces what is there: the   *)
(* preceding test that nothing is there is not atomic with it, so it does   *)
(* not appear here.                                                         *)
Publish(p) ==
  /\ At(p, "staged")
  /\ Rename(request[p])
  /\ staging' = staging \ {<<request[p].seq, p>>}
  /\ bare' = IF request[p].op = "define" THEN bare \ {request[p].seq} ELSE bare
  /\ Goto(p, "published")
  /\ UNCHANGED <<lock, request, faults, kills>>

(* The Study is rebuilt where the operation returns a snapshot.             *)
Return(p) ==
  /\ At(p, "published")
  /\ Leave(p)
  /\ UNCHANGED <<artifacts, bare, staging, faults, kills>>

Kill(p) ==
  /\ ~At(p, "idle")
  /\ kills < MaxKills /\ kills' = kills + 1
  /\ Leave(p)
  /\ UNCHANGED <<artifacts, bare, staging, faults>>

Step(p) ==
  \/ \E r \in Calls : Lock(p, r)
  \/ Refuse(p)
  \/ Begin(p)
  \/ \E ev \in Evidence : Stage(p, ev)
  \/ StageFails(p)
  \/ BuildFails(p)
  \/ Publish(p)
  \/ Return(p)
  \/ Kill(p)

Next == \E p \in Procs : Step(p)

Spec == Init /\ [][Next]_vars

-----------------------------------------------------------------------------
Labels == {"idle", "locked", "begun", "staged", "published"}

(* The state stays well formed.                                             *)
TypeOK ==
  /\ Ledger!TypeOK
  /\ bare \subseteq Sequences
  /\ staging \subseteq (Sequences \union {Root}) \X Procs
  /\ lock \subseteq Procs
  /\ pc \in [Procs -> Labels]
  /\ faults \in 0..MaxFaults /\ kills \in 0..MaxKills

(* The lock and the staged rename make every operation of the workflow one  *)
(* atomic, permitted step of the Study, whatever fails or dies.             *)
ImplementsLedger == Ledger!Spec

(* An exception, unlike a kill, leaves no staging entry behind it: the next *)
(* reader does not meet one.                                                *)
ExceptionsLeaveNoStaging == kills = 0 /\ lock = {} => staging = {}

(* An experiment whose run broke off before its candidate was complete can  *)
(* still be recorded as FAILED (controlled-experiment-loop.md): once nobody *)
(* holds the lock, record_experiment_failure is admitted for it.            *)
FailureRecordable ==
  \A i \in Sequences :
    lock = {} /\ Ledger!MayFail(i) => Admitted(Call("fail", i, "none"))
=============================================================================
