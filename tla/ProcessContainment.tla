-------------------------- MODULE ProcessContainment --------------------------
(***************************************************************************)
(* The process containment of the one-off studies                           *)
(* (tools/tier_d_nonrl/tier_d_process_containment.py): a child is started   *)
(* suspended, put into a kill-on-close Job Object and only then resumed;    *)
(* its family is sampled and in the end terminated. And the sampler of a    *)
(* process tree by process identities (tier_d_process_tree.py).             *)
(*                                                                          *)
(* Between any two calls to the operating system processes fork, end, and   *)
(* their PIDs are used again. An identity is a PID with the generation of   *)
(* the process.                                                             *)
(***************************************************************************)
EXTENDS Integers, FiniteSetsExt

CONSTANTS Pids,
          Modes,         \* "job": in a Job Object; "cim", "proc": a tree sampled on Windows, on Linux
          QueryAttempts, \* _JOB_QUERY_ATTEMPTS
          MaxBirths,     \* bound: processes that are ever started
          MaxSnapshots   \* bound: samples of one tree

ASSUME ContainmentAssumption ==
  /\ QueryAttempts \in Nat \ {0} /\ MaxBirths \in Nat /\ MaxSnapshots \in Nat
  /\ Pids \subseteq Nat \ {0}

VARIABLES os,       \* the processes of the machine and the Job Object
          keeper,   \* the program that contains or samples its child
          family    \* the identities that descend from the child (not known to the program)

containmentVars == <<os, keeper, family>>

NoProcess == [gen |-> 0, parent |-> 0, state |-> "none", job |-> FALSE]
NoIdentity == <<0, 0>>

Idle == [child |-> NoIdentity, root |-> NoIdentity, assigned |-> FALSE, then |-> "none", retried |-> FALSE,
         tries |-> 0, errors |-> FALSE, before |-> {}, left |-> {}, handles |-> {}, read |-> {},
         truth |-> {}, snapshots |-> 0, owned |-> {}, rows |-> {}, lent |-> {},
         mode |-> "none", pc |-> "create", outcome |-> "none"]

IdOf(p) == <<p, os.proc[p].gen>>
Present(p) == os.proc[p].state # "none"
\* An open handle, or the zombie of a child that was not waited for, keeps its PID.
FreePids == {p \in Pids : ~Present(p) /\ p \notin {id[1] : id \in keeper.handles \cup {keeper.child}}}
JobMembers == {p \in Pids : Present(p) /\ os.proc[p].job}
Exists(id) == id # NoIdentity /\ Present(id[1]) /\ IdOf(id[1]) = id

-----------------------------------------------------------------------------
(* The machine. It is left alone once the program has ended.                *)

Born(machine, p, parent, state, job) ==
  [machine EXCEPT !.births = @ + 1,
                  !.proc[p] = [gen |-> machine.births + 1, parent |-> parent, state |-> state, job |-> job]]

\* A child is in the Job Object of its parent.
Fork(p, q) ==
  /\ keeper.pc # "end" /\ os.proc[p].state = "alive" /\ q \in FreePids /\ os.births < MaxBirths
  /\ os' = Born(os, q, p, "alive", os.proc[p].job)
  /\ family' = IF IdOf(p) \in family THEN family \cup {<<q, os.births + 1>>} ELSE family
  /\ UNCHANGED keeper

\* A process that has nothing to do with the child. A job refuses its PID like that of an
\* ended process, so only the trees have strangers.
Stranger(q) ==
  /\ keeper.mode # "job" /\ keeper.pc # "end" /\ q \in FreePids /\ os.births < MaxBirths
  /\ os' = Born(os, q, 0, "alive", FALSE)
  /\ UNCHANGED <<keeper, family>>

\* A process ends. Its children keep its PID as their parent on Windows and get another on
\* Linux, where the child that was not waited for stays as a zombie.
ProcessEnds(p) ==
  /\ keeper.pc # "end" /\ os.proc[p].state \in {"alive", "dying"}
  /\ LET linux == keeper.mode = "proc"
     IN os' = [os EXCEPT !.proc = [q \in Pids |->
                 IF q = p THEN IF linux /\ IdOf(p) = keeper.child THEN [@[p] EXCEPT !.state = "zombie"]
                                                                  ELSE NoProcess
                 ELSE IF linux /\ @[q].parent = p THEN [@[q] EXCEPT !.parent = 0] ELSE @[q]]]
  /\ UNCHANGED <<keeper, family>>

Dying(proc, doomed) ==
  [p \in Pids |-> IF p \in doomed /\ proc[p].state # "none" THEN [proc[p] EXCEPT !.state = "dying"] ELSE proc[p]]

\* CloseHandle of the only handle of a Job Object that kills on close.
JobClosed(machine) ==
  [machine EXCEPT !.job = "closed", !.proc = Dying(@, {p \in Pids : @[p].job})]

-----------------------------------------------------------------------------
(* _launch_windows_contained_process.                                        *)

KeeperAt(pc) == keeper.mode = "job" /\ keeper.pc = pc
Going(pc) == [keeper EXCEPT !.pc = pc]
Ended(outcome) == [Idle EXCEPT !.mode = keeper.mode, !.pc = "end", !.outcome = outcome, !.child = keeper.child]

\* _WindowsJob.__init__: the Job Object, and its limit.
CreateJob(ok) ==
  /\ KeeperAt("create")
  /\ os' = [os EXCEPT !.job = IF ok THEN "open" ELSE "closed"]
  /\ keeper' = IF ok THEN Going("spawn") ELSE Ended("failed")
  /\ UNCHANGED family

\* Popen with CREATE_SUSPENDED.
SpawnSuspended(p) ==
  /\ KeeperAt("spawn") /\ p \in FreePids
  /\ os' = Born(os, p, 0, "suspended", FALSE)
  /\ family' = {<<p, os.births + 1>>}
  /\ keeper' = [Going("assign") EXCEPT !.child = <<p, os.births + 1>>]

SpawnFails ==
  /\ KeeperAt("spawn")
  /\ os' = JobClosed(os)
  /\ keeper' = Ended("failed")
  /\ UNCHANGED family

AssignToJob ==
  /\ KeeperAt("assign")
  /\ os' = [os EXCEPT !.proc[keeper.child[1]].job = TRUE]
  /\ keeper' = [Going("identify") EXCEPT !.assigned = TRUE]
  /\ UNCHANGED family

\* identity_from_handle and set_root_identity.
IdentifyRoot ==
  /\ KeeperAt("identify")
  /\ keeper' = [Going("resume") EXCEPT !.root = keeper.child]
  /\ UNCHANGED <<os, family>>

\* NtResumeProcess.
ResumeRoot ==
  /\ KeeperAt("resume")
  /\ os' = [os EXCEPT !.proc[keeper.child[1]].state = "alive"]
  /\ keeper' = Going("monitor")
  /\ UNCHANGED family

LaunchFails ==
  /\ keeper.mode = "job" /\ keeper.pc \in {"assign", "identify", "resume"}
  /\ keeper' = [Going(IF keeper.assigned THEN "tQuery" ELSE "kill")
                  EXCEPT !.then = "cleanup", !.tries = QueryAttempts]
  /\ UNCHANGED <<os, family>>

\* _terminate_unassigned_process: the Popen handle is killed, or both ways of doing it fail.
KillUnassigned(ok) ==
  /\ KeeperAt("kill")
  /\ os' = IF ok THEN [os EXCEPT !.proc = Dying(@, {keeper.child[1]})] ELSE os
  /\ keeper' = [Going(IF keeper.retried /\ ~ok THEN "drain" ELSE "reap") EXCEPT !.errors = @ \/ ~ok]
  /\ UNCHANGED family

-----------------------------------------------------------------------------
(* _WindowsJob.terminate_members and wait_empty.                             *)

\* What the callers do with an error: close gives up the job; a launch collects it and goes on.
AfterError == IF keeper.then = "close" THEN "release" ELSE IF keeper.retried THEN "drain" ELSE "reap"
TerminationRaises == keeper' = [Going(AfterError) EXCEPT !.errors = TRUE, !.handles = {}, !.left = {}, !.before = {}]

TerminateQuery ==
  /\ KeeperAt("tQuery")
  /\ IF keeper.tries = 0 THEN TerminationRaises
     ELSE keeper' = [Going("tOpen") EXCEPT !.tries = @ - 1, !.before = JobMembers, !.left = JobMembers]
  /\ UNCHANGED <<os, family>>

TerminateAgain == keeper' = [Going("tQuery") EXCEPT !.handles = {}, !.left = {}, !.before = {}]

\* open_member_handle and identity_from_open_handle, in the order of the PIDs: a handle of a
\* process in the job. A PID that is no longer a member changed the list.
TerminateOpen ==
  /\ KeeperAt("tOpen") /\ keeper.left # {}
  /\ LET p == Min(keeper.left)
     IN  IF p \in JobMembers
         THEN keeper' = [keeper EXCEPT !.left = @ \ {p}, !.handles = @ \cup {IdOf(p)}]
         ELSE TerminateAgain
  /\ UNCHANGED <<os, family>>

\* The list once more: it changed, it is empty, or the family can be terminated.
TerminateCheck ==
  /\ KeeperAt("tOpen") /\ keeper.left = {}
  /\ IF keeper.before # JobMembers THEN TerminateAgain
     ELSE keeper' = [Going(IF keeper.handles = {} THEN "reap" ELSE "tJob") EXCEPT !.before = {}]
  /\ UNCHANGED <<os, family>>

\* TerminateJobObject: whoever is in the job by now.
TerminateJob(ok) ==
  /\ KeeperAt("tJob")
  /\ IF ok THEN /\ os' = [os EXCEPT !.proc = Dying(@, JobMembers)] /\ keeper' = Going("tWait")
           ELSE UNCHANGED os /\ TerminationRaises
  /\ UNCHANGED family

\* wait_process_exit of every handle, or the deadline.
TerminateWait ==
  /\ KeeperAt("tWait")
  /\ IF \E id \in keeper.handles : Exists(id) THEN TerminationRaises
     ELSE keeper' = [Going("reap") EXCEPT !.handles = {}]
  /\ UNCHANGED <<os, family>>

\* process.wait: the child has ended, or the time is up. The cleanup of a launch terminates
\* once more and waits again.
ReapChild ==
  /\ KeeperAt("reap")
  /\ keeper' = IF ~Exists(keeper.child) THEN Going("drain")
               ELSE IF keeper.then = "close" THEN [Going("release") EXCEPT !.errors = TRUE]
               ELSE IF keeper.retried THEN [Going("drain") EXCEPT !.errors = TRUE]
               ELSE [Going(IF keeper.assigned THEN "tQuery" ELSE "kill")
                       EXCEPT !.retried = TRUE, !.tries = QueryAttempts]
  /\ UNCHANGED <<os, family>>

\* Mutation: the job is closed without waiting for its members.
DrainedAtOnce == TRUE

\* wait_empty: no active process and an empty list.
Drained == JobMembers = {}

DrainJob ==
  /\ KeeperAt("drain")
  /\ keeper' = [Going("release") EXCEPT !.errors = @ \/ (keeper.assigned /\ ~Drained)]
  /\ UNCHANGED <<os, family>>

\* _WindowsJob.close; after an error, and after every failed launch, the child is waited for
\* once more.
ReleaseJob ==
  /\ KeeperAt("release")
  /\ os' = JobClosed(os)
  /\ keeper' = IF keeper.then = "close" /\ ~keeper.errors THEN Ended("closed") ELSE Going("last")
  /\ UNCHANGED family

LastWait ==
  /\ KeeperAt("last")
  /\ keeper' = Ended(IF keeper.then = "cleanup" /\ ~Exists(keeper.child) /\ ~keeper.errors
                     THEN "failed" ELSE "unconfirmed")
  /\ UNCHANGED <<os, family>>

-----------------------------------------------------------------------------
(* ContainedProcess.sample: _collect_stable_membership_snapshot.             *)

SampleStarts ==
  /\ keeper.mode = "job" /\ keeper.pc \in {"monitor", "sampled"}
  /\ keeper' = [Going("sQuery") EXCEPT !.tries = QueryAttempts, !.read = {}, !.truth = {}]
  /\ UNCHANGED <<os, family>>

SampleRaises == keeper' = [Going("monitor") EXCEPT !.read = {}, !.left = {}, !.before = {}, !.truth = {}, !.tries = 0]
SampleAgain == keeper' = [Going("sQuery") EXCEPT !.read = {}, !.left = {}, !.before = {}, !.truth = {}]

SampleQuery ==
  /\ KeeperAt("sQuery")
  /\ IF keeper.tries = 0 THEN SampleRaises
     ELSE keeper' = [Going("sRead") EXCEPT !.tries = @ - 1, !.before = JobMembers, !.left = JobMembers]
  /\ UNCHANGED <<os, family>>

\* read_member, in the order of the PIDs.
SampleRead ==
  /\ KeeperAt("sRead") /\ keeper.left # {}
  /\ LET p == Min(keeper.left)
     IN  IF p \in JobMembers
         THEN keeper' = [keeper EXCEPT !.left = @ \ {p}, !.read = @ \cup {IdOf(p)}]
         ELSE SampleAgain
  /\ UNCHANGED <<os, family>>

\* The list after the reads; what the members are at this moment is kept for the property.
SampleReread ==
  /\ KeeperAt("sRead") /\ keeper.left = {}
  /\ IF keeper.before # JobMembers THEN SampleAgain
     ELSE keeper' = [Going("sVerify") EXCEPT !.left = keeper.before, !.truth = {IdOf(p) : p \in JobMembers}]
  /\ UNCHANGED <<os, family>>

\* Mutation: the member is opened again and its generation is not compared.
SameGenerationByPid(p) == p \in {id[1] : id \in keeper.read}

\* The generation is the one that was read.
SameGeneration(p) == IdOf(p) \in keeper.read

\* verify_member_identity; a member that cannot be opened fails the sample.
SampleVerify ==
  /\ KeeperAt("sVerify") /\ keeper.left # {}
  /\ LET p == Min(keeper.left)
     IN  IF p \notin JobMembers THEN SampleRaises
         ELSE IF ~SameGeneration(p) THEN SampleAgain
         ELSE keeper' = [keeper EXCEPT !.left = @ \ {p}]
  /\ UNCHANGED <<os, family>>

\* The last query; a running child that is not a member is refused.
SampleReturns ==
  /\ KeeperAt("sVerify") /\ keeper.left = {}
  /\ IF keeper.before # JobMembers THEN SampleAgain
     ELSE IF Exists(keeper.root) /\ keeper.root \notin keeper.read THEN SampleRaises
     ELSE keeper' = [Going("sampled") EXCEPT !.before = {}, !.tries = 0]
  /\ UNCHANGED <<os, family>>

\* ContainedProcess.close and __exit__.
CloseStarts ==
  /\ keeper.mode = "job" /\ keeper.pc \in {"monitor", "sampled"}
  /\ keeper' = [Going("tQuery") EXCEPT !.then = "close", !.tries = QueryAttempts, !.read = {}, !.truth = {}]
  /\ UNCHANGED <<os, family>>

\* The program dies: its handle of the job is the last one.
KeeperDies ==
  /\ keeper.mode = "job" /\ keeper.pc # "end"
  /\ os' = IF os.job = "open" THEN JobClosed(os) ELSE os
  /\ keeper' = Ended("died")
  /\ UNCHANGED family

-----------------------------------------------------------------------------
(* ProcessTreeSampler.                                                      *)

\* process_identity_from_popen pins the child that was just started.
TreeStarts(p) ==
  /\ keeper.mode # "job" /\ keeper.pc = "create" /\ p \in FreePids
  /\ os' = Born(os, p, 0, "alive", FALSE)
  /\ family' = {<<p, os.births + 1>>}
  /\ LET root == <<p, os.births + 1>>
     IN  keeper' = [Going("scan") EXCEPT !.root = root, !.child = root, !.owned = {root}, !.left = Pids]

RowRead(p) ==
  keeper' = [keeper EXCEPT !.left = @ \ {p},
               !.rows = IF Present(p) THEN @ \cup {[id |-> IdOf(p), parent |-> os.proc[p].parent]} ELSE @]

\* _capture_linux_snapshot: one directory of /proc at a time. A process that ended
\* leaves no row; one whose PID gets another generation between the two reads of its row
\* leaves none either, as if it had ended in time.
ScanProc(p) ==
  /\ keeper.mode = "proc" /\ keeper.pc = "scan" /\ p \in keeper.left
  /\ RowRead(p)
  /\ UNCHANGED <<os, family>>

\* _capture_windows_snapshot: the rows of Win32_Process, one instance after another.
ScanCim(p) ==
  /\ keeper.mode = "cim" /\ keeper.pc = "scan" /\ p \in keeper.left
  /\ RowRead(p)
  /\ UNCHANGED <<os, family>>

\* _validate_snapshot: one row for a PID.
ValidRows(rows) == \A r, x \in rows : r.id[1] = x.id[1] => r = x

\* Mutation: a row belongs to the tree when its PID was seen in it before.
ActiveByPid(rows, owned) == {r.id : r \in {x \in rows : \E o \in owned : o[1] = x.id[1]}}

\* The rows of this snapshot whose identity is already owned.
Active(rows, owned) == {r.id : r \in rows} \cap owned

\* The walk over the parent PIDs of one snapshot.
Descended(rows, owned) ==
  LET ids == {r.id : r \in rows}
      closed == {set \in SUBSET ids :
                   /\ Active(rows, owned) \subseteq set
                   /\ \A r \in rows : (\E id \in set : id[1] = r.parent) => r.id \in set}
  IN  CHOOSE set \in closed : \A other \in closed : set \subseteq other

\* sample: the pinned child must be in the first snapshot. The rows whose parent PID belongs
\* to an owned row of the same snapshot are kept for the property.
TreeSample ==
  /\ keeper.pc = "scan" /\ keeper.left = {}
  /\ keeper' = IF \/ ~ValidRows(keeper.rows)
                  \/ keeper.snapshots = 0 /\ ~\E r \in keeper.rows : r.id = keeper.root
               THEN Ended("refused")
               ELSE LET owned == keeper.owned \cup Descended(keeper.rows, keeper.owned)
                        parents == {r.id[1] : r \in {x \in keeper.rows : x.id \in owned}}
                    IN  [Going(IF keeper.snapshots + 1 < MaxSnapshots THEN "scan" ELSE "end")
                           EXCEPT !.snapshots = @ + 1, !.rows = {}, !.left = Pids, !.owned = owned,
                                  !.lent = @ \cup {r.id : r \in {x \in keeper.rows : x.parent \in parents}}]
  /\ UNCHANGED <<os, family>>

-----------------------------------------------------------------------------
ContainmentInit ==
  /\ os = [proc |-> [p \in Pids |-> NoProcess], births |-> 0, job |-> "none"]
  /\ family = {}
  /\ \E mode \in Modes : keeper = [Idle EXCEPT !.mode = mode]

ContainmentNext ==
  \/ \E p, q \in Pids : Fork(p, q)
  \/ \E p \in Pids : Stranger(p) \/ ProcessEnds(p) \/ SpawnSuspended(p) \/ TreeStarts(p) \/ ScanProc(p) \/ ScanCim(p)
  \/ \E ok \in BOOLEAN : CreateJob(ok) \/ KillUnassigned(ok) \/ TerminateJob(ok)
  \/ SpawnFails \/ AssignToJob \/ IdentifyRoot \/ ResumeRoot \/ LaunchFails
  \/ TerminateQuery \/ TerminateOpen \/ TerminateCheck \/ TerminateWait
  \/ ReapChild \/ DrainJob \/ ReleaseJob \/ LastWait
  \/ SampleStarts \/ SampleQuery \/ SampleRead \/ SampleReread \/ SampleVerify \/ SampleReturns
  \/ CloseStarts \/ KeeperDies \/ TreeSample

ContainmentSpec == ContainmentInit /\ [][ContainmentNext]_containmentVars

(* No instruction of the child's family runs outside the Job Object; when close has returned, *)
(* or a launch has failed with its cleanup confirmed, nothing of the family is left, and after *)
(* the job's handle is gone nothing of it stays alive. A sample holds exactly the members of   *)
(* one moment although PIDs are reused while it is read. A process tree counts a stranger      *)
(* only through the PID of a parent in the same snapshot, never because its own PID belonged   *)
(* to the tree (tier_d_process_containment.py close, terminate_members, wait_empty and         *)
(* _collect_stable_membership_snapshot; tier_d_process_tree.py sample).                        *)
FamilyIsContained ==
  /\ keeper.mode = "job" =>
       /\ \A p \in Pids : os.proc[p].state = "alive" /\ IdOf(p) \in family => os.proc[p].job
       /\ keeper.outcome \in {"closed", "failed"} => ~\E id \in family : Exists(id)
       /\ os.job = "closed" => \A p \in Pids : IdOf(p) \in family => os.proc[p].state # "alive"
       /\ keeper.pc = "sampled" => keeper.read = keeper.truth
  /\ keeper.owned \subseteq family \cup keeper.lent
=============================================================================
