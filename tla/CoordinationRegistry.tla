------------------------ MODULE CoordinationRegistry ------------------------
(***************************************************************************)
(* Write leases, the enrollment of leased tasks, and the registry that     *)
(* coordinators move by compare-and-swap of one Git ref.                   *)
(*                                                                         *)
(* The lease functions are pure: a lease is a record, several copies of it *)
(* may be held, and any earlier record may be passed as the previous one.  *)
(* What is shared is the coordination ref.  Its history is modelled as the *)
(* sequence of registries it pointed to; an OID is a position in it, 0 is  *)
(* the ref that does not exist yet.  A registry maps enrolled tasks to     *)
(* their projection.                                                       *)
(***************************************************************************)
EXTENDS CoordinationScheduler

CONSTANTS
  Coordinators,   \* processes that plan and swap
  WriteTasks,     \* tasks with execution_mode write
  Owners,         \* lease owners
  LeaseTtl,       \* lifetime of a lease
  MaxClock,       \* bound: the clock
  MaxIssued,      \* bound: lease records in existence
  MaxMoves        \* bound: moves of the coordination ref

ASSUME RegistryAssumption == MaxIssued \in Nat

VARIABLES
  clock,      \* wall-clock time
  issued,     \* every LeaseRecord that was ever returned
  tips,       \* the tip of every lease branch, by <<task, epoch, owner>>
  chain,      \* the registries the coordination ref has pointed to
  planner,    \* the local state of every coordinator
  swapped     \* history: what coordinators reported as a verified swap

registryVars == <<clock, issued, tips, chain, planner, swapped>>

NoHead == 0
Branches == WriteTasks \X (1..(MaxIssued + 1)) \X Owners
NoEntry == [phase |-> "absent"]
EmptyRegistry == [t \in WriteTasks |-> NoEntry]
IdlePlanner == [pc |-> "idle"]
CoordinationPhases ==
  {"planned", "ready", "executing", "review", "verification", "integration", "complete"}

RegistryInit ==
  /\ clock = 0
  /\ issued = {}
  /\ tips = [b \in Branches |-> NoHead]
  /\ chain = <<>>
  /\ planner = [c \in Coordinators |-> IdlePlanner]
  /\ swapped = {}

RegistryAt(oid) == IF oid = 0 THEN EmptyRegistry ELSE chain[oid]

----------------------------------------------------------------------------
(* leases.py *)

(* LeaseRecord: the branch is a function of task, epoch and owner; expiry of heartbeat + TTL. *)
Lease(t, o, epoch, head, now) ==
  [task |-> t, owner |-> o, epoch |-> epoch, head |-> head,
   beat |-> now, expires |-> now + LeaseTtl]

BranchOf(l) == <<l.task, l.epoch, l.owner>>

Issue(l) ==
  /\ l \notin issued /\ Cardinality(issued) < MaxIssued
  /\ issued' = issued \cup {l}

(* grant_lease without a previous lease. *)
GrantFirst(t, o) ==
  /\ Issue(Lease(t, o, 1, NoHead, clock))
  /\ UNCHANGED <<clock, tips, chain, planner, swapped>>

(* grant_lease with decision resume: same owner and epoch, the observed head. *)
GrantResume(l) ==
  /\ clock >= l.expires
  /\ Issue(Lease(l.task, l.owner, l.epoch, tips[BranchOf(l)], clock))
  /\ UNCHANGED <<clock, tips, chain, planner, swapped>>

(* grant_lease with any other decision: the next epoch, a branch of its own. *)
GrantNext(l, o) ==
  /\ clock >= l.expires
  /\ Issue(Lease(l.task, o, l.epoch + 1, NoHead, clock))
  /\ UNCHANGED <<clock, tips, chain, planner, swapped>>

(* The holder pushes to the lease branch; nothing checks the lease. *)
PushLeaseBranch(l) ==
  /\ tips[BranchOf(l)] = NoHead
  /\ tips' = [tips EXCEPT ![BranchOf(l)] = 1]
  /\ UNCHANGED <<clock, issued, chain, planner, swapped>>

(* heartbeat: a renewed copy of the holder's record. *)
Heartbeat(l) ==
  /\ l.beat <= clock /\ clock < l.expires
  /\ Issue(Lease(l.task, l.owner, l.epoch, tips[BranchOf(l)], clock))
  /\ UNCHANGED <<clock, tips, chain, planner, swapped>>

(* lease_is_current *)
LeaseIsCurrent(l) == l.beat <= clock /\ clock < l.expires

----------------------------------------------------------------------------
(* enrollment.py and registry.py *)

(* state.py _ALLOWED_TRANSITIONS *)
PhaseEdge == [
  planned |-> {"ready"}, ready |-> {"executing"}, executing |-> {"review"},
  review |-> {"executing", "verification"},
  verification |-> {"executing", "integration", "complete"},
  integration |-> {"executing", "verification", "complete"}, complete |-> {}]

(* EnrollmentProjection and its TaskStatusRecord. *)
Projection(l, p) == [phase |-> p, owner |-> l.owner, epoch |-> l.epoch, head |-> l.head]

(* Mutation: the branch tip is not compared with the lease. *)
PreparableUntipped(l, p) == LeaseIsCurrent(l) /\ p # "complete"

(* prepare_enrollment_projection: packet, lease, branch tip and status describe one snapshot. *)
Preparable(l, p) ==
  /\ LeaseIsCurrent(l)
  /\ l.head # NoHead /\ tips[BranchOf(l)] = l.head
  /\ p # "complete"

(* Mutation: a newer epoch may replace the enrolled one. *)
ValidateTransitionNewEpoch(old, new) ==
  IF old = NoEntry THEN new.phase # "complete"
  ELSE /\ old.phase # "complete"
       /\ new.phase = old.phase \/ new.phase \in PhaseEdge[old.phase]
       /\ new.epoch >= old.epoch

(* validate_enrollment_transition *)
ValidateTransition(old, new) ==
  IF old = NoEntry THEN new.phase # "complete"
  ELSE /\ old.phase # "complete"
       /\ new.phase = old.phase \/ new.phase \in PhaseEdge[old.phase]
       /\ new.epoch = old.epoch
       /\ new.owner = old.owner
       /\ new.head = old.head

(* plan_registry_transition on the registry the coordinator read, and the commit that holds  *)
(* the result; the candidate is a fresh projection or a new phase of the enrolled record.    *)
PlanTransition(c, t, candidate) ==
  LET before == RegistryAt(Len(chain)) IN
  /\ planner[c].pc = "idle"
  /\ ValidateTransition(before[t], candidate)
  /\ before[t] # candidate
  /\ planner' = [planner EXCEPT ![c] = [pc |-> "planned", task |-> t, base |-> Len(chain),
                   before |-> before, after |-> [before EXCEPT ![t] = candidate]]]
  /\ UNCHANGED <<clock, issued, tips, chain, swapped>>

PlanEnrollment(c, l, p) ==
  Preparable(l, p) /\ PlanTransition(c, l.task, Projection(l, p))
PlanPhase(c, t, p) ==
  /\ RegistryAt(Len(chain))[t] # NoEntry
  /\ PlanTransition(c, t, [RegistryAt(Len(chain))[t] EXCEPT !.phase = p])

----------------------------------------------------------------------------
(* github_coordination_ref_cas.py *)

(* _require_plan_payload and the first _read_snapshot: the plan still fits its base and the  *)
(* ref still is at it; otherwise the call raises.                                            *)
CheckBeforeSwap(c) ==
  /\ planner[c].pc = "planned"
  /\ planner' = [planner EXCEPT ![c] =
       IF Len(chain) = planner[c].base THEN [@ EXCEPT !.pc = "checked"] ELSE IdlePlanner]
  /\ UNCHANGED <<clock, issued, tips, chain, swapped>>

(* Mutation: the update does not carry beforeOid. *)
UpdateRefsForced(c) ==
  /\ planner[c].pc = "checked" /\ Len(chain) < MaxMoves
  /\ chain' = Append(chain, planner[c].after)
  /\ planner' = [planner EXCEPT ![c] = [@ EXCEPT !.pc = "mutated", !.base = Len(chain')]]
  /\ UNCHANGED <<clock, issued, tips, swapped>>

(* updateRefs with beforeOid: applied only to the expected OID; the answer may be lost.      *)
UpdateRefs(c) ==
  /\ planner[c].pc = "checked"
  /\ \/ /\ Len(chain) = planner[c].base /\ Len(chain) < MaxMoves
        /\ chain' = Append(chain, planner[c].after)
        /\ \/ planner' = [planner EXCEPT ![c] = [@ EXCEPT !.pc = "mutated", !.base = Len(chain')]]
           \/ planner' = [planner EXCEPT ![c] = IdlePlanner]
     \/ /\ planner' = [planner EXCEPT ![c] = IdlePlanner]
        /\ UNCHANGED chain
  /\ UNCHANGED <<clock, issued, tips, swapped>>

(* Mutation: the answer of updateRefs is reported without reading the ref again. *)
ReadBackSkipped(c) ==
  /\ planner[c].pc = "mutated"
  /\ swapped' = swapped \cup {<<c, planner[c].base, Len(chain)>>}
  /\ planner' = [planner EXCEPT ![c] = IdlePlanner]
  /\ UNCHANGED <<clock, issued, tips, chain>>

(* The second _read_snapshot and _require_after_payload: success only at the requested OID.  *)
ReadBack(c) ==
  /\ planner[c].pc = "mutated"
  /\ swapped' = IF Len(chain) = planner[c].base
                THEN swapped \cup {<<c, planner[c].base, Len(chain)>>} ELSE swapped
  /\ planner' = [planner EXCEPT ![c] = IdlePlanner]
  /\ UNCHANGED <<clock, issued, tips, chain>>

CoordinatorDies(c) ==
  /\ planner[c].pc # "idle"
  /\ planner' = [planner EXCEPT ![c] = IdlePlanner]
  /\ UNCHANGED <<clock, issued, tips, chain, swapped>>

PassTime ==
  /\ clock < MaxClock
  /\ clock' = clock + 1
  /\ UNCHANGED <<issued, tips, chain, planner, swapped>>

RegistryNext ==
  \/ PassTime
  \/ \E t \in WriteTasks, o \in Owners : GrantFirst(t, o)
  \/ \E l \in issued :
       \/ GrantResume(l) \/ PushLeaseBranch(l) \/ Heartbeat(l)
       \/ \E o \in Owners : GrantNext(l, o)
       \/ \E c \in Coordinators, p \in {"ready"} : PlanEnrollment(c, l, p)
  \/ \E c \in Coordinators :
       \/ CheckBeforeSwap(c) \/ UpdateRefs(c) \/ ReadBack(c) \/ CoordinatorDies(c)
       \/ \E t \in WriteTasks, p \in CoordinationPhases : PlanPhase(c, t, p)

RegistrySpec == RegistryInit /\ [][RegistryNext]_registryVars

----------------------------------------------------------------------------
(* Properties *)

(* grant_lease and the registry: whatever leases exist at the same time, and whoever renews   *)
(* an expired one, a task once enrolled keeps its owner, epoch and branch head for ever, so   *)
(* a second holder never becomes the registered writer.                                       *)
EnrolledHolderIsFixed ==
  \A i, j \in DOMAIN chain : i < j => \A t \in WriteTasks :
    chain[i][t] # NoEntry =>
      /\ chain[j][t] # NoEntry
      /\ chain[j][t].owner = chain[i][t].owner
      /\ chain[j][t].epoch = chain[i][t].epoch
      /\ chain[j][t].head = chain[i][t].head

(* compare_and_swap_registry_plan: every registry differs from its predecessor in exactly one *)
(* task, so no coordinator's move undoes or overwrites another one's.                         *)
OneTaskPerMove ==
  \A i \in DOMAIN chain :
    Cardinality({t \in WriteTasks : chain[i][t] # RegistryAt(i - 1)[t]}) = 1

(* A verified swap was read back as the tip of the ref: it had taken effect and had not been  *)
(* replaced yet.                                                                              *)
VerifiedSwapWasTip == \A s \in swapped : s[2] = s[3] /\ s[2] \in DOMAIN chain

(* prepare_enrollment_projection: an enrolled writer always holds a lease of that epoch, on a *)
(* branch whose tip is the enrolled head, although the lease may have expired by the swap.    *)
EnrolledWriterWasLeased ==
  \A i \in DOMAIN chain, t \in WriteTasks :
    chain[i][t] # NoEntry =>
      /\ \E l \in issued : l.task = t /\ l.owner = chain[i][t].owner /\ l.epoch = chain[i][t].epoch
      /\ tips[<<t, chain[i][t].epoch, chain[i][t].owner>>] = chain[i][t].head

(* The registry as the record of who writes: holders fixed and once leased, moves one at a   *)
(* time, and a swap reported as verified really was the tip.                                 *)
RegistryIsTheRecord ==
  /\ EnrolledHolderIsFixed
  /\ OneTaskPerMove
  /\ VerifiedSwapWasTip
  /\ EnrolledWriterWasLeased

(* The coordination keeps the work of the agents apart: the scheduler selects *)
(* tasks that do not clash and holds none back needlessly, and the registry    *)
(* records who writes (scheduler.py ready_tasks, registry.py, enrollment).      *)
CoordinationKeepsTasksApart == SelectionIsExact /\ RegistryIsTheRecord
=============================================================================
