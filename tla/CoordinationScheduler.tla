----------------------- MODULE CoordinationScheduler -----------------------
(***************************************************************************)
(* Ready-set selection of the agent coordination plane: conflict classes,  *)
(* the dependency graph, the greedy selection and the phase protocol of    *)
(* the tasks it selects.                                                   *)
(*                                                                         *)
(* A coordinator selects a batch, leases its tasks one by one, and the     *)
(* workers report phases and conditions; selection reads the statuses of   *)
(* its moment and nothing re-checks them when a task starts.               *)
(***************************************************************************)
EXTENDS Integers, Sequences, FiniteSets, SequencesExt, Relation

CONSTANTS
  TaskIds,      \* the tasks, a set of naturals: task_id order is <
  Packet,       \* [TaskIds -> [mode, keys, deps, risk]]; a key is <<namespace, value>>,
                \* a file's value is its path as a sequence; a dependency is
                \* [on, kind, phase]
  MaxDowns      \* bound: reports of an unhealthy condition, lost leases and returns

Phases == <<"planned", "ready", "executing", "review", "verification", "integration", "complete">>
PhaseOrder(p) == CHOOSE i \in 1..7 : Phases[i] = p
Conditions == {"healthy", "blocked", "stale", "failed", "conflicted"}
HardNamespaces == {"identity", "schema", "side-effect"}
SoftNamespaces == {"authority", "workflow", "artifact"}

VARIABLES
  phase,      \* TaskStatus.phase of every task
  condition,  \* TaskStatus.condition of every task
  leased,     \* the tasks with a granted lease
  batch,      \* the coordinator's last ready set, the part not leased yet
  unseen,     \* history: for a selected task, the tasks in flight the selection did not count
  downs       \* how much of MaxDowns is used

schedulerVars == <<phase, condition, leased, batch, unseen, downs>>

SchedulerInit ==
  /\ phase = [t \in TaskIds |-> "planned"]
  /\ condition = [t \in TaskIds |-> "healthy"]
  /\ leased = {}
  /\ batch = {}
  /\ unseen = [t \in TaskIds |-> {}]
  /\ downs = 0

----------------------------------------------------------------------------
(* conflicts.py *)

(* _file_overlap: one path is the other or a directory above it. *)
FileOverlap(p, q) == IsPrefix(p, q) \/ IsPrefix(q, p)

SameKey(k, l) == k[1] = l[1] /\ IF k[1] = "file" THEN FileOverlap(k[2], l[2]) ELSE k[2] = l[2]

(* Mutation: two read-only tasks never conflict, a shared side effect or not. *)
ClassifyConflictByMode(s, t) ==
  LET shared == {k \in Packet[s].keys : \E l \in Packet[t].keys : SameKey(k, l)} IN
  IF Packet[s].mode = "read_only" /\ Packet[t].mode = "read_only" THEN "none"
  ELSE IF \E k \in shared : k[1] \in HardNamespaces \cup {"file"} THEN "hard"
  ELSE IF shared # {} THEN "soft" ELSE "none"

(* classify_conflict *)
ClassifyConflict(s, t) ==
  LET shared == {k \in Packet[s].keys : \E l \in Packet[t].keys : SameKey(k, l)} IN
  IF /\ Packet[s].mode = "read_only" /\ Packet[t].mode = "read_only"
     /\ \A k \in shared : k[1] # "side-effect"
  THEN "none"
  ELSE IF \E k \in shared : k[1] \in HardNamespaces \cup {"file"} THEN "hard"
  ELSE IF \E k \in shared : k[1] \in SoftNamespaces THEN "soft" ELSE "none"

HardConflict(s, t) == s # t /\ ClassifyConflict(s, t) = "hard"

----------------------------------------------------------------------------
(* dependencies.py *)

DependsOn == {p \in TaskIds \X TaskIds : \E d \in Packet[p[1]].deps : d.on = p[2]}

DependsOnPlus == TransitiveClosure([p \in TaskIds \X TaskIds |-> p \in DependsOn], TaskIds)

(* DependencyGraph.__init__ and TaskPacket: known tasks and risks only, and no cycle. *)
ASSUME DependencyGraphAccepted ==
  /\ TaskIds \subseteq Nat /\ IsFiniteSet(TaskIds)
  /\ \A t \in TaskIds : Packet[t].risk \in {"low", "medium", "high"}
  /\ \A t \in TaskIds : \A d \in Packet[t].deps : d.on \in TaskIds
  /\ \A t \in TaskIds : ~DependsOnPlus[<<t, t>>]

(* descendant_count *)
DescendantCount(t) == Cardinality({u \in TaskIds : DependsOnPlus[<<u, t>>]})

(* execution_dependencies_satisfied: the hard ones. *)
ExecutionDependenciesSatisfied(t) ==
  \A d \in Packet[t].deps : d.kind = "hard" =>
     condition[d.on] = "healthy" /\ PhaseOrder(phase[d.on]) >= PhaseOrder(d.phase)

(* integration_dependencies_satisfied *)
IntegrationDependenciesSatisfied(t) ==
  \A d \in Packet[t].deps : d.kind = "integration" =>
     condition[d.on] = "healthy" /\ phase[d.on] = "complete"

----------------------------------------------------------------------------
(* scheduler.py *)

ActiveTasks == {t \in TaskIds : phase[t] = "executing" /\ condition[t] = "healthy"}

(* The filter of ready_tasks, in its order of tests. *)
Candidates ==
  {t \in TaskIds :
     /\ phase[t] = "ready" /\ condition[t] = "healthy"
     /\ t \notin leased
     /\ ExecutionDependenciesSatisfied(t)
     /\ \A r \in ActiveTasks : ~HardConflict(t, r)}

RiskOrder == [low |-> 0, medium |-> 1, high |-> 2]
Before(s, t) ==
  LET ds == DescendantCount(s)
      dt == DescendantCount(t)
      rs == RiskOrder[Packet[s].risk]
      rt == RiskOrder[Packet[t].risk] IN
  ds > dt \/ (ds = dt /\ (rs < rt \/ (rs = rt /\ s < t)))

(* Mutation: a candidate is dropped for every earlier candidate it conflicts with. *)
ReadyTasksTooStrict ==
  {t \in Candidates : \A s \in Candidates : Before(s, t) => ~HardConflict(t, s)}

(* ready_tasks: each candidate, in that order, is kept unless it hard-conflicts with one kept *)
(* before it.                                                                                 *)
ReadyTasks ==
  CHOOSE kept \in SUBSET Candidates :
    \A t \in Candidates : t \in kept <=> ~\E s \in kept : Before(s, t) /\ HardConflict(t, s)

----------------------------------------------------------------------------
(* state.py *)

(* _ALLOWED_TRANSITIONS *)
AllowedTransitions == [
  planned |-> {"ready"}, ready |-> {"executing"}, executing |-> {"review"},
  review |-> {"executing", "verification"},
  verification |-> {"executing", "integration", "complete"},
  integration |-> {"executing", "verification", "complete"}, complete |-> {}]

----------------------------------------------------------------------------
(* The coordinator and the workers *)

InFlight(t) == t \in leased \/ t \in batch
               \/ phase[t] \in {"executing", "review", "verification", "integration"}

(* One call of ready_tasks. *)
SelectBatch ==
  /\ batch = {}
  /\ ReadyTasks # {}
  /\ batch' = ReadyTasks
  /\ unseen' = [t \in TaskIds |->
       IF t \in batch' THEN {u \in TaskIds : InFlight(u) /\ u \notin ActiveTasks} ELSE unseen[t]]
  /\ UNCHANGED <<phase, condition, leased, downs>>

(* A selected task gets its lease. *)
LeaseTask(t) ==
  /\ t \in batch
  /\ batch' = batch \ {t}
  /\ leased' = leased \cup {t}
  /\ UNCHANGED <<phase, condition, unseen, downs>>

(* A lease ends without the work having started; the task may be selected again. *)
LoseLease(t) ==
  /\ t \in leased /\ phase[t] = "ready" /\ downs < MaxDowns
  /\ downs' = downs + 1
  /\ leased' = leased \ {t}
  /\ UNCHANGED <<phase, condition, batch, unseen>>

(* validate_transition, with what the other queries of the plane allow. *)
ReportPhase(t, target) ==
  /\ target \in AllowedTransitions[phase[t]]
  /\ target = "executing" => t \in leased
  /\ target = "integration" => IntegrationDependenciesSatisfied(t)
  /\ PhaseOrder(target) < PhaseOrder(phase[t]) => downs < MaxDowns
  /\ downs' = IF PhaseOrder(target) < PhaseOrder(phase[t]) THEN downs + 1 ELSE downs
  /\ phase' = [phase EXCEPT ![t] = target]
  /\ leased' = IF target = "complete" THEN leased \ {t} ELSE leased
  /\ UNCHANGED <<condition, batch, unseen>>

(* Mutation: the condition is written where the phase belongs. *)
ReportConditionAsPhase(t, c) ==
  /\ phase[t] # "complete" /\ condition[t] # c
  /\ c = "healthy" \/ downs < MaxDowns
  /\ downs' = IF c = "healthy" THEN downs ELSE downs + 1
  /\ phase' = [phase EXCEPT ![t] = c]
  /\ UNCHANGED <<condition, leased, batch, unseen>>

(* A worker's or reviewer's condition report. *)
ReportCondition(t, c) ==
  /\ phase[t] # "complete" /\ condition[t] # c
  /\ c = "healthy" \/ downs < MaxDowns
  /\ downs' = IF c = "healthy" THEN downs ELSE downs + 1
  /\ condition' = [condition EXCEPT ![t] = c]
  /\ UNCHANGED <<phase, leased, batch, unseen>>

SchedulerNext ==
  \/ SelectBatch
  \/ \E t \in TaskIds :
       \/ LeaseTask(t) \/ LoseLease(t)
       \/ \E p \in ToSet(Phases) : ReportPhase(t, p)
       \/ \E c \in {"healthy", "blocked"} : ReportCondition(t, c)

SchedulerSpec == SchedulerInit /\ [][SchedulerNext]_schedulerVars

----------------------------------------------------------------------------
(* Properties *)

(* Every variable has its shape. *)
SchedulerTypeOK ==
  /\ phase \in [TaskIds -> ToSet(Phases)]
  /\ condition \in [TaskIds -> Conditions]
  /\ leased \subseteq TaskIds /\ batch \subseteq TaskIds
  /\ unseen \in [TaskIds -> SUBSET TaskIds]
  /\ downs \in 0..MaxDowns

(* Two tasks touch the same thing: a side effect of both, or a file tree, identity or schema *)
(* that at least one of them may write.                                                      *)
Clash(s, t) ==
  /\ s # t
  /\ \E k \in Packet[s].keys, l \in Packet[t].keys :
       /\ SameKey(k, l)
       /\ \/ k[1] = "side-effect"
          \/ /\ k[1] \in {"file", "identity", "schema"}
             /\ "write" \in {Packet[s].mode, Packet[t].mode}

(* ready_tasks: two tasks that clash execute together only if, when one of them was selected, *)
(* the other one was in flight without counting as active - leased and not started, unhealthy *)
(* or past execution.  Every other overlap is excluded by the selection alone.                *)
ClashesOverlapOnlyUnseen ==
  \A s, t \in ActiveTasks : Clash(s, t) => s \in unseen[t] \/ t \in unseen[s]

(* ready_tasks leaves a candidate out only for a kept one it hard-conflicts with, so a call  *)
(* never returns nothing while a candidate exists, and no compatible candidate waits.        *)
SelectionIsMaximal ==
  \A t \in Candidates \ ReadyTasks : \E s \in ReadyTasks : HardConflict(s, t)

(* The selection is neither too wide nor too narrow.                                         *)
SelectionIsExact == ClashesOverlapOnlyUnseen /\ SelectionIsMaximal
=============================================================================
