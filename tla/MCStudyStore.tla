---------------------------- MODULE MCStudyStore -----------------------------
(***************************************************************************)
(* Model-checking instances of the Study store, and of three components that *)
(* share no state with it: the checkpoint pipeline and the scheduler and the *)
(* registry of the agent coordination. Every behaviour is a behaviour of one *)
(* of them.                                                                 *)
(***************************************************************************)
EXTENDS StudyStore, CheckpointPipeline, CoordinationScheduler, CoordinationRegistry, TLC

Results == {"strong", "poor", "drifted"}
ControlledResults == Results \ {"drifted"}
EligibleResults == Results \ {"poor"}
Scores == [r \in Results |-> IF r = "strong" THEN 2 ELSE 1]

(* A writer whose workflow and file two readers share, one of which waits for *)
(* the writer to be integrated and the other for it to be ready.             *)
ThreeTasks == <<
 [mode |-> "write", keys |-> {<<"file", <<"a">>>>, <<"workflow", "w">>}, deps |-> {},
  risk |-> "high"],
 [mode |-> "read_only", keys |-> {<<"file", <<"a", "b">>>>, <<"side-effect", "x">>},
  deps |-> {[on |-> 1, kind |-> "integration", phase |-> "complete"]}, risk |-> "medium"],
 [mode |-> "read_only", keys |-> {<<"side-effect", "x">>, <<"workflow", "w">>},
  deps |-> {[on |-> 1, kind |-> "hard", phase |-> "ready"]}, risk |-> "high"]>>

Symmetry == Permutations(Coordinators) \union Permutations(WriteTasks) \union Permutations(Owners)

-----------------------------------------------------------------------------
VARIABLE part  \* the component that runs; the others keep their initial state

Parts == {"store", "pipeline", "scheduler", "registry"}

GroupInit ==
  /\ part \in Parts
  /\ Init
  /\ PipelineInit
  /\ SchedulerInit
  /\ RegistryInit

groupVars == <<part, vars, pipelineVars, schedulerVars, registryVars>>

GroupNext ==
  \/ part = "store" /\ Next /\ UNCHANGED <<part, pipelineVars, schedulerVars, registryVars>>
  \/ part = "pipeline" /\ PipelineNext /\ UNCHANGED <<part, vars, schedulerVars, registryVars>>
  \/ part = "scheduler" /\ SchedulerNext /\ UNCHANGED <<part, vars, pipelineVars, registryVars>>
  \/ part = "registry" /\ RegistryNext /\ UNCHANGED <<part, vars, pipelineVars, schedulerVars>>
  \/ part \notin {"store"} /\ UNCHANGED groupVars  \* the others stop at their bounds

GroupSpec == GroupInit /\ [][GroupNext]_groupVars

==============================================================================
