---------------------------- MODULE MCStudyLedger ----------------------------
(***************************************************************************)
(* Model-checking instances of the Study with the authorizers of its final  *)
(* evaluation, and of other publication protocols that share no state with  *)
(* it: the artifact store, the comparison attempts, the normalization       *)
(* replication, the candidate runs, the Ridge comparison and the            *)
(* decision-value study. Every behaviour is a behaviour of one of them.     *)
(***************************************************************************)
EXTENDS FinalAuthorization, ArtifactStore, ComparisonAttempt, NormalizationReplication, CandidateRun, RidgeComparison, DecisionValueStudy, TLC

(* low and twin tie; strong beats both; poor is controlled and not          *)
(* eligible; drifted is not controlled although it looks eligible.          *)
Results == {"low", "twin", "strong", "poor", "drifted"}
ControlledResults == Results \ {"drifted"}
EligibleResults == Results \ {"poor"}
Scores == [r \in Results |-> IF r = "strong" THEN 2 ELSE 1]
TwoSlots == <<"control", "candidate">>

(* Candidate configurations: age-aware; plain, with a start given in another     *)
(* time zone; a holding time without the age-aware observation, which is        *)
(* refused; and one that starts before its cutoff. In the second Dataset a bar  *)
(* before the cutoff became available after it.                                 *)
Stamp(w, o) == [wall |-> w, offset |-> o, lossy |-> FALSE]
Plain ==
  [observation |-> "v2", hold |-> 0, settle |-> FALSE, risk |-> "none", cutoff |-> Stamp(2, 0),
   start |-> Stamp(3, 1), stop |-> Stamp(5, 1), layout |-> "sequential", rollout |-> 0,
   timesteps |-> 3, symbols |-> 1]
AgeAware ==
  [Plain EXCEPT !.observation = "v3", !.hold = 1, !.settle = TRUE, !.risk = "strict",
                !.layout = "interleaved", !.rollout = 2]
SomeConfigs ==
  {Plain, AgeAware, [Plain EXCEPT !.hold = 1], [Plain EXCEPT !.start = Stamp(1, 0), !.settle = TRUE]}
OnTime == [at |-> [i \in 0..4 |-> i], available |-> [i \in 0..4 |-> i], hourly |-> TRUE]
SomeDatasets == <<OnTime, [OnTime EXCEPT !.available = [i \in 0..4 |-> IF i = 1 THEN 3 ELSE i]]>>

(* Six bars; one whose features are missing, one whose price arrives late.       *)
SixBars ==
  [at |-> [i \in 0..5 |-> i], close |-> [i \in 0..5 |-> <<4, 5, 3, 6, 4, 4>>[i + 1]],
   rate |-> [i \in 0..5 |-> IF i = 2 THEN 1 ELSE 0], usable |-> [i \in 0..5 |-> i # 1],
   seenAt |-> [i \in 0..5 |-> IF i = 4 THEN 6 ELSE i]]
Window(s, t, l, c, h, d) ==
  [start |-> s, stop |-> t, latency |-> l, cutoff |-> c, horizon |-> h, diagnose |-> d]
SomeWindows ==
  {Window(1, 5, 0, 1, 2, TRUE), Window(0, 4, 1, 0, 2, TRUE), Window(2, 5, 2, 1, 1, FALSE),
   Window(1, 4, 0, 2, 1, FALSE)}
ThreeArms == <<"cash", "hysteresis", "cost">>

(* Studies of one block, of two, on a Dataset with a late bar in the training    *)
(* window, without a label prefix, and with a window that ends at its cutoff.    *)
BlockOf(s, e, c) ==
  [start |-> s, stop |-> e, step |-> 3, cutoff |-> c, evalStart |-> c + 1, evalStop |-> c + 3]
OneBlock ==
  [scope |-> "synthetic_only", authorized |-> FALSE, published |-> TRUE, dataset |-> "early",
   horizon |-> 2, reserve |-> 1, blocks |-> <<BlockOf(0, 12, 15)>>, prefix |-> 1,
   minFit |-> 0, grid |-> <<0, 1>>, fraction |-> <<1, 4>>]
SomeValueProtocols ==
  {OneBlock,
   [OneBlock EXCEPT !.blocks = <<BlockOf(0, 12, 15), BlockOf(3, 15, 18)>>],
   [OneBlock EXCEPT !.dataset = "gap"], [OneBlock EXCEPT !.prefix = 0],
   [OneBlock EXCEPT !.blocks = <<BlockOf(0, 12, 14)>>]}
SomeFeeds ==
  [d \in {"early", "gap"} |->
    [i \in 0..22 |-> IF (d = "early" /\ i = 1) \/ (d = "gap" /\ i = 7) THEN 17 ELSE i]]

(* What a candidate run and a Ridge comparison publish is what was computed: a    *)
(* loadable candidate run is the replay it names, and the published comparison      *)
(* balances with its ledgers (candidate.py run_candidate, candidate_artifact.py     *)
(* load_candidate_run_artifact; ridge_comparison.py, ridge_comparison_artifact.py). *)
PublishedResultsAreTrue == CandidateResultIsTrue /\ PublishedComparisonBalances

Symmetry == Permutations(Authorizers) \union Permutations(Callers) \union Permutations(FitOutcomes) \union Permutations(ValueRuns)

-----------------------------------------------------------------------------
VARIABLE part  \* the component that runs; the others keep their initial state

Parts == {"study", "artifacts", "comparison", "replication", "candidate", "ridge", "value"}

GroupInit ==
  /\ part \in Parts
  /\ FinalInit
  /\ ArtifactInit
  /\ ComparisonInit
  /\ ReplicationInit
  /\ CandidateInit
  /\ RidgeInit
  /\ ValueInit
  /\ part # "comparison" => attemptKind = "family"
  /\ part # "candidate" => recorded = NoResult
  /\ part # "ridge" => window = Window(1, 5, 0, 1, 2, TRUE)

groupVars == <<part, vars, finalVars, storeVars, comparisonVars, replicationVars, candidateVars, ridgeVars, valueVars>>

GroupNext ==
  \/ part = "study" /\ FinalNext /\ UNCHANGED <<part, storeVars, comparisonVars, replicationVars, candidateVars, ridgeVars, valueVars>>
  \/ part = "artifacts" /\ ArtifactNext /\ UNCHANGED <<part, vars, finalVars, comparisonVars, replicationVars, candidateVars, ridgeVars, valueVars>>
  \/ part = "comparison" /\ ComparisonNext /\ UNCHANGED <<part, vars, finalVars, storeVars, replicationVars, candidateVars, ridgeVars, valueVars>>
  \/ part = "replication" /\ ReplicationNext /\ UNCHANGED <<part, vars, finalVars, storeVars, comparisonVars, candidateVars, ridgeVars, valueVars>>
  \/ part = "candidate" /\ CandidateNext /\ UNCHANGED <<part, vars, finalVars, storeVars, comparisonVars, replicationVars, ridgeVars, valueVars>>
  \/ part = "ridge" /\ RidgeNext /\ UNCHANGED <<part, vars, finalVars, storeVars, comparisonVars, replicationVars, candidateVars, valueVars>>
  \/ part = "value" /\ ValueNext /\ UNCHANGED <<part, vars, finalVars, storeVars, comparisonVars, replicationVars, candidateVars, ridgeVars>>

GroupSpec == GroupInit /\ [][GroupNext]_groupVars

==============================================================================
