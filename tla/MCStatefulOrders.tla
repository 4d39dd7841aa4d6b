-------------------------- MODULE MCStatefulOrders ---------------------------
(***************************************************************************)
(* Model-checking instances of the order lifecycle, of the replay loop that *)
(* decides the targets, of the portfolio policy from its training to its    *)
(* decisions, and of the review gate. Every behaviour is a behaviour of one *)
(* of them.                                                                 *)
(***************************************************************************)
EXTENDS StatefulOrders, StrategyReplay, PortfolioInference, ReviewGate

Targets == {-1, 0, 2}

(* Two symbols share the leverage cap. *)
Session ==
    [symbols |-> 2, stop |-> 2, latency |-> 1, retainDebt |-> FALSE,
     carry |-> TRUE, short |-> TRUE, kind |-> "market", settle |-> FALSE,
     profile |-> FALSE, roster |-> {}, direct |-> {}, orders |-> 0,
     positions |-> Targets, flows |-> {-2, 0}, costs |-> {0},
     volumes |-> {0, 1, 3}]

(* Three intervals are reserved to close one symbol with a latency of two. *)
Settlement ==
    [Session EXCEPT !.symbols = 1, !.stop = 6, !.latency = 2, !.settle = TRUE]

(* Orders of a direct caller on one symbol: entries at the open, on a stop  *)
(* and at a limit, and a closing order; the stop and the closing order live *)
(* for one bar.                                                             *)
Intent(want, kind, tif, life, reduce) ==
    [sym |-> 1, want |-> want, kind |-> kind, tif |-> tif, life |-> life,
     reduce |-> reduce]
LastBar == 3
DirectIntents ==
    {Intent(2, "market", "gtc", LastBar + 1, FALSE),
     Intent(2, "stop_market", "gtc", 1, FALSE),
     Intent(-2, "limit", "ioc", LastBar + 1, FALSE),
     Intent(-2, "market", "gtc", 1, TRUE)}
DirectCaller ==
    [Session EXCEPT !.symbols = 1, !.stop = LastBar, !.direct = DirectIntents,
                    !.orders = 3, !.positions = {0}, !.flows = {0},
                    !.costs = {0, 3}, !.volumes = {1, 3}]

(* The same with debts retained, losses between and within bars, and        *)
(* without carried remainders.                                              *)
DebtCaller ==
    [DirectCaller EXCEPT !.retainDebt = TRUE, !.carry = FALSE, !.orders = 2,
                         !.flows = {-2, 0}]

AllSetups == {Session, Settlement, DirectCaller, DebtCaller}

FundingRates == {-1, 0}

(* Two configurations that differ in one seed; the cost the policy was       *)
(* trained under, environments that start too early or cost something else, *)
(* and one declared stress scenario.                                        *)
PolicyConfig(ppoSeed) ==
    [total |-> 4, nSteps |-> 2, batch |-> 2, epochs |-> 1, resetSeed |-> 1,
     ppoSeed |-> ppoSeed, executionSeed |-> 3]
PolicyConfigs == {PolicyConfig(2), PolicyConfig(3)}
PolicyCost(latency, fee) == [latency |-> latency, fee |-> fee, leverage |-> 1]
TrainedCost == PolicyCost(1, 1)
PolicyEnv(start, cost) == [start |-> start, stop |-> 9, cost |-> cost, session |-> FALSE]
PolicyEnvs ==
    {PolicyEnv(5, TrainedCost), PolicyEnv(4, TrainedCost), PolicyEnv(5, PolicyCost(2, 1))}
PolicyScenarios ==
    {[role |-> "stress", base |-> TrainedCost, cost |-> PolicyCost(2, 1), changed |-> {"latency"}]}
NoOrder ==
    [present |-> FALSE, kind |-> "market", limit |-> FALSE, stop |-> FALSE,
     reference |-> FALSE, submitted |-> 0]
RestingLimit ==
    [present |-> TRUE, kind |-> "limit", limit |-> TRUE, stop |-> FALSE,
     reference |-> TRUE, submitted |-> 5]
PolicySnapshot(index, stop, left, resting) ==
    [index |-> index, agentStop |-> stop, remaining |-> left, shift |-> 0, order |-> resting]
PolicySnapshots ==
    {PolicySnapshot(5, 7, 2, NoOrder), PolicySnapshot(5, 6, 1, NoOrder),
     PolicySnapshot(6, 7, 1, RestingLimit), PolicySnapshot(4, 7, 3, NoOrder)}

(* Two comments of different writers ask for the same commit; the document  *)
(* shows its heading inside a fence before the real one.                    *)
TwoRequests ==
    <<[user |-> "ann", tag |-> "v1", sha |-> "c1"], [user |-> "bob", tag |-> "v1", sha |-> "c1"]>>
MarkdownLine(kind, level, title) == [kind |-> kind, level |-> level, title |-> title]
ReviewDocument ==
    <<MarkdownLine("fence", 3, "tick"), MarkdownLine("heading", 2, "protocol"),
      MarkdownLine("fence", 3, "tick"), MarkdownLine("heading", 2, "protocol"),
      MarkdownLine("text", 0, "body"), MarkdownLine("heading", 1, "next")>>
ReviewDocuments == [s \in ReviewShas |-> ReviewDocument]

-----------------------------------------------------------------------------
VARIABLE part  \* the component that runs; the others keep their initial state

Parts == {"orders", "replay", "policy", "review"}

GroupInit ==
  /\ part \in Parts
  /\ Init
  /\ ReplayInit
  /\ InferenceInit
  /\ ReviewInit
  /\ part # "orders" => setup = Session
  /\ part # "replay" => replay.mode = "single"

groupVars == <<part, vars, replayVars, policyVars, reviewVars>>

GroupNext ==
  \/ part = "orders" /\ Next /\ UNCHANGED <<part, replayVars, policyVars, reviewVars>>
  \/ part = "replay" /\ ReplayNext /\ UNCHANGED <<part, vars, policyVars, reviewVars>>
  \/ part = "policy" /\ InferenceNext /\ UNCHANGED <<part, vars, replayVars, reviewVars>>
  \/ part = "review" /\ ReviewNext /\ UNCHANGED <<part, vars, replayVars, policyVars>>

GroupSpec == GroupInit /\ [][GroupNext]_groupVars

==============================================================================
