-------------------------- MODULE MCPaperCollection --------------------------
(***************************************************************************)
(* Model-checking instances of the paper collector and of components that   *)
(* share no state with it: the portfolio policies, the process containment and *)
(* the tools that read the repository on GitHub and delete branches from it. *)
(* Every behaviour is a behaviour of one of them. A slot of the collector is two ticks, a decision *)
(* expires after one, and the silence limit and the terminal grace are both *)
(* two slots, so that every time-out can meet every step.                   *)
(***************************************************************************)
EXTENDS PaperCollector, PortfolioPolicies, ProcessContainment, RepositoryTools, TLC

(* Two symbols of 100 and 60 permille, an entry, an exit and a reversal, and   *)
(* limits that the entries of both symbols exceed once the drawdown bites.     *)
TwoTargets == <<100, 60>>
BarLimits == [gross |-> 160, abs |-> 100, turnover |-> 300]
FourActions == << <<0, 0>>, <<3, 3>>, <<2, 0>>, <<1, 0>> >>
NegativeValue == -40
HeadValues == {NegativeValue, 80}
Before(n) == -n
GoodModel == [schema |-> "td8", cutoff |-> 0, evalStart |-> 0, actions |-> FourActions,
              width |-> 3, basis |-> TRUE, canonical |-> TRUE, pinned |-> TRUE, context |-> "fit"]
DeskOf(kind, latency, model) ==
  [kind |-> kind, latency |-> latency, holdRelative |-> model.schema = "td8", margin |-> 0,
   model |-> model, context |-> "fit", evalCost |-> 2, trainCost |-> 1, uncertainty |-> 10,
   action |-> <<3, 0>>, rebalance |-> 2, longOnly |-> TRUE, wMax |-> 100, grossMax |-> 150,
   gamma |-> 1, penalty |-> 1, minTrade |-> 10, interval |-> 2, anchor |-> 0, history |-> 2,
   warm |-> <<Before(4), Before(2)>>, strategies |-> <<"one", "two">>,
   forecasts |-> {0, 5}, vols |-> {50, 100}]
Td8 == [GoodModel EXCEPT !.cutoff = NegativeValue]
Legacy == [Td8 EXCEPT !.schema = "legacy", !.basis = FALSE]
SomeDesks ==
  {DeskOf("linear", l, Td8) : l \in {0, 1, 2}} \cup {DeskOf("linear", 1, Legacy)}
    \cup {DeskOf("conservative", 1, [m EXCEPT !.width = 5]) : m \in {Td8, Legacy}}
    \cup {DeskOf("shallow", 0, Td8), DeskOf("shallow", 0, [Td8 EXCEPT !.basis = FALSE])}
    \cup {DeskOf(k, 1, m) : k \in {"fixed", "ridge"}, m \in {Td8, Legacy}}
    \cup {DeskOf(k, 1, Td8) : k \in {"hold", "adapter", "cash", "buy", "allocator"}}
    \cup {[DeskOf("linear", 0, Td8) EXCEPT !.margin = 1],
          [DeskOf("linear", 0, Legacy) EXCEPT !.margin = 1],
          [DeskOf("linear", 0, Td8) EXCEPT !.context = "other"],
          [DeskOf("adapter", 0, Td8) EXCEPT !.strategies = <<"one", "one">>],
          [DeskOf("allocator", 0, Td8) EXCEPT !.warm = <<Before(2), 0>>],
          [DeskOf("allocator", 0, Td8) EXCEPT !.anchor = 2]}

Symmetry == Permutations(Procs)

-----------------------------------------------------------------------------
VARIABLE part  \* the component that runs; the others keep their initial state

Parts == {"collector", "desk", "containment", "tools"}

GroupInit ==
  /\ part \in Parts
  /\ Init
  /\ DeskInit
  /\ ContainmentInit
  /\ ToolInit
  /\ part # "containment" => keeper.mode = "job"
  /\ part # "tools" => tool.kind = "registry"

groupVars == <<part, vars, deskVars, containmentVars, toolVars>>

GroupNext ==
  \/ part = "collector" /\ Next /\ UNCHANGED <<part, deskVars, containmentVars, toolVars>>
  \/ part = "desk" /\ DeskNext /\ UNCHANGED <<part, vars, containmentVars, toolVars>>
  \/ part = "containment" /\ ContainmentNext /\ UNCHANGED <<part, vars, deskVars, toolVars>>
  \/ part = "tools" /\ ToolNext /\ UNCHANGED <<part, vars, deskVars, containmentVars>>

GroupSpec == GroupInit /\ [][GroupNext]_groupVars

==============================================================================
