-------------------------- MODULE PortfolioPolicies --------------------------
(***************************************************************************)
(* The portfolio policies and the bar they decide on (strategies:           *)
(* decision_value.py, decision_value_shallow.py, portfolio.py,              *)
(* portfolio_observation.py, portfolio_adapter.py, portfolio_policy_codec.py,*)
(* allocation/; the study's baselines in decision_value_dev_study.py;       *)
(* risk/pretrade.py).                                                       *)
(*                                                                          *)
(* A desk is an account with at most one order a symbol. At every bar the    *)
(* policy proposes weights, the risk constrains them, the order book is      *)
(* reconciled with them (simulation/orders/reconciliation.py) and the orders *)
(* fill in part, in full or not at all. Weights are permille of equity, cut  *)
(* off towards zero; marks do not move, so a weight is a quantity. What a    *)
(* model predicts and what a strategy intends is any value on offer.         *)
(***************************************************************************)
EXTENDS Integers, Sequences, FiniteSets, FiniteSetsExt, SequencesExt

CONSTANTS DeskSetups,   \* policies on offer with their models, contexts and latencies
          DeskTargets,  \* symbol |-> target_abs_weight
          DeskLimits,   \* max_gross, max_abs_weight and max_turnover
          DeskScales,   \* what the drawdown leaves of the limits, in percent
          DeskActions,  \* sequence of candidate actions, symbol |-> code
          DeskValues,   \* values a head may predict for an action
          DustLeft,     \* what an almost complete fill leaves of an order
          MaxBars,      \* bound: decisions
          NoDecision

DeskSymbols == DOMAIN DeskTargets

\* PreTradeRiskConfig.
LimitsAreValid(limits) ==
  limits.gross \in 1..10000 /\ limits.abs \in 1..limits.gross /\ limits.turnover \in 0..(2 * limits.gross)

ASSUME DeskAssumption ==
  /\ DeskSymbols = 1..Len(DeskTargets) /\ MaxBars \in Nat /\ LimitsAreValid(DeskLimits)
  /\ DeskScales \subseteq 0..100 /\ 100 \in DeskScales
  /\ DeskTargets \in Seq(Nat) /\ DustLeft \in Nat
  /\ \A setup \in DeskSetups : setup.latency \in Nat

VARIABLES desk,      \* the policy with its memory, the account and its orders
          decision   \* the last bar, as it was decided

deskVars == <<desk, decision>>

HoldCode == 0
ShortCode == 1
FlatCode == 2
LongCode == 3

AbsOf(x) == IF x < 0 THEN -x ELSE x
SignOf(x) == IF x < 0 THEN -1 ELSE IF x > 0 THEN 1 ELSE 0
Part(w, n, d) == SignOf(w) * ((AbsOf(w) * n) \div d)
SumOver(f) == MapThenSumSet(LAMBDA s : f[s], DeskSymbols)
GrossOf(w) == SumOver([s \in DeskSymbols |-> AbsOf(w[s])])
DistanceOf(v, w) == GrossOf([s \in DeskSymbols |-> v[s] - w[s]])
ScaledBy(w, n, d) == [s \in DeskSymbols |-> Part(w[s], n, d)]
JointHold == [s \in DeskSymbols |-> HoldCode]
ProposalOf(target, hold) == [target |-> target, hold |-> hold]
AskedFor(action, proposal) == [action |-> action, target |-> proposal.target, hold |-> proposal.hold]
NoAction == [s \in DeskSymbols |-> FlatCode]

-----------------------------------------------------------------------------
(* The models and the policies built from them.                             *)

ValueArms == {"linear", "conservative", "shallow"}

\* decode_portfolio_action_codes.
ActionIsValid(a) == a \in [DeskSymbols -> HoldCode..LongCode]

\* What the three models have in common: the cutoff, the roster and the state.
ModelIsSound(m, perSymbol) ==
  /\ m.schema \in {"legacy", "td8"} /\ m.cutoff < m.evalStart
  /\ Len(m.actions) >= 2 /\ Head(m.actions) = JointHold /\ IsInjective(m.actions)
  /\ \A i \in DOMAIN m.actions : ActionIsValid(m.actions[i])
  /\ m.width = 1 + Cardinality(DeskSymbols) * perSymbol

\* LinearDecisionValueModel, ConservativeLinearDecisionValueModel (which sees the orders)
\* and ShallowDecisionValueModel (whose basis is normalized under TD8 alone).
LinearModelIsValid(m) == ModelIsSound(m, 1)
ConservativeModelIsValid(m) == ModelIsSound(m, 2)
ShallowModelIsValid(m) == ModelIsSound(m, 1) /\ (m.basis <=> m.schema = "td8")

\* The loaders: canonical text under the pinned digest.
Pinned(m) == m.canonical /\ m.pinned
LinearModelLoads(m) == Pinned(m) /\ LinearModelIsValid(m)
ConservativeModelLoads(m) == Pinned(m) /\ ConservativeModelIsValid(m)
ShallowModelLoads(m) == Pinned(m) /\ ShallowModelIsValid(m)

\* _validated_hold_relative: TD8 models score against HOLD while legacy ones do not, and
\* only the former have a margin.
HoldRelativeIsValid(p) ==
  /\ p.holdRelative <=> p.model.schema = "td8"
  /\ p.margin >= 0 /\ (p.margin # 0 => p.holdRelative)

\* LinearDecisionValueRuntimeContext.
ContextMatches(p) == p.model.context = p.context

\* SingleSymbolPortfolioPolicyAdapter: a budget and a strategy object of its own a symbol.
AdapterBuilds(p) ==
  /\ DOMAIN p.strategies = DeskSymbols /\ IsInjective(p.strategies)
  /\ \A s \in DeskSymbols : DeskTargets[s] \in 1..1000

\* CostAwareAllocationPolicy.
AllocatorBuilds(p) ==
  /\ p.interval >= 1 /\ p.anchor \in 0..(p.interval - 1) /\ p.history >= 2
  /\ p.wMax > 0 /\ p.grossMax > 0 /\ p.gamma > 0 /\ p.penalty > 0 /\ p.minTrade \in 0..999

\* _load_warmup: closed decision periods in order.
WarmupLoads(p) ==
  /\ \A i \in DOMAIN p.warm : p.warm[i] % p.interval = p.anchor
  /\ \A i \in 1..(Len(p.warm) - 1) : p.warm[i] < p.warm[i + 1]

\* The constructors of the three value policies.
ValuePolicyBuilds(p) ==
  /\ CASE p.kind = "linear"       -> LinearModelLoads(p.model)
       [] p.kind = "conservative" -> ConservativeModelLoads(p.model)
       [] OTHER                   -> ShallowModelLoads(p.model)
  /\ ContextMatches(p) /\ HoldRelativeIsValid(p)

PolicyBuilds(p) ==
  CASE p.kind \in ValueArms -> ValuePolicyBuilds(p)
    [] p.kind = "adapter"    -> AdapterBuilds(p)
    [] p.kind = "allocator"  -> AllocatorBuilds(p) /\ WarmupLoads(p)
    [] OTHER                 -> TRUE

-----------------------------------------------------------------------------
(* The snapshot, and the posture in it.                                     *)

\* PortfolioPendingOrderSnapshot: what is left, and whether the market never saw it.
OrderView(order) == [left |-> order.left, waiting |-> order.left # 0 /\ ~order.worked]

\* PortfolioRiskLimits with the drawdown in it, as preserve_posture_aware_proposal reads it.
ScaledLimits(d) == [abs |-> Part(DeskLimits.abs, d.scale, 100), gross |-> Part(DeskLimits.gross, d.scale, 100)]

\* build_portfolio_decision_snapshot: the desk as a policy sees it.
SnapshotOf(d) == [d EXCEPT !.order = [s \in DeskSymbols |-> OrderView(d.order[s])]]

\* PortfolioDecisionSnapshot: a decision is taken before the agent's last bar.
SnapshotIsSound(d) == d.bars < MaxBars /\ DOMAIN d.order = DeskSymbols

\* compute_pending_order_weights.
PendingWeight(d, s) == d.order[s].left

\* Mutation: an order that is being worked is not in flight.
InFlightWaiting(d, s) == d.order[s].left # 0 /\ d.order[s].waiting

\* An order that waits, or more than dust of one that is being worked.
InFlight(d, s) ==
  /\ d.order[s].left # 0
  /\ d.order[s].waiting \/ AbsOf(PendingWeight(d, s)) > (2 * DeskTargets[s]) \div 100

Flattening(d, s) == InFlight(d, s) /\ d.act[s] + PendingWeight(d, s) = 0

\* compute_effective_posture_weights.
EffectiveWeight(d, s) ==
  IF Flattening(d, s) THEN 0
  ELSE d.act[s] + (IF InFlight(d, s) THEN PendingWeight(d, s) ELSE 0)

\* candidate_target_weights.
CandidateTargets(d, a) ==
  [s \in DeskSymbols |->
    CASE a[s] = HoldCode -> EffectiveWeight(d, s)
      [] a[s] = FlatCode -> 0
      [] a[s] = LongCode -> DeskTargets[s]
      [] OTHER           -> -DeskTargets[s]]

\* _preserve_posture_aware_proposal_v1, kept as it was for the legacy models.
ProposalV1(d, a, nonPositive) ==
  LET eff(s)  == d.act[s] + PendingWeight(d, s)
      star(s) == CASE a[s] = LongCode -> 1 [] a[s] = ShortCode -> -1 [] a[s] = FlatCode -> 0
                   [] OTHER -> SignOf(eff(s))
      keeps(s) == IF nonPositive THEN eff(s) = 0
                  ELSE \/ star(s) = 0 /\ d.act[s] = 0 /\ PendingWeight(d, s) = 0
                       \/ star(s) # 0 /\ star(s) = SignOf(eff(s)) /\ PendingWeight(d, s) = 0
      goal(s) == IF keeps(s) THEN d.act[s]
                 ELSE IF nonPositive \/ star(s) = 0 THEN 0
                 ELSE IF star(s) = SignOf(eff(s)) THEN eff(s)
                 ELSE star(s) * DeskTargets[s]
  IN  ProposalOf([s \in DeskSymbols |-> goal(s)], {s \in DeskSymbols : keeps(s)})

\* What one symbol is asked to become under the scaled cap of a symbol.
GoalV2(d, s, code, cap) ==
  LET eff  == EffectiveWeight(d, s)
      star == CASE code = HoldCode -> SignOf(eff) [] code = FlatCode -> 0
                [] code = LongCode -> 1 [] OTHER -> -1
      fresh == star * Min({DeskTargets[s], cap})
  IN  IF star = 0
      THEN IF Flattening(d, s) \/ d.act[s] # 0 THEN [goal |-> 0, hold |-> FALSE]
           ELSE [goal |-> d.act[s], hold |-> d.order[s].left = 0]
      ELSE IF star = SignOf(eff) /\ InFlight(d, s) /\ AbsOf(eff) <= cap
      THEN [goal |-> eff, hold |-> FALSE]
      ELSE IF star = SignOf(eff) /\ SignOf(d.act[s]) = star
      THEN [goal |-> d.act[s], hold |-> TRUE]
      ELSE [goal |-> fresh, hold |-> FALSE]

\* preserve_posture_aware_proposal, td8_v2: the free symbols make room for the held ones,
\* and when those alone exceed the limit everything shrinks.
ProposalV2(d, a) ==
  LET cap   == ScaledLimits(d).abs
      room  == ScaledLimits(d).gross
      goals == [s \in DeskSymbols |-> GoalV2(d, s, a[s], cap)]
      w     == [s \in DeskSymbols |-> goals[s].goal]
      held  == {s \in DeskSymbols : goals[s].hold}
      heldGross == GrossOf([s \in DeskSymbols |-> IF s \in held THEN w[s] ELSE 0])
      freeGross == GrossOf(w) - heldGross
  IN  CASE GrossOf(w) <= room -> ProposalOf(w, held)
        [] GrossOf(w) > room /\ heldGross <= room /\ freeGross > 0 ->
             ProposalOf([s \in DeskSymbols |->
                          IF s \in held THEN w[s] ELSE Part(w[s], room - heldGross, freeGross)], held)
        [] OTHER -> ProposalOf(ScaledBy(w, room, GrossOf(w)), {})

-----------------------------------------------------------------------------
(* The choice of a value head.                                              *)

\* compute_hold_relative_cost_adjustment: the difference of the costs on what the action
\* trades now and later beyond what HOLD would.
HoldRelativeCost(d, p, a) ==
  LET t == CandidateTargets(d, a)
      e == [s \in DeskSymbols |-> EffectiveWeight(d, s)]
  IN  (p.evalCost - p.trainCost)
        * (DistanceOf(t, e) + GrossOf(t) - GrossOf(e))

\* round_trip_cost_fraction.
RoundTripCost(p, w) == 2 * p.evalCost * GrossOf(w)

\* portfolio_action_to_proposal, which the legacy conservative head charges for.
ActionWeights(d, a) ==
  [s \in DeskSymbols |->
    CASE a[s] = HoldCode -> d.act[s] [] a[s] = FlatCode -> 0
      [] a[s] = LongCode -> DeskTargets[s] [] OTHER -> -DeskTargets[s]]

LegacySwitchCost(d, p, a) ==
  LET t == ActionWeights(d, a) IN
  p.trainCost * Max({0, DistanceOf(t, [s \in DeskSymbols |-> d.act[s] + PendingWeight(d, s)]) - GrossOf(t)})

\* value_for_action of the linear and the shallow head, and the lower bound of the other.
LinearValue(d, p, a, predicted) == predicted - (IF p.holdRelative THEN HoldRelativeCost(d, p, a) ELSE 0)
ShallowValue(d, p, a, predicted) == LinearValue(d, p, a, predicted)
ConservativeValue(d, p, a, predicted) ==
  predicted - p.uncertainty
    - (IF p.holdRelative THEN HoldRelativeCost(d, p, a) ELSE LegacySwitchCost(d, p, a))
ActionValue(d, p, a, predicted) ==
  CASE p.kind = "linear"  -> LinearValue(d, p, a, predicted)
    [] p.kind = "shallow" -> ShallowValue(d, p, a, predicted)
    [] OTHER              -> ConservativeValue(d, p, a, predicted)

\* The first action with the highest positive score, or HOLD.
BestOf(scores) ==
  LET good == {i \in DOMAIN scores : i > 1 /\ scores[i] > 0} IN
  IF good = {} THEN 1 ELSE Min({i \in good : \A j \in good : scores[j] <= scores[i]})

\* select_hold_relative_action: an action that amounts to HOLD is passed over.
HoldRelativeChoice(d, p, predicted) ==
  BestOf([i \in DOMAIN DeskActions |->
    IF ProposalV2(d, DeskActions[i]) = ProposalV2(d, JointHold) THEN 0
    ELSE ActionValue(d, p, DeskActions[i], predicted[i])
           - p.margin * RoundTripCost(p, CandidateTargets(d, DeskActions[i]))])

\* The legacy heads score a snapshot without its orders (the conservative one with them).
LegacyChoice(d, p, predicted) ==
  BestOf([i \in DOMAIN DeskActions |-> IF i = 1 THEN 0 ELSE ActionValue(d, p, DeskActions[i], predicted[i])])

\* encode_decision_value_state: which snapshots can be scored at all.
Scorable(d, p) == d.alive /\ d.now >= p.model.evalStart /\ d.features

ValueProposal(d, p, predicted) ==
  IF p.holdRelative
  THEN LET i == HoldRelativeChoice(d, p, predicted) IN
       AskedFor(DeskActions[i], ProposalV2(d, DeskActions[i]))
  ELSE LET i == LegacyChoice(d, p, predicted) IN
       AskedFor(DeskActions[i], ProposalV1(d, DeskActions[i], i = 1))

-----------------------------------------------------------------------------
(* The other policies.                                                      *)

Plain(proposal) == AskedFor(NoAction, proposal)

\* The answer of a policy that refuses the snapshot.
Refused == Plain(ProposalOf([s \in DeskSymbols |-> 0], {0}))

HoldAll(d) == Plain(ProposalOf(d.act, DeskSymbols))

\* An intent of a single-symbol strategy as an action code.
IntentCode(x) == CASE x = 1 -> LongCode [] x = -1 -> ShortCode [] OTHER -> FlatCode

\* SingleSymbolPortfolioPolicyAdapter.decide_portfolio.
AdapterProposal(intents) == Plain(ProposalOf([s \in DeskSymbols |-> intents[s] * DeskTargets[s]], {}))

\* CashPortfolioPolicy.
CashProposal(d) == IF d.alive THEN Plain(ProposalOf([s \in DeskSymbols |-> 0], {})) ELSE Refused

\* BuyAndHoldPortfolioPolicy.decide_portfolio: equal weights at the first bar and at every
\* rebalancing bar.
BuyAndHoldProposal(d, p) ==
  IF d.alive /\ (~d.entered \/ (p.rebalance > 0 /\ d.bars % p.rebalance = 0))
  THEN Plain(ProposalOf([s \in DeskSymbols |-> DeskLimits.gross \div Cardinality(DeskSymbols)], {}))
  ELSE HoldAll(d)

\* CostAwareAllocationPolicy._feasible.
AllocationFeasible(w, p) ==
  /\ \A s \in DeskSymbols : w[s] \in (IF p.longOnly THEN 0 ELSE -p.wMax)..p.wMax
  /\ GrossOf(w) <= p.grossMax

\* solve_cost_aware_allocation: the point of the grid that is best net of costs.
AllocationObjective(d, p, w, mu) ==
  SumOver([s \in DeskSymbols |-> 2 * mu[s] * w[s] - (p.gamma * w[s] * w[s]) \div 100
                                   - 2 * p.evalCost * p.penalty * AbsOf(w[s] - d.act[s])])
AllocationGrid(d, p) ==
  {w \in [DeskSymbols -> {-p.wMax, 0, p.wMax \div 2, p.wMax} \cup {d.act[s] : s \in DeskSymbols}] :
     AllocationFeasible(w, p)}
SolvedAllocation(d, p, mu) ==
  LET best == {w \in AllocationGrid(d, p) : \A v \in AllocationGrid(d, p) :
                 AllocationObjective(d, p, v, mu) <= AllocationObjective(d, p, w, mu)}
  IN  CHOOSE w \in best : \A v \in best : GrossOf(w) <= GrossOf(v)

\* A trade below min_trade_fraction is held at the current quantity when that stays
\* inside the limits; symbol after symbol.
SnappedAllocation(d, p, w) ==
  LET Snap(acc, s) ==
        LET trial == [acc.target EXCEPT ![s] = d.act[s]] IN
        IF AbsOf(acc.target[s] - d.act[s]) <= p.minTrade /\ AllocationFeasible(trial, p)
        THEN [target |-> trial, hold |-> acc.hold \cup {s}] ELSE acc
  IN  FoldLeft(Snap, [target |-> w, hold |-> {}], [s \in DeskSymbols |-> s])

\* vol_target_scale of the solved weights.
VolatilityTargeted(w, scale) == ScaledBy(w, scale, 100)

\* CostAwareAllocationPolicy.decide_portfolio: off schedule, and whenever an input is
\* missing or the solver gives up, every quantity is held.
OnSchedule(d, p) == d.now % p.interval = p.anchor
AllocatorProposal(d, p, mu, solved, vol) ==
  LET t == SnappedAllocation(d, p, VolatilityTargeted(SolvedAllocation(d, p, mu), vol)) IN
  IF ~OnSchedule(d, p) \/ ~d.alive \/ d.samples + 1 <= p.history \/ ~solved
       \/ ~AllocationFeasible(t.target, p)
  THEN HoldAll(d)
  ELSE Plain(t)

\* _FixedEntryPolicy, and _HoldQuantityPolicy, which keeps the legacy proposal.
FixedProposal(d, p) ==
  LET a == IF p.kind = "fixed" /\ ~d.entered THEN p.action ELSE JointHold
      v2 == p.kind = "fixed" /\ p.holdRelative
  IN  IF v2 /\ ~d.alive THEN Refused
      ELSE AskedFor(a, IF v2 THEN ProposalV2(d, a) ELSE ProposalV1(d, a, FALSE))

\* _CostAwareRidgePortfolioPolicy: the strategies see the posture, pending orders included.
RidgeProposal(d, p, intents) ==
  LET a == [s \in DeskSymbols |-> IntentCode(intents[s])] IN
  AskedFor(a, IF p.holdRelative THEN ProposalV2(d, a) ELSE ProposalV1(d, a, FALSE))

\* Everything a policy may answer to a snapshot.
Intents == [DeskSymbols -> {-1, 0, 1}]
Answers(d, p) ==
  CASE p.kind \in ValueArms ->
         IF Scorable(d, p)
         THEN {ValueProposal(d, p, v) : v \in [DOMAIN DeskActions -> DeskValues]} ELSE {Refused}
    [] p.kind \in {"fixed", "hold"} -> {FixedProposal(d, p)}
    [] p.kind = "ridge" -> IF d.alive THEN {RidgeProposal(d, p, x) : x \in Intents} ELSE {Refused}
    [] p.kind = "adapter" ->
         IF ~d.alive THEN {Refused}
         ELSE {AdapterProposal(x) : x \in Intents} \cup {Refused}
    [] p.kind = "cash" ->
         {CashProposal(d)}
    [] p.kind = "buy" -> {BuyAndHoldProposal(d, p)}
    [] p.kind = "allocator" /\ ~d.entered /\ p.warm # <<>> /\ Last(p.warm) >= d.now -> {Refused}
    [] OTHER ->
         {AllocatorProposal(d, p, mu, ok, vol) :
            mu \in [DeskSymbols -> p.forecasts], ok \in BOOLEAN, vol \in p.vols}

-----------------------------------------------------------------------------
(* The bar.                                                                 *)

\* PreTradeRisk._apply_hard_limits: symbol, gross, and then the drawdown's scale on top.
HardLimited(w, worst) ==
  LET clipped == [s \in DeskSymbols |-> SignOf(w[s]) * Min({AbsOf(w[s]), DeskLimits.abs})]
      fitted == IF GrossOf(clipped) > DeskLimits.gross
                THEN ScaledBy(clipped, DeskLimits.gross, GrossOf(clipped)) ELSE clipped
  IN  ScaledBy(fitted, worst, 100)

\* PreTradeRisk.constrain without masks; the largest drawdown so far decides.
Constrained(d, w) ==
  LET turnover == DistanceOf(w, d.act)
      slowed == IF turnover <= DeskLimits.turnover THEN w
                ELSE [s \in DeskSymbols |->
                       d.act[s] + Part(w[s] - d.act[s], DeskLimits.turnover, turnover)]
  IN  HardLimited(slowed, d.worst)

\* execute_native_target_transition: a hold survives only when the risk leaves it alone.
EffectiveHolds(proposal, w) == {s \in proposal.hold : w[s] = proposal.target[s]}

\* reconcile_target: an order that already asks for the rest stays, any other is superseded.
Reconciled(d, w, hold) ==
  [s \in DeskSymbols |->
    IF s \notin hold /\ w[s] - d.act[s] = d.order[s].left THEN d.order[s]
    ELSE [left |-> IF s \in hold THEN 0 ELSE w[s] - d.act[s], wait |-> d.latency, worked |-> FALSE]]

\* The interval: an order waits until it is eligible and is then worked, to the end, to
\* dust, or without a fill.
Fills(order) ==
  LET after(left) == [fill |-> order.left - left,
                      order |-> [left |-> left, wait |-> 0, worked |-> left # 0]] IN
  IF order.wait > 0
  THEN {[fill |-> 0, order |-> [order EXCEPT !.wait = @ - 1]]}
  ELSE {after(0), after(order.left), after(SignOf(order.left) * Min({AbsOf(order.left), DustLeft}))}

DeskInit ==
  /\ desk = [stage |-> "new", policy |-> NoDecision, latency |-> 0,
             act |-> [s \in DeskSymbols |-> 0],
             order |-> [s \in DeskSymbols |-> [left |-> 0, wait |-> 0, worked |-> FALSE]],
             scale |-> 100, worst |-> 100, now |-> 0, bars |-> 0, samples |-> 0,
             alive |-> TRUE, features |-> TRUE, entered |-> FALSE]
  /\ decision = NoDecision

\* A replay is set up with a policy of its own.
BuildPolicy(setup) ==
  /\ desk.stage = "new"
  /\ desk' = IF PolicyBuilds(setup)
             THEN [desk EXCEPT !.stage = "ready", !.policy = setup, !.latency = setup.latency,
                               !.samples = IF setup.kind = "allocator" THEN Len(setup.warm) ELSE 0]
             ELSE [desk EXCEPT !.stage = "refused"]
  /\ UNCHANGED decision

\* One bar: snapshot, decision, risk, reconciliation, fills.
DecideBar(proposal, fills) ==
  LET p == desk.policy
      w == Constrained(desk, proposal.target)
      hold == EffectiveHolds(proposal, w)
      orders == Reconciled(desk, w, hold)
  IN
  /\ desk.stage = "ready" /\ desk.alive /\ SnapshotIsSound(desk) /\ proposal # Refused
  /\ \A s \in DeskSymbols : fills[s] \in Fills(orders[s])
  /\ desk' = [desk EXCEPT
       !.act = [s \in DeskSymbols |-> @[s] + fills[s].fill],
       !.order = [s \in DeskSymbols |-> fills[s].order],
       !.now = @ + 1, !.bars = @ + 1, !.entered = TRUE,
       !.samples = IF p.kind = "allocator" /\ OnSchedule(desk, p) THEN @ + 1 ELSE @]
  /\ decision' = [proposal |-> proposal, untouched |-> w = proposal.target, orders |-> orders,
                  act |-> desk.act, order |-> desk.order, scale |-> desk.scale]

\* The policy raises, or the transition refuses a terminal book: the replay ends.
PolicyRaises ==
  /\ desk.stage = "ready" /\ SnapshotIsSound(desk)
  /\ Refused \in Answers(SnapshotOf(desk), desk.policy) \/ ~desk.alive
  /\ desk' = [desk EXCEPT !.stage = "raised"]
  /\ UNCHANGED decision

\* The market between two bars: the drawdown, missing features, the end of the account.
MarketMoves(scale, features, alive) ==
  /\ desk.stage = "ready" /\ desk.bars \in 1..(MaxBars - 1)
  /\ decision # NoDecision
  /\ desk' = [desk EXCEPT !.scale = scale, !.worst = Min({@, scale}), !.features = features,
                          !.alive = alive]
  /\ decision' = NoDecision

DeskNext ==
  \/ \E setup \in DeskSetups : BuildPolicy(setup)
  \/ /\ desk.stage = "ready"
     /\ \E proposal \in Answers(SnapshotOf(desk), desk.policy) \ {Refused} :
          LET w == Constrained(desk, proposal.target)
              orders == Reconciled(desk, w, EffectiveHolds(proposal, w))
              possible == UNION {Fills(orders[s]) : s \in DeskSymbols}
          IN  \E fills \in [DeskSymbols -> possible] : DecideBar(proposal, fills)
  \/ PolicyRaises
  \/ \E scale \in DeskScales : MarketMoves(scale, TRUE, TRUE)
  \/ MarketMoves(desk.scale, FALSE, TRUE)
  \/ MarketMoves(desk.scale, TRUE, FALSE)

DeskSpec == DeskInit /\ [][DeskNext]_deskVars

-----------------------------------------------------------------------------
Undecided == decision = NoDecision

(* A value policy never proposes more than the scaled gross limit. When it answers with     *)
(* the joint HOLD and the risk leaves the answer alone, the orders on their way survive: an   *)
(* order that never met the market, or of which more than dust is left, keeps what it asks    *)
(* for, as long as the posture it leads to is inside the limits; dust that is still being     *)
(* worked does not count. What the allocator proposes beyond holding stays within its own     *)
(* limits (decision_value.py preserve_posture_aware_proposal, select_hold_relative_action;    *)
(* allocation/cost_aware.py decide_portfolio; orders/reconciliation.py reconcile_target).     *)
DecisionKeepsItsPosture ==
  ~Undecided =>
    LET p == desk.policy
        limit(x) == (x * decision.scale) \div 100
        left(s) == decision.order[s].left
        moving(s) ==
          left(s) # 0 /\ (~decision.order[s].worked \/ AbsOf(left(s)) > (2 * DeskTargets[s]) \div 100)
        posture == [s \in DeskSymbols |-> decision.act[s] + IF moving(s) THEN left(s) ELSE 0]
    IN  /\ (p.kind \in ValueArms \cup {"fixed", "ridge"} /\ p.holdRelative) =>
             /\ GrossOf(decision.proposal.target) <= limit(DeskLimits.gross)
             /\ (/\ decision.proposal.action = JointHold /\ decision.untouched
                 /\ \A s \in DeskSymbols : AbsOf(posture[s]) <= limit(DeskLimits.abs)
                 /\ GrossOf(posture) <= limit(DeskLimits.gross))
                => \A s \in DeskSymbols : moving(s) => decision.orders[s] = decision.order[s]
        /\ (p.kind = "allocator" /\ decision.proposal.hold # DeskSymbols)
             => AllocationFeasible(decision.proposal.target, p)
=============================================================================
