--------------------------- MODULE RidgeComparison ---------------------------
(***************************************************************************)
(* The Ridge comparison on shared cash, from the loaded model to the         *)
(* published document (evaluation/runs: ridge_artifact_comparison.py,        *)
(* ridge_comparison_artifact.py).                                            *)
(*                                                                          *)
(* Every arm of a fixed roster is replayed over the same window; each bar    *)
(* leaves an interval in the arm's ledger. The document made of the ledgers  *)
(* is validated as a whole before it is written, once more from the staging  *)
(* directory, and by every later reader. Money, quantities and prices are    *)
(* small integers, returns exact ratios; tolerances are equality.            *)
(***************************************************************************)
EXTENDS ReturnSeries, FiniteSets

CONSTANTS ArmNames,       \* the fixed roster, the cash arm first
          Market,         \* the Dataset: per bar at, close, rate, usable, seenAt
          Windows,        \* requests: start, stop, latency, cutoff, horizon, diagnose
          Capital,        \* initial_capital
          FeePerLot,      \* cost of one traded lot
          NoDocument

ASSUME RidgeAssumption ==
  /\ ArmNames[1] = "cash" /\ Capital \in Nat \ {0} /\ FeePerLot \in Nat
  /\ \A w \in Windows : w.start < w.stop /\ w.stop \in DOMAIN Market.close

VARIABLES
  window,     \* the request this comparison runs
  comparing,   \* stage of the comparison
  book,       \* the account of the arm that is being replayed
  ledgers,    \* arm |-> intervals and decisions recorded so far
  document,   \* the document at the destination, or NoDocument
  latecomer   \* another process has published at the destination

ridgeVars == <<window, comparing, book, ledgers, document, latecomer>>

Arms == 1..Len(ArmNames)
Bars(w) == w.stop - w.start

-----------------------------------------------------------------------------
(* The inputs (compare_ridge_artifact_shared_cash).                         *)

\* _agent_stop_index of the replay: the latency and one bar are left for settlement.
AgentStop(w) == w.stop - w.latency - 1

\* The same boundary as _ridge_forecast_diagnostics computes it.
DecisionStop(w) == w.stop - w.latency - 1

\* Mutation: the bar that settles is counted as a decision.
DecisionCountWithSettlement(w) == w.stop - w.start - w.latency

\* And as _validate_payload computes it.
DecisionCount(w) == w.stop - w.start - w.latency - 1

\* _validate_loaded_inputs: the model was fitted before the first decision. The
\* identities of Dataset, features and symbols are equal here.
InputsValid(w) == w.cutoff <= Market.at[w.start]

\* Mutation: a target that ends exactly at scoring_as_of counts.
ForecastOutcomeInclusive(w, i) ==
  LET target == Market.at[i] + w.horizon
      ends   == {j \in DOMAIN Market.close : j <= w.stop /\ Market.at[j] = target}
  IN  IF ~Market.usable[i] THEN "feature"
      ELSE IF Market.seenAt[i] > Market.at[i] THEN "start"
      ELSE IF target > Market.at[w.stop] \/ ends = {} THEN "immature"
      ELSE IF \E j \in ends : Market.seenAt[j] > Market.at[w.stop] THEN "target"
      ELSE "scored"

\* What the forecast of one decision is scored against, or the first reason why it is
\* not, in the order of the code.
ForecastOutcome(w, i) ==
  LET target == Market.at[i] + w.horizon
      ends   == {j \in DOMAIN Market.close : j < w.stop /\ Market.at[j] = target}
  IN  IF ~Market.usable[i] THEN "feature"
      ELSE IF Market.seenAt[i] > Market.at[i] THEN "start"
      ELSE IF target >= Market.at[w.stop] \/ ends = {} THEN "immature"
      ELSE IF \E j \in ends : Market.seenAt[j] > Market.at[w.stop] THEN "target"
      ELSE "scored"

Exclusions == {"feature", "start", "immature", "target"}
Candidates(w) == {i \in DOMAIN Market.close : w.start <= i /\ i < DecisionStop(w)}

\* _ridge_forecast_diagnostics: counts; the error metrics are left out.
ForecastDiagnostics(w) ==
  [start |-> w.start, decisionStop |-> DecisionStop(w), stop |-> w.stop,
   cutoff |-> w.cutoff, horizon |-> w.horizon, asOf |-> Market.at[w.stop],
   candidates |-> Cardinality(Candidates(w)),
   eligible |-> {i \in Candidates(w) : ForecastOutcome(w, i) = "scored"},
   excluded |-> [x \in Exclusions |-> Cardinality({i \in Candidates(w) : ForecastOutcome(w, i) = x})]]

-----------------------------------------------------------------------------
(* The replay of one arm (external; StrategyReplay describes its decisions). *)

FreshBook == [bar |-> 0, cash |-> Capital, lots |-> 0, cost |-> 0, funding |-> 0, turnover |-> 0,
              peak |-> Capital, drawdown |-> <<0, 1>>, ended |-> FALSE]

Equity(b, i) == b.cash + b.lots * Market.close[i]

\* The account after trading to lots at bar i, paying funding and being marked at the
\* next bar. The drawdown is followed inside the interval too.
Marked(b, i, lots) ==
  LET traded  == IF lots > b.lots THEN lots - b.lots ELSE b.lots - lots
      paid    == b.cash - (lots - b.lots) * Market.close[i] - FeePerLot * traded
      funding == 0 - lots * Market.rate[i]
      inside  == paid + lots * Market.close[i]
      after   == paid + funding + lots * Market.close[i + 1]
      peak    == IF after > b.peak THEN after ELSE b.peak
  IN  [bar |-> i + 1 - window.start, cash |-> paid + funding, lots |-> lots, cost |-> b.cost + FeePerLot * traded,
       funding |-> b.funding + funding, turnover |-> b.turnover + traded,
       peak |-> peak, ended |-> after <= 0,
       drawdown |-> Larger(b.drawdown,
                           Larger(<<b.peak - inside, b.peak>>, <<peak - after, peak>>))]

\* One ledger interval (to_mapping of the interval evidence).
IntervalOf(b, next, i) ==
  [index |-> i, lotsBefore |-> b.lots, lotsAfter |-> next.lots,
   cashBefore |-> b.cash, cashAfter |-> next.cash,
   equityBefore |-> Equity(b, i), equityAfter |-> Equity(next, i + 1),
   costBefore |-> b.cost, costAfter |-> next.cost, cost |-> next.cost - b.cost,
   fundingBefore |-> b.funding, fundingAfter |-> next.funding, funding |-> next.funding - b.funding,
   turnoverBefore |-> b.turnover, turnoverAfter |-> next.turnover,
   drawdownBefore |-> b.drawdown, drawdownAfter |-> next.drawdown,
   orders |-> next.turnover - b.turnover, reason |-> next.ended,
   growth |-> <<Equity(next, i + 1), Equity(b, i)>>]

DecisionOf(b, next, i) ==
  [index |-> i, before |-> b.lots, after |-> next.lots, intent |-> next.lots]

-----------------------------------------------------------------------------
(* The document (_comparison_payload).                                      *)

ArmPayload(n) ==
  LET l == ledgers[n]
      last == l.intervals[Len(l.intervals)]
      series == [k \in DOMAIN l.intervals |-> l.intervals[k].growth]
  IN  [name |-> ArmNames[n], intervals |-> l.intervals, decisions |-> l.decisions,
       reason |-> last.reason, lots |-> last.lotsAfter, orders |-> l.resting,
       cash |-> last.cashAfter, equity |-> last.equityAfter, cost |-> last.costAfter,
       funding |-> last.fundingAfter, turnover |-> last.turnoverAfter, drawdown |-> last.drawdownAfter,
       returns |-> series, metrics |-> EvaluatePerformance(series, IF last.reason THEN 1 ELSE 0)]

Payload ==
  [window |-> window, arms |-> [n \in Arms |-> ArmPayload(n)],
   schema |-> IF window.diagnose THEN "v2" ELSE "v1",
   diagnostics |-> IF window.diagnose THEN ForecastDiagnostics(window) ELSE NoDocument]

-----------------------------------------------------------------------------
(* The validation (_validate_payload).                                      *)

\* _validate_interval.
IntervalValid(v, i) ==
  /\ v.index = i /\ ~v.reason
  /\ v.cost >= 0 /\ v.costBefore >= 0
  /\ AtMost(<<0, 1>>, v.drawdownBefore) /\ AtMost(v.drawdownBefore, v.drawdownAfter)
  /\ AtMost(v.drawdownAfter, <<1, 1>>)
  /\ v.equityBefore > 0 /\ v.equityAfter > 0

\* _validate_ledger: an interval begins where the one before it ended.
Continues(v, previous) ==
  /\ v.lotsBefore = previous.lotsAfter /\ v.cashBefore = previous.cashAfter
  /\ v.equityBefore = previous.equityAfter /\ v.costBefore = previous.costAfter
  /\ v.fundingBefore = previous.fundingAfter /\ v.turnoverBefore = previous.turnoverAfter
  /\ SameRatio(v.drawdownBefore, previous.drawdownAfter)

BeginsFresh(v) ==
  /\ v.lotsBefore = 0 /\ v.cashBefore = Capital /\ v.equityBefore = Capital
  /\ {v.costBefore, v.fundingBefore, v.turnoverBefore} = {0}
  /\ SameRatio(v.drawdownBefore, <<0, 1>>)

\* _validate_ledger: the flows of one interval, and its return.
FlowsAddUp(v) ==
  /\ v.costAfter - v.costBefore = v.cost
  /\ v.fundingAfter - v.fundingBefore = v.funding
  /\ v.turnoverAfter >= v.turnoverBefore
  /\ SameRatio(<<v.equityAfter, v.equityBefore>>, v.growth)

\* _validate_ledger: without a position and without orders nothing moves.
FlatIntervalIsStill(v) ==
  (v.lotsBefore = 0 /\ v.lotsAfter = 0 /\ v.orders = 0) =>
    /\ v.cost = 0 /\ v.funding = 0 /\ v.turnoverAfter = v.turnoverBefore
    /\ v.cashAfter = v.cashBefore /\ v.equityAfter = v.equityBefore
    /\ v.cashBefore = v.equityBefore

\* _validate_ledger: the cash arm never trades.
CashArmIsStill(a) ==
  /\ \A k \in DOMAIN a.intervals :
       LET v == a.intervals[k] IN
       v.lotsBefore = 0 /\ v.lotsAfter = 0 /\ v.orders = 0 /\ v.cost = 0 /\ v.funding = 0
  /\ \A k \in DOMAIN a.decisions : a.decisions[k].intent = 0

\* _validate_decision, and the decision beside its interval.
DecisionsMatch(a, w) ==
  /\ Len(a.decisions) = DecisionCount(w)
  /\ \A k \in DOMAIN a.decisions :
       /\ a.decisions[k].index = w.start + k - 1
       /\ a.decisions[k].before = a.intervals[k].lotsBefore
       /\ a.decisions[k].after = a.intervals[k].lotsAfter

\* _validate_ledger: the end of the window.
EndsFlat(a) ==
  /\ a.lots = 0 /\ a.orders = 0 /\ ~a.reason
  /\ LET last == a.intervals[Len(a.intervals)] IN
     /\ last.lotsAfter = 0 /\ a.cash = last.cashAfter /\ a.equity = last.equityAfter
     /\ a.cost = last.costAfter /\ a.funding = last.fundingAfter /\ a.turnover = last.turnoverAfter
  /\ a.cash = a.equity

LedgerValid(a, w) ==
  /\ Len(a.intervals) = Bars(w)
  /\ DecisionsMatch(a, w)
  /\ \A k \in DOMAIN a.intervals :
       /\ IntervalValid(a.intervals[k], w.start + k - 1)
       /\ IF k = 1 THEN BeginsFresh(a.intervals[k])
                   ELSE Continues(a.intervals[k], a.intervals[k - 1])
       /\ FlowsAddUp(a.intervals[k]) /\ FlatIntervalIsStill(a.intervals[k])
  /\ EndsFlat(a)

\* _validate_arm: returns and metrics are those of the ledger.
ArmValid(a, w, name) ==
  /\ a.name = name
  /\ LedgerValid(a, w)
  /\ name = "cash" => CashArmIsStill(a)
  /\ Len(a.returns) = Bars(w)
  /\ \A k \in DOMAIN a.returns : SameRatio(a.returns[k], a.intervals[k].growth)
  /\ a.metrics = EvaluatePerformance(a.returns, 0)
  /\ SameRatio(a.metrics.wealth, <<a.equity, Capital>>)
  /\ AtMost(a.metrics.drawdown, a.drawdown)

\* _validate_forecast_diagnostics and RidgeForecastDiagnostics: the scope is that of
\* the comparison and every candidate is scored or excluded once.
DiagnosticsValid(d, w) ==
  /\ d.horizon = w.horizon /\ d.cutoff = w.cutoff /\ d.asOf = Market.at[w.stop]
  /\ d.start = w.start /\ d.decisionStop = w.start + DecisionCount(w) /\ d.stop = w.stop
  /\ d.start < d.decisionStop /\ d.decisionStop < d.stop
  /\ d.candidates = DecisionCount(w)
  /\ d.candidates = Cardinality(d.eligible) + d.excluded["feature"] + d.excluded["start"]
                      + d.excluded["immature"] + d.excluded["target"]

PayloadValid(p) ==
  /\ p.schema = (IF p.diagnostics = NoDocument THEN "v1" ELSE "v2")
  /\ p.window.cutoff <= Market.at[p.window.start]
  /\ DecisionCount(p.window) > 0
  /\ p.diagnostics # NoDocument => DiagnosticsValid(p.diagnostics, p.window)
  /\ Len(p.arms) = Len(ArmNames)
  /\ \A n \in Arms : ArmValid(p.arms[n], p.window, ArmNames[n])

-----------------------------------------------------------------------------
(* The comparison.                                                          *)

FreshLedger == [intervals |-> <<>>, decisions |-> <<>>, resting |-> 0]

RidgeInit ==
  /\ window \in Windows
  /\ comparing = "load"
  /\ book = FreshBook
  /\ ledgers = <<>>
  /\ document = NoDocument
  /\ latecomer = FALSE

Arm  == Len(ledgers)
Bar  == window.start + book.bar
Deciding == Bar < AgentStop(window)

\* Loading and validation of the inputs; a window without a decision is refused by the
\* diagnostics or by the first replay.
LoadInputs ==
  /\ comparing = "load"
  /\ IF InputsValid(window) /\ AgentStop(window) > window.start
     THEN comparing' = "replay" /\ ledgers' = <<FreshLedger>>
     ELSE comparing' = "failed" /\ UNCHANGED ledgers
  /\ UNCHANGED <<window, book, document, latecomer>>

\* One bar of the arm: it trades to lots while it decides, and towards flat afterwards;
\* an order that does not fill leaves the position where it is.
ReplayIntervalOf(lots) ==
  /\ comparing = "replay" /\ book.bar < Bars(window) /\ ~book.ended
  /\ ArmNames[Arm] = "cash" => lots = 0
  /\ ~Deciding => lots \in {0, book.lots}
  /\ LET next == Marked(book, Bar, lots) IN
     /\ book' = next
     /\ ledgers' = [ledgers EXCEPT ![Arm] =
          [@ EXCEPT !.intervals = Append(@, IntervalOf(book, next, Bar)),
                    !.decisions = IF Deciding THEN Append(@, DecisionOf(book, next, Bar)) ELSE @,
                    !.resting = IF ~Deciding /\ lots # 0 THEN 1 ELSE 0]]
  /\ UNCHANGED <<window, comparing, document, latecomer>>

ReplayInterval == \E lots \in -1..1 : ReplayIntervalOf(lots)

\* The window is over, or the account was terminated: the next arm starts afresh.
FinishArm ==
  /\ comparing = "replay" /\ (book.bar = Bars(window) \/ book.ended)
  /\ IF Arm < Len(ArmNames)
     THEN /\ ledgers' = Append(ledgers, FreshLedger) /\ book' = FreshBook
          /\ UNCHANGED comparing
     ELSE /\ comparing' = "publish" /\ UNCHANGED <<ledgers, book>>
  /\ UNCHANGED <<window, document, latecomer>>

\* publish_ridge_comparison_artifact: the document is validated, the destination must
\* be free, the staged bytes are loaded back, and the staging directory is renamed.
PublishComparison ==
  /\ comparing = "publish"
  /\ IF PayloadValid(Payload) /\ ~latecomer
     THEN comparing' = "staged" ELSE comparing' = "failed"
  /\ UNCHANGED <<window, book, ledgers, document, latecomer>>

RenameComparison ==
  /\ comparing = "staged"
  /\ IF latecomer THEN comparing' = "failed" /\ UNCHANGED document
                  ELSE comparing' = "published" /\ document' = Payload
  /\ UNCHANGED <<window, book, ledgers, latecomer>>

\* Another process takes the destination.
OtherPublishes ==
  /\ ~latecomer /\ document = NoDocument /\ comparing \in {"publish", "staged"}
  /\ latecomer' = TRUE
  /\ UNCHANGED <<window, comparing, book, ledgers, document>>

RidgeNext ==
  \/ LoadInputs \/ ReplayInterval \/ FinishArm
  \/ PublishComparison \/ RenameComparison \/ OtherPublishes

RidgeSpec == RidgeInit /\ [][RidgeNext]_ridgeVars

-----------------------------------------------------------------------------
\* Every arm replayed its whole window, stayed solvent and ended without a position.
ReplaysAreComplete ==
  \A n \in Arms : LET l == ledgers[n] IN
    /\ Len(l.intervals) = Bars(window) /\ l.resting = 0
    /\ ~l.intervals[Len(l.intervals)].reason /\ l.intervals[Len(l.intervals)].lotsAfter = 0

\* What arm n gained from prices: each interval's position times the price change.
PriceGain(a) ==
  LET g[k \in 0..Len(a.intervals)] ==
        IF k = 0 THEN 0
        ELSE g[k - 1] + a.intervals[k].lotsAfter
               * (Market.close[a.intervals[k].index + 1] - Market.close[a.intervals[k].index])
  IN  g[Len(a.intervals)]

(* A Ridge comparison is published exactly when its replays allow it: honest complete         *)
(* replays pass the whole validation and incomplete ones never do. In a published document    *)
(* every arm's money adds up from the initial capital to the final equity, and the forecasts  *)
(* are scored only against prices that were known when the window ended, strictly inside it   *)
(* (ridge_comparison_artifact.py _validate_payload, ridge_artifact_comparison.py).            *)
PublishedComparisonBalances ==
  /\ comparing \in {"staged", "published"} => ReplaysAreComplete
  /\ comparing = "failed" /\ Len(ledgers) = Len(ArmNames) /\ ~latecomer
       => ~ReplaysAreComplete
  /\ document # NoDocument =>
       /\ \A n \in Arms : LET a == document.arms[n] IN
            a.equity = Capital + PriceGain(a) - a.cost + a.funding
       /\ document.diagnostics # NoDocument =>
            \A i \in document.diagnostics.eligible : \E j \in DOMAIN Market.close :
              /\ Market.at[j] = Market.at[i] + window.horizon
              /\ i < j /\ j < window.stop /\ Market.seenAt[j] <= Market.at[window.stop]
=============================================================================
