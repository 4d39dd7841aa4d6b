--------------------------- MODULE StrategyReplay ---------------------------
(***************************************************************************)
(* The decision loop of evaluation/replay.py for one symbol: what a         *)
(* strategy asks for, what the minimum hold and the pre-trade risk make of  *)
(* it, the quantity that is remembered between bars, the position's age,    *)
(* the entry tracker and the ledger interval that is captured, up to the    *)
(* terminal settlement and the loader's verdict on the finished ledger      *)
(* (runs/ridge_comparison_artifact.py).                                     *)
(*                                                                          *)
(* Quantities are lots at price 1; the executor (module StatefulOrders) is  *)
(* reduced to its contract: in a bar the position moves from where it is    *)
(* some of the way to the target, trading costs one unit of cash, a held    *)
(* position receives or pays funding, and equity at or below zero           *)
(* terminates the book.                                                     *)
(***************************************************************************)
EXTENDS Integers

CONSTANTS Modes,      \* of "single", "shared", "scripted": the entry points
          AgentBars,  \* bars the strategy decides
          SettleBars, \* bars of terminal settlement: latency and one
          HoldBars,   \* minimum_hold_bars
          Lots,       \* lots of the gross budget
          Funding,    \* funding of a held lot in a bar: members of -1..1
          StartCash   \* initial_capital

ASSUME ReplayAssumption ==
  /\ Modes \subseteq {"single", "shared", "scripted"} /\ Modes # {}
  /\ {AgentBars, SettleBars, Lots, StartCash} \subseteq Nat \ {0}
  /\ HoldBars \in Nat /\ Funding \subseteq -1..1

Intents == -1..1           \* PositionIntent
NoEntry == -1              \* no executed entry price
NoAsk   == 2               \* a script without an action for the bar
KeepAsk == 3               \* ScriptedReplayAction.HOLD_QUANTITY
StopBar == AgentBars + SettleBars

VARIABLES
  replay,     \* mode, bar, and whether the loop still runs
  position,   \* the book: lots, cash, cost, funding, worst drawdown, dead
  policy,     \* intent, desired quantity, age, locked, exact hold
  entry,      \* _ExecutedEntryPrices: lots tracked, bar of the opening fill
  interval,   \* the ledger interval captured last, and the one before
  opened,     \* history: the bar at which the position's sign began
  capped,     \* history: a lasting risk limit has bitten under this intent
  lastStep    \* history: what the last decision was

replayVars == <<replay, position, policy, entry, interval, opened, capped, lastStep>>

Sgn(n)   == IF n > 0 THEN 1 ELSE IF n < 0 THEN -1 ELSE 0
Mag(n)   == IF n < 0 THEN -n ELSE n
Worth(b) == b.cash + b.lots

ReplayInit ==
  /\ \E mode \in Modes : replay = [mode |-> mode, bar |-> 0, running |-> TRUE]
  /\ position = [lots |-> 0, cash |-> StartCash, cost |-> 0, fund |-> 0, peak |-> StartCash,
                 dead |-> FALSE]
  /\ policy = [intent |-> 0, desired |-> 0, age |-> 0, locked |-> FALSE, exact |-> FALSE]
  /\ entry = [lots |-> 0, since |-> NoEntry]
  /\ interval = [bar |-> 0, before |-> position, after |-> position, paid |-> 0, got |-> 0]
  /\ opened = 0
  /\ capped = FALSE
  /\ lastStep = [kind |-> "start", asked |-> 0, risk |-> "none", from |-> 0, age |-> 0]

-----------------------------------------------------------------------------
(* The rules a decision goes through.                                       *)

\* Mutation: the age counts on through a flip of the position.
NextPositionAgeBarsNoFlip(age, before, after) ==
  IF after = 0 THEN 0 ELSE IF before = 0 THEN 1 ELSE age + 1

\* next_position_age_bars.
NextPositionAgeBars(age, before, after) ==
  IF after = 0 THEN 0
  ELSE IF before = 0 \/ Sgn(before) # Sgn(after) THEN 1
  ELSE age + 1

\* Mutation: the hold is counted from one bar less.
SuppressedEarly(asked, protective) ==
  /\ position.lots # 0
  /\ policy.age + 1 < HoldBars
  /\ ~(protective /\ asked = 0)

\* constrain_intent_for_minimum_hold: inside the hold only a protective exit passes.
Suppressed(asked, protective) ==
  /\ position.lots # 0
  /\ policy.age < HoldBars
  /\ ~(protective /\ asked = 0)

\* target_weight_for_intent and _desired_quantity_from_weight.
TargetLots(intent) == intent * Lots

\* Mutation: the remembered quantity is kept when the hold ends.
RememberedKeepingOverride(asked, suppressed) ==
  IF suppressed
    THEN [policy EXCEPT !.intent = Sgn(position.lots), !.desired = position.lots]
  ELSE IF asked # policy.intent
    THEN [policy EXCEPT !.intent = asked, !.desired = TargetLots(asked)]
  ELSE policy

\* The remembered quantity after a strategy's request: pinned to the position
\* while suppressed, recomputed when the intent changes or the lock ends.
Remembered(asked, suppressed) ==
  IF suppressed
    THEN [policy EXCEPT !.intent = Sgn(position.lots), !.desired = position.lots]
  ELSE IF asked # policy.intent \/ policy.locked
    THEN [policy EXCEPT !.intent = asked, !.desired = TargetLots(asked)]
  ELSE policy

\* PreTradeRisk.constrain: nothing, a transient cut (turnover or drawdown) that is
\* not remembered, or a lasting cut that should_rebind_strategy_proposal keeps.
RiskOutcomes(goal) ==
  {[rule |-> "none", lots |-> goal]}
    \cup (IF goal = position.lots THEN {}
          ELSE {[rule |-> "turnover", lots |-> position.lots + Sgn(goal - position.lots)]})
    \cup (IF Mag(goal) > 1 THEN {[rule |-> "limit", lots |-> Sgn(goal)]} ELSE {})

\* Mutation: a fill that crosses zero is averaged into the old entry.
IngestAveragingFlip(e, fill) ==
  LET following == e.lots + fill IN
  [lots |-> following,
   since |-> IF following = 0 THEN NoEntry
             ELSE IF e.lots = 0 THEN replay.bar
             ELSE e.since]

\* _ExecutedEntryPrices.ingest for one fill: the price is averaged over the fills of
\* one sign, so it is known by the bar of the fill that opened the sign.
Ingest(e, fill) ==
  LET following == e.lots + fill IN
  [lots |-> following,
   since |-> IF following = 0 THEN NoEntry
             ELSE IF e.lots = 0 \/ Sgn(e.lots) # Sgn(following) THEN replay.bar
             ELSE e.since]

-----------------------------------------------------------------------------
(* One interval: execution, tracking, capture.                              *)

Path(a, b) == IF a <= b THEN a..b ELSE b..a

\* executor.execute_interval: part of the way to the target, cost, funding.
Executed(b, lots, rate) ==
  LET paid == IF lots = b.lots THEN 0 ELSE 1
      got  == rate * Mag(b.lots)
      next == [b EXCEPT !.lots = lots, !.cash = b.cash - (lots - b.lots) - paid + got,
                        !.cost = b.cost + paid, !.fund = b.fund + got]
      worth == Worth(next)
  IN  [next EXCEPT !.peak = IF worth > b.peak THEN worth ELSE b.peak,
                   !.dead = worth <= 0]

\* Mutation: the interval's opening values are read after the execution.
CapturedLate(b, after) ==
  [bar |-> replay.bar, before |-> after, after |-> after,
   paid |-> after.cost - b.cost, got |-> after.fund - b.fund]

\* SharedCashLedgerIntervalEvidence, from the book before and after.
Captured(b, after) ==
  [bar |-> replay.bar, before |-> b, after |-> after,
   paid |-> after.cost - b.cost, got |-> after.fund - b.fund]

\* execute_and_record: one executor interval for the target, its fills ingested,
\* the ledger interval appended. A terminated book ends with the tracker cleared.
ExecuteAndRecord(goal, lots, rate) ==
  LET after == Executed(position, lots, rate) IN
  /\ lots \in Path(position.lots, goal)
  /\ position' = after
  /\ entry' = IF after.dead THEN [lots |-> lots, since |-> NoEntry]
                            ELSE Ingest(entry, lots - position.lots)
  /\ interval' = Captured(position, after)
  /\ opened' = IF Sgn(lots) = Sgn(position.lots) THEN opened ELSE replay.bar
  /\ replay' = [replay EXCEPT !.bar = @ + 1, !.running = ~after.dead]

\* A bar of the agent: the strategy decides, the hold and the risk constrain,
\* the executor runs, the policy state is updated from what was filled.
AgentBar(asked, protective, cut, lots, rate) ==
  LET suppressed == Suppressed(asked, protective)
      decided    == Remembered(asked, suppressed)
      rebound    == cut.rule = "limit"
      lotsBefore == position.lots
  IN
  /\ replay.running /\ replay.bar < AgentBars
  /\ asked \in Intents
  /\ cut \in RiskOutcomes(decided.desired)
  /\ ExecuteAndRecord(cut.lots, lots, rate)
  /\ policy' = [decided EXCEPT
       !.desired = IF rebound THEN cut.lots ELSE @,
       !.age = NextPositionAgeBars(@, lotsBefore, lots),
       !.exact = FALSE,
       !.locked = suppressed /\ lots # 0]
  /\ capped' = (rebound \/ (capped /\ decided.intent = policy.intent))
  /\ lastStep' = [kind |-> IF suppressed THEN "held" ELSE "decided", asked |-> asked,
                  risk |-> cut.rule, from |-> lotsBefore, age |-> policy.age]

\* A scripted bar without an action, or that pins the exact quantity: an exact
\* hold lives on until the risk changes its weight or a new intent arrives.
ScriptedBar(ask, cut, lots, rate) ==
  LET exact   == ask = KeepAsk \/ policy.exact
      intent  == IF ask = KeepAsk THEN Sgn(position.lots) ELSE policy.intent
      goal    == IF exact THEN position.lots ELSE policy.desired
      effective == exact /\ cut.lots = goal
  IN
  /\ replay.mode = "scripted"
  /\ replay.running /\ replay.bar < AgentBars
  /\ ask \in {NoAsk, KeepAsk}
  /\ ask = KeepAsk => ~Suppressed(intent, FALSE)
  /\ cut \in RiskOutcomes(goal)
  /\ ExecuteAndRecord(cut.lots, lots, rate)
  /\ policy' = [policy EXCEPT
       !.intent = intent,
       !.exact = effective,
       !.desired = IF cut.rule = "limit" \/ (exact /\ ~effective) THEN cut.lots ELSE goal,
       !.age = NextPositionAgeBars(@, position.lots, lots),
       !.locked = FALSE]
  /\ UNCHANGED capped
  /\ lastStep' = [kind |-> "scripted", asked |-> ask, risk |-> cut.rule,
                  from |-> position.lots, age |-> policy.age]

\* Terminal settlement: flat targets until the stop index. The shared loop marks
\* held symbols for emergency flattening, which no turnover limit cuts; the
\* single-symbol loop only asks the risk for a flat target.
SettleBar(cut, lots, rate) ==
  /\ replay.running /\ replay.bar \in AgentBars..(StopBar - 1)
  /\ cut \in RiskOutcomes(0)
  /\ replay.mode # "single" => cut.rule = "none"
  /\ ExecuteAndRecord(cut.lots, lots, rate)
  /\ policy' = [policy EXCEPT !.age = NextPositionAgeBars(@, position.lots, lots),
                              !.desired = IF replay.mode = "single" THEN 0 ELSE @,
                              !.intent = IF replay.mode = "single" THEN 0 ELSE @]
  /\ UNCHANGED capped
  /\ lastStep' = [kind |-> "settle", asked |-> 0, risk |-> cut.rule,
                  from |-> position.lots, age |-> policy.age]

\* The loop reached the stop index.
FinishReplay ==
  /\ replay.running /\ replay.bar = StopBar
  /\ replay' = [replay EXCEPT !.running = FALSE]
  /\ UNCHANGED <<position, policy, entry, interval, opened, capped, lastStep>>

AllLots == -Lots..Lots

ReplayNext ==
  \/ \E asked \in Intents, protective \in BOOLEAN, lots \in AllLots, rate \in Funding :
       \E cut \in RiskOutcomes(Remembered(asked, Suppressed(asked, protective)).desired) :
         AgentBar(asked, protective, cut, lots, rate)
  \/ \E ask \in {NoAsk, KeepAsk}, lots \in AllLots, rate \in Funding :
       \E goal \in {position.lots, policy.desired} : \E cut \in RiskOutcomes(goal) :
         ScriptedBar(ask, cut, lots, rate)
  \/ \E lots \in AllLots, rate \in Funding :
       \E cut \in RiskOutcomes(0) : SettleBar(cut, lots, rate)
  \/ FinishReplay

ReplaySpec == ReplayInit /\ [][ReplayNext]_replayVars

-----------------------------------------------------------------------------
(* The loader's verdict on the captured ledger.                             *)

\* _validate_interval: one interval alone.
IntervalValid(i) ==
  /\ i.paid >= 0 /\ i.before.cost >= 0
  /\ ~i.after.dead
  /\ Worth(i.before) > 0 /\ Worth(i.after) > 0
  /\ i.before.lots = 0 => i.got = 0

\* _validate_ledger: an interval continues the one before it, and its own sums
\* are the differences of the cumulative columns.
ContinuesFrom(i, previous) ==
  /\ i.before.lots = previous.lots /\ i.before.cash = previous.cash
  /\ i.before.cost = previous.cost /\ i.before.fund = previous.fund
  /\ i.after.cost - i.before.cost = i.paid
  /\ i.after.fund - i.before.fund = i.got
  /\ i.before.lots = 0 /\ i.after.lots = 0 =>
       /\ i.paid = 0
       /\ i.after.cash - i.before.cash = 0

-----------------------------------------------------------------------------
\* The age the strategies see is the number of bars the position has kept its
\* sign (next_position_age_bars, position_age_bars_after).
AgeCountsHolding ==
  policy.age = IF position.lots = 0 THEN 0 ELSE replay.bar - opened

\* A voluntary change never touches a position inside its minimum hold: only a
\* protective exit, or a cut by the risk rules, moves it before its time
\* (constrain_intent_for_minimum_hold).
HoldIsKept ==
  /\ lastStep'.kind \in {"held", "decided"} /\ lastStep'.risk = "none"
  /\ position.lots # 0 /\ replay.bar - opened < HoldBars /\ lastStep'.asked # 0
  => position'.lots = position.lots

\* When the hold has ended the position again follows the strategy's own size,
\* unless a lasting risk limit holds it down: a suppressed quantity is never
\* remembered past the lock (minimum_hold_unlocked).
UnlockedFollowsBudget ==
  lastStep.kind = "decided" /\ replay.mode # "scripted" /\ ~capped
    => policy.desired = TargetLots(policy.intent)

\* An open position of a running replay has an executed entry price that stems
\* from the fills of its own sign, and the tracker agrees with the book: what
\* mark_gross_return needs for a take-profit or a stop-loss.
EntryIsKnown ==
  replay.running => /\ entry.lots = position.lots
                    /\ entry.since = IF position.lots = 0 THEN NoEntry ELSE opened

\* Every interval a live replay captures is one the strict loader accepts after
\* the interval before it (SharedCashLedgerIntervalEvidence and _validate_ledger).
CapturedIntervalsChain ==
  replay'.bar # replay.bar /\ ~position'.dead =>
    /\ IntervalValid(interval')
    /\ ContinuesFrom(interval', interval.after)
    /\ interval'.bar = replay.bar

\* Types: bars, lots and the remembered policy state.
ReplayTypeOK ==
  /\ replay.bar \in 0..StopBar /\ replay.mode \in Modes
  /\ {position.lots, policy.desired, entry.lots} \subseteq AllLots
  /\ policy.intent \in Intents /\ policy.age \in 0..StopBar

\* What the replay loop remembers agrees with what it executed: the age, the
\* entry and the unlocked size, the hold, and the chain of captured intervals.
MemoryMatchesExecution ==
  [][/\ (AgeCountsHolding /\ UnlockedFollowsBudget /\ EntryIsKnown)'
     /\ HoldIsKept
     /\ CapturedIntervalsChain]_replayVars
=============================================================================
