---------------------------- MODULE PaperAccount ----------------------------
(* The paper account (evaluation/paper/account.py): what one command does to *)
(* the book, the permanent stop and the funding ledger, and the screen that  *)
(* judges the finished account (assessment.py).                              *)
(*                                                                           *)
(* One carry pair is modelled: lots of spot, lots of its perpetual.  Time is *)
(* the snapshot's receipt time.  The venue pays funding at FundingTimes,     *)
(* announces the next one truthfully and publishes what was settled when it  *)
(* pleases: rows may come late, together, twice, or revised.                 *)
EXTENDS Integers, Sequences, FiniteSets, FiniteSetsExt

CONSTANTS
  StartAt, CloseAt,   \* settings.start_at, settings.close_at
  MaximumGap,         \* settings.maximum_gap_seconds
  StaleAfter,         \* the ten seconds a decision may wait
  GraceFrom, GraceTo, \* the screen's terminal grace: [GraceFrom, GraceTo) after close_at
  FundingTimes,       \* when the venue settles funding
  FundingRates,       \* the values a settlement row may carry
  LotTarget,          \* the bot's matched target, in lots
  MaxCommands         \* bound: commands

ASSUME AccountAssumption ==
  /\ StartAt \in Nat /\ CloseAt \in Nat /\ StartAt < CloseAt
  /\ MaximumGap \in Nat /\ StaleAfter \in Nat /\ GraceFrom < GraceTo
  /\ FundingTimes \subseteq Nat /\ LotTarget \in Nat

VARIABLES
  account,    \* the PaperAccount
  commands    \* how many commands it has adopted

accountVars == <<account, commands>>

NoOrder == [at |-> -1]
NotSettled == 0
NotPaid == 99
NoStop == "none"
Flat == [spot |-> 0, perp |-> 0]
Magnitude(n) == IF n < 0 THEN -n ELSE n

(* A settled row is told from an absent one, and a perpetual settles hours apart, the        *)
(* settings allowing a gap of at most 180 seconds.                                           *)
ASSUME FundingAssumption ==
  /\ NotSettled \notin FundingRates
  /\ \A f, g \in FundingTimes : f < g => g - f >= MaximumGap

(* PaperAccount.__init__.  paid and observed are the funding rows and the times of the       *)
(* results, which the journal keeps and the screen reads.                                    *)
NewAccount == [
  lastAt |-> StartAt, lots |-> Flat, insolvent |-> FALSE, stop |-> NoStop, failures |-> {},
  order |-> NoOrder, settlements |-> [f \in FundingTimes |-> NotSettled], expected |-> {},
  holdings |-> <<>>, watermark |-> -1, paid |-> [f \in FundingTimes |-> NotPaid],
  observed |-> {}, filled |-> {}]

AccountInit == account = NewAccount /\ commands = 0

-----------------------------------------------------------------------------
(* bot.stop: the first reason stays. *)
Stop(acc, reason) == [acc EXCEPT !.stop = IF @ = NoStop THEN reason ELSE @]

(* _fail for a set of reasons found at one place. *)
Fail(acc, reason, found) ==
  IF found = {} THEN acc ELSE [Stop(acc, reason) EXCEPT !.failures = @ \cup found]

(* Mutation: the quantity of the book now. *)
HeldBeforeNow(acc, f) == acc.lots.perp

(* The perpetual quantity of the last execution strictly before f. *)
HeldBefore(acc, f) ==
  LET before == {i \in DOMAIN acc.holdings : acc.holdings[i].at < f} IN
  IF before = {} THEN 0 ELSE acc.holdings[Max(before)].perp

(* Mutation: a payment that is due and not settled is forgotten with the schedule. *)
ExpectedAfterOnlyNext(acc, at, rows) ==
  IF \E f \in FundingTimes : f > at THEN {Min({f \in FundingTimes : f > at})} ELSE {}

(* The announced payments after a snapshot: those already due stay until they are settled,   *)
(* those not yet due give way to the snapshot's next funding time.                           *)
ExpectedAfter(acc, at, rows) ==
  {f \in acc.expected \ {r.f : r \in rows} : f <= at}
    \cup (IF \E f \in FundingTimes : f > at THEN {Min({f \in FundingTimes : f > at})} ELSE {})

(* _funding: every settlement row is paid once, for what was held before it; revisions,      *)
(* disorder, delay and absence are quality failures.                                         *)
Funding(acc, at, rows) ==
  LET new == {r \in rows : acc.settlements[r.f] = NotSettled}
      pays == {r \in new : HeldBefore(acc, r.f) # 0}
      revised == {r \in rows \ new : acc.settlements[r.f] # r.value}
      late == {r \in new : r.f >= StartAt /\ at - r.f > MaximumGap}
      expected == ExpectedAfter(acc, at, rows)
      found == {"funding_revision" : r \in revised}
        \cup {"funding_out_of_order" : r \in {s \in pays : s.f <= acc.watermark}}
        \cup {"late_funding" : r \in late}
        \cup {"missing_funding" : f \in {g \in expected : at - g > MaximumGap}} IN
  [Fail(acc, "funding", found) EXCEPT
     !.settlements = [f \in FundingTimes |->
        IF \E r \in new : r.f = f THEN (CHOOSE r \in new : r.f = f).value ELSE @[f]],
     !.paid = [f \in FundingTimes |-> IF \E r \in new : r.f = f THEN HeldBefore(acc, f) ELSE @[f]],
     !.expected = expected,
     !.watermark = Max({r.f : r \in pays} \cup {@})]

(* _observe: the gap, the risk at the new marks, the terminal close, then the payments.      *)
(* risk is what _risk, and for an increasing order the projected collateral guard, find at   *)
(* the snapshot's prices.                                                                    *)
Observe(acc, at, rows, risk) ==
  LET gapped == Fail(acc, "data_gap", IF at - acc.lastAt > MaximumGap THEN {"observation_gap"} ELSE {})
      marked == [Fail(gapped, "risk", risk) EXCEPT !.insolvent = @ \/ "insolvent" \in risk]
      closed == IF at >= CloseAt THEN Stop(marked, "terminal_close") ELSE marked IN
  [Funding(closed, at, rows) EXCEPT !.lastAt = at, !.observed = @ \cup {at}]

(* decide: the bot's target against the exact quantities. *)
Decide(acc, at, rows, risk) ==
  LET seen == Observe(acc, at, rows, risk)
      target == IF seen.stop # NoStop THEN Flat ELSE [spot |-> LotTarget, perp |-> -LotTarget]
      trade == [spot |-> target.spot - seen.lots.spot, perp |-> target.perp - seen.lots.perp] IN
  [seen EXCEPT !.order = IF trade # Flat /\ ~seen.insolvent THEN [at |-> at, trade |-> trade] ELSE NoOrder]

Increasing(acc) ==
  LET after(leg) == Magnitude(acc.lots[leg] + acc.order.trade[leg]) IN
  \E leg \in {"spot", "perp"} : after(leg) > Magnitude(acc.lots[leg])

(* Mutation: an order decided before the stop is still filled. *)
CancelledIfInsolvent(acc) == acc.insolvent

(* The orders are dropped when the account is insolvent, or stopped and they would increase  *)
(* a position.                                                                               *)
Cancelled(acc) == acc.insolvent \/ (acc.stop # NoStop /\ Increasing(acc))

(* A fill of n of the ordered lots, n from 0 to all of them. *)
FillsOf(n) == IF n >= 0 THEN 0..n ELSE n..0
Fills(acc) == [spot : FillsOf(acc.order.trade.spot), perp : FillsOf(acc.order.trade.perp)]

(* Mutation: a partly filled pair is not looked at. *)
HedgeFailureIfNaked(now) == IF now.spot # 0 /\ now.perp = 0 THEN {"unmatched_hedge"} ELSE {}

HedgeFailure(now) == IF now.spot + now.perp # 0 THEN {"unmatched_hedge"} ELSE {}

(* execute: what depth allows of each leg (fillRisk: what _risk finds after a fill; it ends   *)
(* an increasing order), the holding it leaves, the hedge check.                             *)
Execute(acc, at, rows, risk, fill, fillRisk) ==
  LET seen == Observe(acc, at, rows, risk)
      now == [spot |-> seen.lots.spot + fill.spot, perp |-> seen.lots.perp + fill.perp]
      after == IF Cancelled(seen) THEN seen
               ELSE Fail([Fail(seen, "fill_risk", fillRisk) EXCEPT !.lots = now,
                            !.holdings = Append(@, [at |-> at, perp |-> now.perp]),
                            !.filled = @ \cup {leg \in {"spot", "perp"} : fill[leg] # 0}],
                         "unmatched_hedge", HedgeFailure(now)) IN
  [after EXCEPT !.order = NoOrder]

(* gap: a reported hole; the pending decision is dropped. *)
Gap(acc, at) == [Fail(acc, "data_gap", {"gap"}) EXCEPT !.order = NoOrder, !.lastAt = at]

-----------------------------------------------------------------------------
(* What the venue may show at time at: rows of settled payments. *)
SnapshotRows(at) ==
  UNION {{{[f |-> f, value |-> v[f]] : f \in shown} : v \in [shown -> FundingRates]} :
           shown \in SUBSET {f \in FundingTimes : f <= at}}
RiskFindings == {{}, {"drawdown"}, {"insolvent"}}

(* _clock refuses a command that does not follow the previous one. *)
CommandTimes == {at \in 1..(CloseAt + GraceTo - 1) : at > account.lastAt}

Adopt(acc) == commands < MaxCommands /\ account' = acc /\ commands' = commands + 1

DecideCommand ==
  /\ account.order = NoOrder
  /\ \E at \in CommandTimes, risk \in RiskFindings :
       \E rows \in SnapshotRows(at) : Adopt(Decide(account, at, rows, risk))

ExecuteCommand ==
  /\ account.order # NoOrder
  /\ \E at \in CommandTimes, risk \in RiskFindings,
        fill \in Fills(account), fillRisk \in {{}, {"drawdown"}} :
       /\ at - account.order.at <= StaleAfter
       /\ \E rows \in SnapshotRows(at) :
            Adopt(Execute(account, at, rows, risk, fill, fillRisk))

GapCommand == \E at \in CommandTimes : Adopt(Gap(account, at))

AccountNext == DecideCommand \/ ExecuteCommand \/ GapCommand

AccountSpec == AccountInit /\ [][AccountNext]_accountVars

-----------------------------------------------------------------------------
(* The screen: assessment.py *)

(* unsettled_funding *)
UnsettledFunding(acc) ==
  {f \in acc.expected : f <= acc.lastAt /\ acc.settlements[f] = NotSettled /\ HeldBefore(acc, f) # 0}

(* _ObservationAccumulator.finish: the coverage of the observations. *)
CoverageComplete(acc) ==
  /\ acc.observed # {}
  /\ \A at \in acc.observed :
       LET before == {b \in acc.observed \cup {StartAt} : b < at} IN at - Max(before) <= MaximumGap
  /\ Max(acc.observed) - CloseAt \in GraceFrom..(GraceTo - 1)

(* Mutation: payments still owed are not asked for. *)
ScreenPassesOwing(acc) ==
  /\ CoverageComplete(acc)
  /\ acc.lots = Flat /\ acc.order = NoOrder /\ acc.stop = "terminal_close"
  /\ acc.failures = {} /\ acc.filled = {"spot", "perp"}
  /\ \A f \in FundingTimes : f >= CloseAt => acc.paid[f] \in {0, NotPaid}

(* screen_reasons is empty, the profit tests apart. *)
ScreenPasses(acc) ==
  /\ CoverageComplete(acc)
  /\ acc.lots = Flat /\ acc.order = NoOrder /\ acc.stop = "terminal_close"
  /\ acc.failures = {}
  /\ UnsettledFunding(acc) = {}
  /\ acc.filled = {"spot", "perp"}
  /\ \A f \in FundingTimes : f >= CloseAt => acc.paid[f] \in {0, NotPaid}

-----------------------------------------------------------------------------
(* Properties *)

(* _funding pays every settlement for the quantity that was held before it, also when it is  *)
(* published after later executions, and pays nothing twice: what was paid for a funding     *)
(* time is what the executions before that time add up to.                                   *)
PaidForWhatWasHeld ==
  \A f \in FundingTimes : account.paid[f] # NotPaid =>
    LET before == {i \in DOMAIN account.holdings : account.holdings[i].at < f} IN
    account.paid[f] = IF before = {} THEN 0 ELSE account.holdings[Max(before)].perp

(* No payment is missed in silence: a funding time that has passed while a position was held *)
(* is settled, reported by unsettled_funding, or a quality failure is on record.             *)
NoFundingMissedInSilence ==
  \A f \in FundingTimes :
    /\ f <= account.lastAt /\ HeldBefore(account, f) # 0 /\ account.settlements[f] = NotSettled
    => f \in UnsettledFunding(account) \/ account.failures # {}

(* The stop is permanent and reduce-only: from the moment an observation sets it no command  *)
(* increases a leg, an order decided before it included.  Only an execution that itself      *)
(* breaks the risk limits or the hedge has increased a leg in the command that stops it.     *)
StoppedOnlyReduces ==
  /\ account.stop # NoStop => account'.stop = account.stop
  /\ account.stop # NoStop \/ account'.stop \notin {NoStop, "fill_risk", "unmatched_hedge"} =>
       \A leg \in {"spot", "perp"} :
         Magnitude(account'.lots[leg]) <= Magnitude(account.lots[leg])

(* execute never leaves a naked leg unreported: an unmatched pair is a quality failure and   *)
(* has stopped the account.                                                                  *)
UnmatchedHedgeStops ==
  account.lots.spot + account.lots.perp # 0 =>
    "unmatched_hedge" \in account.failures /\ account.stop # NoStop

(* A screen that passes (evaluate_paper_study) has paid every funding time between the first *)
(* and the last execution for what was held, and was never stopped before the close.         *)
PassedScreenIsComplete ==
  ScreenPasses(account) =>
    \A f \in FundingTimes : f <= account.lastAt /\ HeldBefore(account, f) # 0 =>
      account.paid[f] = HeldBefore(account, f)

(* The money side of the account: every payment is for what was held, none is missed in      *)
(* silence, and a screen that passes has paid them all.                                      *)
FundingIsSettled ==
  PaidForWhatWasHeld /\ NoFundingMissedInSilence /\ PassedScreenIsComplete

(* The risk side: a naked leg stops the account, and a stopped account only reduces.         *)
StopHolds == [][UnmatchedHedgeStops' /\ StoppedOnlyReduces]_accountVars
=============================================================================
