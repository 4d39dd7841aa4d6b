---------------------------- MODULE MarketSource -----------------------------
(***************************************************************************)
(* BinanceMarketDataSource (integrations/binance/dataset.py): one symbol's  *)
(* series on the base clock and on a coarser one, read through REST pages   *)
(* or Vision archives (transport.py, vision.py), natively or aggregated     *)
(* from base bars (derived_klines.py), and the funding aligned to them.     *)
(*                                                                          *)
(* Time is counted in base bars. A bar is its opening time; its prices      *)
(* matter only for whose close is carried into a hole. Months have one      *)
(* length: only where a window begins and ends in its month matters.        *)
(***************************************************************************)
EXTENDS Integers, Sequences, FiniteSets

LOCAL INSTANCE SequencesExt
LOCAL INSTANCE FiniteSetsExt

CONSTANTS
  PageLimit,       \* rows of one REST answer (1000)
  CoarseStep,      \* base bars in one bar of the coarser timeframe
  DayTicks,        \* base bars in a day
  MonthTicks,      \* base bars in a month
  MarketWindows,   \* the ranges asked for
  TradedBars,      \* the sets of base bars the exchange may have
  FundingHistory,  \* the sets of funding times the exchange may have
  Unread,          \* nothing read yet
  Refused          \* a ValueError

ASSUME SourceAssumption ==
  /\ {PageLimit, CoarseStep, DayTicks, MonthTicks} \subseteq Nat \ {0}
  /\ MonthTicks % DayTicks = 0
  /\ \A w \in MarketWindows : w.start \in Nat /\ w.end \in Nat /\ w.start < w.end
  \* funding is further apart than the shortest time the pages can tell apart
  /\ \A times \in FundingHistory : \A t \in times : t + 1 \notin times

VARIABLES
  source,   \* the source's arguments and what the exchange has
  series,   \* _series_cache: timeframe -> series, Refused or Unread
  funding   \* _funding_cache

seriesVars == <<source, series, funding>>

Timeframes == {"base", "coarse"}
StepOf(tf) == IF tf = "base" THEN 1 ELSE CoarseStep

(* The exchange has a native coarse bar when anything traded in it. *)
NativeBars(bars, tf) ==
  IF tf = "base" THEN bars ELSE {t - (t % CoarseStep) : t \in bars}

(* The members of times between from and upto, both included, in order. *)
Ascending(times, from, upto) ==
  SelectSeq([i \in 1..(upto - from + 1) |-> from + i - 1], LAMBDA t : t \in times)
Opens(rows) == {rows[i] : i \in DOMAIN rows}

-----------------------------------------------------------------------------
(* REST: pages of at most PageLimit rows, each from where the last one ended. *)

Page(times, from, upto) ==
  LET rows == Ascending(times, from, upto) IN
  SubSeq(rows, 1, IF Len(rows) < PageLimit THEN Len(rows) ELSE PageLimit)

(* Mutation: the cursor moves past the bar after the page. *)
RestKlinesSkipping(bars, step, w) ==
  LET from[c \in w.start..(w.end + 2 * step)] ==
        LET chunk == Page(bars, c, w.end - 1) IN
        IF c >= w.end \/ Len(chunk) < PageLimit THEN chunk
        ELSE chunk \o from[chunk[Len(chunk)] + 2 * step]
  IN from[w.start]

RestKlines(bars, step, w) ==
  LET from[c \in w.start..(w.end + step)] ==
        LET chunk == Page(bars, c, w.end - 1) IN
        IF c >= w.end \/ Len(chunk) < PageLimit THEN chunk
        ELSE chunk \o from[chunk[Len(chunk)] + step]
  IN from[w.start]

RestFunding(times, first, last) ==
  LET from[c \in first..(last + 1)] ==
        LET chunk == Page(times, c, last) IN
        IF c >= last THEN <<>>
        ELSE IF Len(chunk) < PageLimit THEN chunk
        ELSE chunk \o from[chunk[Len(chunk)] + 1]
  IN from[first]

-----------------------------------------------------------------------------
(* Vision: monthly and daily archives.                                       *)

MonthOf(t) == t - (t % MonthTicks)
DayOf(t) == t - (t % DayTicks)

(* The whole months of the range as monthly archives, the rest day by day. *)
PlanKlineFiles(w) ==
  LET from[c \in DayOf(w.start)..(w.end + MonthTicks)] ==
        IF c >= w.end THEN <<>>
        ELSE IF c = MonthOf(c) /\ w.start <= c /\ c + MonthTicks <= w.end
        THEN <<[first |-> c, next |-> c + MonthTicks]>> \o from[c + MonthTicks]
        ELSE <<[first |-> c, next |-> c + DayTicks]>> \o from[c + DayTicks]
  IN from[DayOf(w.start)]

ArchiveRows(times, file, from, upto) ==
  Ascending(times, Max({file.first, from}), Min({file.next - 1, upto}))

VisionKlines(bars, w) ==
  FlattenSeq([i \in DOMAIN PlanKlineFiles(w) |->
                ArchiveRows(bars, PlanKlineFiles(w)[i], w.start, w.end - 1)])

FundingMonths(first, last) ==
  [i \in 1..((MonthOf(last - 1) - MonthOf(first)) \div MonthTicks + 1) |->
     [first |-> MonthOf(first) + (i - 1) * MonthTicks,
      next |-> MonthOf(first) + i * MonthTicks]]

VisionFunding(times, first, last) ==
  FlattenSeq([i \in DOMAIN FundingMonths(first, last) |->
                ArchiveRows(times, FundingMonths(first, last)[i], first, last)])

(* The trailing month has no archive yet: its events come from REST. *)
VisionFundingRange(times, w) ==
  LET trailing == MonthOf(w.end)
      split == IF w.start < trailing THEN trailing ELSE w.start IN
  IF w.end = trailing THEN VisionFunding(times, w.start, w.end)
  ELSE (IF w.start < split THEN VisionFunding(times, w.start, split) ELSE <<>>)
         \o RestFunding(times, split, w.end)

-----------------------------------------------------------------------------
(* load_klines and load_funding_rates; AUTO turns to Vision when REST fails.  *)

UsesRest(mode, restAnswers) == mode = "rest" \/ (mode = "auto" /\ restAnswers)

LoadKlines(tf, restAnswers) ==
  LET bars == NativeBars(source.bars, tf) IN
  IF UsesRest(source.mode, restAnswers) THEN RestKlines(bars, StepOf(tf), source.window)
  ELSE VisionKlines(bars, source.window)

LoadFunding(restAnswers) ==
  LET w == source.window IN
  IF UsesRest(source.mode, restAnswers) THEN RestFunding(source.funding, w.start, w.end)
  ELSE VisionFundingRange(source.funding, w)

(* aggregate_klines drops a window with any missing base bar. *)
AggregateKlines(rows) ==
  SelectSeq([i \in 1..((source.window.end - source.window.start) \div CoarseStep) |->
               source.window.start + (i - 1) * CoarseStep],
            LAMBDA t : t..(t + CoarseStep - 1) \subseteq Opens(rows))

KlineRows(tf, restAnswers) ==
  IF source.derived /\ tf = "coarse"
  THEN AggregateKlines(LoadKlines("base", restAnswers))
  ELSE LoadKlines(tf, restAnswers)

-----------------------------------------------------------------------------
(* From rows to a series.                                                    *)

(* The bars of the range that have closed by its end. *)
Closed(rows, step) ==
  SelectSeq(rows, LAMBDA t : source.window.start <= t /\ t + step <= source.window.end)

(* _align_funding: an event belongs to the first bar that closes at or after it. *)
FundingIn(events, open, step) ==
  Cardinality({i \in DOMAIN events : open < events[i] /\ events[i] <= open + step})

ABar(open, step, available, close, events) ==
  [open |-> open, available |-> available, close |-> close,
   funding |-> FundingIn(events, open, step)]

(* _parse_kline_rows under STRICT: at least two bars, at regular distances. *)
StrictSeries(rows, step, events) ==
  LET closed == Closed(rows, step) IN
  IF Len(closed) < 2 \/ \E i \in 2..Len(closed) : closed[i] # closed[i - 1] + step
  THEN Refused
  ELSE [bars |-> {ABar(t, step, t + step, t, events) : t \in Opens(closed)}, missed |-> 0]

(* The close carried into a hole: that of the nearest earlier bar. *)
CarriedFrom(open, present) == Max({t \in present : t <= open})

(* _gap_tolerant_series: holes of the base clock are left out and their funding is only  *)
(* counted; on the coarser clock a hole is a bar that is not available before the end.   *)
GapTolerantSeries(rows, step, isBase, events) ==
  LET closed == Closed(rows, step)
      present == Opens(closed)
      grid == {t \in source.window.start..(source.window.end - 1) :
                 (t - source.window.start) % step = 0}
      holes == grid \ present
      Bar(t) == ABar(t, step, IF t \in holes THEN source.window.end ELSE t + step,
                     CarriedFrom(t, present), events) IN
  IF Cardinality(present) # Len(closed) \/ Len(closed) < 2 \/ source.window.start \notin present
  THEN Refused
  ELSE [bars |-> {Bar(t) : t \in IF isBase THEN present ELSE grid},
        missed |-> IF isBase
                   THEN Cardinality({i \in DOMAIN events :
                          \E t \in holes : t < events[i] /\ events[i] <= t + step})
                   ELSE 0]

-----------------------------------------------------------------------------
SeriesInit ==
  /\ source = Unread
  /\ series = [tf \in Timeframes |-> Unread]
  /\ funding = Unread

OpenSource(window, bars, times, mode, policy, derived) ==
  /\ source = Unread
  /\ source' = [window |-> window, bars |-> bars, funding |-> times, mode |-> mode,
                policy |-> policy, derived |-> derived]
  /\ UNCHANGED <<series, funding>>

(* Mutation: the funding events are requested again for every timeframe. *)
FundingEventsAskedAgain(restAnswers) == LoadFunding(restAnswers)
FundingEvents(restAnswers) == IF funding = Unread THEN LoadFunding(restAnswers) ELSE funding

(* The series of a timeframe, once: whether REST answers is decided for the klines and   *)
(* for the funding apart. Under STRICT the rows are refused before the funding is asked. *)
LoadTimeframe(tf, restKlines, restFunding) ==
  LET rows == KlineRows(tf, restKlines)
      step == StepOf(tf)
      events == FundingEvents(restFunding)
      loaded == IF source.policy = "strict" THEN StrictSeries(rows, step, events)
                ELSE GapTolerantSeries(rows, step, tf = "base", events) IN
  /\ source # Unread /\ series[tf] = Unread
  /\ source.window.start % step = 0 /\ source.window.end % step = 0
  /\ series' = [series EXCEPT ![tf] = loaded]
  /\ funding' = IF source.policy = "strict" /\ loaded = Refused THEN funding ELSE events
  /\ UNCHANGED source

SeriesNext ==
  \/ \E w \in MarketWindows, bars \in TradedBars, times \in FundingHistory,
        mode \in {"rest", "vision", "auto"}, policy \in {"strict", "non_tradable_rows"},
        derived \in BOOLEAN : OpenSource(w, bars, times, mode, policy, derived)
  \/ \E tf \in Timeframes, k, f \in BOOLEAN : LoadTimeframe(tf, k, f)

SeriesSpec == SeriesInit /\ [][SeriesNext]_seriesVars

-----------------------------------------------------------------------------
Loaded(tf) == series[tf] \notin {Unread, Refused}
FundingOf(s) == MapThenSumSet(LAMBDA b : b.funding, s.bars)

(* "a missing bar on the base clock is simply absent", "a price-carried zero-volume         *)
(* placeholder whose available_at is the end of the requested range" (dataset.py): whichever *)
(* of REST pages, monthly and daily archives and aggregation served it, a series has exactly *)
(* the bars the exchange has in the range, and nothing of a hole is known before the end.    *)
SeriesAreTheExchanges ==
  \A tf \in Timeframes : Loaded(tf) =>
    LET w == source.window
        step == StepOf(tf)
        complete == {t \in source.bars : t % step = 0 /\ t..(t + step - 1) \subseteq source.bars}
        traded == IF source.derived /\ tf = "coarse" THEN complete
                  ELSE NativeBars(source.bars, tf)
        here == {t \in traded : w.start <= t /\ t + step <= w.end}
        real == {b \in series[tf].bars : b.close = b.open} IN
    /\ {b.open : b \in real} = here
    /\ \A b \in real : b.available = b.open + step
    /\ \A b \in series[tf].bars \ real :
         tf = "coarse" /\ b.available = w.end /\ b.close < b.open

(* "Aggregate every funding event into its completed native bar": both clocks of a source  *)
(* account for the same events - those in a base hole are reported - even when REST        *)
(* answered for one request and Vision, whose months end before an event at their end,     *)
(* for another.                                                                            *)
ClocksAgreeOnFunding ==
  (Loaded("base") /\ Loaded("coarse") /\ source.policy = "non_tradable_rows") =>
    FundingOf(series["base"]) + series["base"].missed = FundingOf(series["coarse"])

(* Every event after the start is accrued, but one at the very end of a range that ends    *)
(* with a month, which no archive read by the Vision path holds.                           *)
FundingIsAccruedOnce ==
  (Loaded("coarse") /\ source.policy = "non_tradable_rows") =>
    LET w == source.window
        due == {t \in source.funding : w.start < t /\ t <= w.end}
        unsure == {t \in due : t = w.end /\ w.end = MonthOf(w.end) /\ source.mode # "rest"} IN
    FundingOf(series["coarse"]) \in Cardinality(due \ unsure)..Cardinality(due)
=============================================================================
