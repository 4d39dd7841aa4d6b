--------------------------- MODULE StatefulOrders ---------------------------
(***************************************************************************)
(* Stateful order execution: targets are reconciled into persistent        *)
(* orders, and every bar begins (corporate actions, gap carry), admits the *)
(* active orders against a projected book, fills them from the shared      *)
(* symbol liquidity, expires remainders and finishes (carry, margin).      *)
(*                                                                         *)
(* src/trade_rl/simulation: orders/model.py, orders/admission.py,          *)
(* orders/reconciliation.py, liquidity.py, stateful/*.py, and the session  *)
(* that drives them (stateful/portfolio_session.py).                       *)
(*                                                                         *)
(* Data.  Quantities are whole lots, every price is 1, so a position is    *)
(* its own notional; what moves equity is cash (interest, borrow, funding, *)
(* dividends, delisting losses, execution costs).  Order identities        *)
(* (digests) are <<submit index, symbol, n>>; orders that tie in the sort  *)
(* by (eligible_index, order_id) are taken in any order.                   *)
(***************************************************************************)
EXTENDS Integers, FiniteSets, FiniteSetsExt, SequencesExt

CONSTANTS
    Setups,      \* executors and sessions, as records of the fields below
    MaxLeverage, \* cost.max_leverage
    MaintDen,    \* cost.maintenance_margin_rate = 1 / MaintDen
    Capital      \* initial cash

VARIABLE
    setup        \* the one in use; it never changes

NSymbols == setup.symbols         \* symbols are processed in order
Stop == setup.stop                \* stop_index of the session
Latency == setup.latency          \* cost.order_latency_bars
RetainDebt == setup.retainDebt    \* insolvency_valuation = "retain_debt"
PartialCarry == setup.carry       \* cost.partial_fill_carry
AllowShort == setup.short         \* cost.allow_short
Kind == setup.kind                \* cost.order_type of the session
Settle == setup.settle            \* settle_terminal_position
HasProfile == setup.profile       \* a market order profile is given ...
Roster == setup.roster            \* ... with these reduce-only symbols
Direct == setup.direct            \* intents of a direct caller; {}: a session
MaxOrders == setup.orders         \* bound: orders submitted directly
Positions == setup.positions      \* desired quantities
Flows == setup.flows              \* cash flow of a gap or of a bar
Costs == setup.costs              \* execution cost of a fill
Volumes == setup.volumes          \* capacity of a symbol in a bar

Symbols == 1..NSymbols
Kinds == {"market", "limit", "stop_market"}
Tifs == {"ioc", "day", "gtc"}
Never == Stop + 1      \* expiry_index None
Untouched == -1        \* trigger decision: not executable
AgentStop == IF Settle THEN Stop - Latency - 1 ELSE Stop

ASSUME OrdersAssumption ==
    /\ MaxLeverage \in Nat \ {0} /\ MaintDen \in Nat \ {0}
    /\ Capital \in Nat \ {0}
    /\ \A c \in Setups :
        /\ {c.symbols, c.stop} \subseteq Nat \ {0} /\ {c.latency, c.orders} \subseteq Nat
        /\ {c.retainDebt, c.carry, c.short, c.settle, c.profile} \subseteq BOOLEAN
        /\ c.kind \in Kinds /\ c.roster \subseteq 1..c.symbols
        /\ c.roster # {} => c.kind = "market"
        /\ c.settle => c.stop > c.latency + 1
        /\ \A intent \in c.direct :
             /\ intent.sym \in 1..c.symbols /\ intent.want \in Int \ {0}
             /\ intent.kind \in Kinds /\ intent.reduce \in BOOLEAN
             /\ intent.tif \in Tifs /\ intent.life \in Nat
        /\ c.positions \subseteq Int /\ 0 \in c.positions
        /\ c.flows \subseteq Int /\ c.costs \subseteq Nat /\ c.volumes \subseteq Nat

VARIABLES
    bar,        \* processing index (the decision index while deciding)
    pc,         \* phase of the bar
    orders,     \* id -> PendingOrder, active and terminal
    book,       \* BookState: quantities, cash, insolvent
    view,       \* _AdmissionBookProjection of the admission pass
    todo,       \* active orders the admission pass has not reached
    accepted,   \* orders admitted in this bar
    symbols,    \* symbols with accepted orders still to be processed
    allocs,     \* allocations of the current symbol still to be applied
    attempted,  \* attempted_order_ids
    history     \* within: the bar opened within the leverage cap;
                \* reversed: a reversal was admitted in this bar;
                \* impeded: the reserved intervals were not freely tradable

vars == <<setup, bar, pc, orders, book, view, todo, accepted, symbols, allocs,
          attempted, history>>
passVars == <<view, todo, accepted>>
fillVars == <<symbols, allocs, attempted>>

-----------------------------------------------------------------------------
(* Orders *)

Abs(n) == IF n < 0 THEN -n ELSE n
Sign(n) == IF n < 0 THEN -1 ELSE 1
Least(m, n) == IF m < n THEN m ELSE n

Done == {"filled", "rejected", "expired", "cancelled"}
Working == {"eligible", "triggered", "partially_filled"}
Waiting == {"submitted", "latency_wait"}

Active(os) == {i \in DOMAIN os : os[i].status \notin Done}

(* PendingOrder._transition at the current processing index *)
Moved(os, ids, status) ==
    [i \in DOMAIN os |-> IF i \in ids
                         THEN [os[i] EXCEPT !.status = status, !.last = bar]
                         ELSE os[i]]

Pending(sym, want, kind, tif, eligible, expiry, reduce) ==
    [sym |-> sym, want |-> want, left |-> want, kind |-> kind, tif |-> tif,
     submit |-> bar, eligible |-> eligible, expiry |-> expiry,
     reduce |-> reduce, status |-> "submitted", trigger |-> FALSE,
     last |-> bar]

(* What PendingOrder accepts; anything else raises OrderDomainError (or     *)
(* BarPathError) and poisons the session.                                   *)
Legal(o, n) ==
    /\ o.status \notin Done
    /\ n.last >= o.last
    /\ n.status = "latency_wait" => o.status \in Waiting
    /\ n.status = "eligible" => /\ o.status \in Waiting \cup {"eligible"}
                                /\ n.last >= o.eligible
    /\ n.status = "triggered" => o.status \in Working
    /\ n.left # o.left => /\ o.status \in Working
                          /\ n.left * o.left >= 0
                          /\ Abs(n.left) < Abs(o.left)

-----------------------------------------------------------------------------
(* The book *)

Total(f) ==
    LET sum[n \in 0..NSymbols] == IF n = 0 THEN 0 ELSE sum[n - 1] + f[n]
    IN  sum[NSymbols]
Gross(b) == Total([s \in Symbols |-> Abs(b.qty[s])])
Equity(b) == b.cash + Total(b.qty)
Flat == [s \in Symbols |-> 0]
OverCap(b) == Gross(b) > Equity(b) * MaxLeverage

Revalued(b) == [b EXCEPT !.dead = @ \/ Equity(b) <= 0]

Flattened(b) ==
    [b EXCEPT !.qty = Flat,
              !.cash = IF RetainDebt \/ Equity(b) > 0 THEN Equity(b) ELSE 0]

Margined(b) ==
    LET called == [b EXCEPT !.dead = @ \/ MaintDen * Equity(b) < Gross(b)]
    IN  IF called.dead THEN Flattened(called) ELSE called

Settled(b, S, recovery) ==
    [b EXCEPT !.qty = [s \in Symbols |-> IF s \in S THEN 0 ELSE @[s]],
              !.cash = @ + recovery *
                  Total([s \in Symbols |-> IF s \in S THEN b.qty[s] ELSE 0])]

Filled(b, s, q, cost) ==
    LET traded == [b EXCEPT !.qty[s] = @ + q, !.cash = @ - (q + cost),
                            !.dead = @ \/ cost >= Max({Equity(b), 0})]
    IN  Margined(Revalued(traded))

-----------------------------------------------------------------------------
(* Deciding: a session reconciles a target, a direct caller submits intents *)

Init ==
    /\ setup \in Setups
    /\ bar = 0 /\ pc = "decide" /\ orders = <<>>
    /\ book = [qty |-> Flat, cash |-> Capital, dead |-> FALSE]
    /\ view = [qty |-> Flat, cash |-> 0, dead |-> FALSE, over |-> FALSE,
               free |-> Flat]
    /\ todo = {} /\ accepted = {} /\ symbols = {} /\ allocs = <<>>
    /\ attempted = {}
    /\ history = [within |-> TRUE, reversed |-> FALSE, impeded |-> FALSE]

Reducing(target, s) ==
    LET now == book.qty[s]
        smaller == now # 0 /\ now * target[s] >= 0 /\ Abs(target[s]) < Abs(now)
    IN  IF HasProfile
        THEN s \in Roster /\ smaller
        ELSE Kind = "market" /\ smaller /\ (target[s] = 0 \/ OverCap(book))

(* Mutant: the superseded residuals are not cancelled. *)
ReconciledAdding(target) ==
    LET fresh == {<<bar, s, 1>> : s \in {r \in Symbols : target[r] # book.qty[r]}}
    IN  [i \in DOMAIN orders \cup fresh |->
            IF i \in fresh
            THEN Pending(i[2], target[i[2]] - book.qty[i[2]], Kind, "gtc",
                         bar + Latency, Never, Reducing(target, i[2]))
            ELSE orders[i]]

(* Mutant: a closing order never matches, and is submitted anew. *)
CompatibleEntry(o, reduce) ==
    ~o.reduce /\ o.kind = Kind /\ o.tif = "gtc" /\ o.expiry = Never

(* An active order realises the same intent: only its residual remains. *)
Compatible(o, reduce) ==
    o.reduce = reduce /\ o.kind = Kind /\ o.tif = "gtc" /\ o.expiry = Never

Live(s) == {i \in Active(orders) : orders[i].sym = s}
Residual(s) == FoldSet(LAMBDA i, t : t + orders[i].left, 0, Live(s))

Reconciled(target) ==
    LET delta(s) == target[s] - book.qty[s]
        kept == {s \in Symbols :
            /\ \A i \in Live(s) : Compatible(orders[i], Reducing(target, s))
            /\ delta(s) = Residual(s)}
        superseded == {i \in Active(orders) : orders[i].sym \notin kept}
        fresh == {<<bar, s, 1>> : s \in {r \in Symbols \ kept : delta(r) # 0}}
        cancelled == Moved(orders, superseded, "cancelled")
    IN  [i \in DOMAIN orders \cup fresh |->
            IF i \in fresh
            THEN Pending(i[2], delta(i[2]), Kind, "gtc", bar + Latency, Never,
                         Reducing(target, i[2]))
            ELSE cancelled[i]]

(* SharedPortfolioSession.advance, or settle_next_interval in the reserved  *)
(* intervals, up to the call of execute_stateful_orders.                    *)
Decide(target) ==
    /\ pc = "decide" /\ Direct = {} /\ bar < Stop
    /\ ~book.dead /\ Equity(book) > 0
    /\ bar >= AgentStop => target = Flat
    /\ Total([s \in Symbols |-> Abs(target[s])]) <= MaxLeverage * Equity(book)
    /\ orders' = Reconciled(target)
    /\ pc' = "begin"
    /\ history' = [history EXCEPT !.impeded = @ /\ bar # AgentStop]
    /\ UNCHANGED <<setup, bar, book, passVars, fillVars>>

Submit(intent) ==
    /\ pc = "decide" /\ bar < Stop /\ Cardinality(DOMAIN orders) < MaxOrders
    /\ intent.reduce => intent.kind = "market"
    /\ LET taken == {i \in DOMAIN orders : i[1] = bar /\ i[2] = intent.sym}
           id == <<bar, intent.sym, Cardinality(taken) + 1>>
           expiry == IF intent.life = Never THEN Never ELSE bar + intent.life
       IN  orders' = [i \in DOMAIN orders \cup {id} |->
               IF i = id
               THEN Pending(intent.sym, intent.want, intent.kind, intent.tif,
                            bar + Latency, Max({expiry, bar + Latency}),
                            intent.reduce)
               ELSE orders[i]]
    /\ UNCHANGED <<setup, bar, pc, book, passVars, fillVars, history>>

Start ==
    /\ pc = "decide" /\ Direct # {} /\ bar < Stop
    /\ Equity(book) > 0 /\ ~(RetainDebt /\ book.dead)
    /\ pc' = "begin"
    /\ UNCHANGED <<setup, bar, orders, book, passVars, fillVars, history>>

-----------------------------------------------------------------------------
(* The beginning of a bar *)

Projection(b) ==
    [qty |-> b.qty, cash |-> b.cash, dead |-> b.dead \/ Equity(b) <= 0,
     over |-> ~b.dead /\ Equity(b) > 0 /\ OverCap(b), free |-> b.qty]

(* The phase after the beginning of a bar: a retained debt is absorbing. *)
AfterBegin(b, os) == IF RetainDebt /\ b.dead THEN "finish"
                     ELSE IF Active(os) = {} THEN "fill" ELSE "prepare"

Opens(b, os) ==
    /\ bar' = bar + 1 /\ book' = b /\ orders' = os
    /\ pc' = AfterBegin(b, os)
    /\ view' = Projection(b)
    /\ todo' = IF pc' = "prepare" THEN Active(os) ELSE {}
    /\ accepted' = {}
    /\ UNCHANGED <<setup, fillVars>>

(* Gap carry that exhausts a book whose debt is retained: begin_bar returns *)
(* before any corporate action.                                             *)
BeginExhausted(flow) ==
    LET b == Revalued([book EXCEPT !.cash = @ + flow])
    IN  /\ pc = "begin" /\ RetainDebt /\ b.dead
        /\ Opens(b, orders)
        /\ history' = [within |-> ~OverCap(b), reversed |-> FALSE,
                       impeded |-> history.impeded]

BeginBar(gap, flow, split, inactive, recovery) ==
    LET carried == IF gap THEN Revalued([book EXCEPT !.cash = @ + flow]) ELSE book
        opened == Revalued(Settled(carried, inactive, recovery))
        b == IF gap THEN Margined(opened) ELSE opened
        hit == {i \in Active(orders) : \/ gap /\ b.dead
                                       \/ orders[i].sym \in split \cup inactive}
        cancelled ==
            [i \in DOMAIN orders |->
                IF i \in hit
                THEN [orders[i] EXCEPT !.status = "cancelled", !.last = bar + 1]
                ELSE orders[i]]
    IN  /\ pc = "begin"
        /\ ~(gap /\ RetainDebt /\ carried.dead)
        /\ Opens(b, cancelled)
        /\ history' = [within |-> ~OverCap(b), reversed |-> FALSE,
                       impeded |-> history.impeded \/ split # {}]

-----------------------------------------------------------------------------
(* The admission pass: orders in the order of their eligible_index *)

IsNext(i) == /\ pc = "prepare" /\ i \in todo
             /\ \A j \in todo : orders[i].eligible <= orders[j].eligible

Passed(i) == /\ todo' = todo \ {i}
             /\ pc' = IF todo' = {} THEN "fill" ELSE "prepare"

NotAdmitted(i, status) ==
    /\ IsNext(i) /\ Passed(i)
    /\ orders' = Moved(orders, {i}, status)
    /\ UNCHANGED <<setup, bar, book, view, accepted, symbols, allocs, attempted>>

PrepareExpired(i) ==
    /\ bar > orders[i].expiry
    /\ NotAdmitted(i, "expired")
    /\ UNCHANGED history

PrepareWaits(i) ==
    /\ bar <= orders[i].expiry /\ bar < orders[i].eligible
    /\ NotAdmitted(i, "latency_wait")
    /\ UNCHANGED history

(* Mutant: the bar at which an order becomes eligible is one too early. *)
DueEarly(i) == bar <= orders[i].expiry /\ bar + 1 >= orders[i].eligible

Due(i) == bar <= orders[i].expiry /\ bar >= orders[i].eligible

(* OrderAdmissionPolicy.evaluate: the checks on the book.  A reduce-only    *)
(* order is measured against inventory, not against the projection.         *)
Closes(o, position) == position * o.left < 0 /\ Abs(o.left) <= Abs(position)

Admissible(o) ==
    LET s == o.sym
        position == IF view.over THEN view.free[s] ELSE book.qty[s]
        after == [view EXCEPT !.qty[s] = @ + o.left]
    IN  /\ o.reduce => Closes(o, position)
        /\ AllowShort \/ view.qty[s] + o.left >= 0
        /\ ~view.dead /\ Equity(view) > 0
        /\ \/ Gross(after) <= Equity(view) * MaxLeverage
           \/ view.over /\ o.reduce /\ Gross(after) < Gross(view)

Refusal(o) == IF o.status \in {"triggered", "partially_filled"}
              THEN "expired" ELSE "rejected"

PrepareInadmissible(i) ==
    /\ Due(i) /\ ~Admissible(orders[i])
    /\ NotAdmitted(i, Refusal(orders[i]))
    /\ UNCHANGED history

(* The market's own refusals: not tradable, side disabled, no borrow, rules *)
(* of the venue.                                                            *)
PrepareRefused(i) ==
    /\ Due(i)
    /\ NotAdmitted(i, Refusal(orders[i]))
    /\ history' = [history EXCEPT !.impeded = TRUE]

(* Mutant: a closing order releases the headroom of its position at once. *)
ReservedReleasing(o) ==
    [view EXCEPT !.free[o.sym] = IF view.over /\ o.reduce THEN @ + o.left ELSE @,
                 !.qty[o.sym] = @ + o.left, !.cash = @ - o.left]

Reserved(o) ==
    LET s == o.sym
        reserves == view.over /\ o.reduce
        kept == IF reserves THEN [view EXCEPT !.free[s] = @ + o.left] ELSE view
    IN  IF Closes(o, view.qty[s])
        THEN kept
        ELSE [kept EXCEPT !.qty[s] = @ + o.left, !.cash = @ - o.left]

PrepareAccepted(i) ==
    LET o == orders[i] IN
    /\ IsNext(i) /\ Due(i) /\ Admissible(o) /\ Passed(i)
    /\ orders' = IF o.status \in Waiting
                 THEN Moved(orders, {i}, "eligible") ELSE orders
    /\ accepted' = accepted \cup {i}
    /\ symbols' = symbols \cup {o.sym}
    /\ view' = Reserved(o)
    /\ history' = [history EXCEPT !.reversed = @ \/
                      (view.qty[o.sym] * o.left < 0 /\ ~Closes(o, view.qty[o.sym]))]
    /\ UNCHANGED <<setup, bar, book, allocs, attempted>>

-----------------------------------------------------------------------------
(* Triggers, capacity and fills, symbol by symbol *)

(* evaluate_trigger: the halves of the bar's volume an order can reach, or  *)
(* Untouched.  A market order, and a stop triggered earlier, trade at the   *)
(* open.                                                                    *)
Touches(o) == IF o.kind = "market" \/ (o.kind = "stop_market" /\ o.trigger)
              THEN {2} ELSE {Untouched, 0, 1, 2}

(* LiquidityRequest.priority_key without the digest *)
Rank(o, fresh) ==
    CASE o.kind = "stop_market" -> IF fresh THEN 2 ELSE 0
      [] o.kind = "market"      -> 1
      [] OTHER                  -> IF o.eligible < bar THEN 3 ELSE 4

(* Mutant: an allocation takes the whole reachable volume. *)
AllocationGreedy(queue, touch, volume, held) ==
    LET step(acc, i) ==
            LET q == Sign(orders[i].left) * Least(acc.cap, (volume * touch[i]) \div 2)
            IN  [cap |-> acc.cap - Abs(q),
                 out |-> Append(acc.out, [id |-> i, q |-> q, closed |-> FALSE])]
    IN  FoldLeft(step, [cap |-> volume, out |-> <<>>], queue).out

(* allocate_symbol_capacity: in priority order, from one pool and against   *)
(* the inventory the earlier allocations leave; after[n] is what the first  *)
(* n of them leave.                                                         *)
Share(o, touched, cap, pos) ==
    LET reach == Least(cap, touched)
    IN  IF o.reduce /\ pos * o.left >= 0
        THEN 0
        ELSE Sign(o.left) * Least(Abs(o.left),
                 IF o.reduce THEN Least(reach, Abs(pos)) ELSE reach)

Closed(o, q, pos) ==
    o.reduce /\ (pos * o.left >= 0 \/ (q # 0 /\ pos + q = 0))

Remaining(queue, touch, volume, held) ==
    LET after[n \in 0..Len(queue)] ==
            IF n = 0 THEN <<volume, held>>
            ELSE LET i == queue[n]
                     was == after[n - 1]
                     q == Share(orders[i], (volume * touch[i]) \div 2, was[1], was[2])
                 IN  <<was[1] - Abs(q), was[2] + q>>
    IN  after

Allocation(queue, touch, volume, held) ==
    LET left == Remaining(queue, touch, volume, held)
        q(n) == Share(orders[queue[n]], (volume * touch[queue[n]]) \div 2,
                      left[n - 1][1], left[n - 1][2])
    IN  [n \in 1..Len(queue) |->
            [id |-> queue[n], q |-> q(n),
             closed |-> Closed(orders[queue[n]], q(n), left[n - 1][2])]]

Absorbed == RetainDebt /\ book.dead

Allocate(s) ==
    LET ids == {i \in accepted : orders[i].sym = s}
    IN  /\ pc = "fill" /\ allocs = <<>> /\ ~Absorbed
        /\ s \in symbols /\ \A r \in symbols : s <= r
        /\ \E volume \in Volumes, touch \in [ids -> Untouched..2] :
             LET fresh == {i \in ids : /\ orders[i].kind = "stop_market"
                                       /\ ~orders[i].trigger
                                       /\ touch[i] # Untouched}
                 rank(i) == Rank(orders[i], i \in fresh)
             IN  /\ \A i \in ids : touch[i] \in Touches(orders[i])
                 /\ \E queue \in SetToSeqs({i \in ids : touch[i] # Untouched}) :
                      /\ \A m, n \in DOMAIN queue : m < n =>
                           \/ rank(queue[m]) < rank(queue[n])
                           \/ /\ rank(queue[m]) = rank(queue[n])
                              /\ orders[queue[m]].eligible <= orders[queue[n]].eligible
                      /\ allocs' = Allocation(queue, touch, volume, book.qty[s])
                 /\ orders' = [i \in DOMAIN orders |->
                        IF i \in fresh
                        THEN [orders[i] EXCEPT !.status = "triggered",
                                               !.trigger = TRUE, !.last = bar]
                        ELSE orders[i]]
                 /\ history' = [history EXCEPT !.impeded = @ \/
                        \E i \in ids : \/ touch[i] = Untouched
                                       \/ Abs(orders[i].left) > volume]
        /\ symbols' = symbols \ {s}
        /\ attempted' = attempted \cup ids
        /\ UNCHANGED <<setup, bar, pc, book, passVars>>

(* Mutant: an allocation is not checked again against the book. *)
VoidNever(a) == FALSE

(* _recheck_closing_allocation: the book may have been flattened, or closed *)
(* by an earlier order, since the allocation was computed.                  *)
Void(a) ==
    LET o == orders[a.id] held == book.qty[orders[a.id].sym] IN
    o.reduce /\ (held * o.left >= 0 \/ Abs(a.q) > Abs(held))

NoFill ==
    LET a == Head(allocs) IN
    /\ pc = "fill" /\ allocs # <<>> /\ ~Absorbed
    /\ a.q = 0 \/ Void(a)
    /\ orders' = IF a.closed \/ Void(a)
                 THEN Moved(orders, {a.id}, "expired") ELSE orders
    /\ allocs' = Tail(allocs)
    /\ UNCHANGED <<setup, bar, pc, book, passVars, symbols, attempted, history>>

Fill(cost) ==
    LET a == Head(allocs)
        left == orders[a.id].left - a.q
        status == IF left = 0 THEN "filled"
                  ELSE IF a.closed THEN "expired" ELSE "partially_filled"
    IN  /\ pc = "fill" /\ allocs # <<>> /\ ~Absorbed
        /\ a.q # 0 /\ ~Void(a)
        /\ book' = Filled(book, orders[a.id].sym, a.q, cost)
        /\ orders' = [Moved(orders, {a.id}, status) EXCEPT ![a.id].left = left]
        /\ allocs' = Tail(allocs)
        /\ UNCHANGED <<setup, bar, pc, passVars, symbols, attempted, history>>

(* process_symbols breaks off, and the remainders are not expired. *)
FillAbsorbed ==
    /\ pc = "fill" /\ Absorbed
    /\ pc' = "finish" /\ allocs' = <<>> /\ symbols' = {}
    /\ UNCHANGED <<setup, bar, orders, book, passVars, attempted, history>>

(* Mutant: immediate-or-cancel remainders survive the bar. *)
RemaindersKept ==
    LET over == {i \in attempted \cap Active(orders) :
                    ~PartialCarry /\ orders[i].status = "partially_filled"}
    IN  /\ pc = "fill" /\ allocs = <<>> /\ symbols = {} /\ ~Absorbed
        /\ orders' = Moved(orders, over, "expired")
        /\ pc' = "finish"
        /\ UNCHANGED <<setup, bar, book, passVars, fillVars, history>>

ExpireRemainders ==
    LET over == {i \in attempted \cap Active(orders) :
                    \/ orders[i].tif = "ioc"
                    \/ ~PartialCarry /\ orders[i].status = "partially_filled"}
    IN  /\ pc = "fill" /\ allocs = <<>> /\ symbols = {} /\ ~Absorbed
        /\ orders' = Moved(orders, over, "expired")
        /\ pc' = "finish"
        /\ UNCHANGED <<setup, bar, book, passVars, fillVars, history>>

-----------------------------------------------------------------------------
(* The end of a bar *)

(* Mutant: the carry of the bar is not followed by a margin check. *)
FinishedUnmargined(flow) ==
    IF book.dead THEN Flattened(book)
    ELSE Revalued([book EXCEPT !.cash = @ + flow])

(* finish_bar: a terminated book is flattened; only a retained debt is      *)
(* spared the carry of the bar, and the carry may terminate the book.       *)
Finished(flow) ==
    LET base == IF book.dead THEN Flattened(book) ELSE book
    IN  IF Absorbed THEN base
        ELSE Margined(Revalued([base EXCEPT !.cash = @ + flow]))

FinishBar(flow) ==
    LET b == Finished(flow)
    IN  /\ pc = "finish"
        /\ book' = b
        /\ orders' = IF b.dead THEN Moved(orders, Active(orders), "cancelled")
                     ELSE orders
        /\ \/ pc' = IF bar = Stop \/ (Direct = {} /\ b.dead) THEN "over" ELSE "decide"
           \/ Direct # {} /\ bar < Stop /\ ~(RetainDebt /\ b.dead) /\ pc' = "begin"
        /\ view' = [qty |-> Flat, cash |-> 0, dead |-> FALSE, over |-> FALSE,
                    free |-> Flat]
        /\ accepted' = {} /\ attempted' = {}
        /\ UNCHANGED <<setup, bar, todo, symbols, allocs, history>>

Next ==
    \/ \E target \in [Symbols -> Positions] : Decide(target)
    \/ \E intent \in Direct : Submit(intent)
    \/ Start
    \/ \E flow \in Flows : BeginExhausted(flow)
    \/ \E gap \in BOOLEAN, flow \in Flows, split, inactive \in SUBSET Symbols,
          recovery \in 0..1 : BeginBar(gap, flow, split, inactive, recovery)
    \/ \E i \in todo : PrepareExpired(i)
    \/ \E i \in todo : PrepareWaits(i)
    \/ \E i \in todo : PrepareInadmissible(i)
    \/ \E i \in todo : PrepareRefused(i)
    \/ \E i \in todo : PrepareAccepted(i)
    \/ \E s \in Symbols : Allocate(s)
    \/ NoFill
    \/ \E cost \in Costs : Fill(cost)
    \/ FillAbsorbed
    \/ ExpireRemainders
    \/ \E flow \in Flows : FinishBar(flow)

Spec == Init /\ [][Next]_vars

-----------------------------------------------------------------------------
(* Properties *)

Phases == {"decide", "begin", "prepare", "fill", "finish", "over"}

OrderOK(i, o) ==
    /\ o.sym = i[2] /\ o.submit = i[1] /\ o.want # 0
    /\ o.left * o.want >= 0 /\ Abs(o.left) <= Abs(o.want)
    /\ o.submit <= o.last /\ o.last <= bar /\ o.eligible >= o.submit
    /\ o.status \in Waiting \cup Working \cup Done
    /\ o.status = "filled" <=> o.left = 0
    /\ o.trigger => o.kind = "stop_market"

(* The state is well formed: an order's remaining quantity lies between     *)
(* zero and what was requested, and is zero exactly when it is filled       *)
(* (PendingOrder.__post_init__).                                            *)
TypeOK ==
    /\ setup \in Setups
    /\ bar \in 0..Stop /\ pc \in Phases
    /\ \A i \in DOMAIN orders : OrderOK(i, orders[i])
    /\ book.qty \in [Symbols -> Int] /\ book.cash \in Int /\ book.dead \in BOOLEAN
    /\ todo \cup accepted \cup attempted \subseteq DOMAIN orders
    /\ symbols \subseteq Symbols
    /\ \A n \in DOMAIN allocs : allocs[n].id \in accepted

(* The executor never asks an order for a transition PendingOrder refuses:  *)
(* such a call raises in the middle of a bar and poisons the session.       *)
TransitionsLegal ==
    \A i \in DOMAIN orders :
       orders'[i] # orders[i] => Legal(orders[i], orders'[i])

(* A reduce-only order only ever brings its position towards zero, whatever *)
(* other orders, margin calls and flattenings came between its admission,   *)
(* its allocation and its fill.                                             *)
ReduceOnlyReduces ==
    \A i \in DOMAIN orders :
       orders[i].reduce /\ orders'[i].left # orders[i].left =>
         LET before == book.qty[orders[i].sym]
             fill == orders[i].left - orders'[i].left
         IN  before * fill < 0 /\ Abs(fill) <= Abs(before)

(* No order trades before its latency has passed, in its decision bar or    *)
(* after its expiry, and an immediate-or-cancel order trades in one bar.    *)
FillsInWindow ==
    \A i \in DOMAIN orders :
       orders'[i].left # orders[i].left =>
         /\ bar > orders[i].submit /\ Due(i)
         /\ orders[i].tif = "ioc" => orders[i].left = orders[i].want

(* A book whose economic life has ended carries neither positions nor       *)
(* active orders past the end of a bar, wherever in the bar it ended.       *)
TerminationIsFinal ==
    book.dead /\ pc \in {"decide", "begin", "over"} =>
        book.qty = Flat /\ \A i \in Active(orders) : orders[i].submit = bar

(* A session keeps at most one active order per symbol: a new target        *)
(* replaces the residual of the previous one instead of adding to it.       *)
OneOrderPerSymbol ==
    Direct = {} =>
        \A i, j \in Active(orders) : orders[i].sym = orders[j].sym => i = j

(* A bar of a session without execution cost that opened within the cap. *)
CappedBar ==
    Direct = {} /\ Costs = {0} /\ pc \in {"fill", "finish"} /\ history.within

(* With fills at the open and no execution cost, the fills of a session's   *)
(* bar that opened within the leverage cap leave the book within it.        *)
StaysWithinCap == CappedBar => ~OverCap(book)

(* The same for the bars in which no reversal was admitted. *)
StaysWithinCapUnlessReversed ==
    CappedBar /\ ~history.reversed => ~OverCap(book)

(* Terminal settlement at the market: when the reserved intervals trade     *)
(* freely, the session ends flat, although every interval reconciles anew   *)
(* and the flattening order needs the latency to become eligible.  Under a  *)
(* market order profile it need not be reduce-only, and the cap may refuse  *)
(* it.                                                                      *)
SettlesAtMarket == Settle /\ Direct = {} /\ Kind = "market" /\ ~HasProfile

SettledFlat ==
    SettlesAtMarket /\ pc = "over" /\ ~history.impeded => book.qty = Flat

(* The session's book and orders at the end of every step: one active order *)
(* per symbol, the cap kept, a dead book empty, a settled session flat.     *)
OrdersStaySound ==
    /\ OneOrderPerSymbol
    /\ TerminationIsFinal
    /\ StaysWithinCapUnlessReversed
    /\ SettledFlat

(* Every step of an order: a legal transition, inside its window, and       *)
(* towards zero when it is reduce-only.                                     *)
OrderStepsLegal == [][TransitionsLegal /\ ReduceOnlyReduces /\ FillsInWindow]_vars
=============================================================================
