---------------------------- MODULE Orders_proofs ---------------------------
(***************************************************************************)
(* Proofs about the orders of the stateful execution, for every queue,     *)
(* latency, target and direct intent: first their identities, transitions  *)
(* and allocations, then the book they are filled into.                    *)
(*                                                                         *)
(* The argument: identifiers are drawn from a counter and no order of the  *)
(* book has one still to be drawn, so an order is written by its creation  *)
(* or by a transition of the order it was, and an allocation waiting to be *)
(* filled is part of what is left of an order that is still active.  What  *)
(* a queue is allocated is part of each order and of the pool because the  *)
(* pool and the inventory after n orders are whole and not negative for    *)
(* every n: there is no first n for which they are not.                    *)
(***************************************************************************)
EXTENDS StatefulOrders, FiniteSetTheorems, SequenceTheorems, WellFoundedInduction, TLAPS


(* The sign of a product. *)
LEMMA Products ==
  ASSUME NEW a \in Int, NEW b \in Int
  PROVE  /\ a * b >= 0 <=> (a >= 0 /\ b >= 0) \/ (a <= 0 /\ b <= 0)
         /\ a * b < 0 <=> (a < 0 /\ b > 0) \/ (a > 0 /\ b < 0)
  <1>1. CASE a = 0 \/ b = 0  BY <1>1
  <1>2. CASE a > 0 /\ b > 0  BY <1>2
  <1>3. CASE a < 0 /\ b < 0  BY <1>3
  <1>4. CASE a > 0 /\ b < 0  BY <1>4
  <1>5. CASE a < 0 /\ b > 0  BY <1>5
  <1> QED BY <1>1, <1>2, <1>3, <1>4, <1>5

(* A quantity that is part of what is left of an order: on its side and not more. *)
PartOf(q, left) == q \in Int /\ (q > 0 => q <= left) /\ (q < 0 => left <= q)

(* What an order is allocated is part of it and of the pool. *)
LEMMA ShareIsPart ==
  ASSUME NEW o, o.left \in Int, o.reduce \in BOOLEAN, NEW touched \in Nat, NEW cap \in Nat,
         NEW pos \in Int
  PROVE  /\ PartOf(Share(o, touched, cap, pos), o.left)
         /\ cap - Abs(Share(o, touched, cap, pos)) \in Nat
  <1> DEFINE left == o.left
             size == Least(Abs(left), IF o.reduce THEN Least(Least(cap, touched), Abs(pos))
                                      ELSE Least(cap, touched))
  <1>1. size \in Nat /\ size <= cap /\ size <= Abs(left) /\ left \in Int
    BY DEF Least, Abs
  <1>2. \/ Share(o, touched, cap, pos) = 0
        \/ Share(o, touched, cap, pos) = Sign(left) * size
    BY DEF Share
  <1> HIDE DEF left, size
  <1>3. Sign(left) * size = IF left < 0 THEN -size ELSE size  BY <1>1 DEF Sign
  <1>4. PartOf(0, left) /\ cap - Abs(0) \in Nat  BY <1>1 DEF PartOf, Abs
  <1>5. /\ PartOf(Sign(left) * size, left)
        /\ cap - Abs(Sign(left) * size) \in Nat
    BY <1>1, <1>3 DEF PartOf, Abs
  <1> QED BY <1>2, <1>4, <1>5 DEF left

(* Every set of natural numbers that is not empty has a least member. *)
LEMMA LeastNumber ==
  ASSUME NEW S, S \subseteq Nat, S # {} PROVE \E x \in S : \A y \in S : x <= y
  <1> DEFINE R == OpToRel(<, Nat)
  <1>1. IsWellFoundedOn(R, Nat)  BY NatLessThanWellFounded
  <1>2. \A ss : ss \in R <=> ss \in Nat \X Nat /\ ss[1] < ss[2]  BY DEF OpToRel
  <1> HIDE DEF R
  <1>3. PICK x \in S : \A y \in S : ~(<<y, x>> \in R)  BY <1>1, WFMin
  <1>4. ASSUME NEW y \in S PROVE x <= y
    <2>1. <<y, x>> \in Nat \X Nat  OBVIOUS
    <2>2. ~(<<y, x>>[1] < <<y, x>>[2])  BY <1>2, <1>3, <2>1
    <2> QED BY <2>2
  <1> QED BY <1>4

(* What a queue may be given: a pool, and orders that are well formed. *)
Queued(queue, touch, volume, held) ==
  /\ volume \in Nat /\ held \in Int
  /\ Len(queue) \in Nat
  /\ \A n \in 1..Len(queue) :
       /\ orders[queue[n]].left \in Int /\ orders[queue[n]].reduce \in BOOLEAN
       /\ (volume * touch[queue[n]]) \div 2 \in Nat

(* The pool and the inventory after each allocation. *)
LEMMA RemainingIsWhole ==
  ASSUME NEW queue, NEW touch, NEW volume, NEW held, Queued(queue, touch, volume, held)
  PROVE  /\ Remaining(queue, touch, volume, held)[0] = <<volume, held>>
         /\ \A n \in 0..Len(queue) : Remaining(queue, touch, volume, held)[n] \in Nat \X Int
  <1> DEFINE N == Len(queue)
             Given(n, was) ==
               Share(orders[queue[n]], (volume * touch[queue[n]]) \div 2, was[1], was[2])
             Left(n, was) == <<was[1] - Abs(Given(n, was)), was[2] + Given(n, was)>>
             Runs(m, g) == /\ g \in [0..m -> Nat \X Int]
                           /\ \A n \in 0..m : g[n] = IF n = 0 THEN <<volume, held>>
                                                     ELSE Left(n, g[n - 1])
             Exists(m) == \E g : Runs(m, g)
  <1>0. N \in Nat /\ <<volume, held>> \in Nat \X Int  BY DEF Queued
  <1>1. ASSUME NEW n \in 1..N, NEW was \in Nat \X Int  PROVE Left(n, was) \in Nat \X Int
    <2>1. was[1] \in Nat /\ was[2] \in Int  OBVIOUS
    <2>2. Given(n, was) \in Int /\ was[1] - Abs(Given(n, was)) \in Nat
      BY <2>1, ShareIsPart DEF Queued, PartOf
    <2> QED BY <2>1, <2>2
  <1>2. Remaining(queue, touch, volume, held) =
          CHOOSE after : after = [n \in 0..N |-> IF n = 0 THEN <<volume, held>>
                                                 ELSE Left(n, after[n - 1])]
    BY DEF Remaining
  <1> HIDE DEF N, Left
  <1> HIDE DEF Exists
  <1>3. \A m \in 0..N : Exists(m)
    <2> DEFINE Bad == {m \in 0..N : ~Exists(m)}
    <2>1. SUFFICES ASSUME Bad # {} PROVE FALSE  OBVIOUS
    <2>2. Bad \subseteq Nat  BY <1>0
    <2>3. PICK m \in Bad : \A k \in Bad : m <= k  BY <2>1, <2>2, LeastNumber
    <2>4. m \in 0..N /\ m \in Nat /\ ~Exists(m)  BY <1>0
    <2>5. CASE m = 0
      <3>1. Runs(0, [n \in 0..0 |-> <<volume, held>>])  BY <1>0
      <3> QED BY <2>4, <2>5, <3>1 DEF Exists
    <2>6. CASE m # 0
      <3>1. m - 1 \in 0..N /\ ~(m - 1 \in Bad) /\ m \in 1..N /\ m - 1 \in Nat
        BY <1>0, <2>3, <2>4, <2>6
      <3>2. PICK g : Runs(m - 1, g)
        <4>1. Exists(m - 1)  BY <3>1
        <4> QED BY <4>1 DEF Exists
      <3> DEFINE h == [n \in 0..m |-> IF n = m THEN Left(m, g[m - 1]) ELSE g[n]]
      <3>3. g[m - 1] \in Nat \X Int /\ Left(m, g[m - 1]) \in Nat \X Int
        BY <1>1, <3>1, <3>2
      <3>4. h \in [0..m -> Nat \X Int]  BY <3>1, <3>2, <3>3
      <3>5. ASSUME NEW n \in 0..m
            PROVE  h[n] = IF n = 0 THEN <<volume, held>> ELSE Left(n, h[n - 1])
        <4>1. CASE n = m  BY <2>4, <2>6, <3>1, <4>1
        <4>2. CASE n # m
          <5>1. n \in 0..(m - 1) /\ (n # 0 => n - 1 \in 0..m /\ n - 1 # m)  BY <3>1, <4>2
          <5> QED BY <3>2, <4>2, <5>1
        <4> QED BY <4>1, <4>2
      <3>6. Runs(m, h)  BY <3>4, <3>5
      <3> QED BY <2>4, <3>6 DEF Exists
    <2> QED BY <2>5, <2>6
  <1>4. PICK g : Runs(N, g)
    <2>1. Exists(N)  BY <1>0, <1>3
    <2> QED BY <2>1 DEF Exists
  <1>5. g = [n \in 0..N |-> IF n = 0 THEN <<volume, held>> ELSE Left(n, g[n - 1])]
    BY <1>4
  <1> DEFINE f == Remaining(queue, touch, volume, held)
  <1>6. f = [n \in 0..N |-> IF n = 0 THEN <<volume, held>> ELSE Left(n, f[n - 1])]
    BY <1>2, <1>5
  <1> HIDE DEF f
  <1>7. \A n \in 0..N : f[n] \in Nat \X Int
    <2> DEFINE Bad == {n \in 0..N : ~(f[n] \in Nat \X Int)}
    <2>1. SUFFICES ASSUME Bad # {} PROVE FALSE  OBVIOUS
    <2>2. Bad \subseteq Nat  BY <1>0
    <2>3. PICK n \in Bad : \A k \in Bad : n <= k  BY <2>1, <2>2, LeastNumber
    <2>4. n \in 0..N /\ n \in Nat /\ ~(f[n] \in Nat \X Int)  BY <1>0
    <2>5. n # 0  BY <1>0, <1>6, <2>4
    <2>6. n - 1 \in 0..N /\ ~(n - 1 \in Bad) /\ n \in 1..N  BY <1>0, <2>3, <2>4, <2>5
    <2>7. f[n - 1] \in Nat \X Int  BY <2>6
    <2>8. f[n] = Left(n, f[n - 1])  BY <1>6, <2>4, <2>5
    <2> QED BY <1>1, <2>4, <2>6, <2>7, <2>8
  <1>8. f[0] = <<volume, held>>  BY <1>0, <1>6
  <1> QED BY <1>7, <1>8 DEF f, N

(* An allocation gives every order of the queue part of what is left of it. *)
LEMMA AllocationIsPart ==
  ASSUME NEW queue, NEW touch, NEW volume, NEW held, Queued(queue, touch, volume, held)
  PROVE  LET out == Allocation(queue, touch, volume, held) IN
         /\ DOMAIN out = 1..Len(queue)
         /\ \A n \in 1..Len(queue) : /\ out[n].id = queue[n]
                                     /\ PartOf(out[n].q, orders[queue[n]].left)
                                     /\ DOMAIN out[n] = {"id", "q", "closed"}
  <1> DEFINE left == Remaining(queue, touch, volume, held)
             q(n) == Share(orders[queue[n]], (volume * touch[queue[n]]) \div 2,
                           left[n - 1][1], left[n - 1][2])
  <1>1. ASSUME NEW n \in 1..Len(queue)  PROVE PartOf(q(n), orders[queue[n]].left)
    <2>1. n - 1 \in 0..Len(queue)  BY DEF Queued
    <2>2. left[n - 1] \in Nat \X Int  BY <2>1, RemainingIsWhole
    <2>3. left[n - 1][1] \in Nat /\ left[n - 1][2] \in Int  BY <2>2
    <2> QED BY <2>3, ShareIsPart DEF Queued
  <1>2. Allocation(queue, touch, volume, held) =
          [n \in 1..Len(queue) |->
             [id |-> queue[n], q |-> q(n),
              closed |-> Closed(orders[queue[n]], q(n), left[n - 1][2])]]
    BY DEF Allocation
  <1> HIDE DEF q, left
  <1> QED BY <1>1, <1>2

-----------------------------------------------------------------------------
(* The invariant.                                                          *)

Statuses == Waiting \cup Working \cup Done

OrderIds == Nat \X Symbols \X Nat

OrderRecord ==
  [sym : Symbols, want : Int, left : Int, kind : Kinds, tif : Tifs, submit : Nat,
   eligible : Int, expiry : Int, reduce : BOOLEAN, status : Statuses, trigger : BOOLEAN,
   last : Int]

AllocationRecord == [id : OrderIds, q : Int, closed : BOOLEAN]

BookTyped(b) == DOMAIN b = {"qty", "cash", "dead"} /\ b.qty \in [Symbols -> Int]

StateTyped ==
  /\ setup \in Setups /\ bar \in Nat /\ pc \in Phases
  /\ BookTyped(book)
  /\ symbols \subseteq Symbols

(* An order carries its identity, and works only once it is eligible.      *)
OrderKept(i, o) ==
  /\ i \in OrderIds /\ o \in OrderRecord
  /\ o.sym = i[2] /\ o.submit = i[1]
  /\ o.submit <= bar /\ o.last <= bar
  /\ o.status \in Working => o.eligible <= bar

OrdersKept == \A i \in DOMAIN orders : OrderKept(i, orders[i])

(* The identity that comes next is free.                                   *)
Taken(t, s) == {i \in DOMAIN orders : i[1] = t /\ i[2] = s}

FreshIds ==
  /\ IsFiniteSet(DOMAIN orders)
  /\ Direct # {} => \A i \in DOMAIN orders : i[3] <= Cardinality(Taken(i[1], i[2]))
  /\ Direct = {} /\ pc = "decide" => \A i \in DOMAIN orders : orders[i].submit < bar

(* The admission pass has not reached todo; what it accepted is due and    *)
(* works until it has been attempted, one symbol after the other.          *)
PassInv ==
  /\ todo \subseteq Active(orders) /\ accepted \subseteq DOMAIN orders
  /\ attempted \subseteq accepted /\ accepted \cap todo = {}
  /\ pc # "prepare" => todo = {}
  /\ pc \notin {"prepare", "fill"} => symbols = {}
  /\ pc \notin {"prepare", "fill", "finish"} => accepted = {}
  /\ pc \notin {"fill", "finish"} => attempted = {}
  /\ pc \in {"prepare", "fill", "finish"} => \A i \in DOMAIN orders : orders[i].submit < bar
  /\ \A i \in accepted : Due(i)
  /\ \A i \in accepted \ attempted : orders[i].status \in Working
  /\ \A i \in attempted : orders[i].sym \notin symbols

(* The allocations still to be applied are of different orders that work,  *)
(* and part of what is left of them.                                       *)
AllocInv ==
  /\ allocs \in Seq(AllocationRecord)
  /\ pc # "fill" => allocs = <<>>
  /\ \A m, n \in 1..Len(allocs) : m # n => allocs[m].id # allocs[n].id
  /\ \A n \in 1..Len(allocs) :
       LET i == allocs[n].id IN
       /\ i \in attempted /\ orders[i].status \in Working
       /\ PartOf(allocs[n].q, orders[i].left)
       /\ orders[i].tif = "ioc" => orders[i].left = orders[i].want

(* An immediate-or-cancel order that has traded does not outlive the bar.  *)
IocInv ==
  \A i \in Active(orders) :
    orders[i].tif = "ioc" /\ orders[i].left # orders[i].want =>
      i \in attempted /\ (pc = "fill" \/ (pc = "finish" /\ Absorbed))

OrdersInv ==
  /\ StateTyped /\ OrdersKept /\ FreshIds /\ PassInv /\ AllocInv /\ IocInv
  /\ OneOrderPerSymbol /\ TerminationIsFinal

-----------------------------------------------------------------------------
(* The parameters of a setup stay.                                         *)
LEMMA SetupKept ==
  ASSUME setup' = setup
  PROVE  /\ Symbols' = Symbols /\ Direct' = Direct /\ RetainDebt' = RetainDebt /\ Stop' = Stop
         /\ OrderRecord' = OrderRecord /\ OrderIds' = OrderIds
         /\ AllocationRecord' = AllocationRecord
  BY DEF Symbols, NSymbols, Direct, RetainDebt, Stop, OrderRecord, OrderIds, AllocationRecord

(* What a setup is.                                                        *)
LEMMA SetupTyped ==
  ASSUME setup \in Setups
  PROVE  /\ NSymbols \in Nat /\ Stop \in Nat /\ Latency \in Nat /\ Never \in Int
         /\ Kind \in Kinds /\ Positions \subseteq Int /\ Flows \subseteq Int
         /\ Costs \subseteq Nat /\ Volumes \subseteq Nat
         /\ Symbols \subseteq Nat /\ IsFiniteSet(Symbols)
         /\ Roster \subseteq Symbols /\ (HasProfile /\ Roster # {} => Kind = "market")
         /\ RetainDebt \in BOOLEAN
         /\ \A intent \in Direct :
              /\ intent.sym \in Symbols /\ intent.want \in Int \ {0}
              /\ intent.kind \in Kinds /\ intent.reduce \in BOOLEAN
              /\ intent.tif \in Tifs /\ intent.life \in Nat
  <1>1. /\ NSymbols \in Nat /\ Stop \in Nat /\ Latency \in Nat
        /\ Kind \in Kinds /\ Positions \subseteq Int /\ Flows \subseteq Int
        /\ Costs \subseteq Nat /\ Volumes \subseteq Nat /\ RetainDebt \in BOOLEAN
        /\ Roster \subseteq Symbols /\ (HasProfile /\ Roster # {} => Kind = "market")
    BY OrdersAssumption DEF NSymbols, Stop, Latency, Kind, Positions, Flows, Costs, Volumes,
                            RetainDebt, Roster, Symbols, HasProfile
  <1>2. \A intent \in Direct :
          /\ intent.sym \in Symbols /\ intent.want \in Int \ {0}
          /\ intent.kind \in Kinds /\ intent.reduce \in BOOLEAN
          /\ intent.tif \in Tifs /\ intent.life \in Nat
    BY OrdersAssumption DEF Direct, Symbols, NSymbols
  <1>3. Never \in Int  BY <1>1 DEF Never
  <1>4. Symbols \subseteq Nat /\ IsFiniteSet(Symbols)  BY <1>1, FS_Interval DEF Symbols
  <1> QED BY <1>1, <1>2, <1>3, <1>4

-----------------------------------------------------------------------------
(* The book.                                                               *)

(* What happens to a book leaves it one.                                   *)
LEMMA BookStays ==
  ASSUME NEW b, BookTyped(b)
  PROVE  /\ BookTyped(Revalued(b)) /\ Revalued(b).qty = b.qty
         /\ BookTyped(Flattened(b)) /\ Flattened(b).qty = Flat
         /\ Flattened(b).dead = b.dead
         /\ BookTyped(Margined(b)) /\ (Margined(b).dead => Margined(b).qty = Flat)
         /\ \A flow : BookTyped([b EXCEPT !.cash = @ + flow])
  <1>0. Flat \in [Symbols -> Int]  BY DEF Flat
  <1>1. BookTyped(Revalued(b)) /\ Revalued(b).qty = b.qty
    BY DEF BookTyped, Revalued
  <1>2. ASSUME NEW c, BookTyped(c)
        PROVE  /\ BookTyped(Flattened(c)) /\ Flattened(c).qty = Flat
               /\ Flattened(c).dead = c.dead
    BY <1>0, <1>2 DEF BookTyped, Flattened
  <1> DEFINE called == [b EXCEPT !.dead = @ \/ MaintDen * Equity(b) < Gross(b)]
  <1>3. BookTyped(called)  BY DEF BookTyped
  <1>4. Margined(b) = IF called.dead THEN Flattened(called) ELSE called  BY DEF Margined
  <1> HIDE DEF called
  <1>5. BookTyped(Margined(b)) /\ (Margined(b).dead => Margined(b).qty = Flat)
    BY <1>2, <1>3, <1>4
  <1>6. \A flow : BookTyped([b EXCEPT !.cash = @ + flow])  BY DEF BookTyped
  <1>7. /\ BookTyped(Flattened(b)) /\ Flattened(b).qty = Flat
        /\ Flattened(b).dead = b.dead
    BY <1>2
  <1> QED BY <1>1, <1>5, <1>6, <1>7

(* A fill leaves a book one. *)
LEMMA BookFilled ==
  ASSUME NEW b, BookTyped(b), NEW s \in Symbols, NEW q \in Int, NEW cost
  PROVE  BookTyped(Filled(b, s, q, cost))
  <1> DEFINE traded == [b EXCEPT !.qty[s] = @ + q, !.cash = @ - (q + cost),
                                 !.dead = @ \/ cost >= Max({Equity(b), 0})]
  <1>1. BookTyped(traded)  BY DEF BookTyped
  <1>2. Filled(b, s, q, cost) = Margined(Revalued(traded))  BY DEF Filled
  <1> HIDE DEF traded
  <1>3. BookTyped(Revalued(traded))  BY <1>1, BookStays
  <1> QED BY <1>2, <1>3, BookStays

(* So does the settlement of symbols that stopped trading. *)
LEMMA BookSettled ==
  ASSUME NEW b, BookTyped(b), NEW S, NEW recovery
  PROVE  BookTyped(Settled(b, S, recovery))
  BY DEF BookTyped, Settled

(* A book is judged by its quantities and its life alone.                  *)
LEMMA BookFinished ==
  ASSUME BookTyped(book), NEW flow
  PROVE  /\ BookTyped(Finished(flow))
         /\ Finished(flow).dead => Finished(flow).qty = Flat
         /\ Absorbed => Finished(flow).dead
  <1> DEFINE base == IF book.dead THEN Flattened(book) ELSE book
             carried == [base EXCEPT !.cash = @ + flow]
  <1>1. BookTyped(base) /\ (book.dead => base.qty = Flat /\ base.dead)  BY BookStays
  <1>2. Finished(flow) = IF Absorbed THEN base ELSE Margined(Revalued(carried))
    BY DEF Finished
  <1>3. BookTyped(carried)  BY <1>1, BookStays
  <1> HIDE DEF base, carried
  <1>4. BookTyped(Revalued(carried))  BY <1>3, BookStays
  <1>5. BookTyped(Margined(Revalued(carried)))
        /\ (Margined(Revalued(carried)).dead => Margined(Revalued(carried)).qty = Flat)
    BY <1>4, BookStays
  <1> QED BY <1>1, <1>2, <1>5 DEF Absorbed

-----------------------------------------------------------------------------
(* The orders.                                                             *)

SameOrder(o, n) ==
  /\ n.sym = o.sym /\ n.want = o.want /\ n.tif = o.tif /\ n.submit = o.submit
  /\ n.eligible = o.eligible /\ n.expiry = o.expiry /\ n.reduce = o.reduce

(* What a step at the processing index t may do to an order.               *)
Moves(o, n, t) ==
  /\ n \in OrderRecord /\ SameOrder(o, n)
  /\ n.last \in {o.last, t}
  /\ o.status \in Done => n.status \in Done
  /\ n.status \in Working => o.status \in Working \/ o.eligible <= t

OrdersMove ==
  /\ DOMAIN orders' = DOMAIN orders
  /\ \A i \in DOMAIN orders : Moves(orders[i], orders'[i], bar')

LeftKept == \A i \in DOMAIN orders : orders'[i].left = orders[i].left

(* A step that fills nothing neither enlarges a position nor trades early. *)
LEMMA NothingFilled ==
  ASSUME LeftKept  PROVE ReduceOnlyReduces /\ FillsInWindow
  BY DEF LeftKept, ReduceOnlyReduces, FillsInWindow

(* A step that submits nothing keeps the orders what they are.             *)
LEMMA OrdersMoved ==
  ASSUME StateTyped, OrdersKept, FreshIds, PassInv, OneOrderPerSymbol,
         setup' = setup, bar' \in Nat, bar <= bar', OrdersMove,
         pc' = "decide" => pc = "finish"
  PROVE  /\ OrdersKept' /\ FreshIds' /\ OneOrderPerSymbol'
         /\ Active(orders') \subseteq Active(orders)
  <1>0. DOMAIN orders' = DOMAIN orders /\ OrderRecord' = OrderRecord /\ OrderIds' = OrderIds
        /\ Direct' = Direct /\ bar \in Nat
    BY SetupKept DEF OrdersMove, StateTyped
  <1>1. ASSUME NEW i \in DOMAIN orders
        PROVE  /\ OrderKept(i, orders[i])'
               /\ orders'[i].sym = orders[i].sym /\ orders'[i].submit = orders[i].submit
               /\ orders'[i].status \in Statuses
               /\ orders[i].status \in Done => orders'[i].status \in Done
    <2>1. OrderKept(i, orders[i]) /\ Moves(orders[i], orders'[i], bar')
      BY DEF OrdersKept, OrdersMove
    <2>2. /\ orders[i].submit \in Nat /\ orders[i].last \in Int /\ orders[i].eligible \in Int
          /\ orders'[i].status \in Statuses
      BY <2>1 DEF OrderKept, OrderRecord, Moves
    <2> QED BY <1>0, <2>1, <2>2 DEF OrderKept, Moves, SameOrder
  <1>2. OrdersKept'  BY <1>0, <1>1 DEF OrdersKept
  <1>3. Active(orders') \subseteq Active(orders)
    BY <1>0, <1>1 DEF Active
  <1>4. OneOrderPerSymbol'
    <2> SUFFICES ASSUME Direct = {}, NEW i \in Active(orders'), NEW j \in Active(orders'),
                        orders'[i].sym = orders'[j].sym
                 PROVE  i = j
      BY <1>0 DEF OneOrderPerSymbol
    <2>1. i \in DOMAIN orders /\ j \in DOMAIN orders /\ i \in Active(orders) /\ j \in Active(orders)
      BY <1>0, <1>3 DEF Active
    <2> QED BY <1>1, <2>1 DEF OneOrderPerSymbol
  <1>5. FreshIds'
    <2>1. \A u, s : Taken(u, s)' = Taken(u, s)  BY <1>0 DEF Taken
    <2>2. IsFiniteSet(DOMAIN orders')  BY <1>0 DEF FreshIds
    <2>3. Direct # {} => \A i \in DOMAIN orders :
            i[3] <= Cardinality(Taken(i[1], i[2])')
      BY <2>1 DEF FreshIds
    <2>4. pc' = "decide" => \A i \in DOMAIN orders : orders'[i].submit < bar'
      <3> SUFFICES ASSUME pc' = "decide", NEW i \in DOMAIN orders
                   PROVE  orders'[i].submit < bar'
        OBVIOUS
      <3>1. orders[i].submit < bar /\ orders[i].submit \in Nat
        BY DEF PassInv, OrdersKept, OrderKept, OrderRecord
      <3> QED BY <1>0, <1>1, <3>1
    <2> QED BY <1>0, <2>2, <2>3, <2>4 DEF FreshIds
  <1> QED BY <1>2, <1>3, <1>4, <1>5

(* An order that only changes its status.                                  *)
LEMMA MovedOrder ==
  ASSUME OrdersKept, bar \in Nat, NEW S, S \subseteq Active(orders),
         NEW st \in Done \cup {"latency_wait", "eligible"},
         st = "latency_wait" => \A i \in S : orders[i].status \in Waiting,
         st = "eligible" => \A i \in S : orders[i].status \in Waiting /\ Due(i),
         NEW i \in DOMAIN orders
  PROVE  LET m == Moved(orders, S, st) IN
         /\ Moves(orders[i], m[i], bar)
         /\ m[i] # orders[i] => Legal(orders[i], m[i])
         /\ m[i].left = orders[i].left
         /\ i \notin S => m[i] = orders[i]
         /\ i \in S => m[i].status = st
  <1> DEFINE m == Moved(orders, S, st)
  <1>0. orders[i] \in OrderRecord /\ orders[i].last <= bar
    BY DEF OrdersKept, OrderKept
  <1>1. CASE i \notin S
    <2>1. m[i] = orders[i]  BY <1>1 DEF Moved
    <2> QED BY <1>0, <1>1, <2>1 DEF Moves, SameOrder
  <1>2. CASE i \in S
    <2> DEFINE o == orders[i]
               n == [o EXCEPT !.status = st, !.last = bar]
    <2>1. m[i] = n  BY <1>2 DEF Moved
    <2>2. o \in OrderRecord /\ o.last <= bar /\ o.status \notin Done /\ o.last \in Int
          /\ o.eligible \in Int
      BY <1>0, <1>2 DEF Active, OrderRecord
    <2>3. st \in Statuses  BY DEF Statuses, Waiting, Working, Done
    <2>4. /\ n \in OrderRecord /\ SameOrder(o, n) /\ n.left = o.left
          /\ n.status = st /\ n.last = bar
      <3> HIDE DEF o
      <3>1. bar \in Int  OBVIOUS
      <3>2. n \in OrderRecord  BY <2>2, <2>3, <3>1 DEF OrderRecord
      <3>3. SameOrder(o, n) /\ n.left = o.left /\ n.status = st /\ n.last = bar
        BY <2>2 DEF OrderRecord, SameOrder
      <3> QED BY <3>2, <3>3
    <2>5. st = "eligible" => o.eligible <= bar /\ o.status \in Waiting
      BY <1>2 DEF Due
    <2>6. st = "latency_wait" => o.status \in Waiting  BY <1>2
    <2> HIDE DEF o, n
    <2>7. Legal(o, n)
      BY <2>2, <2>4, <2>5, <2>6 DEF Legal, Done, Waiting
    <2>8. Moves(o, n, bar)
      BY <2>2, <2>4, <2>5 DEF Moves, Done, Working
    <2> QED BY <1>2, <2>1, <2>4, <2>7, <2>8 DEF o
  <1> QED BY <1>1, <1>2

(* Orders that only change their status.                                   *)
LEMMA MovedOrders ==
  ASSUME OrdersKept, bar' = bar, bar \in Nat, NEW S, S \subseteq Active(orders),
         NEW st \in Done \cup {"latency_wait", "eligible"},
         st = "latency_wait" => \A i \in S : orders[i].status \in Waiting,
         st = "eligible" => \A i \in S : orders[i].status \in Waiting /\ Due(i),
         orders' = Moved(orders, S, st)
  PROVE  /\ OrdersMove /\ TransitionsLegal /\ LeftKept
         /\ \A i \in DOMAIN orders \ S : orders'[i] = orders[i]
         /\ \A i \in S : orders'[i].status = st
  <1>1. /\ DOMAIN orders' = DOMAIN orders /\ S \subseteq DOMAIN orders
        /\ \A i \in DOMAIN orders : orders'[i] = Moved(orders, S, st)[i]
    BY DEF Moved, Active
  <1>2. ASSUME NEW i \in DOMAIN orders
        PROVE  /\ Moves(orders[i], orders'[i], bar')
               /\ orders'[i] # orders[i] => Legal(orders[i], orders'[i])
               /\ orders'[i].left = orders[i].left
               /\ i \notin S => orders'[i] = orders[i]
               /\ i \in S => orders'[i].status = st
    BY <1>1, MovedOrder
  <1> QED BY <1>1, <1>2 DEF OrdersMove, TransitionsLegal, LeftKept

(* What TLC checks of every step of an order.                              *)
StepLegal == TransitionsLegal /\ ReduceOnlyReduces /\ FillsInWindow

(* An active order waits or works.                                         *)
LEMMA ActiveStatus ==
  ASSUME OrdersKept, NEW i \in Active(orders)
  PROVE  /\ i \in DOMAIN orders /\ OrderKept(i, orders[i])
         /\ orders[i].status \in Waiting \cup Working
  BY DEF Active, OrdersKept, OrderKept, OrderRecord, Statuses

(* An order is due as long as the bar and its window stay.                 *)
LEMMA DueKept ==
  ASSUME OrdersMove, bar' = bar, NEW i \in DOMAIN orders
  PROVE  Due(i)' <=> Due(i)
  BY DEF OrdersMove, Moves, SameOrder, Due

(* Nothing is left to apply.                                               *)
LEMMA NothingAllocated ==
  ASSUME allocs' = <<>>  PROVE AllocInv'
  <1>1. allocs' \in Seq(AllocationRecord') /\ Len(allocs') = 0  OBVIOUS
  <1>2. 1..0 = {}  OBVIOUS
  <1> QED BY <1>1, <1>2 DEF AllocInv

(* No immediate-or-cancel order trades in such a step.                     *)
LEMMA IocCarried ==
  ASSUME IocInv, OrdersMove, LeftKept, Active(orders') \subseteq Active(orders),
         \/ pc \notin {"fill", "finish"}
         \/ /\ attempted \subseteq attempted'
            /\ pc' = "fill" \/ (pc' = "finish" /\ Absorbed')
  PROVE  IocInv'
  <1> SUFFICES ASSUME NEW i \in Active(orders'), orders'[i].tif = "ioc",
                      orders'[i].left # orders'[i].want
               PROVE  i \in attempted' /\ (pc' = "fill" \/ (pc' = "finish" /\ Absorbed'))
    BY DEF IocInv
  <1>1. i \in Active(orders) /\ i \in DOMAIN orders  BY DEF Active
  <1>2. orders[i].tif = "ioc" /\ orders[i].left # orders[i].want
    BY <1>1 DEF OrdersMove, Moves, SameOrder, LeftKept
  <1> QED BY <1>1, <1>2 DEF IocInv

-----------------------------------------------------------------------------
(* The admission pass.                                                     *)

(* An order that is passed over.                                           *)
LEMMA PassedOver ==
  ASSUME OrdersInv, NEW i \in todo, NEW st \in Done \cup {"latency_wait"},
         st = "latency_wait" => orders[i].status \in Waiting,
         NotAdmitted(i, st)
  PROVE  OrdersInv' /\ StepLegal
  <1>0. /\ pc = "prepare" /\ orders' = Moved(orders, {i}, st)
        /\ todo' = todo \ {i} /\ pc' = (IF todo' = {} THEN "fill" ELSE "prepare")
        /\ UNCHANGED <<setup, bar, book, accepted, symbols, allocs, attempted>>
    BY DEF NotAdmitted, IsNext, Passed
  <1>1. /\ StateTyped /\ OrdersKept /\ FreshIds /\ PassInv /\ AllocInv /\ IocInv
        /\ OneOrderPerSymbol /\ TerminationIsFinal /\ bar \in Nat
    BY DEF OrdersInv, StateTyped
  <1>2. i \in Active(orders) /\ {i} \subseteq Active(orders) /\ i \in DOMAIN orders
        /\ st \in Done \cup {"latency_wait", "eligible"} /\ st # "eligible"
    BY <1>1 DEF PassInv, Active, Done
  <1>3. /\ OrdersMove /\ TransitionsLegal /\ LeftKept
        /\ \A j \in DOMAIN orders \ {i} : orders'[j] = orders[j]
    BY <1>0, <1>1, <1>2, MovedOrders
  <1>4. /\ OrdersKept' /\ FreshIds' /\ OneOrderPerSymbol'
        /\ Active(orders') \subseteq Active(orders)
    BY <1>0, <1>1, <1>3, OrdersMoved
  <1>5. StateTyped'
    BY <1>0, <1>1, SetupKept DEF StateTyped, BookTyped, Phases
  <1>6. PassInv'
    <2>1. DOMAIN orders' = DOMAIN orders  BY <1>3 DEF OrdersMove
    <2>2. todo' \subseteq Active(orders')
      BY <1>0, <1>1, <1>3, <2>1 DEF PassInv, Active
    <2>3. \A j \in accepted : j \in DOMAIN orders /\ j # i /\ orders'[j] = orders[j]
      BY <1>1, <1>3 DEF PassInv
    <2>4. \A j \in accepted : Due(j)'
      BY <1>0, <1>1, <1>3, <2>3, DueKept DEF PassInv
    <2>5. \A j \in DOMAIN orders : orders'[j].submit < bar
      BY <1>0, <1>1, <1>3 DEF PassInv, OrdersMove, Moves, SameOrder
    <2> QED BY <1>0, <1>1, <2>1, <2>2, <2>3, <2>4, <2>5 DEF PassInv
  <1>7. AllocInv'  BY <1>0, <1>1, NothingAllocated DEF AllocInv
  <1>8. IocInv'  BY <1>0, <1>1, <1>3, <1>4, IocCarried
  <1>9. TerminationIsFinal'  BY <1>0 DEF TerminationIsFinal
  <1> QED BY <1>3, <1>4, <1>5, <1>6, <1>7, <1>8, <1>9, NothingFilled DEF OrdersInv, StepLegal

(* An order that expires, waits or is turned away keeps the invariant. *)
LEMMA NotAdmittedSteps ==
  ASSUME OrdersInv, NEW i \in todo,
         PrepareExpired(i) \/ PrepareWaits(i) \/ PrepareInadmissible(i) \/ PrepareRefused(i)
  PROVE  OrdersInv' /\ StepLegal
  <1>1. CASE PrepareExpired(i)
    <2>1. NotAdmitted(i, "expired") /\ "expired" \in Done  BY <1>1 DEF PrepareExpired, Done
    <2> QED BY <2>1, PassedOver
  <1>2. CASE PrepareWaits(i)
    <2>1. NotAdmitted(i, "latency_wait") /\ bar < orders[i].eligible
      BY <1>2 DEF PrepareWaits
    <2>2. i \in Active(orders) /\ OrdersKept /\ bar \in Nat
      BY DEF OrdersInv, PassInv, StateTyped
    <2>3. orders[i].status \in Waiting \cup Working /\ OrderKept(i, orders[i])
      BY <2>2, ActiveStatus
    <2>4. orders[i].eligible \in Int  BY <2>3 DEF OrderKept, OrderRecord
    <2>5. orders[i].status \in Waiting
      BY <2>1, <2>2, <2>3, <2>4 DEF OrderKept
    <2> QED BY <2>1, <2>5, PassedOver
  <1>3. CASE PrepareInadmissible(i) \/ PrepareRefused(i)
    <2>1. NotAdmitted(i, Refusal(orders[i])) /\ Refusal(orders[i]) \in Done
          /\ Refusal(orders[i]) # "latency_wait"
      BY <1>3 DEF PrepareInadmissible, PrepareRefused, Refusal, Done
    <2> QED BY <2>1, PassedOver
  <1> QED BY <1>1, <1>2, <1>3

(* An order that is admitted.                                              *)
LEMMA AcceptedStep ==
  ASSUME OrdersInv, NEW i \in todo, PrepareAccepted(i)
  PROVE  OrdersInv' /\ StepLegal
  <1>0. /\ pc = "prepare" /\ Due(i)
        /\ orders' = IF orders[i].status \in Waiting
                     THEN Moved(orders, {i}, "eligible") ELSE orders
        /\ todo' = todo \ {i} /\ pc' = (IF todo' = {} THEN "fill" ELSE "prepare")
        /\ accepted' = accepted \cup {i} /\ symbols' = symbols \cup {orders[i].sym}
        /\ UNCHANGED <<setup, bar, book, allocs, attempted>>
    BY DEF PrepareAccepted, IsNext, Passed
  <1>1. /\ StateTyped /\ OrdersKept /\ FreshIds /\ PassInv /\ AllocInv /\ IocInv
        /\ OneOrderPerSymbol /\ TerminationIsFinal /\ bar \in Nat
    BY DEF OrdersInv, StateTyped
  <1>2. i \in Active(orders) /\ {i} \subseteq Active(orders)
    BY <1>1 DEF PassInv
  <1>a. /\ i \in DOMAIN orders /\ OrderKept(i, orders[i])
        /\ orders[i].status \in Waiting \cup Working
    BY <1>1, <1>2, ActiveStatus
  <1>3. /\ OrdersMove /\ TransitionsLegal /\ LeftKept
        /\ \A j \in DOMAIN orders \ {i} : orders'[j] = orders[j]
        /\ orders'[i].status \in Working
    <2>1. CASE orders[i].status \in Waiting
      <3>1. orders' = Moved(orders, {i}, "eligible")  BY <1>0, <2>1
      <3>2. orders'[i].status = "eligible" /\ OrdersMove /\ TransitionsLegal /\ LeftKept
            /\ \A j \in DOMAIN orders \ {i} : orders'[j] = orders[j]
        <4>1. \A j \in {i} : orders[j].status \in Waiting /\ Due(j)  BY <1>0, <2>1
        <4>2. "eligible" \in Done \cup {"latency_wait", "eligible"}
              /\ "eligible" # "latency_wait"
          OBVIOUS
        <4> QED BY <1>0, <1>1, <1>2, <3>1, <4>1, <4>2, MovedOrders
      <3> QED BY <3>2 DEF Working
    <2>2. CASE orders[i].status \notin Waiting
      <3>1. orders' = orders  BY <1>0, <2>2
      <3>2. \A j \in DOMAIN orders : Moves(orders[j], orders[j], bar')
        BY <1>1 DEF OrdersKept, OrderKept, Moves, SameOrder
      <3> QED BY <1>a, <2>2, <3>1, <3>2 DEF OrdersMove, TransitionsLegal, LeftKept
    <2> QED BY <2>1, <2>2
  <1>4. /\ OrdersKept' /\ FreshIds' /\ OneOrderPerSymbol'
        /\ Active(orders') \subseteq Active(orders)
    BY <1>0, <1>1, <1>3, OrdersMoved
  <1>5. StateTyped'
    <2>1. orders[i].sym \in Symbols  BY <1>a DEF OrderKept, OrderRecord
    <2> QED BY <1>0, <1>1, <2>1, SetupKept DEF StateTyped, BookTyped, Phases
  <1>6. PassInv'
    <2>1. DOMAIN orders' = DOMAIN orders  BY <1>3 DEF OrdersMove
    <2>2. todo' \subseteq Active(orders')
      BY <1>0, <1>1, <1>3, <2>1 DEF PassInv, Active
    <2>3. \A j \in accepted : j \in DOMAIN orders /\ j # i /\ orders'[j] = orders[j]
      BY <1>1, <1>3 DEF PassInv
    <2>4. \A j \in accepted' : Due(j)'
      BY <1>0, <1>1, <1>3, <1>a, <2>3, DueKept DEF PassInv
    <2>5. \A j \in DOMAIN orders : orders'[j].submit < bar
      BY <1>0, <1>1, <1>3 DEF PassInv, OrdersMove, Moves, SameOrder
    <2>6. attempted' = {}  BY <1>0, <1>1 DEF PassInv
    <2>7. \A j \in accepted' : orders'[j].status \in Working
      BY <1>0, <1>1, <1>3, <2>3, <2>6 DEF PassInv
    <2>8. accepted' \cap todo' = {} /\ accepted' \subseteq DOMAIN orders'
      BY <1>0, <1>1, <1>a, <2>1 DEF PassInv
    <2> QED BY <1>0, <1>1, <2>1, <2>2, <2>4, <2>5, <2>6, <2>7, <2>8 DEF PassInv
  <1>7. AllocInv'  BY <1>0, <1>1, NothingAllocated DEF AllocInv
  <1>8. IocInv'  BY <1>0, <1>1, <1>3, <1>4, IocCarried
  <1>9. TerminationIsFinal'  BY <1>0 DEF TerminationIsFinal
  <1> QED BY <1>3, <1>4, <1>5, <1>6, <1>7, <1>8, <1>9, NothingFilled DEF OrdersInv, StepLegal

-----------------------------------------------------------------------------
(* The beginning of a bar.                                                 *)

(* A bar that opens: no order is admitted or attempted yet.                *)
LEMMA BarOpens ==
  ASSUME OrdersInv, pc = "begin", NEW b, BookTyped(b), NEW os,
         Opens(b, os), OrdersMove, LeftKept, TransitionsLegal
  PROVE  OrdersInv' /\ StepLegal
  <1>0. /\ bar' = bar + 1 /\ book' = b /\ orders' = os
        /\ pc' = AfterBegin(b, os) /\ pc' \in {"finish", "fill", "prepare"}
        /\ todo' = (IF pc' = "prepare" THEN Active(orders') ELSE {})
        /\ accepted' = {} /\ UNCHANGED <<setup, symbols, allocs, attempted>>
    BY DEF Opens, fillVars, AfterBegin
  <1>1. /\ StateTyped /\ OrdersKept /\ FreshIds /\ PassInv /\ AllocInv /\ IocInv
        /\ OneOrderPerSymbol /\ TerminationIsFinal /\ bar \in Nat
    BY DEF OrdersInv, StateTyped
  <1>2. bar' \in Nat /\ bar <= bar'  BY <1>0, <1>1
  <1>4. /\ OrdersKept' /\ FreshIds' /\ OneOrderPerSymbol'
        /\ Active(orders') \subseteq Active(orders)
    BY <1>0, <1>1, <1>2, OrdersMoved
  <1>5. StateTyped'
    <2>1. pc' \in Phases  BY <1>0 DEF Phases
    <2>2. BookTyped(book)'  BY <1>0, SetupKept DEF BookTyped
    <2> QED BY <1>0, <1>1, <1>2, <2>1, <2>2, SetupKept DEF StateTyped
  <1>6. PassInv'
    <2>1. \A j \in DOMAIN orders' : orders'[j].submit < bar'
      <3> SUFFICES ASSUME NEW j \in DOMAIN orders' PROVE orders'[j].submit < bar'  OBVIOUS
      <3>1. j \in DOMAIN orders /\ orders'[j].submit = orders[j].submit
        BY DEF OrdersMove, Moves, SameOrder
      <3>2. orders[j].submit \in Nat /\ orders[j].submit <= bar
        BY <1>1, <3>1 DEF OrdersKept, OrderKept, OrderRecord
      <3> QED BY <1>0, <1>1, <3>1, <3>2
    <2>2. attempted' = {} /\ symbols' = {}  BY <1>0, <1>1 DEF PassInv
    <2> QED BY <1>0, <2>1, <2>2 DEF PassInv
  <1>7. AllocInv'  BY <1>0, <1>1, NothingAllocated DEF AllocInv
  <1>8. IocInv'  BY <1>0, <1>1, <1>4, IocCarried
  <1>9. TerminationIsFinal'  BY <1>0 DEF TerminationIsFinal
  <1> QED BY <1>4, <1>5, <1>6, <1>7, <1>8, <1>9, NothingFilled DEF OrdersInv, StepLegal

(* So does a bar that opens, whatever it finds. *)
LEMMA BeginSteps ==
  ASSUME OrdersInv, NEW flow,
         \/ BeginExhausted(flow)
         \/ \E gap \in BOOLEAN, split, inactive \in SUBSET Symbols, recovery \in 0..1 :
              BeginBar(gap, flow, split, inactive, recovery)
  PROVE  OrdersInv' /\ StepLegal
  <1>1. OrdersKept /\ bar \in Nat /\ BookTyped(book)  BY DEF OrdersInv, StateTyped
  <1>2. BookTyped(Revalued([book EXCEPT !.cash = @ + flow]))  BY <1>1, BookStays
  <1>3. CASE BeginExhausted(flow)
    <2> DEFINE b == Revalued([book EXCEPT !.cash = @ + flow])
    <2>1. pc = "begin" /\ Opens(b, orders)  BY <1>3 DEF BeginExhausted
    <2>2. orders' = orders  BY <2>1 DEF Opens
    <2>3. OrdersMove /\ LeftKept /\ TransitionsLegal
      BY <1>1, <2>2 DEF OrdersMove, LeftKept, TransitionsLegal, OrdersKept, OrderKept, Moves,
                        SameOrder
    <2> HIDE DEF b
    <2>4. BookTyped(b)  BY <1>2 DEF b
    <2> QED BY <2>1, <2>3, <2>4, BarOpens
  <1>4. CASE \E gap \in BOOLEAN, split, inactive \in SUBSET Symbols, recovery \in 0..1 :
               BeginBar(gap, flow, split, inactive, recovery)
    <2>1. PICK gap \in BOOLEAN, split \in SUBSET Symbols, inactive \in SUBSET Symbols,
               recovery \in 0..1 : BeginBar(gap, flow, split, inactive, recovery)
      BY <1>4
    <2> DEFINE carried == IF gap THEN Revalued([book EXCEPT !.cash = @ + flow]) ELSE book
               opened == Revalued(Settled(carried, inactive, recovery))
               b == IF gap THEN Margined(opened) ELSE opened
               hit == {i \in Active(orders) : \/ gap /\ b.dead
                                              \/ orders[i].sym \in split \cup inactive}
               cancelled ==
                 [i \in DOMAIN orders |->
                    IF i \in hit
                    THEN [orders[i] EXCEPT !.status = "cancelled", !.last = bar + 1]
                    ELSE orders[i]]
    <2>2. pc = "begin" /\ Opens(b, cancelled)  BY <2>1 DEF BeginBar
    <2>3. BookTyped(carried)  BY <1>1, <1>2
    <2> HIDE DEF carried
    <2>4. BookTyped(Settled(carried, inactive, recovery))  BY <2>3, BookSettled
    <2>5. BookTyped(opened)  BY <2>4, BookStays
    <2> HIDE DEF opened
    <2>6. BookTyped(b)  BY <2>5, BookStays
    <2> HIDE DEF b
    <2>7. orders' = cancelled /\ bar' = bar + 1  BY <2>2 DEF Opens
    <2>8. hit \subseteq Active(orders)  OBVIOUS
    <2> HIDE DEF hit
    <2>9. ASSUME NEW i \in DOMAIN orders
          PROVE  /\ Moves(orders[i], orders'[i], bar')
                 /\ orders'[i] # orders[i] => Legal(orders[i], orders'[i])
                 /\ orders'[i].left = orders[i].left
      <3>0. orders[i] \in OrderRecord /\ orders[i].last <= bar
        BY <1>1 DEF OrdersKept, OrderKept
      <3>1. CASE i \notin hit
        <4>1. orders'[i] = orders[i]  BY <2>7, <3>1
        <4> QED BY <3>0, <4>1 DEF Moves, SameOrder
      <3>2. CASE i \in hit
        <4> DEFINE o == orders[i]
                   n == [o EXCEPT !.status = "cancelled", !.last = bar + 1]
        <4>1. orders'[i] = n  BY <2>7, <3>2
        <4>2. o \in OrderRecord /\ o.last <= bar /\ o.status \notin Done /\ o.last \in Int
          BY <2>8, <3>0, <3>2 DEF Active, OrderRecord
        <4>3. "cancelled" \in Statuses /\ bar + 1 \in Int
          BY <1>1 DEF Statuses, Waiting, Working, Done
        <4> HIDE DEF o
        <4>4. n \in OrderRecord  BY <4>2, <4>3 DEF OrderRecord
        <4>5. SameOrder(o, n) /\ n.left = o.left /\ n.status = "cancelled" /\ n.last = bar + 1
          BY <4>2 DEF OrderRecord, SameOrder
        <4> HIDE DEF n
        <4>6. Legal(o, n)  BY <1>1, <4>2, <4>5 DEF Legal, Done
        <4>7. Moves(o, n, bar')  BY <2>7, <4>2, <4>4, <4>5 DEF Moves, Done, Working
        <4> QED BY <4>1, <4>5, <4>6, <4>7 DEF o
      <3> QED BY <3>1, <3>2
    <2>10. DOMAIN orders' = DOMAIN orders  BY <2>7
    <2>11. OrdersMove /\ LeftKept /\ TransitionsLegal
      BY <2>9, <2>10 DEF OrdersMove, LeftKept, TransitionsLegal
    <2> QED BY <2>2, <2>6, <2>11, BarOpens
  <1> QED BY <1>3, <1>4

-----------------------------------------------------------------------------
(* Allocations and fills.                                                  *)

(* An allocation is a sequence of one record for each order of the queue. *)
LEMMA AllocationTyped ==
  ASSUME NEW queue, NEW touch, NEW volume, NEW held, Queued(queue, touch, volume, held),
         \A n \in 1..Len(queue) : queue[n] \in OrderIds
  PROVE  LET out == Allocation(queue, touch, volume, held) IN
         out \in Seq(AllocationRecord) /\ Len(out) = Len(queue)
  <1> DEFINE out == Allocation(queue, touch, volume, held)
             left == Remaining(queue, touch, volume, held)
             q(n) == Share(orders[queue[n]], (volume * touch[queue[n]]) \div 2,
                           left[n - 1][1], left[n - 1][2])
             entry(n) == [id |-> queue[n], q |-> q(n),
                          closed |-> Closed(orders[queue[n]], q(n), left[n - 1][2])]
  <1>1. out = [n \in 1..Len(queue) |-> entry(n)]  BY DEF Allocation
  <1>2. ASSUME NEW n \in 1..Len(queue)  PROVE entry(n) \in AllocationRecord
    <2>1. out[n] = entry(n)  BY <1>1
    <2>2. entry(n).q = q(n)  OBVIOUS
    <2>3. PartOf(out[n].q, orders[queue[n]].left)  BY AllocationIsPart
    <2> HIDE DEF out, q
    <2>4. q(n) \in Int  BY <2>1, <2>2, <2>3 DEF PartOf
    <2>5. Closed(orders[queue[n]], q(n), left[n - 1][2]) \in BOOLEAN  BY DEF Closed
    <2> QED BY <2>4, <2>5 DEF AllocationRecord
  <1> HIDE DEF entry, out
  <1>3. Len(queue) \in Nat  BY DEF Queued
  <1>4. out \in [1..Len(queue) -> AllocationRecord]  BY <1>1, <1>2
  <1>5. out \in Seq(AllocationRecord) /\ Len(out) = Len(queue)  BY <1>3, <1>4
  <1> QED BY <1>5 DEF out

(* The orders of a symbol are allocated their shares: what waits to be filled is part *)
(* of what is left of active orders, each of them once.                               *)
LEMMA AllocateStep ==
  ASSUME OrdersInv, NEW s \in Symbols, Allocate(s)
  PROVE  OrdersInv' /\ StepLegal
  <1> DEFINE ids == {i \in accepted : orders[i].sym = s}
  <1>b. PICK volume \in Volumes, touch \in [ids -> Untouched..2] :
          LET fresh == {i \in ids : /\ orders[i].kind = "stop_market"
                                    /\ ~orders[i].trigger
                                    /\ touch[i] # Untouched}
              rank(i) == Rank(orders[i], i \in fresh)
          IN  /\ \A i \in ids : touch[i] \in Touches(orders[i])
              /\ \E queue \in SetToSeqs({i \in ids : touch[i] # Untouched}) :
                   /\ \A m, n \in DOMAIN queue : m < n =>
                        \/ rank(queue[m]) < rank(queue[n])
                        \/ /\ rank(queue[m]) = rank(queue[n])
                           /\ orders[queue[m]].eligible <= orders[queue[n]].eligible
                   /\ allocs' = Allocation(queue, touch, volume, book.qty[s])
              /\ orders' = [i \in DOMAIN orders |->
                     IF i \in fresh
                     THEN [orders[i] EXCEPT !.status = "triggered",
                                            !.trigger = TRUE, !.last = bar]
                     ELSE orders[i]]
              /\ history' = [history EXCEPT !.impeded = @ \/
                     \E i \in ids : \/ touch[i] = Untouched
                                    \/ Abs(orders[i].left) > volume]
    BY Zenon DEF Allocate
  <1>a. /\ \E queue \in SetToSeqs({i \in ids : touch[i] # Untouched}) :
             allocs' = Allocation(queue, touch, volume, book.qty[s])
        /\ orders' = [i \in DOMAIN orders |->
              IF i \in {k \in ids : orders[k].kind = "stop_market" /\ ~orders[k].trigger
                                    /\ touch[k] # Untouched}
              THEN [orders[i] EXCEPT !.status = "triggered", !.trigger = TRUE, !.last = bar]
              ELSE orders[i]]
    BY <1>b
  <1>1. PICK queue \in SetToSeqs({i \in ids : touch[i] # Untouched}) :
          allocs' = Allocation(queue, touch, volume, book.qty[s])
    BY <1>a
  <1>0. /\ pc = "fill" /\ pc' = "fill" /\ s \in symbols /\ symbols' = symbols \ {s}
        /\ attempted' = attempted \cup ids
        /\ UNCHANGED <<setup, bar, book, todo, accepted>>
    BY DEF Allocate, passVars
  <1>2. /\ StateTyped /\ OrdersKept /\ FreshIds /\ PassInv /\ AllocInv /\ IocInv
        /\ OneOrderPerSymbol /\ TerminationIsFinal /\ bar \in Nat
    BY DEF OrdersInv, StateTyped
  <1> DEFINE fresh == {i \in ids : orders[i].kind = "stop_market" /\ ~orders[i].trigger
                                   /\ touch[i] # Untouched}
             called == {i \in ids : touch[i] # Untouched}
  <1>3. \A i \in ids : /\ i \in DOMAIN orders /\ i \in accepted /\ i \notin attempted
                       /\ orders[i].status \in Working /\ i \in Active(orders)
                       /\ i \in OrderIds /\ orders[i] \in OrderRecord
    BY <1>0, <1>2 DEF PassInv, OrdersKept, OrderKept, Active, Working, Done
  <1>4. orders' = [i \in DOMAIN orders |->
                IF i \in fresh
                THEN [orders[i] EXCEPT !.status = "triggered", !.trigger = TRUE, !.last = bar]
                ELSE orders[i]]
    BY <1>a
  <1>5. fresh \subseteq ids /\ called \subseteq ids  OBVIOUS
  <1>6. volume \in Nat /\ touch \in [ids -> Untouched..2]
        /\ queue \in SetToSeqs(called)
        /\ allocs' = Allocation(queue, touch, volume, book.qty[s])
    BY <1>1, <1>2, SetupTyped DEF StateTyped
  <1>7. \A i \in called : touch[i] \in 0..2  BY <1>5, <1>6 DEF Untouched
  <1> HIDE DEF fresh, called
  <1>8. ASSUME NEW i \in DOMAIN orders
        PROVE  /\ Moves(orders[i], orders'[i], bar')
               /\ orders'[i] # orders[i] => Legal(orders[i], orders'[i])
               /\ orders'[i].left = orders[i].left
               /\ orders[i].status \in Working => orders'[i].status \in Working
    <2>0. orders[i] \in OrderRecord /\ orders[i].last <= bar
      BY <1>2 DEF OrdersKept, OrderKept
    <2>1. CASE i \notin fresh
      <3>1. orders'[i] = orders[i]  BY <1>4, <2>1
      <3> QED BY <2>0, <3>1 DEF Moves, SameOrder
    <2>2. CASE i \in fresh
      <3> DEFINE o == orders[i]
                 n == [o EXCEPT !.status = "triggered", !.trigger = TRUE, !.last = bar]
      <3>1. orders'[i] = n  BY <1>4, <2>2
      <3>2. o \in OrderRecord /\ o.last <= bar /\ o.status \in Working /\ o.last \in Int
        BY <1>3, <1>5, <2>0, <2>2 DEF OrderRecord
      <3>3. "triggered" \in Statuses /\ bar \in Int
        BY <1>2 DEF Statuses, Waiting, Working, Done
      <3> HIDE DEF o
      <3>4. n \in OrderRecord  BY <3>2, <3>3 DEF OrderRecord
      <3>5. SameOrder(o, n) /\ n.left = o.left /\ n.status = "triggered" /\ n.last = bar
        BY <3>2 DEF OrderRecord, SameOrder
      <3> HIDE DEF n
      <3>6. Legal(o, n)  BY <3>2, <3>5 DEF Legal, Working, Done
      <3>7. Moves(o, n, bar')  BY <1>0, <3>2, <3>4, <3>5 DEF Moves, Done, Working
      <3>8. n.status \in Working  BY <3>5 DEF Working
      <3> QED BY <3>1, <3>5, <3>6, <3>7, <3>8 DEF o
    <2> QED BY <2>1, <2>2
  <1>9. DOMAIN orders' = DOMAIN orders  BY <1>4
  <1>10. OrdersMove /\ LeftKept /\ TransitionsLegal
    BY <1>8, <1>9 DEF OrdersMove, LeftKept, TransitionsLegal
  <1>11. /\ OrdersKept' /\ FreshIds' /\ OneOrderPerSymbol'
         /\ Active(orders') \subseteq Active(orders)
    BY <1>0, <1>2, <1>10, OrdersMoved
  <1>12. StateTyped'
    <2>1. symbols' \subseteq Symbols  BY <1>0, <1>2 DEF StateTyped
    <2>2. BookTyped(book)'  BY <1>0, <1>2, SetupKept DEF BookTyped, StateTyped
    <2> QED BY <1>0, <1>2, <2>1, <2>2, SetupKept DEF StateTyped
  <1>13. PassInv'
    <2>1. todo = {} /\ todo' = {}  BY <1>0, <1>2 DEF PassInv
    <2>2. \A j \in accepted : Due(j)'
      BY <1>0, <1>2, <1>10, DueKept DEF PassInv
    <2>3. \A j \in DOMAIN orders : orders'[j].submit < bar
      BY <1>0, <1>2, <1>10 DEF PassInv, OrdersMove, Moves, SameOrder
    <2>4. \A j \in accepted \ attempted : orders'[j].status \in Working
      BY <1>2, <1>8 DEF PassInv
    <2>5. \A j \in attempted' : j \in DOMAIN orders /\ orders'[j].sym \notin symbols'
      <3>1. ASSUME NEW j \in attempted' PROVE j \in DOMAIN orders /\ orders'[j].sym \notin symbols'
        <4>1. j \in DOMAIN orders  BY <1>0, <1>2, <1>3 DEF PassInv
        <4>2. orders'[j].sym = orders[j].sym  BY <4>1, <1>8 DEF Moves, SameOrder
        <4>3. j \in ids => orders[j].sym = s  OBVIOUS
        <4> HIDE DEF ids
        <4> QED BY <1>0, <1>2, <4>1, <4>2, <4>3 DEF PassInv
      <3> QED BY <3>1
    <2>6. attempted' \subseteq accepted' /\ accepted' \subseteq DOMAIN orders'
      BY <1>0, <1>2, <1>3, <1>9 DEF PassInv
    <2>7. \A j \in accepted' \ attempted' : orders'[j].status \in Working
      BY <1>0, <2>4
    <2> HIDE DEF ids
    <2> QED BY <1>0, <2>1, <2>2, <2>3, <2>5, <2>6, <2>7, <1>9 DEF PassInv
  <1>14. /\ queue \in Seq(called)
         /\ \A m, n \in 1..Len(queue) : m # n => queue[m] # queue[n]
    <2>1. IsFiniteSet(called)
      <3>1. called \subseteq DOMAIN orders  BY <1>3, <1>5
      <3> QED BY <1>2, <3>1, FS_Subset DEF FreshIds
    <2>2. Cardinality(called) \in Nat  BY <2>1, FS_CardinalityType
    <2>3. queue \in [1..Cardinality(called) -> called]
          /\ \A m, n \in 1..Cardinality(called) : m # n => queue[m] # queue[n]
      BY <1>6 DEF SetToSeqs
    <2>4. queue \in Seq(called) /\ Len(queue) = Cardinality(called)  BY <2>2, <2>3
    <2> QED BY <2>3, <2>4
  <1>15. \A n \in 1..Len(queue) : queue[n] \in called /\ queue[n] \in ids /\ queue[n] \in OrderIds
                                  /\ queue[n] \in DOMAIN orders
    <2>1. \A n \in 1..Len(queue) : queue[n] \in called  BY <1>14
    <2> QED BY <2>1, <1>3, <1>5
  <1>16. Queued(queue, touch, volume, book.qty[s])
    <2>1. Len(queue) \in Nat  BY <1>14
    <2>2. book.qty[s] \in Int  BY <1>2 DEF StateTyped, BookTyped
    <2>3. ASSUME NEW n \in 1..Len(queue)
          PROVE  /\ orders[queue[n]].left \in Int /\ orders[queue[n]].reduce \in BOOLEAN
                 /\ (volume * touch[queue[n]]) \div 2 \in Nat
      <3>1. orders[queue[n]] \in OrderRecord  BY <1>3, <1>15
      <3>2. touch[queue[n]] \in 0..2  BY <1>7, <1>15
      <3>3. ASSUME NEW t \in 0..2  PROVE (volume * t) \div 2 \in Nat
        <4>1. CASE t = 0  BY <1>6, <4>1
        <4>2. CASE t = 1  BY <1>6, <4>2
        <4>3. CASE t = 2  BY <1>6, <4>3
        <4> QED BY <4>1, <4>2, <4>3
      <3>4. orders[queue[n]].left \in Int /\ orders[queue[n]].reduce \in BOOLEAN
        BY <3>1 DEF OrderRecord
      <3> QED BY <3>2, <3>3, <3>4
    <2> QED BY <1>6, <2>1, <2>2, <2>3 DEF Queued
  <1>17. AllocInv'
    <2>1. /\ allocs' \in Seq(AllocationRecord) /\ Len(allocs') = Len(queue)
      BY <1>6, <1>15, <1>16, AllocationTyped
    <2>2. \A n \in 1..Len(queue) : /\ allocs'[n].id = queue[n]
                                   /\ PartOf(allocs'[n].q, orders[queue[n]].left)
      BY <1>6, <1>16, AllocationIsPart
    <2>3. ASSUME NEW n \in 1..Len(queue)
          PROVE  /\ allocs'[n].id \in attempted'
                 /\ orders'[allocs'[n].id].status \in Working
                 /\ PartOf(allocs'[n].q, orders'[allocs'[n].id].left)
                 /\ orders'[allocs'[n].id].tif = "ioc" =>
                      orders'[allocs'[n].id].left = orders'[allocs'[n].id].want
      <3> DEFINE i == queue[n]
      <3>1. i \in ids /\ i \in DOMAIN orders /\ allocs'[n].id = i  BY <1>15, <2>2
      <3> HIDE DEF i
      <3>2. /\ orders[i].status \in Working /\ i \in Active(orders) /\ i \notin attempted
        BY <1>3, <3>1
      <3>3. /\ orders'[i].status \in Working /\ orders'[i].left = orders[i].left
            /\ orders'[i].tif = orders[i].tif /\ orders'[i].want = orders[i].want
        BY <1>8, <3>1, <3>2 DEF Moves, SameOrder
      <3>4. orders[i].tif = "ioc" => orders[i].left = orders[i].want
        BY <1>2, <3>2 DEF IocInv
      <3>5. PartOf(allocs'[n].q, orders[i].left)  BY <2>2 DEF i
      <3> QED BY <1>0, <3>1, <3>3, <3>4, <3>5
    <2>4. AllocationRecord' = AllocationRecord  BY <1>0, SetupKept
    <2> HIDE DEF ids
    <2> QED BY <1>0, <1>14, <2>1, <2>2, <2>3, <2>4 DEF AllocInv
  <1>18. IocInv'  BY <1>0, <1>2, <1>10, <1>11, IocCarried
  <1>19. TerminationIsFinal'  BY <1>0 DEF TerminationIsFinal
  <1> QED BY <1>10, <1>11, <1>12, <1>13, <1>17, <1>18, <1>19, NothingFilled
          DEF OrdersInv, StepLegal

(* The allocation that is applied next, and those after it.                *)
LEMMA NextAllocation ==
  ASSUME OrdersInv, pc = "fill", allocs # <<>>
  PROVE  LET a == Head(allocs) IN
         /\ a \in AllocationRecord /\ a.id \in attempted /\ a.id \in accepted
         /\ a.id \in Active(orders) /\ a.id \in DOMAIN orders
         /\ orders[a.id].status \in Working /\ PartOf(a.q, orders[a.id].left)
         /\ orders[a.id].tif = "ioc" => orders[a.id].left = orders[a.id].want
         /\ Due(a.id) /\ orders[a.id].submit < bar
         /\ Tail(allocs) \in Seq(AllocationRecord)
         /\ \A n \in 1..Len(Tail(allocs)) :
              /\ n + 1 \in 1..Len(allocs) /\ Tail(allocs)[n] = allocs[n + 1]
              /\ Tail(allocs)[n].id # a.id
  <1>0. AllocInv /\ PassInv /\ OrdersKept  BY DEF OrdersInv
  <1>1. allocs \in Seq(AllocationRecord)  BY <1>0 DEF AllocInv
  <1>2. /\ Len(allocs) \in Nat /\ Len(allocs) > 0 /\ Head(allocs) = allocs[1]
        /\ Tail(allocs) \in Seq(AllocationRecord) /\ Len(Tail(allocs)) = Len(allocs) - 1
    BY <1>1
  <1>3. \A n \in 1..Len(Tail(allocs)) :
          n + 1 \in 1..Len(allocs) /\ n + 1 # 1 /\ Tail(allocs)[n] = allocs[n + 1]
    BY <1>1, <1>2
  <1>4. 1 \in 1..Len(allocs)  BY <1>2
  <1>5. Head(allocs) \in AllocationRecord  BY <1>1, <1>2, <1>4
  <1>6. /\ allocs[1].id \in attempted
        /\ orders[allocs[1].id].status \in Working
        /\ PartOf(allocs[1].q, orders[allocs[1].id].left)
        /\ orders[allocs[1].id].tif = "ioc" =>
             orders[allocs[1].id].left = orders[allocs[1].id].want
    BY <1>0, <1>4 DEF AllocInv
  <1>7. /\ allocs[1].id \in accepted /\ allocs[1].id \in DOMAIN orders
        /\ Due(allocs[1].id) /\ orders[allocs[1].id].submit < bar
    BY <1>0, <1>6 DEF PassInv
  <1>8. allocs[1].id \in Active(orders)  BY <1>6, <1>7 DEF Active, Working, Done
  <1>9. \A n \in 1..Len(Tail(allocs)) : Tail(allocs)[n].id # allocs[1].id
    BY <1>0, <1>3, <1>4 DEF AllocInv
  <1> QED BY <1>2, <1>3, <1>5, <1>6, <1>7, <1>8, <1>9

(* Applying it touches no other order.                                     *)
LEMMA Applied ==
  ASSUME OrdersInv, pc = "fill", pc' = "fill", allocs # <<>>, allocs' = Tail(allocs),
         UNCHANGED <<setup, bar, todo, accepted, symbols, attempted>>,
         BookTyped(book'), OrdersMove,
         \A j \in DOMAIN orders \ {Head(allocs).id} : orders'[j] = orders[j]
  PROVE  OrdersInv'
  <1> DEFINE a == Head(allocs)
  <1>0. /\ StateTyped /\ OrdersKept /\ FreshIds /\ PassInv /\ AllocInv /\ IocInv
        /\ OneOrderPerSymbol /\ TerminationIsFinal /\ bar \in Nat
    BY DEF OrdersInv, StateTyped
  <1>1. /\ a.id \in attempted /\ a.id \in accepted
        /\ Tail(allocs) \in Seq(AllocationRecord)
        /\ \A n \in 1..Len(Tail(allocs)) :
              /\ n + 1 \in 1..Len(allocs) /\ Tail(allocs)[n] = allocs[n + 1]
              /\ Tail(allocs)[n].id # a.id
    BY NextAllocation
  <1>2. \A j \in DOMAIN orders \ {a.id} : orders'[j] = orders[j]  OBVIOUS
  <1> HIDE DEF a
  <1>3. /\ OrdersKept' /\ FreshIds' /\ OneOrderPerSymbol'
        /\ Active(orders') \subseteq Active(orders)
    BY <1>0, OrdersMoved
  <1>4. DOMAIN orders' = DOMAIN orders  BY DEF OrdersMove
  <1>5. StateTyped'
    <2>1. BookTyped(book)'  BY SetupKept DEF BookTyped
    <2> QED BY <1>0, <2>1, SetupKept DEF StateTyped
  <1>6. PassInv'
    <2>1. todo = {}  BY <1>0 DEF PassInv
    <2>2. \A j \in accepted : Due(j)'  BY <1>0, DueKept DEF PassInv
    <2>3. \A j \in DOMAIN orders : /\ orders'[j].submit = orders[j].submit
                                   /\ orders'[j].sym = orders[j].sym
      BY DEF OrdersMove, Moves, SameOrder
    <2>4. \A j \in accepted \ attempted : orders'[j].status \in Working
      BY <1>0, <1>1, <1>2 DEF PassInv
    <2> QED BY <1>0, <1>4, <2>1, <2>2, <2>3, <2>4 DEF PassInv
  <1>7. AllocInv'
    <2>1. ASSUME NEW n \in 1..Len(allocs')
          PROVE  LET i == allocs'[n].id IN
                 /\ i \in attempted' /\ orders'[i].status \in Working
                 /\ PartOf(allocs'[n].q, orders'[i].left)
                 /\ orders'[i].tif = "ioc" => orders'[i].left = orders'[i].want
      <3>1. /\ n + 1 \in 1..Len(allocs) /\ allocs'[n] = allocs[n + 1]
            /\ allocs'[n].id # a.id
        BY <1>1
      <3>2. /\ allocs[n + 1].id \in attempted
            /\ orders[allocs[n + 1].id].status \in Working
            /\ PartOf(allocs[n + 1].q, orders[allocs[n + 1].id].left)
            /\ orders[allocs[n + 1].id].tif = "ioc" =>
                 orders[allocs[n + 1].id].left = orders[allocs[n + 1].id].want
        BY <1>0, <3>1 DEF AllocInv
      <3>3. allocs[n + 1].id \in DOMAIN orders  BY <1>0, <3>2 DEF PassInv
      <3> QED BY <1>2, <3>1, <3>2, <3>3
    <2>2. \A m, n \in 1..Len(allocs') : m # n => allocs'[m].id # allocs'[n].id
      <3> SUFFICES ASSUME NEW m \in 1..Len(allocs'), NEW n \in 1..Len(allocs'), m # n
                   PROVE  allocs'[m].id # allocs'[n].id
        OBVIOUS
      <3>1. /\ m + 1 \in 1..Len(allocs) /\ n + 1 \in 1..Len(allocs)
            /\ allocs'[m] = allocs[m + 1] /\ allocs'[n] = allocs[n + 1]
        BY <1>1
      <3>2. m + 1 # n + 1  OBVIOUS
      <3> QED BY <1>0, <3>1, <3>2 DEF AllocInv
    <2>3. AllocationRecord' = AllocationRecord  BY SetupKept
    <2> QED BY <1>1, <2>1, <2>2, <2>3 DEF AllocInv
  <1>8. IocInv'
    <2> SUFFICES ASSUME NEW i \in Active(orders'), orders'[i].tif = "ioc",
                        orders'[i].left # orders'[i].want
                 PROVE  i \in attempted
      BY DEF IocInv
    <2>1. i \in Active(orders) /\ i \in DOMAIN orders  BY <1>3, <1>4 DEF Active
    <2>2. CASE i = a.id  BY <1>1, <2>2
    <2>3. CASE i # a.id
      <3>1. orders'[i] = orders[i]  BY <1>2, <2>1, <2>3
      <3> QED BY <1>0, <2>1, <3>1 DEF IocInv
    <2> QED BY <2>2, <2>3
  <1>9. TerminationIsFinal'  BY DEF TerminationIsFinal
  <1> QED BY <1>3, <1>5, <1>6, <1>7, <1>8, <1>9 DEF OrdersInv

(* An allocation that fills nothing.                                       *)
LEMMA NoFillStep ==
  ASSUME OrdersInv, NoFill
  PROVE  OrdersInv' /\ StepLegal
  <1> DEFINE a == Head(allocs)
  <1>0. /\ pc = "fill" /\ pc' = "fill" /\ allocs # <<>> /\ allocs' = Tail(allocs)
        /\ UNCHANGED <<setup, bar, book, todo, accepted, symbols, attempted>>
        /\ orders' = Moved(orders, {a.id}, "expired") \/ orders' = orders
    BY DEF NoFill, passVars
  <1>1. a.id \in Active(orders)  BY <1>0, NextAllocation
  <1>2. /\ OrdersKept /\ bar \in Nat /\ BookTyped(book)
    BY DEF OrdersInv, StateTyped
  <1>3. BookTyped(book')  BY <1>0, <1>2
  <1> HIDE DEF a
  <1>4. /\ OrdersMove /\ TransitionsLegal /\ LeftKept
        /\ \A j \in DOMAIN orders \ {a.id} : orders'[j] = orders[j]
    <2>1. CASE orders' = orders
      BY <1>2, <2>1 DEF OrdersKept, OrderKept, OrdersMove, Moves, SameOrder, TransitionsLegal,
                        LeftKept
    <2>2. CASE orders' = Moved(orders, {a.id}, "expired")
      <3>1. "expired" \in Done \cup {"latency_wait", "eligible"} /\ "expired" # "latency_wait"
            /\ "expired" # "eligible" /\ {a.id} \subseteq Active(orders)
        BY <1>1 DEF Done
      <3> QED BY <1>0, <1>2, <2>2, <3>1, MovedOrders
    <2> QED BY <1>0, <2>1, <2>2
  <1>5. \A j \in DOMAIN orders \ {Head(allocs).id} : orders'[j] = orders[j]  BY <1>4 DEF a
  <1>6. OrdersInv'  BY <1>0, <1>3, <1>4, <1>5, Applied
  <1> QED BY <1>4, <1>6, NothingFilled DEF StepLegal

(* A fill: part of what is left, in the window, and towards zero if the    *)
(* order may only reduce.                                                  *)
LEMMA FillStep ==
  ASSUME OrdersInv, NEW cost, Fill(cost)
  PROVE  OrdersInv' /\ StepLegal
  <1> DEFINE a == Head(allocs)
             i == a.id
             o == orders[i]
             left == o.left - a.q
             held == book.qty[o.sym]
             st == IF left = 0 THEN "filled"
                   ELSE IF a.closed THEN "expired" ELSE "partially_filled"
             n == [o EXCEPT !.status = st, !.last = bar, !.left = left]
  <1>0. /\ pc = "fill" /\ pc' = "fill" /\ allocs # <<>> /\ allocs' = Tail(allocs)
        /\ a.q # 0 /\ ~Void(a)
        /\ UNCHANGED <<setup, bar, todo, accepted, symbols, attempted>>
        /\ book' = Filled(book, o.sym, a.q, cost)
        /\ orders' = [Moved(orders, {i}, st) EXCEPT ![i].left = left]
    BY DEF Fill, passVars
  <1>1. /\ OrdersKept /\ bar \in Nat /\ BookTyped(book)
    BY DEF OrdersInv, StateTyped
  <1>2. /\ i \in DOMAIN orders /\ o.status \in Working /\ PartOf(a.q, o.left)
        /\ o.tif = "ioc" => o.left = o.want
        /\ Due(i) /\ o.submit < bar
    BY <1>0, NextAllocation
  <1>3. o \in OrderRecord /\ o.last <= bar  BY <1>1, <1>2 DEF OrdersKept, OrderKept
  <1>4. o.left \in Int /\ o.last \in Int /\ o.sym \in Symbols /\ a.q \in Int /\ left \in Int
    BY <1>2, <1>3 DEF OrderRecord, PartOf
  <1>5. held \in Int  BY <1>1, <1>4 DEF BookTyped
  <1>6. o.reduce => ~(held * o.left >= 0) /\ ~(Abs(a.q) > Abs(held))
    BY <1>0 DEF Void
  <1>7. /\ DOMAIN orders' = DOMAIN orders /\ orders'[i] = n
        /\ \A j \in DOMAIN orders \ {i} : orders'[j] = orders[j]
    BY <1>0, <1>2 DEF Moved
  <1>8. st \in Statuses /\ st \notin {"latency_wait", "eligible", "triggered"}
    BY DEF Statuses, Waiting, Working, Done
  <1>9. BookTyped(book')  BY <1>0, <1>1, <1>4, BookFilled
  <1> HIDE DEF o, st, held, left
  <1>10. n \in OrderRecord
    <2>1. bar \in Int  BY <1>1
    <2> QED BY <1>3, <1>4, <1>8, <2>1 DEF OrderRecord
  <1>11. SameOrder(o, n) /\ n.left = left /\ n.status = st /\ n.last = bar
    BY <1>3 DEF OrderRecord, SameOrder
  <1> HIDE DEF n
  <1>12. left * o.left >= 0 /\ Abs(left) < Abs(o.left)
    <2>1. left = o.left - a.q  BY DEF left
    <2>2. CASE a.q > 0
      <3>1. o.left > 0 /\ left >= 0 /\ left < o.left  BY <1>2, <1>4, <2>1, <2>2 DEF PartOf
      <3> QED BY <1>4, <3>1, Products DEF Abs
    <2>3. CASE a.q < 0
      <3>1. o.left < 0 /\ left <= 0 /\ left > o.left  BY <1>2, <1>4, <2>1, <2>3 DEF PartOf
      <3> QED BY <1>4, <3>1, Products DEF Abs
    <2> QED BY <1>0, <1>4, <2>2, <2>3
  <1>13. Legal(o, n)
    BY <1>1, <1>2, <1>3, <1>4, <1>8, <1>11, <1>12 DEF Legal, Working, Done
  <1>14. Moves(o, n, bar)
    BY <1>2, <1>10, <1>11 DEF Moves, Working, Done
  <1>15. OrdersMove /\ TransitionsLegal
    <2>1. ASSUME NEW j \in DOMAIN orders
          PROVE  /\ Moves(orders[j], orders'[j], bar')
                 /\ orders'[j] # orders[j] => Legal(orders[j], orders'[j])
      <3>1. CASE j = i  BY <1>0, <1>7, <1>13, <1>14, <3>1 DEF o
      <3>2. CASE j # i
        <4>1. orders'[j] = orders[j]  BY <1>7, <3>2
        <4>2. orders[j] \in OrderRecord  BY <1>1 DEF OrdersKept, OrderKept
        <4> QED BY <4>1, <4>2 DEF Moves, SameOrder
      <3> QED BY <3>1, <3>2
    <2> QED BY <1>7, <2>1 DEF OrdersMove, TransitionsLegal
  <1>16. ReduceOnlyReduces
    <2> SUFFICES ASSUME NEW j \in DOMAIN orders, orders[j].reduce,
                        orders'[j].left # orders[j].left
                 PROVE  LET before == book.qty[orders[j].sym]
                            fill == orders[j].left - orders'[j].left
                        IN  before * fill < 0 /\ Abs(fill) <= Abs(before)
      BY DEF ReduceOnlyReduces
    <2>1. j = i  BY <1>7
    <2>2. /\ orders[j].left - orders'[j].left = a.q /\ book.qty[orders[j].sym] = held
          /\ o.reduce
      BY <1>4, <1>7, <1>11, <2>1 DEF o, held, left
    <2>3. ~(held * o.left >= 0) /\ ~(Abs(a.q) > Abs(held))  BY <1>6, <2>2
    <2>4. (held < 0 /\ o.left > 0) \/ (held > 0 /\ o.left < 0)
      BY <1>4, <1>5, <2>3, Products
    <2>5. (held < 0 /\ a.q > 0) \/ (held > 0 /\ a.q < 0)
      BY <1>0, <1>2, <1>4, <1>5, <2>4 DEF PartOf
    <2>6. held * a.q < 0  BY <1>4, <1>5, <2>5, Products
    <2>7. Abs(a.q) <= Abs(held)  BY <1>4, <1>5, <2>3 DEF Abs
    <2> QED BY <2>2, <2>6, <2>7
  <1>17. FillsInWindow
    <2>1. \A j \in DOMAIN orders : orders'[j].left # orders[j].left => j = i  BY <1>7
    <2> QED BY <1>2, <2>1 DEF FillsInWindow, o
  <1>18. \A j \in DOMAIN orders \ {Head(allocs).id} : orders'[j] = orders[j]  BY <1>7
  <1>19. OrdersInv'  BY <1>0, <1>9, <1>15, <1>18, Applied
  <1> QED BY <1>15, <1>16, <1>17, <1>19 DEF StepLegal

(* The orders stay as they are.                                            *)
LEMMA OrdersUntouched ==
  ASSUME OrdersKept, orders' = orders
  PROVE  OrdersMove /\ TransitionsLegal /\ LeftKept
  BY DEF OrdersKept, OrderKept, OrdersMove, Moves, SameOrder, TransitionsLegal, LeftKept

(* A retained debt breaks the fills off.                                   *)
LEMMA FillAbsorbedStep ==
  ASSUME OrdersInv, FillAbsorbed
  PROVE  OrdersInv' /\ StepLegal
  <1>0. /\ pc = "fill" /\ Absorbed /\ pc' = "finish" /\ allocs' = <<>> /\ symbols' = {}
        /\ UNCHANGED <<setup, bar, orders, book, todo, accepted, attempted>>
    BY DEF FillAbsorbed, passVars
  <1>1. /\ StateTyped /\ OrdersKept /\ FreshIds /\ PassInv /\ AllocInv /\ IocInv
        /\ OneOrderPerSymbol /\ TerminationIsFinal /\ bar \in Nat
    BY DEF OrdersInv, StateTyped
  <1>2. OrdersMove /\ TransitionsLegal /\ LeftKept  BY <1>0, <1>1, OrdersUntouched
  <1>3. /\ OrdersKept' /\ FreshIds' /\ OneOrderPerSymbol'
        /\ Active(orders') \subseteq Active(orders)
    BY <1>0, <1>1, <1>2, OrdersMoved
  <1>4. StateTyped'
    BY <1>0, <1>1, SetupKept DEF StateTyped, BookTyped, Phases
  <1>5. PassInv'
    <2>1. \A j \in accepted : Due(j)'  BY <1>0, <1>1, <1>2, DueKept DEF PassInv
    <2> QED BY <1>0, <1>1, <2>1 DEF PassInv
  <1>6. AllocInv'  BY <1>0, NothingAllocated
  <1>7. Absorbed'  BY <1>0, SetupKept DEF Absorbed
  <1>8. IocInv'  BY <1>0, <1>1, <1>2, <1>3, <1>7, IocCarried
  <1>9. TerminationIsFinal'  BY <1>0 DEF TerminationIsFinal
  <1> QED BY <1>2, <1>3, <1>4, <1>5, <1>6, <1>8, <1>9, NothingFilled DEF OrdersInv, StepLegal

(* What may not rest is expired after the last fill.                       *)
LEMMA ExpireStep ==
  ASSUME OrdersInv, ExpireRemainders
  PROVE  OrdersInv' /\ StepLegal
  <1> DEFINE over == {i \in attempted \cap Active(orders) :
                        \/ orders[i].tif = "ioc"
                        \/ ~PartialCarry /\ orders[i].status = "partially_filled"}
  <1>0. /\ pc = "fill" /\ allocs = <<>> /\ symbols = {} /\ pc' = "finish"
        /\ orders' = Moved(orders, over, "expired")
        /\ UNCHANGED <<setup, bar, book, todo, accepted, symbols, allocs, attempted>>
    BY DEF ExpireRemainders, passVars, fillVars
  <1>1. /\ StateTyped /\ OrdersKept /\ FreshIds /\ PassInv /\ AllocInv /\ IocInv
        /\ OneOrderPerSymbol /\ TerminationIsFinal /\ bar \in Nat
    BY DEF OrdersInv, StateTyped
  <1>2. over \subseteq Active(orders) /\ over \subseteq attempted
        /\ \A i \in attempted \cap Active(orders) : orders[i].tif = "ioc" => i \in over
    OBVIOUS
  <1> HIDE DEF over
  <1>3. "expired" \in Done \cup {"latency_wait", "eligible"} /\ "expired" # "latency_wait"
        /\ "expired" # "eligible" /\ "expired" \in Done
    BY DEF Done
  <1>4. /\ OrdersMove /\ TransitionsLegal /\ LeftKept
        /\ \A j \in DOMAIN orders \ over : orders'[j] = orders[j]
        /\ \A j \in over : orders'[j].status = "expired"
    BY <1>0, <1>1, <1>2, <1>3, MovedOrders
  <1>5. /\ OrdersKept' /\ FreshIds' /\ OneOrderPerSymbol'
        /\ Active(orders') \subseteq Active(orders)
    BY <1>0, <1>1, <1>4, OrdersMoved
  <1>6. StateTyped'
    BY <1>0, <1>1, SetupKept DEF StateTyped, BookTyped, Phases
  <1>7. DOMAIN orders' = DOMAIN orders  BY <1>4 DEF OrdersMove
  <1>8. PassInv'
    <2>1. \A j \in accepted : Due(j)'  BY <1>0, <1>1, <1>4, DueKept DEF PassInv
    <2>2. \A j \in DOMAIN orders : orders'[j].submit < bar
      BY <1>0, <1>1, <1>4 DEF PassInv, OrdersMove, Moves, SameOrder
    <2>3. \A j \in accepted \ attempted : orders'[j].status \in Working
      BY <1>1, <1>2, <1>4 DEF PassInv
    <2> QED BY <1>0, <1>1, <1>7, <2>1, <2>2, <2>3 DEF PassInv
  <1>9. AllocInv'  BY <1>0, NothingAllocated
  <1>10. IocInv'
    <2> SUFFICES ASSUME NEW i \in Active(orders'), orders'[i].tif = "ioc",
                        orders'[i].left # orders'[i].want
                 PROVE  FALSE
      BY DEF IocInv
    <2>1. i \in Active(orders) /\ i \in DOMAIN orders /\ orders'[i].status \notin Done
      BY <1>5, <1>7 DEF Active
    <2>2. i \notin over  BY <1>3, <1>4, <2>1
    <2>3. orders'[i] = orders[i]  BY <1>4, <2>1, <2>2
    <2>4. i \in attempted  BY <1>1, <2>1, <2>3 DEF IocInv
    <2> QED BY <1>2, <2>1, <2>2, <2>3, <2>4
  <1>11. TerminationIsFinal'  BY <1>0 DEF TerminationIsFinal
  <1> QED BY <1>4, <1>5, <1>6, <1>8, <1>9, <1>10, <1>11, NothingFilled DEF OrdersInv, StepLegal

(* The end of a bar: a dead book is flat and has no active order.          *)
LEMMA FinishStep ==
  ASSUME OrdersInv, NEW flow, FinishBar(flow)
  PROVE  OrdersInv' /\ StepLegal
  <1> DEFINE b == Finished(flow)
  <1>0. /\ pc = "finish" /\ book' = b /\ pc' \in {"over", "decide", "begin"}
        /\ orders' = (IF b.dead THEN Moved(orders, Active(orders), "cancelled") ELSE orders)
        /\ accepted' = {} /\ attempted' = {}
        /\ UNCHANGED <<setup, bar, todo, symbols, allocs>>
    BY DEF FinishBar
  <1>1. /\ StateTyped /\ OrdersKept /\ FreshIds /\ PassInv /\ AllocInv /\ IocInv
        /\ OneOrderPerSymbol /\ TerminationIsFinal /\ bar \in Nat /\ BookTyped(book)
    BY DEF OrdersInv, StateTyped
  <1>2. BookTyped(b) /\ (b.dead => b.qty = Flat) /\ (Absorbed => b.dead)
    BY <1>1, BookFinished
  <1> HIDE DEF b
  <1>3. /\ OrdersMove /\ TransitionsLegal /\ LeftKept
        /\ b.dead => Active(orders') = {}
        /\ ~b.dead => orders' = orders
    <2>1. CASE b.dead
      <3>1. orders' = Moved(orders, Active(orders), "cancelled")  BY <1>0, <2>1
      <3>2. "cancelled" \in Done \cup {"latency_wait", "eligible"}
            /\ "cancelled" # "latency_wait" /\ "cancelled" # "eligible" /\ "cancelled" \in Done
        BY DEF Done
      <3>3. /\ OrdersMove /\ TransitionsLegal /\ LeftKept
            /\ \A j \in DOMAIN orders \ Active(orders) : orders'[j] = orders[j]
            /\ \A j \in Active(orders) : orders'[j].status = "cancelled"
        BY <1>0, <1>1, <3>1, <3>2, MovedOrders
      <3>4. DOMAIN orders' = DOMAIN orders  BY <3>3 DEF OrdersMove
      <3>5. Active(orders') = {}  BY <3>2, <3>3, <3>4 DEF Active
      <3> QED BY <2>1, <3>3, <3>5
    <2>2. CASE ~b.dead
      <3>1. orders' = orders  BY <1>0, <2>2
      <3> QED BY <1>1, <2>2, <3>1, OrdersUntouched
    <2> QED BY <2>1, <2>2
  <1>4. /\ OrdersKept' /\ FreshIds' /\ OneOrderPerSymbol'
        /\ Active(orders') \subseteq Active(orders)
    BY <1>0, <1>1, <1>3, OrdersMoved
  <1>5. StateTyped'
    <2>1. BookTyped(book)'  BY <1>0, <1>2, SetupKept DEF BookTyped
    <2>2. pc' \in Phases  BY <1>0 DEF Phases
    <2> QED BY <1>0, <1>1, <2>1, <2>2, SetupKept DEF StateTyped
  <1>6. PassInv'  BY <1>0, <1>1 DEF PassInv
  <1>7. AllocInv'
    <2>1. allocs' = <<>>  BY <1>0, <1>1 DEF AllocInv
    <2> QED BY <2>1, NothingAllocated
  <1>8. IocInv'
    <2>1. CASE b.dead  BY <1>3, <2>1 DEF IocInv
    <2>2. CASE ~b.dead
      <3>1. orders' = orders /\ ~Absorbed  BY <1>2, <1>3, <2>2
      <3>2. \A i \in Active(orders) : ~(orders[i].tif = "ioc" /\ orders[i].left # orders[i].want)
        BY <1>0, <1>1, <3>1 DEF IocInv
      <3> QED BY <3>1, <3>2 DEF IocInv
    <2> QED BY <2>1, <2>2
  <1>9. TerminationIsFinal'
    <2>1. Flat' = Flat  BY <1>0, SetupKept DEF Flat
    <2> QED BY <1>0, <1>2, <1>3, <2>1 DEF TerminationIsFinal
  <1> QED BY <1>3, <1>4, <1>5, <1>6, <1>7, <1>8, <1>9, NothingFilled DEF OrdersInv, StepLegal

-----------------------------------------------------------------------------
(* New orders.                                                             *)

(* A new order waits, and nothing of it is filled.                         *)
LEMMA PendingOrder ==
  ASSUME bar \in Nat, NEW s \in Symbols, NEW want \in Int, NEW kind \in Kinds,
         NEW tif \in Tifs, NEW eligible \in Int, NEW expiry \in Int, NEW reduce \in BOOLEAN,
         NEW k \in Nat
  PROVE  LET o == Pending(s, want, kind, tif, eligible, expiry, reduce) IN
         /\ OrderKept(<<bar, s, k>>, o)
         /\ o.left = o.want /\ o.tif = tif /\ o.sym = s /\ o.submit = bar
  <1> DEFINE o == Pending(s, want, kind, tif, eligible, expiry, reduce)
  <1>1. "submitted" \in Statuses /\ "submitted" \notin Working
    BY DEF Statuses, Waiting, Working
  <1>2. o \in OrderRecord  BY <1>1 DEF Pending, OrderRecord
  <1>3. /\ o.sym = s /\ o.submit = bar /\ o.last = bar /\ o.status = "submitted"
        /\ o.left = o.want /\ o.tif = tif
    BY DEF Pending
  <1>4. <<bar, s, k>> \in OrderIds /\ <<bar, s, k>>[1] = bar /\ <<bar, s, k>>[2] = s
    BY DEF OrderIds
  <1> HIDE DEF o
  <1>5. OrderKept(<<bar, s, k>>, o)  BY <1>1, <1>2, <1>3, <1>4 DEF OrderKept
  <1> QED BY <1>3, <1>5 DEF o

(* The caller of the executor submits an intent.                           *)
LEMMA SubmitStep ==
  ASSUME OrdersInv, NEW intent \in Direct, Submit(intent)
  PROVE  OrdersInv' /\ StepLegal
  <1> DEFINE taken == Taken(bar, intent.sym)
             id == <<bar, intent.sym, Cardinality(taken) + 1>>
             expiry == IF intent.life = Never THEN Never ELSE bar + intent.life
             last == Max({expiry, bar + Latency})
             new == Pending(intent.sym, intent.want, intent.kind, intent.tif,
                            bar + Latency, last, intent.reduce)
  <1>0. /\ pc = "decide"
        /\ orders' = [i \in DOMAIN orders \cup {id} |-> IF i = id THEN new ELSE orders[i]]
        /\ UNCHANGED <<setup, bar, pc, book, todo, accepted, symbols, allocs, attempted>>
    BY DEF Submit, Taken, passVars, fillVars
  <1>1. /\ StateTyped /\ OrdersKept /\ FreshIds /\ PassInv /\ AllocInv /\ IocInv
        /\ OneOrderPerSymbol /\ TerminationIsFinal /\ bar \in Nat /\ setup \in Setups
    BY DEF OrdersInv, StateTyped
  <1>2. /\ intent.sym \in Symbols /\ intent.want \in Int /\ intent.kind \in Kinds
        /\ intent.tif \in Tifs /\ intent.reduce \in BOOLEAN /\ intent.life \in Nat
        /\ Never \in Int /\ Latency \in Nat
    BY <1>1, SetupTyped
  <1>3. IsFiniteSet(taken) /\ Cardinality(taken) \in Nat
    <2>1. taken \subseteq DOMAIN orders  BY DEF Taken
    <2> QED BY <1>1, <2>1, FS_Subset, FS_CardinalityType DEF FreshIds
  <1>4. expiry \in Int /\ bar + Latency \in Int  BY <1>1, <1>2
  <1> HIDE DEF expiry, taken
  <1>5. last \in Int
    <2>1. \E x \in {expiry, bar + Latency} : \A y \in {expiry, bar + Latency} : x >= y
      BY <1>4
    <2>2. last \in {expiry, bar + Latency}  BY <2>1 DEF Max
    <2> HIDE DEF last
    <2> QED BY <1>4, <2>2
  <1> HIDE DEF last
  <1>6. /\ OrderKept(id, new) /\ new.left = new.want /\ new.sym = intent.sym
        /\ new.submit = bar
    BY <1>1, <1>2, <1>3, <1>4, <1>5, PendingOrder
  <1>7. id \notin DOMAIN orders
    <2> SUFFICES ASSUME id \in DOMAIN orders PROVE FALSE  OBVIOUS
    <2>1. id[3] <= Cardinality(Taken(id[1], id[2]))  BY <1>1 DEF FreshIds
    <2>2. Cardinality(taken) + 1 <= Cardinality(taken)  BY <2>1 DEF taken
    <2> QED BY <1>3, <2>2
  <1> HIDE DEF new
  <1>8. /\ DOMAIN orders' = DOMAIN orders \cup {id} /\ orders'[id] = new
        /\ \A i \in DOMAIN orders : orders'[i] = orders[i] /\ i # id
    BY <1>0, <1>7
  <1>9. id[1] = bar /\ id[2] = intent.sym /\ id[3] = Cardinality(taken) + 1  OBVIOUS
  <1> HIDE DEF id
  <1>10. Active(orders') \subseteq Active(orders) \cup {id}  BY <1>8 DEF Active
  <1>11. StateTyped'
    BY <1>0, <1>1, SetupKept DEF StateTyped, BookTyped
  <1>12. OrdersKept'
    <2>1. \A i \in DOMAIN orders' : OrderKept(i, orders'[i])
      BY <1>1, <1>6, <1>8 DEF OrdersKept
    <2> QED BY <1>0, <2>1, SetupKept DEF OrdersKept, OrderKept
  <1>13. FreshIds'
    <2>1. IsFiniteSet(DOMAIN orders')  BY <1>1, <1>8, FS_AddElement DEF FreshIds
    <2>2. Direct' = Direct /\ Direct # {}  BY <1>0, SetupKept
    <2>3. ASSUME NEW i \in DOMAIN orders'
          PROVE  i[3] <= Cardinality(Taken(i[1], i[2])')
      <3>1. CASE i[1] = bar /\ i[2] = intent.sym
        <4>1. Taken(i[1], i[2])' = taken \cup {id}
          BY <1>8, <1>9, <3>1 DEF Taken, taken
        <4>2. id \notin taken  BY <1>7 DEF Taken, taken
        <4>3. Cardinality(taken \cup {id}) = Cardinality(taken) + 1
          BY <1>3, <4>2, FS_AddElement
        <4>4. i = id \/ (i \in DOMAIN orders /\ i[3] <= Cardinality(taken))
          BY <1>1, <1>8, <2>2, <3>1 DEF FreshIds, taken
        <4>5. i \in DOMAIN orders => i[3] \in Nat
          BY <1>1 DEF OrdersKept, OrderKept, OrderIds
        <4> QED BY <1>3, <1>9, <4>1, <4>3, <4>4, <4>5
      <3>2. CASE ~(i[1] = bar /\ i[2] = intent.sym)
        <4>1. i \in DOMAIN orders  BY <1>8, <1>9, <3>2
        <4>2. Taken(i[1], i[2])' = Taken(i[1], i[2])  BY <1>8, <1>9, <3>2 DEF Taken
        <4> QED BY <1>1, <2>2, <4>1, <4>2 DEF FreshIds
      <3> QED BY <3>1, <3>2
    <2> QED BY <2>1, <2>2, <2>3 DEF FreshIds
  <1>14. PassInv'
    <2>1. todo' = {} /\ accepted' = {} /\ attempted' = {} /\ symbols' = {} /\ pc' = "decide"
      BY <1>0, <1>1 DEF PassInv
    <2> QED BY <2>1 DEF PassInv
  <1>15. AllocInv'  BY <1>0, <1>1, NothingAllocated DEF AllocInv
  <1>16. IocInv'
    <2> SUFFICES ASSUME NEW i \in Active(orders'), orders'[i].tif = "ioc",
                        orders'[i].left # orders'[i].want
                 PROVE  FALSE
      BY DEF IocInv
    <2>1. i # id  BY <1>6, <1>8
    <2>2. i \in Active(orders) /\ orders'[i] = orders[i]  BY <1>8, <1>10, <2>1 DEF Active
    <2> QED BY <1>0, <1>1, <2>2 DEF IocInv
  <1>17. OneOrderPerSymbol'  BY <1>0, SetupKept DEF OneOrderPerSymbol
  <1>18. TerminationIsFinal'
    <2>1. Flat' = Flat  BY <1>0, SetupKept DEF Flat
    <2> SUFFICES ASSUME book.dead
                 PROVE  book.qty = Flat /\ \A i \in Active(orders') : orders'[i].submit = bar
      BY <1>0, <2>1 DEF TerminationIsFinal
    <2>2. book.qty = Flat /\ \A i \in Active(orders) : orders[i].submit = bar
      BY <1>0, <1>1 DEF TerminationIsFinal
    <2> QED BY <1>6, <1>8, <1>10, <2>2 DEF Active
  <1>19. LeftKept /\ TransitionsLegal  BY <1>8 DEF LeftKept, TransitionsLegal
  <1> QED BY <1>11, <1>12, <1>13, <1>14, <1>15, <1>16, <1>17, <1>18, <1>19, NothingFilled
          DEF OrdersInv, StepLegal

(* A session reconciles its target: what it replaces it cancels.           *)
LEMMA DecideStep ==
  ASSUME OrdersInv, NEW target \in [Symbols -> Positions], Decide(target)
  PROVE  OrdersInv' /\ StepLegal
  <1> DEFINE delta(s) == target[s] - book.qty[s]
             kept == {s \in Symbols :
                        /\ \A i \in Live(s) : Compatible(orders[i], Reducing(target, s))
                        /\ delta(s) = Residual(s)}
             superseded == {i \in Active(orders) : orders[i].sym \notin kept}
             renewed == {r \in Symbols \ kept : delta(r) # 0}
             fresh == {<<bar, s, 1>> : s \in renewed}
             cancelled == Moved(orders, superseded, "cancelled")
             new(i) == Pending(i[2], delta(i[2]), Kind, "gtc", bar + Latency, Never,
                               Reducing(target, i[2]))
  <1>0. /\ pc = "decide" /\ pc' = "begin" /\ Direct = {} /\ ~book.dead
        /\ orders' = [i \in DOMAIN orders \cup fresh |->
                        IF i \in fresh THEN new(i) ELSE cancelled[i]]
        /\ UNCHANGED <<setup, bar, book, todo, accepted, symbols, allocs, attempted>>
    BY DEF Decide, Reconciled, passVars, fillVars
  <1>1. /\ StateTyped /\ OrdersKept /\ FreshIds /\ PassInv /\ AllocInv /\ IocInv
        /\ OneOrderPerSymbol /\ TerminationIsFinal /\ bar \in Nat /\ setup \in Setups
        /\ BookTyped(book)
    BY DEF OrdersInv, StateTyped
  <1>2. /\ Kind \in Kinds /\ Never \in Int /\ Latency \in Nat /\ Positions \subseteq Int
        /\ IsFiniteSet(Symbols)
    BY <1>1, SetupTyped
  <1>3. ASSUME NEW s \in Symbols  PROVE delta(s) \in Int
    <2>1. target[s] \in Int  BY <1>2
    <2>2. book.qty[s] \in Int  BY <1>1 DEF BookTyped
    <2> QED BY <2>1, <2>2
  <1>4. /\ superseded \subseteq Active(orders)
        /\ \A i \in superseded : orders[i].sym \notin kept
        /\ \A i \in Active(orders) \ superseded : orders[i].sym \in kept
        /\ renewed \subseteq Symbols /\ \A s \in renewed : s \notin kept
    OBVIOUS
  <1> HIDE DEF delta, kept, superseded, renewed
  <1>5. /\ \A i \in fresh : \E s \in renewed : i = <<bar, s, 1>>
        /\ \A i \in fresh : i[1] = bar /\ i[2] \in renewed /\ i = <<bar, i[2], 1>>
    OBVIOUS
  <1>6. IsFiniteSet(fresh)
    <2> DEFINE f == [s \in renewed |-> <<bar, s, 1>>]
    <2>1. f \in Surjection(renewed, fresh)  BY DEF Surjection
    <2>2. IsFiniteSet(renewed)  BY <1>2, <1>4, FS_Subset
    <2> QED BY <2>1, <2>2, FS_Surjection
  <1> HIDE DEF fresh
  <1>7. \A i \in fresh : OrderKept(i, new(i)) /\ new(i).left = new(i).want
                         /\ new(i).tif = "gtc" /\ new(i).sym = i[2]
    <2> SUFFICES ASSUME NEW i \in fresh
                 PROVE  OrderKept(i, new(i)) /\ new(i).left = new(i).want
                        /\ new(i).tif = "gtc" /\ new(i).sym = i[2]
      OBVIOUS
    <2>1. i[2] \in Symbols /\ i = <<bar, i[2], 1>> /\ delta(i[2]) \in Int
      BY <1>3, <1>4, <1>5
    <2>2. Reducing(target, i[2]) \in BOOLEAN  BY DEF Reducing
    <2>3. "gtc" \in Tifs /\ bar + Latency \in Int /\ 1 \in Nat  BY <1>1, <1>2 DEF Tifs
    <2> QED BY <1>1, <1>2, <2>1, <2>2, <2>3, PendingOrder
  <1> HIDE DEF new
  <1>8. \A i \in DOMAIN orders : i \notin fresh
    <2> SUFFICES ASSUME NEW i \in DOMAIN orders, i \in fresh PROVE FALSE  OBVIOUS
    <2>1. orders[i].submit = i[1] /\ orders[i].submit < bar /\ i[1] = bar
      BY <1>0, <1>1, <1>5 DEF OrdersKept, OrderKept, FreshIds
    <2> QED BY <1>1, <2>1
  <1>9. ASSUME NEW i \in DOMAIN orders
        PROVE  /\ Moves(orders[i], orders'[i], bar)
               /\ orders'[i] # orders[i] => Legal(orders[i], orders'[i])
               /\ orders'[i].left = orders[i].left
               /\ i \in superseded => orders'[i].status = "cancelled"
    <2>1. "cancelled" \in Done \cup {"latency_wait", "eligible"}
          /\ "cancelled" # "latency_wait" /\ "cancelled" # "eligible"
      BY DEF Done
    <2>2. orders'[i] = cancelled[i]  BY <1>0, <1>8
    <2> QED BY <1>1, <1>4, <2>1, <2>2, MovedOrder
  <1>10. /\ DOMAIN orders' = DOMAIN orders \cup fresh
         /\ \A i \in fresh : orders'[i] = new(i)
    BY <1>0
  <1>11. \A i \in DOMAIN orders : /\ orders'[i] \in OrderRecord
                                  /\ SameOrder(orders[i], orders'[i])
                                  /\ OrderKept(i, orders'[i])
    <2> SUFFICES ASSUME NEW i \in DOMAIN orders
                 PROVE  /\ orders'[i] \in OrderRecord
                        /\ SameOrder(orders[i], orders'[i])
                        /\ OrderKept(i, orders'[i])
      OBVIOUS
    <2>1. OrderKept(i, orders[i]) /\ Moves(orders[i], orders'[i], bar)
      BY <1>1, <1>9 DEF OrdersKept
    <2> QED BY <1>1, <2>1 DEF OrderKept, Moves, SameOrder
  <1>12. \A i \in Active(orders') :
           \/ i \in fresh
           \/ i \in DOMAIN orders /\ i \in Active(orders) /\ i \notin superseded
    <2> SUFFICES ASSUME NEW i \in Active(orders'), i \notin fresh
                 PROVE  i \in DOMAIN orders /\ i \in Active(orders) /\ i \notin superseded
      OBVIOUS
    <2>1. i \in DOMAIN orders /\ orders'[i].status \notin Done  BY <1>10 DEF Active
    <2>2. Moves(orders[i], orders'[i], bar)
          /\ (i \in superseded => orders'[i].status = "cancelled")
      BY <1>9, <2>1
    <2> QED BY <2>1, <2>2 DEF Active, Moves, Done
  <1>13. StateTyped'
    BY <1>0, <1>1, SetupKept DEF StateTyped, BookTyped, Phases
  <1>14. OrdersKept'
    <2>1. \A i \in DOMAIN orders' : OrderKept(i, orders'[i])
      BY <1>7, <1>10, <1>11
    <2> QED BY <1>0, <2>1, SetupKept DEF OrdersKept, OrderKept
  <1>15. FreshIds'
    <2>1. IsFiniteSet(DOMAIN orders')  BY <1>1, <1>6, <1>10, FS_Union DEF FreshIds
    <2>2. Direct' = {}  BY <1>0, SetupKept
    <2> QED BY <1>0, <2>1, <2>2 DEF FreshIds
  <1>16. PassInv'
    <2>1. todo' = {} /\ accepted' = {} /\ attempted' = {} /\ symbols' = {}
      BY <1>0, <1>1 DEF PassInv
    <2> QED BY <1>0, <2>1 DEF PassInv
  <1>17. AllocInv'  BY <1>0, <1>1, NothingAllocated DEF AllocInv
  <1>18. IocInv'
    <2> SUFFICES ASSUME NEW i \in Active(orders'), orders'[i].tif = "ioc",
                        orders'[i].left # orders'[i].want
                 PROVE  FALSE
      BY DEF IocInv
    <2>1. i \notin fresh  BY <1>7, <1>10
    <2>2. i \in DOMAIN orders /\ i \in Active(orders)  BY <1>12, <2>1
    <2>3. orders[i].tif = "ioc" /\ orders[i].left # orders[i].want
      BY <1>9, <1>11, <2>2 DEF SameOrder
    <2> QED BY <1>0, <1>1, <2>2, <2>3 DEF IocInv
  <1>19. OneOrderPerSymbol'
    <2> SUFFICES ASSUME NEW i \in Active(orders'), NEW j \in Active(orders'),
                        orders'[i].sym = orders'[j].sym
                 PROVE  i = j
      BY DEF OneOrderPerSymbol
    <2>1. \A k \in fresh : orders'[k].sym \notin kept /\ k = <<bar, orders'[k].sym, 1>>
      BY <1>4, <1>5, <1>7, <1>10
    <2>2. \A k \in Active(orders) \ superseded : k \in DOMAIN orders =>
            orders'[k].sym \in kept /\ orders'[k].sym = orders[k].sym
      BY <1>4, <1>11 DEF SameOrder
    <2>3. CASE i \in fresh \/ j \in fresh
      <3>1. i \in fresh /\ j \in fresh  BY <1>12, <2>1, <2>2, <2>3
      <3> QED BY <2>1, <3>1
    <2>4. CASE i \notin fresh /\ j \notin fresh
      <3>1. /\ i \in Active(orders) /\ i \notin superseded /\ i \in DOMAIN orders
            /\ j \in Active(orders) /\ j \notin superseded /\ j \in DOMAIN orders
        BY <1>12, <2>4
      <3>2. orders[i].sym = orders[j].sym  BY <2>2, <3>1
      <3> QED BY <1>0, <1>1, <3>1, <3>2 DEF OneOrderPerSymbol
    <2> QED BY <2>3, <2>4
  <1>20. TerminationIsFinal'  BY <1>0 DEF TerminationIsFinal
  <1>21. LeftKept /\ TransitionsLegal  BY <1>9 DEF LeftKept, TransitionsLegal
  <1> QED BY <1>13, <1>14, <1>15, <1>16, <1>17, <1>18, <1>19, <1>20, <1>21, NothingFilled
          DEF OrdersInv, StepLegal

(* The caller of the executor lets a bar begin.                            *)
LEMMA StartStep ==
  ASSUME OrdersInv, Start
  PROVE  OrdersInv' /\ StepLegal
  <1>0. /\ pc = "decide" /\ pc' = "begin"
        /\ UNCHANGED <<setup, bar, orders, book, todo, accepted, symbols, allocs, attempted>>
    BY DEF Start, passVars, fillVars
  <1>1. /\ StateTyped /\ OrdersKept /\ FreshIds /\ PassInv /\ AllocInv /\ IocInv
        /\ OneOrderPerSymbol /\ TerminationIsFinal /\ bar \in Nat
    BY DEF OrdersInv, StateTyped
  <1>2. OrdersMove /\ TransitionsLegal /\ LeftKept  BY <1>0, <1>1, OrdersUntouched
  <1>3. /\ OrdersKept' /\ FreshIds' /\ OneOrderPerSymbol'
        /\ Active(orders') \subseteq Active(orders)
    BY <1>0, <1>1, <1>2, OrdersMoved
  <1>4. StateTyped'
    BY <1>0, <1>1, SetupKept DEF StateTyped, BookTyped, Phases
  <1>5. PassInv'
    <2>1. todo' = {} /\ accepted' = {} /\ attempted' = {} /\ symbols' = {}
      BY <1>0, <1>1 DEF PassInv
    <2> QED BY <1>0, <2>1 DEF PassInv
  <1>6. AllocInv'  BY <1>0, <1>1, NothingAllocated DEF AllocInv
  <1>7. IocInv'  BY <1>0, <1>1, <1>2, <1>3, IocCarried
  <1>8. TerminationIsFinal'
    <2>1. Flat' = Flat  BY <1>0, SetupKept DEF Flat
    <2> QED BY <1>0, <1>1, <2>1 DEF TerminationIsFinal
  <1> QED BY <1>2, <1>3, <1>4, <1>5, <1>6, <1>7, <1>8, NothingFilled DEF OrdersInv, StepLegal

-----------------------------------------------------------------------------
(* The theorems.                                                           *)

(* A new executor has no order. *)
LEMMA OrdersInitially == Init => OrdersInv
  <1> SUFFICES ASSUME Init PROVE OrdersInv  OBVIOUS
  <1>0. /\ setup \in Setups /\ bar = 0 /\ pc = "decide" /\ orders = <<>> /\ allocs = <<>>
        /\ book = [qty |-> Flat, cash |-> Capital, dead |-> FALSE]
        /\ todo = {} /\ accepted = {} /\ symbols = {} /\ attempted = {}
    BY DEF Init
  <1>1. DOMAIN orders = {} /\ Active(orders) = {}
    <2>1. DOMAIN orders = 1..0  BY <1>0
    <2>2. 1..0 = {}  OBVIOUS
    <2> QED BY <2>1, <2>2 DEF Active
  <1>2. StateTyped  BY <1>0 DEF StateTyped, BookTyped, Phases, Flat
  <1>3. OrdersKept  BY <1>1 DEF OrdersKept
  <1>4. FreshIds  BY <1>1, FS_EmptySet DEF FreshIds
  <1>5. PassInv  BY <1>0, <1>1 DEF PassInv
  <1>6. AllocInv
    <2>1. allocs \in Seq(AllocationRecord) /\ Len(allocs) = 0  BY <1>0
    <2>2. 1..0 = {}  OBVIOUS
    <2> QED BY <1>0, <2>1, <2>2 DEF AllocInv
  <1>7. IocInv /\ OneOrderPerSymbol  BY <1>1 DEF IocInv, OneOrderPerSymbol
  <1>8. TerminationIsFinal  BY <1>0 DEF TerminationIsFinal
  <1> QED BY <1>2, <1>3, <1>4, <1>5, <1>6, <1>7, <1>8 DEF OrdersInv

(* What does not touch the orders keeps the invariant. *)
LEMMA OrdersStutter ==
  ASSUME OrdersInv, UNCHANGED vars
  PROVE  OrdersInv' /\ StepLegal
  <1>0. UNCHANGED <<setup, bar, pc, orders, book, todo, accepted, symbols, allocs, attempted>>
    BY DEF vars
  <1>1. StateTyped'
    BY <1>0, SetupKept DEF OrdersInv, StateTyped, BookTyped
  <1>2. OrdersKept'  BY <1>0, SetupKept DEF OrdersInv, OrdersKept, OrderKept
  <1>3. FreshIds'  BY <1>0, SetupKept DEF OrdersInv, FreshIds, Taken
  <1>4. PassInv'  BY <1>0 DEF OrdersInv, PassInv, Due
  <1>5. AllocInv'  BY <1>0, SetupKept DEF OrdersInv, AllocInv
  <1>6. IocInv'  BY <1>0, SetupKept DEF OrdersInv, IocInv, Absorbed
  <1>7. OneOrderPerSymbol'  BY <1>0, SetupKept DEF OrdersInv, OneOrderPerSymbol
  <1>8. TerminationIsFinal'
    <2>1. Flat' = Flat  BY <1>0, SetupKept DEF Flat
    <2> QED BY <1>0, <2>1 DEF OrdersInv, TerminationIsFinal
  <1>9. StepLegal
    BY <1>0 DEF StepLegal, TransitionsLegal, ReduceOnlyReduces, FillsInWindow
  <1> QED BY <1>1, <1>2, <1>3, <1>4, <1>5, <1>6, <1>7, <1>8, <1>9 DEF OrdersInv

(* Every step keeps the invariant, and moves every order as its status allows. *)
LEMMA OrdersStep ==
  ASSUME OrdersInv, [Next]_vars
  PROVE  OrdersInv' /\ StepLegal
  <1>1. CASE \E target \in [Symbols -> Positions] : Decide(target)
    BY <1>1, DecideStep
  <1>2. CASE \E intent \in Direct : Submit(intent)
    BY <1>2, SubmitStep
  <1>3. CASE Start
    BY <1>3, StartStep
  <1>4. CASE \E flow \in Flows : BeginExhausted(flow)
    BY <1>4, BeginSteps
  <1>5. CASE \E gap \in BOOLEAN, flow \in Flows, split, inactive \in SUBSET Symbols,
                recovery \in 0..1 : BeginBar(gap, flow, split, inactive, recovery)
    BY <1>5, BeginSteps
  <1>6. CASE \E i \in todo : \/ PrepareExpired(i) \/ PrepareWaits(i)
                             \/ PrepareInadmissible(i) \/ PrepareRefused(i)
    BY <1>6, NotAdmittedSteps
  <1>7. CASE \E i \in todo : PrepareAccepted(i)
    BY <1>7, AcceptedStep
  <1>8. CASE \E s \in Symbols : Allocate(s)
    BY <1>8, AllocateStep
  <1>9. CASE NoFill
    BY <1>9, NoFillStep
  <1>10. CASE \E cost \in Costs : Fill(cost)
    BY <1>10, FillStep
  <1>11. CASE FillAbsorbed
    BY <1>11, FillAbsorbedStep
  <1>12. CASE ExpireRemainders
    BY <1>12, ExpireStep
  <1>13. CASE \E flow \in Flows : FinishBar(flow)
    BY <1>13, FinishStep
  <1>14. CASE UNCHANGED vars
    BY <1>14, OrdersStutter
  <1> QED BY <1>1, <1>2, <1>3, <1>4, <1>5, <1>6, <1>7, <1>8, <1>9, <1>10, <1>11, <1>12, <1>13,
             <1>14 DEF Next

(* The state stays well formed, whatever the market, the caller or the     *)
(* session does.                                                           *)
THEOREM OrdersInvariant == Spec => []OrdersInv
  <1>1. Init => OrdersInv  BY OrdersInitially
  <1>2. OrdersInv /\ [Next]_vars => OrdersInv'  BY OrdersStep
  <1> QED BY <1>1, <1>2, PTL DEF Spec

(* Every step of an order is one PendingOrder accepts, trades inside its   *)
(* window, and brings the position towards zero if the order may only      *)
(* reduce (PendingOrder._transition, evaluate_trigger,                     *)
(* _recheck_closing_allocation).                                           *)
THEOREM OrdersAlwaysLegal == Spec => OrderStepsLegal
  <1>1. OrdersInv /\ [Next]_vars => [TransitionsLegal /\ ReduceOnlyReduces /\ FillsInWindow]_vars
    BY OrdersStep DEF StepLegal
  <1>2. Spec => []OrdersInv  BY OrdersInvariant
  <1> QED BY <1>1, <1>2, PTL DEF Spec, OrderStepsLegal

(* A session never has two active orders for one symbol (reconcile_target),*)
(* and a book that died leaves the bar flat and without active orders      *)
(* (finish_bar), whatever broke the bar off.                               *)
THEOREM SessionsHoldOneOrder == Spec => [](OneOrderPerSymbol /\ TerminationIsFinal)
  <1>1. OrdersInv => OneOrderPerSymbol /\ TerminationIsFinal  BY DEF OrdersInv
  <1> QED BY <1>1, OrdersInvariant, PTL

-----------------------------------------------------------------------------
(* Sums over the symbols.                                                  *)

(* What holds at 0 and is handed on by every number holds up to N.         *)
LEMMA Counting ==
  ASSUME NEW N \in Nat, NEW S, 0 \in S, \A n \in 1..N : n - 1 \in S => n \in S
  PROVE  \A n \in 0..N : n \in S
  <1> DEFINE Bad == {n \in 0..N : n \notin S}
  <1>1. SUFFICES ASSUME Bad # {} PROVE FALSE  OBVIOUS
  <1>2. Bad \subseteq Nat  OBVIOUS
  <1>3. PICK n \in Bad : \A k \in Bad : n <= k  BY <1>1, <1>2, LeastNumber
  <1>4. n \in 0..N /\ n \in Nat /\ n \notin S /\ n # 0  OBVIOUS
  <1>5. n \in 1..N /\ n - 1 \in 0..N  BY <1>4
  <1>6. n - 1 \in S  BY <1>3, <1>5
  <1> QED BY <1>4, <1>5, <1>6

(* The partial sums of f. *)
Sums(f, g) ==
  /\ g \in [0..NSymbols -> Int]
  /\ g[0] = 0
  /\ \A n \in 1..NSymbols : g[n] = g[n - 1] + f[n]
  /\ Total(f) = g[NSymbols]

Numbers(f) == \A s \in Symbols : f[s] \in Int

(* A sum is the last of its partial sums, which exist: there is no first    *)
(* number at which they fail. *)
LEMMA PartialSums ==
  ASSUME NSymbols \in Nat, NEW f, Numbers(f)
  PROVE  \E g : Sums(f, g)
  <1> DEFINE N == NSymbols
             Runs(m, g) == /\ g \in [0..m -> Int]
                           /\ \A n \in 0..m : g[n] = IF n = 0 THEN 0 ELSE g[n - 1] + f[n]
             Good == {m \in 0..N : \E g : Runs(m, g)}
  <1>0. N \in Nat /\ \A n \in 1..N : f[n] \in Int  BY DEF Numbers, Symbols
  <1>1. Total(f) = (CHOOSE sum : sum = [n \in 0..N |-> IF n = 0 THEN 0 ELSE sum[n - 1] + f[n]])[N]
    BY DEF Total
  <1> HIDE DEF N
  <1>2. 0 \in Good
    <2>1. Runs(0, [n \in 0..0 |-> 0])  OBVIOUS
    <2> HIDE DEF Runs
    <2>2. \E g : Runs(0, g)  BY <2>1
    <2> QED BY <1>0, <2>2
  <1>3. ASSUME NEW m \in 1..N, m - 1 \in Good  PROVE m \in Good
    <2>1. PICK g : Runs(m - 1, g)  BY <1>3
    <2> DEFINE h == [n \in 0..m |-> IF n = m THEN g[m - 1] + f[m] ELSE g[n]]
    <2>2. m \in Nat /\ m \in 0..N /\ m # 0 /\ m - 1 \in 0..(m - 1)  BY <1>0
    <2>3. h \in [0..m -> Int]  BY <1>0, <2>1, <2>2
    <2>4. ASSUME NEW n \in 0..m  PROVE h[n] = IF n = 0 THEN 0 ELSE h[n - 1] + f[n]
      <3>1. CASE n = m  BY <2>2, <3>1
      <3>2. CASE n # m
        <4>1. n \in 0..(m - 1) /\ (n # 0 => n - 1 \in 0..m /\ n - 1 # m)  BY <2>2, <3>2
        <4> QED BY <2>1, <3>2, <4>1
      <3> QED BY <3>1, <3>2
    <2>5. Runs(m, h)  BY <2>3, <2>4
    <2> QED BY <2>2, <2>5
  <1> HIDE DEF Good
  <1>4. N \in Good  BY <1>0, <1>2, <1>3, Counting
  <1>5. PICK g : Runs(N, g)  BY <1>4 DEF Good
  <1>6. g = [n \in 0..N |-> IF n = 0 THEN 0 ELSE g[n - 1] + f[n]]  BY <1>5
  <1> DEFINE sum == CHOOSE x : x = [n \in 0..N |-> IF n = 0 THEN 0 ELSE x[n - 1] + f[n]]
  <1>7. sum = [n \in 0..N |-> IF n = 0 THEN 0 ELSE sum[n - 1] + f[n]]  BY <1>6
  <1>8. Total(f) = sum[N]  BY <1>1
  <1> HIDE DEF sum
  <1> DEFINE Whole == {n \in 0..N : sum[n] \in Int}
  <1>9. 0 \in Whole  BY <1>0, <1>7
  <1>10. ASSUME NEW n \in 1..N, n - 1 \in Whole  PROVE n \in Whole
    <2>1. n \in 0..N /\ n # 0 /\ sum[n - 1] \in Int /\ f[n] \in Int  BY <1>0, <1>10
    <2>2. sum[n] = sum[n - 1] + f[n]  BY <1>7, <2>1
    <2> QED BY <2>1, <2>2
  <1> HIDE DEF Whole
  <1>11. \A n \in 0..N : n \in Whole  BY <1>0, <1>9, <1>10, Counting
  <1>12. sum \in [0..N -> Int]  BY <1>7, <1>11 DEF Whole
  <1>13. sum[0] = 0 /\ \A n \in 1..N : sum[n] = sum[n - 1] + f[n]
    <2>1. 0 \in 0..N /\ \A n \in 1..N : n \in 0..N /\ n # 0  BY <1>0
    <2> QED BY <1>7, <2>1
  <1>14. Sums(f, sum)  BY <1>8, <1>12, <1>13 DEF Sums, N
  <1> QED BY <1>14

(* A sum grows with its terms. *)
LEMMA TotalGrows ==
  ASSUME NSymbols \in Nat, NEW f, NEW h, Numbers(f), Numbers(h),
         \A s \in Symbols : f[s] <= h[s]
  PROVE  Total(f) \in Int /\ Total(h) \in Int /\ Total(f) <= Total(h)
  <1>1. PICK g : Sums(f, g)  BY PartialSums
  <1>2. PICK k : Sums(h, k)  BY PartialSums
  <1> DEFINE S == {n \in 0..NSymbols : g[n] <= k[n]}
  <1>3. 0 \in S  BY <1>1, <1>2 DEF Sums
  <1>4. ASSUME NEW n \in 1..NSymbols, n - 1 \in S  PROVE n \in S
    <2>1. n \in Symbols /\ n \in 0..NSymbols /\ n - 1 \in 0..NSymbols  BY DEF Symbols
    <2>2. /\ g[n] = g[n - 1] + f[n] /\ k[n] = k[n - 1] + h[n]
          /\ g[n - 1] \in Int /\ k[n - 1] \in Int
      BY <1>1, <1>2, <2>1 DEF Sums
    <2>3. f[n] \in Int /\ h[n] \in Int /\ f[n] <= h[n]  BY <2>1 DEF Numbers
    <2> QED BY <1>4, <2>1, <2>2, <2>3
  <1> HIDE DEF S
  <1>5. NSymbols \in S  BY <1>3, <1>4, Counting
  <1> QED BY <1>1, <1>2, <1>5 DEF S, Sums

(* A sum of which one term changes. *)
LEMMA TotalChanges ==
  ASSUME NSymbols \in Nat, NEW f, NEW h, Numbers(f), Numbers(h), NEW s \in Symbols,
         \A r \in Symbols : r # s => h[r] = f[r]
  PROVE  Total(h) = Total(f) + (h[s] - f[s])
  <1>1. PICK g : Sums(f, g)  BY PartialSums
  <1>2. PICK k : Sums(h, k)  BY PartialSums
  <1> DEFINE S == {n \in 0..NSymbols : k[n] = g[n] + (IF n < s THEN 0 ELSE h[s] - f[s])}
  <1>0. s \in 1..NSymbols /\ s \in Int /\ h[s] \in Int /\ f[s] \in Int
    BY DEF Symbols, Numbers
  <1>3. 0 \in S  BY <1>0, <1>1, <1>2 DEF Sums
  <1>4. ASSUME NEW n \in 1..NSymbols, n - 1 \in S  PROVE n \in S
    <2>1. n \in Symbols /\ n \in 0..NSymbols /\ n - 1 \in 0..NSymbols  BY DEF Symbols
    <2>2. /\ g[n] = g[n - 1] + f[n] /\ k[n] = k[n - 1] + h[n]
          /\ g[n - 1] \in Int /\ k[n - 1] \in Int
      BY <1>1, <1>2, <2>1 DEF Sums
    <2>3. f[n] \in Int /\ h[n] \in Int /\ (n # s => f[n] = h[n])  BY <2>1 DEF Numbers
    <2>4. k[n - 1] = g[n - 1] + (IF n - 1 < s THEN 0 ELSE h[s] - f[s])  BY <1>4
    <2>5. k[n] = g[n] + (IF n < s THEN 0 ELSE h[s] - f[s])
      <3>1. CASE n < s
        <4>1. n - 1 < s /\ n # s  BY <1>0, <3>1
        <4> QED BY <2>2, <2>3, <2>4, <3>1, <4>1
      <3>2. CASE n = s
        <4>1. n - 1 < s /\ ~(n < s)  BY <1>0, <3>2
        <4> QED BY <1>0, <2>2, <2>4, <3>2, <4>1
      <3>3. CASE n > s
        <4>1. ~(n - 1 < s) /\ ~(n < s) /\ n # s  BY <1>0, <3>3
        <4> QED BY <1>0, <2>2, <2>3, <2>4, <4>1
      <3> QED BY <1>0, <3>1, <3>2, <3>3
    <2> QED BY <2>1, <2>5
  <1> HIDE DEF S
  <1>5. NSymbols \in S  BY <1>3, <1>4, Counting
  <1>6. k[NSymbols] = g[NSymbols] + (IF NSymbols < s THEN 0 ELSE h[s] - f[s])
    BY <1>5 DEF S
  <1>7. ~(NSymbols < s)  BY <1>0
  <1> QED BY <1>1, <1>2, <1>6, <1>7 DEF Sums

(* A sum of zeros. *)
LEMMA TotalOfZeros ==
  ASSUME NSymbols \in Nat, NEW f, \A s \in Symbols : f[s] = 0
  PROVE  Total(f) = 0
  <1>1. Numbers(f)  BY DEF Numbers
  <1>2. PICK g : Sums(f, g)  BY <1>1, PartialSums
  <1> DEFINE S == {n \in 0..NSymbols : g[n] = 0}
  <1>3. 0 \in S  BY <1>2 DEF Sums
  <1>4. ASSUME NEW n \in 1..NSymbols, n - 1 \in S  PROVE n \in S
    <2>1. n \in Symbols /\ n \in 0..NSymbols /\ n - 1 \in 0..NSymbols  BY DEF Symbols
    <2>2. g[n] = g[n - 1] + f[n]  BY <1>2 DEF Sums
    <2> QED BY <1>4, <2>1, <2>2
  <1> HIDE DEF S
  <1>5. NSymbols \in S  BY <1>3, <1>4, Counting
  <1> QED BY <1>2, <1>5 DEF S, Sums

-----------------------------------------------------------------------------
(* What a book is worth.                                                   *)

Money(b) == b.qty \in [Symbols -> Int] /\ b.cash \in Int

(* Gross exposure is not negative, and equity is a number. *)
LEMMA WorthTyped ==
  ASSUME NSymbols \in Nat, NEW b, Money(b)
  PROVE  /\ Equity(b) \in Int /\ Gross(b) \in Nat /\ Total(b.qty) \in Int
         /\ b.qty = Flat => Gross(b) = 0 /\ Equity(b) = b.cash
  <1> DEFINE exposure == [s \in Symbols |-> Abs(b.qty[s])]
             zero == [s \in Symbols |-> 0]
  <1>1. Numbers(b.qty) /\ Numbers(exposure) /\ Numbers(zero)  BY DEF Money, Numbers, Abs
  <1>2. \A s \in Symbols : zero[s] <= exposure[s]  BY DEF Money, Abs
  <1>3. Gross(b) = Total(exposure) /\ Equity(b) = b.cash + Total(b.qty)
    BY DEF Gross, Equity
  <1> HIDE DEF exposure
  <1>4. Total(zero) = 0  BY TotalOfZeros
  <1> HIDE DEF zero
  <1>5. Total(exposure) \in Int /\ Total(zero) <= Total(exposure)  BY <1>1, <1>2, TotalGrows
  <1>6. \A s \in Symbols : b.qty[s] <= b.qty[s]  BY DEF Money
  <1>7. Total(b.qty) \in Int  BY <1>1, <1>6, TotalGrows
  <1>8. ASSUME b.qty = Flat  PROVE Total(exposure) = 0 /\ Total(b.qty) = 0
    <2>1. \A s \in Symbols : b.qty[s] = 0 /\ exposure[s] = 0
      BY <1>8 DEF Flat, exposure, Abs
    <2> QED BY <2>1, TotalOfZeros
  <1> QED BY <1>3, <1>4, <1>5, <1>7, <1>8 DEF Money

(* Exposure that is nowhere larger is not larger, and smaller if it is      *)
(* smaller somewhere.                                                       *)
LEMMA GrossGrows ==
  ASSUME NSymbols \in Nat, NEW b, NEW c, Money(b), Money(c),
         \A s \in Symbols : Abs(b.qty[s]) <= Abs(c.qty[s])
  PROVE  Gross(b) <= Gross(c)
  <1> DEFINE f == [s \in Symbols |-> Abs(b.qty[s])]
             h == [s \in Symbols |-> Abs(c.qty[s])]
  <1>1. Numbers(f) /\ Numbers(h)  BY DEF Money, Numbers, Abs
  <1>2. \A s \in Symbols : f[s] <= h[s]  OBVIOUS
  <1>3. Gross(b) = Total(f) /\ Gross(c) = Total(h)  BY DEF Gross
  <1> HIDE DEF f, h
  <1> QED BY <1>1, <1>2, <1>3, TotalGrows

(* Exposure when one position changes. *)
LEMMA GrossChanges ==
  ASSUME NSymbols \in Nat, NEW b, NEW c, Money(b), Money(c), NEW s \in Symbols,
         \A r \in Symbols : r # s => c.qty[r] = b.qty[r]
  PROVE  Gross(c) = Gross(b) + (Abs(c.qty[s]) - Abs(b.qty[s]))
  <1> DEFINE f == [r \in Symbols |-> Abs(b.qty[r])]
             h == [r \in Symbols |-> Abs(c.qty[r])]
  <1>1. Numbers(f) /\ Numbers(h)  BY DEF Money, Numbers, Abs
  <1>2. \A r \in Symbols : r # s => h[r] = f[r]  OBVIOUS
  <1>3. Gross(b) = Total(f) /\ Gross(c) = Total(h)  BY DEF Gross
  <1>4. h[s] = Abs(c.qty[s]) /\ f[s] = Abs(b.qty[s])  OBVIOUS
  <1> HIDE DEF f, h
  <1>5. Total(h) = Total(f) + (h[s] - f[s])  BY <1>1, <1>2, TotalChanges
  <1> QED BY <1>3, <1>4, <1>5

(* A trade at the mark, less its cost. *)
Traded(c, b, s, q, cost) ==
  c.qty = [b.qty EXCEPT ![s] = @ + q] /\ c.cash = b.cash - (q + cost)

(* A trade at the mark costs its cost. *)
LEMMA EquityTraded ==
  ASSUME NSymbols \in Nat, NEW b, NEW c, Money(b), Money(c), NEW s \in Symbols,
         NEW q \in Int, NEW cost \in Int, Traded(c, b, s, q, cost)
  PROVE  Equity(c) = Equity(b) - cost
  <1>1. Numbers(b.qty) /\ Numbers(c.qty)  BY DEF Money, Numbers
  <1>2. \A r \in Symbols : r # s => c.qty[r] = b.qty[r]  BY DEF Money, Traded
  <1>3. c.qty[s] - b.qty[s] = q  BY DEF Money, Traded
  <1>4. Total(c.qty) = Total(b.qty) + (c.qty[s] - b.qty[s])  BY <1>1, <1>2, TotalChanges
  <1>5. Total(b.qty) \in Int /\ b.cash \in Int  BY WorthTyped DEF Money
  <1>6. Equity(c) = c.cash + Total(c.qty) /\ Equity(b) = b.cash + Total(b.qty)
    BY DEF Equity
  <1> QED BY <1>3, <1>4, <1>5, <1>6 DEF Traded

(* The worth of a book is that of its quantities and its cash. *)
LEMMA WorthSame ==
  ASSUME NEW b, NEW c, c.qty = b.qty, c.cash = b.cash
  PROVE  Equity(c) = Equity(b) /\ Gross(c) = Gross(b)
  BY DEF Equity, Gross

(* A book with cash and a life. *)
Account(b) == BookTyped(b) /\ Money(b) /\ b.dead \in BOOLEAN

(* The same account, but for its death. *)
SameBook(c, b) == c.qty = b.qty /\ c.cash = b.cash

(* What is left of an account that died is cash. *)
CashedOut(c, b) == c.qty = Flat /\ (Equity(b) >= 0 => Equity(c) >= 0)

(* A book revalued at the marks is the same account, or dies. *)
LEMMA AccountRevalued ==
  ASSUME NSymbols \in Nat, NEW b, Account(b)
  PROVE  LET c == Revalued(b) IN
         /\ Account(c) /\ SameBook(c, b)
         /\ ~c.dead => ~b.dead /\ Equity(b) > 0
         /\ c.dead => b.dead \/ Equity(b) <= 0
  <1> DEFINE c == Revalued(b)
  <1>1. Equity(b) \in Int  BY WorthTyped DEF Account
  <1>2. /\ c.qty = b.qty /\ c.cash = b.cash /\ c.dead = (b.dead \/ Equity(b) <= 0)
        /\ DOMAIN c = DOMAIN b
    BY DEF Revalued, Account, BookTyped
  <1> HIDE DEF c
  <1>3. Account(c)  BY <1>2 DEF Account, BookTyped, Money
  <1>4. SameBook(c, b)  BY <1>2 DEF SameBook
  <1> DEFINE poor == Equity(b) <= 0
  <1>5. c.dead = (b.dead \/ poor)  BY <1>2
  <1>6. (~c.dead => ~b.dead /\ Equity(b) > 0) /\ (c.dead => b.dead \/ Equity(b) <= 0)
    <2>1. ~poor => Equity(b) > 0  BY <1>1
    <2> HIDE DEF poor
    <2>2. (~c.dead => ~b.dead /\ ~poor) /\ (c.dead => b.dead \/ poor)  BY <1>5, Zenon
    <2> QED BY <2>1, <2>2 DEF poor
  <1> QED BY <1>3, <1>4, <1>6 DEF c

(* A book that is flattened keeps its worth in cash. *)
LEMMA AccountFlattened ==
  ASSUME NSymbols \in Nat, NEW b, Account(b)
  PROVE  LET c == Flattened(b) IN Account(c) /\ c.dead = b.dead /\ CashedOut(c, b)
  <1> DEFINE c == Flattened(b)
  <1>1. Equity(b) \in Int  BY WorthTyped DEF Account
  <1>2. /\ c.qty = Flat /\ c.dead = b.dead /\ DOMAIN c = DOMAIN b
        /\ c.cash = IF RetainDebt \/ Equity(b) > 0 THEN Equity(b) ELSE 0
    BY DEF Flattened, Account, BookTyped
  <1> HIDE DEF c
  <1>3. Flat \in [Symbols -> Int]  BY DEF Flat
  <1>4. c.cash \in Int /\ (Equity(b) >= 0 => c.cash >= 0)  BY <1>1, <1>2
  <1>5. Account(c)  BY <1>2, <1>3, <1>4 DEF Account, BookTyped, Money
  <1>6. Equity(c) = c.cash  BY <1>2, <1>5, WorthTyped DEF Account
  <1> QED BY <1>2, <1>4, <1>5, <1>6 DEF c, CashedOut

(* A book that meets its margin is the same; one that does not dies in cash. *)
LEMMA AccountMargined ==
  ASSUME NSymbols \in Nat, NEW b, Account(b)
  PROVE  LET c == Margined(b) IN
         /\ Account(c)
         /\ ~c.dead => ~b.dead /\ SameBook(c, b)
         /\ c.dead => CashedOut(c, b)
  <1> DEFINE called == [b EXCEPT !.dead = @ \/ MaintDen * Equity(b) < Gross(b)]
             c == Margined(b)
  <1>1. /\ called.qty = b.qty /\ called.cash = b.cash /\ DOMAIN called = DOMAIN b
        /\ called.dead = (b.dead \/ MaintDen * Equity(b) < Gross(b))
    BY DEF Account, BookTyped
  <1>2. c = IF called.dead THEN Flattened(called) ELSE called  BY DEF Margined
  <1> HIDE DEF called, c
  <1>3. Account(called) /\ SameBook(called, b) /\ Equity(called) = Equity(b)
    BY <1>1, WorthSame DEF Account, BookTyped, Money, SameBook
  <1>4. /\ Account(Flattened(called)) /\ Flattened(called).dead = called.dead
        /\ CashedOut(Flattened(called), called)
    BY <1>3, AccountFlattened
  <1>5. CASE called.dead
    <2>1. c = Flattened(called) /\ c.dead = called.dead  BY <1>2, <1>4, <1>5
    <2>2. CashedOut(c, b)  BY <1>3, <1>4, <2>1 DEF CashedOut
    <2> QED BY <1>4, <1>5, <2>1, <2>2 DEF c
  <1>6. CASE ~called.dead
    <2>1. c = called  BY <1>2, <1>6
    <2>2. ~b.dead  BY <1>1, <1>6
    <2> QED BY <1>3, <1>6, <2>1, <2>2 DEF c
  <1> QED BY <1>5, <1>6

(* A fill either leaves the account alive and trades at the mark, or leaves *)
(* it with cash.                                                            *)
LEMMA AccountFilled ==
  ASSUME NSymbols \in Nat, NEW b, Account(b), NEW s \in Symbols, NEW q \in Int,
         NEW cost \in Int
  PROVE  LET c == Filled(b, s, q, cost) IN
         /\ Account(c)
         /\ ~c.dead => /\ ~b.dead /\ c.qty = [b.qty EXCEPT ![s] = @ + q]
                       /\ Equity(c) = Equity(b) - cost /\ Equity(c) > 0
         /\ c.dead => c.qty = Flat /\ (Equity(b) >= cost => Equity(c) >= 0)
  <1> DEFINE t == [b EXCEPT !.qty[s] = @ + q, !.cash = @ - (q + cost),
                            !.dead = @ \/ cost >= Max({Equity(b), 0})]
             r == Revalued(t)
             c == Filled(b, s, q, cost)
  <1>1. /\ t.qty = [b.qty EXCEPT ![s] = @ + q] /\ t.cash = b.cash - (q + cost)
        /\ t.dead = (b.dead \/ cost >= Max({Equity(b), 0})) /\ DOMAIN t = DOMAIN b
    BY DEF Account, BookTyped
  <1>2. c = Margined(r)  BY DEF Filled
  <1> HIDE DEF t, c
  <1>3. Account(t)
    <2>1. t.qty \in [Symbols -> Int]  BY <1>1 DEF Account, Money
    <2>2. t.cash \in Int  BY <1>1 DEF Account, Money
    <2>3. t.dead \in BOOLEAN  BY <1>1
    <2> QED BY <1>1, <2>1, <2>2, <2>3 DEF Account, BookTyped, Money
  <1>4. Equity(t) = Equity(b) - cost
    <2>1. Money(b) /\ Money(t)  BY <1>3 DEF Account
    <2>2. Traded(t, b, s, q, cost)  BY <1>1 DEF Traded
    <2> QED BY <2>1, <2>2, EquityTraded
  <1>5. /\ Account(r) /\ SameBook(r, t)
        /\ ~r.dead => ~t.dead /\ Equity(t) > 0
    BY <1>3, AccountRevalued
  <1>6. Equity(r) = Equity(t)  BY <1>5, WorthSame DEF SameBook
  <1> HIDE DEF r
  <1>7. /\ Account(c)
        /\ ~c.dead => ~r.dead /\ SameBook(c, r)
        /\ c.dead => CashedOut(c, r)
    BY <1>2, <1>5, AccountMargined
  <1>8. ASSUME ~c.dead
        PROVE  /\ ~b.dead /\ c.qty = [b.qty EXCEPT ![s] = @ + q]
               /\ Equity(c) = Equity(b) - cost /\ Equity(c) > 0
    <2>1. ~r.dead /\ SameBook(c, r) /\ ~t.dead /\ Equity(t) > 0  BY <1>5, <1>7, <1>8
    <2>2. Equity(c) = Equity(r)  BY <2>1, WorthSame DEF SameBook
    <2>3. c.qty = t.qty  BY <1>5, <2>1 DEF SameBook
    <2>4. ~b.dead  BY <1>1, <2>1
    <2> QED BY <1>1, <1>4, <1>6, <2>1, <2>2, <2>3, <2>4
  <1>9. ASSUME c.dead PROVE c.qty = Flat /\ (Equity(b) >= cost => Equity(c) >= 0)
    <2>1. Equity(b) \in Int  BY WorthTyped DEF Account
    <2> QED BY <1>4, <1>6, <1>7, <1>9, <2>1 DEF CashedOut
  <1> QED BY <1>7, <1>8, <1>9 DEF c

(* The sums of a setup that stays. *)
LEMMA SumsStay ==
  ASSUME setup' = setup
  PROVE  /\ NSymbols' = NSymbols /\ Flat' = Flat
         /\ \A b : (Gross(b))' = Gross(b) /\ (Equity(b))' = Equity(b)
  <1>1. NSymbols' = NSymbols /\ Symbols' = Symbols /\ Flat' = Flat
    BY DEF NSymbols, Symbols, Flat
  <1>2. \A f : (Total(f))' = Total(f)  BY <1>1 DEF Total
  <1> QED BY <1>1, <1>2 DEF Gross, Equity

-----------------------------------------------------------------------------
(***************************************************************************)
(* The invariant of a session's book.                                      *)
(*                                                                         *)
(* The cap: while a bar that opened within the cap is under way, the       *)
(* admission pass keeps a projection that satisfies the cap, and the book  *)
(* is inside it position by position: an admitted order either closes part *)
(* of its position or brings it no further than the projection, and either *)
(* stays true of what is left of the order when part of it is filled.  The *)
(* claim is for sessions without costs that reversed nothing: the          *)
(* projection charges no cost, and an order that reverses is checked       *)
(* against a projection that its closing half already left.                *)
(*                                                                         *)
(* The settlement: in the intervals the session reserves, each position    *)
(* has an active order that closes it and no active order does anything    *)
(* else.  Such an order is admitted, because closing is never refused      *)
(* while the book is worth something; it is alone in its symbol, so it is  *)
(* first in the queue and finds the volume, and it is filled in full.      *)
(***************************************************************************)

(* What a projection of the admission pass is.                             *)
Projected(v) ==
  /\ DOMAIN v = {"qty", "cash", "dead", "over", "free"} /\ Money(v)
  /\ v.free \in [Symbols -> Int] /\ v.dead \in BOOLEAN /\ v.over \in BOOLEAN

(* What the counters, the accounts and the orders are besides their types. *)
LedgerInv ==
  /\ bar <= Stop /\ (pc = "begin" => bar < Stop)
  /\ Account(book)
  /\ Projected(view)
  /\ DOMAIN history = {"within", "reversed", "impeded"}
  /\ \A i \in Active(orders) : orders[i].left # 0
  /\ Direct = {} => \A i \in DOMAIN orders :
                      orders[i].eligible = orders[i].submit + Latency

(* The cap holds for the projection. *)
Bounded(v) == ~v.over /\ Gross(v) <= Equity(v) * MaxLeverage

(* The book is inside the projection until it dies: no position is larger,  *)
(* and an admitted order closes part of its position, or brings it no       *)
(* further than the projection.                                             *)
Inside(b, v, os, waits, taken) ==
  \/ b.dead /\ b.qty = Flat /\ Equity(b) >= 0
  \/ /\ Equity(b) = Equity(v)
     /\ \A s \in Symbols : Abs(b.qty[s]) <= Abs(v.qty[s])
     /\ \A i \in waits : v.qty[os[i].sym] = b.qty[os[i].sym]
     /\ \A i \in taken \cap Active(os) :
          LET p == b.qty[os[i].sym] IN
          \/ p * os[i].left >= 0 /\ p + os[i].left = v.qty[os[i].sym]
          \/ p * os[i].left <= 0 /\ Abs(os[i].left) <= Abs(p)

Capped == Bounded(view) /\ Inside(book, view, orders, todo, accepted)

InBar == {"prepare", "fill", "finish"}

CapInv ==
  /\ Direct = {} /\ Costs = {0} /\ pc \in InBar
  /\ history.within /\ ~history.reversed
  => Capped

(* An order closes its position and will be due before the session stops.  *)
Matches(b, o) ==
  /\ o.left = -b.qty[o.sym] /\ o.reduce
  /\ o.kind = "market" /\ o.tif = "gtc" /\ o.expiry = Never /\ o.eligible < Stop

Covered(b, os) ==
  \A s \in Symbols : b.qty[s] # 0 =>
    \E i \in Active(os) : os[i].sym = s /\ Matches(b, os[i])

OnlyClosing(b, os) == \A i \in Active(os) : Matches(b, os[i])

(* What the admission pass has not reached it will admit.                  *)
WillAdmit ==
  /\ view.qty = book.qty /\ view.cash = book.cash /\ ~view.dead
  /\ view.over = OverCap(book)
  /\ \A i \in todo : view.free[orders[i].sym] = book.qty[orders[i].sym]
  /\ Active(orders) \subseteq todo \cup accepted \cup {i \in DOMAIN orders : bar < orders[i].eligible}
  /\ \A i \in accepted : orders[i].sym \in symbols

(* What was admitted waits for its symbol or for its fill.                 *)
WillFill ==
  /\ \A i \in Active(orders) :
       \/ bar < orders[i].eligible
       \/ i \in accepted /\ orders[i].sym \in symbols
       \/ allocs # <<>> /\ allocs[1].id = i
  /\ Len(allocs) <= 1
  /\ \A n \in 1..Len(allocs) : allocs[n].q = orders[allocs[n].id].left

Settling == SettlesAtMarket /\ ~history.impeded /\ ~book.dead

SettleInv ==
  Settling =>
    /\ pc \in {"decide", "finish"} /\ bar > AgentStop => Covered(book, orders)
    /\ pc = "begin" /\ bar >= AgentStop => Covered(book, orders) /\ OnlyClosing(book, orders)
    /\ pc = "prepare" /\ bar > AgentStop =>
         Covered(book, orders) /\ OnlyClosing(book, orders) /\ WillAdmit /\ Equity(book) > 0
    /\ pc = "fill" /\ bar > AgentStop => Covered(book, orders) /\ OnlyClosing(book, orders) /\ WillFill
    /\ pc = "finish" /\ bar > AgentStop =>
         \A i \in Active(orders) : bar < orders[i].eligible
    /\ pc = "over" => book.qty = Flat

SoundInv == LedgerInv /\ CapInv /\ SettleInv

-----------------------------------------------------------------------------
(* The parameters of a setup stay. *)
LEMMA ConstantsKept ==
  ASSUME setup' = setup
  PROVE  /\ Costs' = Costs /\ SettlesAtMarket' = SettlesAtMarket /\ AgentStop' = AgentStop
         /\ Never' = Never /\ Latency' = Latency /\ Stop' = Stop /\ Direct' = Direct
  BY DEF Costs, SettlesAtMarket, AgentStop, Never, Latency, Stop, Settle, Direct, Kind, HasProfile

(* An order whose terms and whose remainder stay. *)
Calm(o, n) ==
  /\ n.sym = o.sym /\ n.left = o.left /\ n.kind = o.kind /\ n.tif = o.tif
  /\ n.submit = o.submit /\ n.eligible = o.eligible /\ n.expiry = o.expiry
  /\ n.reduce = o.reduce

CalmOrders ==
  /\ DOMAIN orders' = DOMAIN orders
  /\ \A i \in DOMAIN orders : Calm(orders[i], orders'[i])
  /\ Active(orders') \subseteq Active(orders)

(* What changes the status of an order only. *)
Touched(o, n) ==
  \/ n = o
  \/ \E st, at : n = [o EXCEPT !.status = st, !.last = at]
  \/ \E st, tr, at : n = [o EXCEPT !.status = st, !.trigger = tr, !.last = at]

(* Orders of which only the status changes keep their terms. *)
LEMMA TouchedIsCalm ==
  ASSUME OrdersKept, TransitionsLegal, DOMAIN orders' = DOMAIN orders,
         \A i \in DOMAIN orders : Touched(orders[i], orders'[i])
  PROVE  CalmOrders
  <1>1. ASSUME NEW i \in DOMAIN orders  PROVE Calm(orders[i], orders'[i])
    <2>1. orders[i] \in OrderRecord  BY DEF OrdersKept, OrderKept
    <2> DEFINE o == orders[i]
    <2>2. CASE orders'[i] = o  BY <2>2 DEF Calm
    <2>3. CASE \E st, at : orders'[i] = [o EXCEPT !.status = st, !.last = at]
      <3>1. PICK st, at : orders'[i] = [o EXCEPT !.status = st, !.last = at]  BY <2>3
      <3> QED BY <2>1, <3>1 DEF Calm, OrderRecord
    <2>4. CASE \E st, tr, at :
                 orders'[i] = [o EXCEPT !.status = st, !.trigger = tr, !.last = at]
      <3>1. PICK st, tr, at :
              orders'[i] = [o EXCEPT !.status = st, !.trigger = tr, !.last = at]
        BY <2>4
      <3> QED BY <2>1, <3>1 DEF Calm, OrderRecord
    <2>5. Touched(orders[i], orders'[i])  OBVIOUS
    <2> QED BY <2>2, <2>3, <2>4, <2>5 DEF Touched
  <1>2. Active(orders') \subseteq Active(orders)
    <2> SUFFICES ASSUME NEW i \in Active(orders') PROVE i \in Active(orders)  OBVIOUS
    <2>1. i \in DOMAIN orders /\ orders'[i].status \notin Done  BY DEF Active
    <2>2. orders'[i] # orders[i] => orders[i].status \notin Done
      BY <2>1 DEF TransitionsLegal, Legal
    <2> QED BY <2>1, <2>2 DEF Active
  <1> QED BY <1>1, <1>2 DEF CalmOrders

(* Moving orders to a status is such a change. *)
LEMMA MovedIsTouched ==
  ASSUME NEW S, NEW st, NEW i \in DOMAIN orders
  PROVE  /\ DOMAIN Moved(orders, S, st) = DOMAIN orders
         /\ Touched(orders[i], Moved(orders, S, st)[i])
  BY DEF Moved, Touched

(* All steps but the submissions and the fills leave the terms and the      *)
(* remainders of the orders alone.                                          *)
LEMMA CalmSteps ==
  ASSUME OrdersInv, TransitionsLegal,
         \/ Start
         \/ \E flow : BeginExhausted(flow)
         \/ \E gap, flow, split, inactive, recovery :
              BeginBar(gap, flow, split, inactive, recovery)
         \/ \E i, st : NotAdmitted(i, st)
         \/ \E i : PrepareAccepted(i)
         \/ \E s : Allocate(s)
         \/ NoFill \/ FillAbsorbed \/ ExpireRemainders
         \/ \E flow : FinishBar(flow)
         \/ UNCHANGED vars
  PROVE  CalmOrders
  <1>0. OrdersKept  BY DEF OrdersInv
  <1>1. CASE orders' = orders  BY <1>0, <1>1, TouchedIsCalm DEF Touched
  <1>2. ASSUME NEW S, NEW st, orders' = Moved(orders, S, st)  PROVE CalmOrders
    <2>1. DOMAIN orders' = DOMAIN orders  BY <1>2 DEF Moved
    <2>2. \A i \in DOMAIN orders : Touched(orders[i], orders'[i])  BY <1>2, MovedIsTouched
    <2> QED BY <1>0, <2>1, <2>2, TouchedIsCalm
  <1>3. CASE \E gap, flow, split, inactive, recovery :
               BeginBar(gap, flow, split, inactive, recovery)
    <2>1. PICK gap, flow, split, inactive, recovery :
            BeginBar(gap, flow, split, inactive, recovery)
      BY <1>3
    <2>2. \E hit : orders' = [i \in DOMAIN orders |->
                               IF i \in hit
                               THEN [orders[i] EXCEPT !.status = "cancelled", !.last = bar + 1]
                               ELSE orders[i]]
      BY <2>1, Zenon DEF BeginBar, Opens
    <2>3. DOMAIN orders' = DOMAIN orders
          /\ \A i \in DOMAIN orders : Touched(orders[i], orders'[i])
      BY <2>2 DEF Touched
    <2> QED BY <1>0, <2>3, TouchedIsCalm
  <1>4. CASE \E s : Allocate(s)
    <2>1. PICK s : Allocate(s)  BY <1>4
    <2>2. \E fresh : orders' = [i \in DOMAIN orders |->
                                 IF i \in fresh
                                 THEN [orders[i] EXCEPT !.status = "triggered",
                                                        !.trigger = TRUE, !.last = bar]
                                 ELSE orders[i]]
      BY <2>1, Zenon DEF Allocate
    <2>3. DOMAIN orders' = DOMAIN orders  BY <2>2
    <2>4. ASSUME NEW i \in DOMAIN orders  PROVE Touched(orders[i], orders'[i])
      <3>1. \/ orders'[i] = orders[i]
            \/ orders'[i] = [orders[i] EXCEPT !.status = "triggered", !.trigger = TRUE,
                                              !.last = bar]
        BY <2>2
      <3> QED BY <3>1, Zenon DEF Touched
    <2> QED BY <1>0, <2>3, <2>4, TouchedIsCalm
  <1>5. CASE \E i, st : NotAdmitted(i, st)  BY <1>2, <1>5 DEF NotAdmitted
  <1>6. CASE \E i : PrepareAccepted(i)  BY <1>1, <1>2, <1>6 DEF PrepareAccepted
  <1>7. CASE NoFill  BY <1>1, <1>2, <1>7 DEF NoFill
  <1>8. CASE ExpireRemainders  BY <1>2, <1>8 DEF ExpireRemainders
  <1>9. CASE \E flow : FinishBar(flow)  BY <1>1, <1>2, <1>9 DEF FinishBar
  <1>10. CASE \/ Start \/ FillAbsorbed \/ UNCHANGED vars \/ \E flow : BeginExhausted(flow)
    BY <1>1, <1>10 DEF Start, FillAbsorbed, vars, BeginExhausted, Opens
  <1> QED BY <1>3, <1>4, <1>5, <1>6, <1>7, <1>8, <1>9, <1>10

(* No step changes the setup. *)
LEMMA SetupStays ==
  ASSUME [Next]_vars  PROVE setup' = setup
  <1>1. CASE \/ \E target \in [Symbols -> Positions] : Decide(target)
             \/ \E intent \in Direct : Submit(intent)
             \/ Start \/ UNCHANGED vars
    BY <1>1 DEF Decide, Submit, Start, vars
  <1>2. CASE \/ \E flow \in Flows : BeginExhausted(flow)
             \/ \E gap \in BOOLEAN, flow \in Flows, split, inactive \in SUBSET Symbols,
                   recovery \in 0..1 : BeginBar(gap, flow, split, inactive, recovery)
    <2>1. CASE \E flow : BeginExhausted(flow)  BY <2>1 DEF BeginExhausted, Opens
    <2>2. CASE \E gap, flow, split, inactive, recovery :
                 BeginBar(gap, flow, split, inactive, recovery)
      <3>1. PICK gap, flow, split, inactive, recovery :
              BeginBar(gap, flow, split, inactive, recovery)
        BY <2>2
      <3> QED BY <3>1, Zenon DEF BeginBar, Opens
    <2>3. (\E flow : BeginExhausted(flow))
          \/ \E gap, flow, split, inactive, recovery :
                BeginBar(gap, flow, split, inactive, recovery)
      BY <1>2
    <2> QED BY <2>1, <2>2, <2>3
  <1>3. CASE \E i \in todo : \/ PrepareExpired(i) \/ PrepareWaits(i)
                             \/ PrepareInadmissible(i) \/ PrepareRefused(i)
                             \/ PrepareAccepted(i)
    BY <1>3, Zenon DEF PrepareExpired, PrepareWaits, PrepareInadmissible, PrepareRefused,
                       NotAdmitted, PrepareAccepted
  <1>4. CASE \E s \in Symbols : Allocate(s)  BY <1>4, Zenon DEF Allocate
  <1>5. CASE NoFill \/ (\E cost \in Costs : Fill(cost)) \/ FillAbsorbed \/ ExpireRemainders
             \/ \E flow \in Flows : FinishBar(flow)
    BY <1>5, Zenon DEF NoFill, Fill, FillAbsorbed, ExpireRemainders, FinishBar
  <1> QED BY <1>1, <1>2, <1>3, <1>4, <1>5 DEF Next

-----------------------------------------------------------------------------
(* The accounts of a step. *)

(* Cash flows in or out. *)
LEMMA AccountPaid ==
  ASSUME NEW b, Account(b), NEW flow \in Int
  PROVE  LET c == [b EXCEPT !.cash = @ + flow] IN
         Account(c) /\ c.qty = b.qty /\ c.dead = b.dead
  BY DEF Account, BookTyped, Money

(* Inactive symbols are settled. *)
LEMMA AccountSettled ==
  ASSUME NSymbols \in Nat, NEW b, Account(b), NEW S, NEW recovery \in 0..1
  PROVE  LET c == Settled(b, S, recovery) IN
         /\ Account(c) /\ c.dead = b.dead
         /\ c.qty = [s \in Symbols |-> IF s \in S THEN 0 ELSE b.qty[s]]
  <1> DEFINE f == [s \in Symbols |-> IF s \in S THEN b.qty[s] ELSE 0]
             c == Settled(b, S, recovery)
  <1>1. b.qty \in [Symbols -> Int] /\ b.cash \in Int  BY DEF Account, Money
  <1>2. Numbers(f)  BY <1>1 DEF Numbers
  <1>3. /\ c.dead = b.dead /\ DOMAIN c = DOMAIN b
        /\ c.qty = [s \in Symbols |-> IF s \in S THEN 0 ELSE b.qty[s]]
        /\ c.cash = b.cash + recovery * Total(f)
    BY DEF Settled, Account, BookTyped
  <1> HIDE DEF f, c
  <1>4. \A s \in Symbols : f[s] <= f[s]  BY <1>2 DEF Numbers
  <1>5. Total(f) \in Int  BY <1>2, <1>4, TotalGrows
  <1>6. recovery * Total(f) \in Int
    <2>1. CASE recovery = 0  BY <1>5, <2>1
    <2>2. CASE recovery = 1  BY <1>5, <2>2
    <2> QED BY <2>1, <2>2
  <1>7. c.cash \in Int /\ c.qty \in [Symbols -> Int]  BY <1>1, <1>3, <1>6
  <1>8. Account(c)  BY <1>3, <1>7 DEF Account, BookTyped, Money
  <1> QED BY <1>3, <1>8 DEF c

(* The book a bar opens with. *)
CarriedBook(gap, flow) ==
  IF gap THEN Revalued([book EXCEPT !.cash = @ + flow]) ELSE book

OpenedBook(gap, flow, inactive, recovery) ==
  LET opened == Revalued(Settled(CarriedBook(gap, flow), inactive, recovery))
  IN  IF gap THEN Margined(opened) ELSE opened

(* The book a bar opens with is an account, and alive only if it was and is worth something. *)
LEMMA BarBook ==
  ASSUME NSymbols \in Nat, Account(book), NEW gap \in BOOLEAN, NEW flow \in Int,
         NEW inactive, NEW recovery \in 0..1
  PROVE  LET b == OpenedBook(gap, flow, inactive, recovery) IN
         /\ Account(b)
         /\ ~b.dead => /\ ~book.dead /\ Equity(b) > 0
                       /\ \A s \in Symbols : b.qty[s] = IF s \in inactive THEN 0 ELSE book.qty[s]
  <1> DEFINE paid == [book EXCEPT !.cash = @ + flow]
             carried == CarriedBook(gap, flow)
             settled == Settled(carried, inactive, recovery)
             opened == Revalued(settled)
             b == OpenedBook(gap, flow, inactive, recovery)
  <1>1. Account(paid) /\ paid.qty = book.qty /\ paid.dead = book.dead  BY AccountPaid
  <1> HIDE DEF paid
  <1>2. /\ Account(Revalued(paid)) /\ SameBook(Revalued(paid), paid)
        /\ ~Revalued(paid).dead => ~paid.dead
    BY <1>1, AccountRevalued
  <1>3. Account(carried) /\ carried.qty = book.qty /\ (~carried.dead => ~book.dead)
    <2>1. carried = Revalued(paid) \/ carried = book  BY DEF CarriedBook, paid
    <2> HIDE DEF carried
    <2> QED BY <1>1, <1>2, <2>1 DEF SameBook
  <1> HIDE DEF carried
  <1>4. /\ Account(settled) /\ settled.dead = carried.dead
        /\ settled.qty = [s \in Symbols |-> IF s \in inactive THEN 0 ELSE carried.qty[s]]
    BY <1>3, AccountSettled
  <1> HIDE DEF settled
  <1>5. /\ Account(opened) /\ SameBook(opened, settled)
        /\ ~opened.dead => ~settled.dead /\ Equity(settled) > 0
    BY <1>4, AccountRevalued
  <1>6. Equity(opened) = Equity(settled)  BY <1>5, WorthSame DEF SameBook
  <1>7. b = Margined(opened) \/ b = opened  BY DEF OpenedBook, carried, settled
  <1> HIDE DEF opened, b
  <1>8. /\ Account(Margined(opened))
        /\ ~Margined(opened).dead => ~opened.dead /\ SameBook(Margined(opened), opened)
    BY <1>5, AccountMargined
  <1>9. Account(b) /\ (~b.dead => ~opened.dead /\ SameBook(b, opened))
    BY <1>5, <1>7, <1>8 DEF SameBook
  <1>10. ASSUME ~b.dead
         PROVE  /\ ~book.dead /\ Equity(b) > 0
                /\ \A s \in Symbols : b.qty[s] = IF s \in inactive THEN 0 ELSE book.qty[s]
    <2>1. ~opened.dead /\ SameBook(b, opened)  BY <1>9, <1>10
    <2>2. Equity(b) = Equity(opened)  BY <2>1, WorthSame DEF SameBook
    <2>3. ~book.dead /\ Equity(b) > 0  BY <1>3, <1>4, <1>5, <1>6, <2>1, <2>2
    <2>4. b.qty = settled.qty  BY <1>5, <2>1 DEF SameBook
    <2> QED BY <1>3, <1>4, <2>3, <2>4
  <1> QED BY <1>9, <1>10 DEF b

(* What a bar that opens does. *)
LEMMA BarOpened ==
  ASSUME NEW gap, NEW flow, NEW split, NEW inactive, NEW recovery,
         BeginBar(gap, flow, split, inactive, recovery)
  PROVE  LET b == OpenedBook(gap, flow, inactive, recovery) IN
         /\ pc = "begin" /\ Opens(b, orders')
         /\ orders' = [i \in DOMAIN orders |->
                         IF i \in {k \in Active(orders) :
                                     (gap /\ b.dead) \/ orders[k].sym \in split \cup inactive}
                         THEN [orders[i] EXCEPT !.status = "cancelled", !.last = bar + 1]
                         ELSE orders[i]]
         /\ history' = [within |-> ~OverCap(b), reversed |-> FALSE,
                        impeded |-> history.impeded \/ split # {}]
  BY Zenon DEF BeginBar, Opens, OpenedBook, CarriedBook

(* The end of a bar. *)
LEMMA AccountFinished ==
  ASSUME NSymbols \in Nat, Account(book), NEW flow \in Int
  PROVE  /\ Account(Finished(flow))
         /\ ~Finished(flow).dead => ~book.dead /\ Finished(flow).qty = book.qty
  <1> DEFINE base == IF book.dead THEN Flattened(book) ELSE book
             paid == [base EXCEPT !.cash = @ + flow]
             c == Margined(Revalued(paid))
  <1>1. Account(base) /\ base.dead = book.dead /\ (~base.dead => base.qty = book.qty)
    BY AccountFlattened
  <1>2. Finished(flow) = IF Absorbed THEN base ELSE c  BY DEF Finished
  <1>3. Account(paid) /\ paid.qty = base.qty /\ paid.dead = base.dead  BY <1>1, AccountPaid
  <1> HIDE DEF base, paid
  <1>4. /\ Account(Revalued(paid)) /\ SameBook(Revalued(paid), paid)
        /\ ~Revalued(paid).dead => ~paid.dead
    BY <1>3, AccountRevalued
  <1>5. /\ Account(c)
        /\ ~c.dead => ~Revalued(paid).dead /\ SameBook(c, Revalued(paid))
    BY <1>4, AccountMargined
  <1> HIDE DEF c
  <1>6. CASE Absorbed  BY <1>1, <1>2, <1>6
  <1>7. CASE ~Absorbed  BY <1>1, <1>2, <1>3, <1>4, <1>5, <1>7 DEF SameBook
  <1> QED BY <1>6, <1>7

-----------------------------------------------------------------------------
(* The ledger keeps its form. *)

(* What the setup says of numbers. *)
LEMMA Basics ==
  ASSUME OrdersInv
  PROVE  /\ NSymbols \in Nat /\ Stop \in Nat /\ Latency \in Nat /\ bar \in Nat
         /\ Flows \subseteq Int /\ Costs \subseteq Nat /\ Volumes \subseteq Nat
         /\ Positions \subseteq Int /\ Symbols \subseteq Nat /\ MaxLeverage \in Nat \ {0}
         /\ Never = Stop + 1 /\ Kind \in Kinds
  <1>1. setup \in Setups /\ bar \in Nat  BY DEF OrdersInv, StateTyped
  <1> QED BY <1>1, SetupTyped, OrdersAssumption DEF Never

(* The bars of a session end at its stop. *)
LEMMA BarsStay ==
  ASSUME OrdersInv, bar <= Stop, pc = "begin" => bar < Stop, [Next]_vars
  PROVE  bar' <= Stop' /\ (pc' = "begin" => bar' < Stop')
  <1>0. Stop' = Stop /\ Stop \in Nat /\ bar \in Nat
    BY SetupStays, ConstantsKept, Basics
  <1>1. CASE (\E target : Decide(target)) \/ (\E intent : Submit(intent)) \/ Start
    BY <1>0, <1>1 DEF Decide, Submit, Start
  <1>2. CASE \/ \E flow : BeginExhausted(flow)
             \/ \E gap, flow, split, inactive, recovery :
                   BeginBar(gap, flow, split, inactive, recovery)
    <2>1. pc = "begin" /\ bar' = bar + 1 /\ pc' # "begin"
      <3>1. ASSUME NEW b, NEW os, Opens(b, os)
            PROVE  bar' = bar + 1 /\ pc' # "begin"
        BY <3>1 DEF Opens, AfterBegin
      <3>2. CASE \E flow : BeginExhausted(flow)  BY <3>1, <3>2 DEF BeginExhausted
      <3>3. CASE \E gap, flow, split, inactive, recovery :
                   BeginBar(gap, flow, split, inactive, recovery)
        <4>1. PICK gap, flow, split, inactive, recovery :
                BeginBar(gap, flow, split, inactive, recovery)
          BY <3>3
        <4> QED BY <3>1, <4>1, BarOpened
      <3> QED BY <1>2, <3>2, <3>3
    <2> QED BY <1>0, <2>1
  <1>3. CASE \/ \E i, st : NotAdmitted(i, st)
             \/ \E i : PrepareAccepted(i)
    BY <1>0, <1>3 DEF NotAdmitted, PrepareAccepted, Passed
  <1>4. CASE \/ \E s : Allocate(s)
             \/ NoFill \/ (\E cost : Fill(cost)) \/ FillAbsorbed \/ ExpireRemainders
             \/ UNCHANGED vars
    <2>1. bar' = bar /\ (pc' = pc \/ pc' = "finish")
      BY <1>4 DEF Allocate, NoFill, Fill, FillAbsorbed, ExpireRemainders, vars
    <2> QED BY <1>0, <2>1
  <1>5. CASE \E flow : FinishBar(flow)
    BY <1>0, <1>5 DEF FinishBar
  <1> QED BY <1>1, <1>2, <1>3, <1>4, <1>5
          DEF Next, PrepareExpired, PrepareWaits, PrepareInadmissible, PrepareRefused

(* An order of the book trades in one of its symbols. *)
LEMMA OrderSymbol ==
  ASSUME OrdersInv, NEW i \in DOMAIN orders
  PROVE  /\ orders[i].sym \in Symbols /\ orders[i].left \in Int
         /\ orders[i].submit \in Nat /\ orders[i].submit <= bar
         /\ orders[i].eligible \in Int /\ orders[i].reduce \in BOOLEAN
         /\ orders[i] \in OrderRecord
  BY DEF OrdersInv, OrdersKept, OrderKept, OrderRecord

(* The book stays an account. *)
LEMMA BookStep ==
  ASSUME OrdersInv, Account(book), [Next]_vars
  PROVE  Account(book')
  <1>0. /\ NSymbols \in Nat /\ Flows \subseteq Int /\ Costs \subseteq Nat  BY Basics
  <1>1. CASE book' = book  BY <1>1
  <1>2. CASE \E flow \in Flows : BeginExhausted(flow)
    <2>1. PICK flow \in Flows : BeginExhausted(flow)  BY <1>2
    <2>2. flow \in Int /\ book' = Revalued([book EXCEPT !.cash = @ + flow])
      BY <1>0, <2>1 DEF BeginExhausted, Opens
    <2>3. Account([book EXCEPT !.cash = @ + flow])  BY <2>2, AccountPaid
    <2> QED BY <1>0, <2>2, <2>3, AccountRevalued
  <1>3. CASE \E gap \in BOOLEAN, flow \in Flows, split, inactive \in SUBSET Symbols,
                recovery \in 0..1 : BeginBar(gap, flow, split, inactive, recovery)
    <2>1. PICK gap \in BOOLEAN, flow \in Flows, split \in SUBSET Symbols,
               inactive \in SUBSET Symbols, recovery \in 0..1 :
            BeginBar(gap, flow, split, inactive, recovery)
      BY <1>3
    <2> DEFINE b == OpenedBook(gap, flow, inactive, recovery)
    <2>2. Opens(b, orders')  BY <2>1, BarOpened
    <2>3. flow \in Int  BY <1>0
    <2> HIDE DEF b
    <2>4. book' = b  BY <2>2 DEF Opens
    <2>5. Account(b)  BY <1>0, <2>3, BarBook DEF b
    <2> QED BY <2>4, <2>5
  <1>4. CASE \E cost \in Costs : Fill(cost)
    <2>1. PICK cost \in Costs : Fill(cost)  BY <1>4
    <2> DEFINE a == Head(allocs)
    <2>2. pc = "fill" /\ allocs # <<>> /\ book' = Filled(book, orders[a.id].sym, a.q, cost)
      BY <2>1 DEF Fill
    <2>3. a.q \in Int /\ a.id \in DOMAIN orders
      BY <2>2, NextAllocation DEF AllocationRecord
    <2>4. orders[a.id].sym \in Symbols /\ cost \in Int  BY <1>0, <2>3, OrderSymbol
    <2> HIDE DEF a
    <2> QED BY <1>0, <2>2, <2>3, <2>4, AccountFilled
  <1>5. CASE \E flow \in Flows : FinishBar(flow)
    <2>1. PICK flow \in Flows : FinishBar(flow)  BY <1>5
    <2>2. flow \in Int /\ book' = Finished(flow)  BY <1>0, <2>1 DEF FinishBar
    <2> QED BY <1>0, <2>2, AccountFinished
  <1>6. CASE \/ \E target : Decide(target)
             \/ \E intent : Submit(intent)
             \/ Start
             \/ \E i, st : NotAdmitted(i, st)
             \/ \E i : PrepareAccepted(i)
             \/ \E s : Allocate(s)
             \/ NoFill \/ FillAbsorbed \/ ExpireRemainders \/ UNCHANGED vars
    BY <1>1, <1>6 DEF Decide, Submit, Start, NotAdmitted, PrepareAccepted, Allocate, NoFill,
                      FillAbsorbed, ExpireRemainders, vars
  <1> QED BY <1>2, <1>3, <1>4, <1>5, <1>6
          DEF Next, PrepareExpired, PrepareWaits, PrepareInadmissible, PrepareRefused

(* The projection of a book, and with the orders it reserves. *)
LEMMA ProjectionTyped ==
  ASSUME NEW b, Account(b)
  PROVE  Projected(Projection(b))
  <1>1. b.dead \in BOOLEAN /\ Money(b)  BY DEF Account
  <1> QED BY <1>1 DEF Projection, Projected, Money

(* The projection after an admission is a projection. *)
LEMMA ReservedTyped ==
  ASSUME Projected(view), NEW o, o.sym \in Symbols, o.left \in Int
  PROVE  Projected(Reserved(o))
  <1> DEFINE kept == IF view.over /\ o.reduce
                     THEN [view EXCEPT !.free[o.sym] = @ + o.left] ELSE view
  <1>1. Reserved(o) = IF Closes(o, view.qty[o.sym]) THEN kept
                      ELSE [kept EXCEPT !.qty[o.sym] = @ + o.left, !.cash = @ - o.left]
    BY DEF Reserved
  <1>2. Projected(kept)  BY DEF Projected, Money
  <1> HIDE DEF kept
  <1>3. Projected([kept EXCEPT !.qty[o.sym] = @ + o.left, !.cash = @ - o.left])
    BY <1>2 DEF Projected, Money
  <1> QED BY <1>1, <1>2, <1>3

(* Every step leaves a projection. *)
LEMMA ViewStep ==
  ASSUME OrdersInv, Projected(view), Account(book), [Next]_vars
  PROVE  Projected(view')
  <1>1. CASE view' = view  BY <1>1
  <1>2. CASE \/ \E flow : BeginExhausted(flow)
             \/ \E gap, flow, split, inactive, recovery :
                   BeginBar(gap, flow, split, inactive, recovery)
    <2>1. ASSUME NEW b, NEW os, Opens(b, os)  PROVE Projected(view')
      <3>1. view' = Projection(b) /\ book' = b  BY <2>1 DEF Opens
      <3>2. Account(b)  BY <3>1, BookStep
      <3> QED BY <3>1, <3>2, ProjectionTyped
    <2>2. CASE \E flow : BeginExhausted(flow)  BY <2>1, <2>2 DEF BeginExhausted
    <2>3. CASE \E gap, flow, split, inactive, recovery :
                 BeginBar(gap, flow, split, inactive, recovery)
      <3>1. PICK gap, flow, split, inactive, recovery :
              BeginBar(gap, flow, split, inactive, recovery)
        BY <2>3
      <3> QED BY <2>1, <3>1, BarOpened
    <2> QED BY <1>2, <2>2, <2>3
  <1>3. CASE \E i \in todo : PrepareAccepted(i)
    <2>1. PICK i \in todo : PrepareAccepted(i)  BY <1>3
    <2>2. view' = Reserved(orders[i])  BY <2>1 DEF PrepareAccepted
    <2>3. i \in DOMAIN orders  BY DEF OrdersInv, PassInv, Active
    <2>4. orders[i].sym \in Symbols /\ orders[i].left \in Int  BY <2>3, OrderSymbol
    <2> QED BY <2>2, <2>4, ReservedTyped
  <1>4. CASE \E flow : FinishBar(flow)
    <2>1. view' = [qty |-> Flat, cash |-> 0, dead |-> FALSE, over |-> FALSE, free |-> Flat]
      BY <1>4 DEF FinishBar
    <2>2. Flat \in [Symbols -> Int]  BY DEF Flat
    <2> QED BY <2>1, <2>2 DEF Projected, Money
  <1>5. CASE \/ \E target : Decide(target)
             \/ \E intent : Submit(intent)
             \/ Start
             \/ \E i, st : NotAdmitted(i, st)
             \/ \E s : Allocate(s)
             \/ NoFill \/ (\E cost : Fill(cost)) \/ FillAbsorbed \/ ExpireRemainders
             \/ UNCHANGED vars
    BY <1>1, <1>5 DEF Decide, Submit, Start, NotAdmitted, Allocate, NoFill, Fill,
                      FillAbsorbed, ExpireRemainders, vars, passVars
  <1> QED BY <1>2, <1>3, <1>4, <1>5
          DEF Next, PrepareExpired, PrepareWaits, PrepareInadmissible, PrepareRefused

(* An active order has something left, and a session's becomes eligible     *)
(* after the latency.                                                       *)
ActiveLeft == \A i \in Active(orders) : orders[i].left # 0

SessionOrders ==
  Direct = {} => \A i \in DOMAIN orders : orders[i].eligible = orders[i].submit + Latency

(* What a decision leaves: the orders it submits, and those it found, some  *)
(* of them cancelled.                                                       *)
Submitted(target, s) ==
  Pending(s, target[s] - book.qty[s], Kind, "gtc", bar + Latency, Never, Reducing(target, s))

Cancelled(o) == [o EXCEPT !.status = "cancelled", !.last = bar]

(* The orders of a decision: submitted, untouched or cancelled. *)
LEMMA DecidedOrders ==
  ASSUME OrdersInv, NEW target, Decide(target), NEW i \in DOMAIN orders'
  PROVE  \/ \E s \in Symbols : /\ i = <<bar, s, 1>> /\ target[s] - book.qty[s] # 0
                               /\ orders'[i] = Submitted(target, s)
         \/ i \in DOMAIN orders /\ orders'[i] = orders[i]
         \/ i \in DOMAIN orders /\ orders'[i] = Cancelled(orders[i])
  <1> DEFINE delta(s) == target[s] - book.qty[s]
             kept == {s \in Symbols :
                        /\ \A k \in Live(s) : Compatible(orders[k], Reducing(target, s))
                        /\ delta(s) = Residual(s)}
             superseded == {k \in Active(orders) : orders[k].sym \notin kept}
             renewed == {r \in Symbols \ kept : delta(r) # 0}
             fresh == {<<bar, s, 1>> : s \in renewed}
             cancelled == Moved(orders, superseded, "cancelled")
             new(k) == Pending(k[2], delta(k[2]), Kind, "gtc", bar + Latency, Never,
                               Reducing(target, k[2]))
  <1>1. orders' = [k \in DOMAIN orders \cup fresh |->
                     IF k \in fresh THEN new(k) ELSE cancelled[k]]
    BY DEF Decide, Reconciled
  <1>2. \A r \in renewed : r \in Symbols /\ delta(r) # 0  OBVIOUS
  <1> HIDE DEF kept, renewed
  <1>3. CASE i \in fresh
    <2>1. PICK s \in renewed : i = <<bar, s, 1>>  BY <1>3
    <2>2. i[2] = s  BY <2>1
    <2>3. orders'[i] = new(i)  BY <1>1, <1>3
    <2> HIDE DEF fresh, cancelled
    <2>4. orders'[i] = Submitted(target, s)  BY <2>2, <2>3 DEF Submitted
    <2> QED BY <1>2, <2>1, <2>4
  <1>4. CASE i \notin fresh
    <2>1. i \in DOMAIN orders /\ orders'[i] = cancelled[i]  BY <1>1, <1>4
    <2>2. cancelled[i] = orders[i] \/ cancelled[i] = Cancelled(orders[i])
      BY <2>1 DEF Moved, Cancelled
    <2> QED BY <2>1, <2>2
  <1> QED BY <1>3, <1>4

(* The orders of a direct caller. *)
LEMMA SubmittedOrders ==
  ASSUME NEW intent, Submit(intent), NEW i \in DOMAIN orders'
  PROVE  \/ i \in DOMAIN orders /\ orders'[i] = orders[i]
         \/ orders'[i].left = intent.want
  <1> DEFINE taken == {k \in DOMAIN orders : k[1] = bar /\ k[2] = intent.sym}
             id == <<bar, intent.sym, Cardinality(taken) + 1>>
             expiry == IF intent.life = Never THEN Never ELSE bar + intent.life
             new == Pending(intent.sym, intent.want, intent.kind, intent.tif,
                            bar + Latency, Max({expiry, bar + Latency}), intent.reduce)
  <1>1. orders' = [k \in DOMAIN orders \cup {id} |-> IF k = id THEN new ELSE orders[k]]
    BY DEF Submit
  <1>2. new.left = intent.want  BY DEF Pending
  <1> HIDE DEF id, new
  <1> QED BY <1>1, <1>2

(* The orders of a fill. *)
LEMMA FilledOrders ==
  ASSUME OrdersInv, NEW cost, Fill(cost)
  PROVE  LET a == Head(allocs) IN
         /\ a.id \in DOMAIN orders /\ DOMAIN orders' = DOMAIN orders
         /\ \A i \in DOMAIN orders \ {a.id} : orders'[i] = orders[i]
         /\ orders'[a.id].left = orders[a.id].left - a.q
         /\ orders'[a.id].left = 0 => a.id \notin Active(orders')
         /\ orders'[a.id].sym = orders[a.id].sym
         /\ orders'[a.id].eligible = orders[a.id].eligible
         /\ orders'[a.id].submit = orders[a.id].submit
  <1> DEFINE a == Head(allocs)
             left == orders[a.id].left - a.q
             status == IF left = 0 THEN "filled"
                       ELSE IF a.closed THEN "expired" ELSE "partially_filled"
  <1>1. /\ pc = "fill" /\ allocs # <<>>
        /\ orders' = [Moved(orders, {a.id}, status) EXCEPT ![a.id].left = left]
    BY DEF Fill
  <1>2. a.id \in DOMAIN orders  BY <1>1, NextAllocation
  <1>3. orders[a.id] \in OrderRecord  BY <1>2, OrderSymbol
  <1> DEFINE moved == Moved(orders, {a.id}, status)
  <1>4. /\ DOMAIN moved = DOMAIN orders
        /\ \A i \in DOMAIN orders \ {a.id} : moved[i] = orders[i]
        /\ moved[a.id] = [orders[a.id] EXCEPT !.status = status, !.last = bar]
    BY <1>2 DEF Moved
  <1>5. left = 0 => status \in Done  BY DEF Done
  <1> HIDE DEF moved, left, status, a
  <1>6. /\ DOMAIN orders' = DOMAIN orders
        /\ \A i \in DOMAIN orders \ {a.id} : orders'[i] = orders[i]
        /\ orders'[a.id] = [moved[a.id] EXCEPT !.left = left]
    BY <1>1, <1>2, <1>4 DEF moved
  <1>7. /\ orders'[a.id].left = left /\ orders'[a.id].status = status
        /\ orders'[a.id].sym = orders[a.id].sym
        /\ orders'[a.id].eligible = orders[a.id].eligible
        /\ orders'[a.id].submit = orders[a.id].submit
    BY <1>3, <1>4, <1>6 DEF OrderRecord
  <1>8. left = 0 => a.id \notin Active(orders')  BY <1>5, <1>7 DEF Active
  <1> QED BY <1>2, <1>6, <1>7, <1>8 DEF a, left

(* Which steps there are, for the orders. *)
LEMMA StepsOfOrders ==
  ASSUME OrdersInv, [Next]_vars
  PROVE  \/ \E target \in [Symbols -> Positions] : Decide(target)
         \/ \E intent \in Direct : Submit(intent)
         \/ \E cost \in Costs : Fill(cost)
         \/ CalmOrders
  <1>1. TransitionsLegal  BY OrdersStep DEF StepLegal
  <1> QED BY <1>1, CalmSteps
          DEF Next, PrepareExpired, PrepareWaits, PrepareInadmissible, PrepareRefused

(* An active order keeps something left, and a session's its eligibility. *)
LEMMA OrdersLeft ==
  ASSUME OrdersInv, ActiveLeft, SessionOrders, [Next]_vars
  PROVE  ActiveLeft' /\ SessionOrders'
  <1>0. Direct' = Direct /\ Latency' = Latency /\ setup \in Setups /\ Latency \in Nat
        /\ bar \in Nat
    BY SetupStays, ConstantsKept, Basics DEF OrdersInv, StateTyped
  <1>1. CASE \E target \in [Symbols -> Positions] : Decide(target)
    <2>1. PICK target \in [Symbols -> Positions] : Decide(target)  BY <1>1
    <2>2. ASSUME NEW i \in DOMAIN orders'
          PROVE  /\ orders'[i].status \notin Done => orders'[i].left # 0
                 /\ Direct = {} => orders'[i].eligible = orders'[i].submit + Latency
      <3>1. CASE \E s \in Symbols : /\ i = <<bar, s, 1>> /\ target[s] - book.qty[s] # 0
                                    /\ orders'[i] = Submitted(target, s)
        <4>1. PICK s \in Symbols : /\ target[s] - book.qty[s] # 0
                                   /\ orders'[i] = Submitted(target, s)
          BY <3>1
        <4>2. /\ orders'[i].left = target[s] - book.qty[s]
              /\ orders'[i].submit = bar /\ orders'[i].eligible = bar + Latency
          BY <4>1 DEF Submitted, Pending
        <4> QED BY <4>1, <4>2
      <3>2. CASE i \in DOMAIN orders /\ orders'[i] = orders[i]
        BY <3>2 DEF ActiveLeft, SessionOrders, Active
      <3>3. CASE i \in DOMAIN orders /\ orders'[i] = Cancelled(orders[i])
        <4>1. orders[i] \in OrderRecord  BY <3>3, OrderSymbol
        <4>2. /\ orders'[i].status = "cancelled" /\ orders'[i].submit = orders[i].submit
              /\ orders'[i].eligible = orders[i].eligible
          BY <3>3, <4>1 DEF Cancelled, OrderRecord
        <4> QED BY <3>3, <4>2 DEF SessionOrders, Done
      <3> QED BY <2>1, <3>1, <3>2, <3>3, DecidedOrders
    <2> QED BY <1>0, <2>2 DEF ActiveLeft, SessionOrders, Active
  <1>2. CASE \E intent \in Direct : Submit(intent)
    <2>1. PICK intent \in Direct : Submit(intent)  BY <1>2
    <2>2. intent.want # 0  BY <1>0, SetupTyped
    <2>3. \A i \in DOMAIN orders' : orders'[i].status \notin Done => orders'[i].left # 0
      BY <2>1, <2>2, SubmittedOrders DEF ActiveLeft, Active
    <2> QED BY <1>0, <2>3 DEF ActiveLeft, SessionOrders, Active
  <1>3. CASE \E cost \in Costs : Fill(cost)
    <2>1. PICK cost \in Costs : Fill(cost)  BY <1>3
    <2> DEFINE a == Head(allocs)
    <2>2. /\ a.id \in DOMAIN orders /\ DOMAIN orders' = DOMAIN orders
          /\ \A i \in DOMAIN orders \ {a.id} : orders'[i] = orders[i]
          /\ orders'[a.id].left = 0 => a.id \notin Active(orders')
          /\ orders'[a.id].eligible = orders[a.id].eligible
          /\ orders'[a.id].submit = orders[a.id].submit
      BY <2>1, FilledOrders
    <2> HIDE DEF a
    <2> QED BY <1>0, <2>2 DEF ActiveLeft, SessionOrders, Active
  <1>4. CASE CalmOrders
    BY <1>0, <1>4 DEF CalmOrders, Calm, ActiveLeft, SessionOrders, Active
  <1> QED BY <1>1, <1>2, <1>3, <1>4, StepsOfOrders

(* The history keeps its form. *)
LEMMA HistoryStep ==
  ASSUME DOMAIN history = {"within", "reversed", "impeded"}, [Next]_vars
  PROVE  DOMAIN history' = {"within", "reversed", "impeded"}
  <1>1. CASE \/ \E flow : BeginExhausted(flow)
             \/ \E gap, flow, split, inactive, recovery :
                   BeginBar(gap, flow, split, inactive, recovery)
    <2>1. CASE \E flow : BeginExhausted(flow)  BY <2>1 DEF BeginExhausted
    <2>2. CASE \E gap, flow, split, inactive, recovery :
                 BeginBar(gap, flow, split, inactive, recovery)
      <3>1. PICK gap, flow, split, inactive, recovery :
              BeginBar(gap, flow, split, inactive, recovery)
        BY <2>2
      <3>2. \E w, m : history' = [within |-> w, reversed |-> FALSE, impeded |-> m]
        BY <3>1, BarOpened
      <3> QED BY <3>2
    <2> QED BY <1>1, <2>1, <2>2
  <1>2. ASSUME NEW f, NEW x, history' = [history EXCEPT ![f] = x]
        PROVE  DOMAIN history' = {"within", "reversed", "impeded"}
    BY <1>2
  <1>3. CASE \/ \E target : Decide(target)
             \/ \E i : PrepareRefused(i)
             \/ \E i : PrepareAccepted(i)
             \/ \E s : Allocate(s)
    <2>1. \E f, x : history' = [history EXCEPT ![f] = x]
      <3>1. CASE \E target : Decide(target)  BY <3>1, Zenon DEF Decide
      <3>2. CASE \E i : PrepareRefused(i)  BY <3>2, Zenon DEF PrepareRefused
      <3>3. CASE \E i : PrepareAccepted(i)  BY <3>3, Zenon DEF PrepareAccepted
      <3>4. CASE \E s : Allocate(s)  BY <3>4, Zenon DEF Allocate
      <3> QED BY <1>3, <3>1, <3>2, <3>3, <3>4
    <2> QED BY <1>2, <2>1
  <1>4. CASE history' = history  BY <1>4
  <1>5. CASE \/ \E intent : Submit(intent)
             \/ Start
             \/ \E i : PrepareExpired(i) \/ PrepareWaits(i) \/ PrepareInadmissible(i)
             \/ NoFill \/ (\E cost : Fill(cost)) \/ FillAbsorbed \/ ExpireRemainders
             \/ (\E flow : FinishBar(flow)) \/ UNCHANGED vars
    BY <1>4, <1>5 DEF Submit, Start, PrepareExpired, PrepareWaits, PrepareInadmissible,
                      NoFill, Fill, FillAbsorbed, ExpireRemainders, FinishBar, vars
  <1> QED BY <1>1, <1>3, <1>5 DEF Next

(* Every step keeps the form of the ledger. *)
LEMMA LedgerStep ==
  ASSUME OrdersInv, LedgerInv, [Next]_vars
  PROVE  LedgerInv'
  <1>0. /\ bar <= Stop /\ (pc = "begin" => bar < Stop)
        /\ Account(book) /\ Projected(view) /\ ActiveLeft /\ SessionOrders
        /\ DOMAIN history = {"within", "reversed", "impeded"}
    BY DEF LedgerInv, ActiveLeft, SessionOrders
  <1>1. bar' <= Stop' /\ (pc' = "begin" => bar' < Stop')  BY <1>0, BarsStay
  <1>2. Symbols' = Symbols  BY SetupStays, SetupKept
  <1>3. Account(book') /\ Projected(view')  BY <1>0, BookStep, ViewStep
  <1>4. Account(book)' /\ Projected(view)'
    BY <1>2, <1>3 DEF Account, BookTyped, Money, Projected
  <1>5. ActiveLeft' /\ SessionOrders'  BY <1>0, OrdersLeft
  <1>6. DOMAIN history' = {"within", "reversed", "impeded"}  BY <1>0, HistoryStep
  <1> QED BY <1>1, <1>4, <1>5, <1>6 DEF LedgerInv, ActiveLeft, SessionOrders

-----------------------------------------------------------------------------
(* The cap.                                                                *)

(* The cap of the next state, from its parts. *)
LEMMA CappedNext ==
  ASSUME setup' = setup, Bounded(view'), Inside(book', view', orders', todo', accepted')
  PROVE  Capped'
  <1>1. /\ Symbols' = Symbols /\ Flat' = Flat
        /\ \A b : (Gross(b))' = Gross(b) /\ (Equity(b))' = Equity(b)
    BY SetupKept, SumsStay
  <1>2. /\ (Gross(view))' = Gross(view') /\ (Equity(view))' = Equity(view')
        /\ (Equity(book))' = Equity(book')
    BY <1>1
  <1> QED BY <1>1, <1>2 DEF Capped, Bounded, Inside, Active

(* A bar that opens within the cap. *)
LEMMA CapOpens ==
  ASSUME OrdersInv, NEW b, Account(b), ~OverCap(b), view' = Projection(b), book' = b,
         accepted' = {}, setup' = setup
  PROVE  Capped'
  <1>1. NSymbols \in Nat /\ MaxLeverage \in Nat \ {0}  BY Basics
  <1>2. /\ view'.qty = b.qty /\ view'.cash = b.cash /\ ~view'.over
    BY DEF Projection
  <1>3. Equity(view') = Equity(b) /\ Gross(view') = Gross(b)  BY <1>2, WorthSame
  <1>4. Equity(b) \in Int /\ Gross(b) \in Nat  BY <1>1, WorthTyped DEF Account
  <1>5. Gross(b) <= Equity(b) * MaxLeverage
    <2>1. Equity(b) * MaxLeverage \in Int  BY <1>1, <1>4
    <2> QED BY <1>4, <2>1 DEF OverCap
  <1>6. Bounded(view')  BY <1>2, <1>3, <1>5 DEF Bounded
  <1>7. \A s \in Symbols : Abs(b.qty[s]) <= Abs(view'.qty[s])
    BY <1>2 DEF Account, Money, Abs
  <1>8. Inside(book', view', orders', todo', accepted')
    BY <1>2, <1>3, <1>7 DEF Inside
  <1> QED BY <1>6, <1>8, CappedNext

(* A step that touches neither the book nor the projection. *)
LEMMA CapCalm ==
  ASSUME OrdersInv, Capped, CalmOrders, setup' = setup, book' = book, view' = view,
         todo' \subseteq todo, accepted' = accepted
  PROVE  Capped'
  <1>1. Bounded(view) /\ Inside(book, view, orders, todo, accepted)  BY DEF Capped
  <1>2. \A i \in DOMAIN orders : orders'[i].sym = orders[i].sym /\ orders'[i].left = orders[i].left
    BY DEF CalmOrders, Calm
  <1>3. Active(orders') \subseteq Active(orders) /\ Active(orders) \subseteq DOMAIN orders
    BY DEF CalmOrders, Active
  <1>4. todo \subseteq DOMAIN orders  BY <1>3 DEF OrdersInv, PassInv
  <1>5. Inside(book', view', orders', todo', accepted')
    BY <1>1, <1>2, <1>3, <1>4 DEF Inside
  <1> QED BY <1>1, <1>5, CappedNext

(* Two active orders of a session trade in different symbols. *)
LEMMA OtherSymbols ==
  ASSUME OrdersInv, Direct = {}, NEW i \in Active(orders), NEW j \in Active(orders), i # j
  PROVE  orders[i].sym # orders[j].sym
  BY DEF OrdersInv, OneOrderPerSymbol

(* An order that is admitted is inside the cap, unless it reverses. *)
LEMMA CapAccepts ==
  ASSUME OrdersInv, LedgerInv, Direct = {}, Capped, NEW i \in todo, PrepareAccepted(i),
         ~history'.reversed
  PROVE  Capped'
  <1> DEFINE o == orders[i]
             s == o.sym
             v == view.qty[s]
             after == [view EXCEPT !.qty[s] = @ + o.left]
             paid == [view EXCEPT !.qty[s] = @ + o.left, !.cash = @ - o.left]
  <1>0. /\ NSymbols \in Nat /\ MaxLeverage \in Nat \ {0}
        /\ Account(book) /\ Projected(view) /\ Money(view)
    BY Basics DEF LedgerInv, Projected
  <1>1. /\ Admissible(o) /\ todo' = todo \ {i} /\ accepted' = accepted \cup {i}
        /\ view' = Reserved(o) /\ book' = book /\ setup' = setup
        /\ ~(v * o.left < 0 /\ ~Closes(o, v))
    <2>1. history' = [history EXCEPT !.reversed = @ \/ (v * o.left < 0 /\ ~Closes(o, v))]
      BY Zenon DEF PrepareAccepted
    <2>2. DOMAIN history = {"within", "reversed", "impeded"}  BY DEF LedgerInv
    <2> DEFINE reverses == v * o.left < 0 /\ ~Closes(o, v)
    <2>3. history' = [history EXCEPT !.reversed = @ \/ reverses]  BY <2>1
    <2> HIDE DEF reverses
    <2>4. ~reverses  BY <2>2, <2>3
    <2>5. /\ Admissible(o) /\ todo' = todo \ {i} /\ accepted' = accepted \cup {i}
          /\ view' = Reserved(o) /\ book' = book /\ setup' = setup
      BY DEF PrepareAccepted, Passed
    <2> QED BY <2>4, <2>5 DEF reverses
  <1>2. i \in Active(orders) /\ i \in DOMAIN orders /\ todo \subseteq Active(orders)
    BY DEF OrdersInv, PassInv, Active
  <1>3. s \in Symbols /\ o.left \in Int /\ v \in Int /\ book.qty[s] \in Int
        /\ view.qty \in [Symbols -> Int] /\ view.cash \in Int
    BY <1>0, <1>2, OrderSymbol DEF Money, Account
  <1>4. Bounded(view) /\ Inside(book, view, orders, todo, accepted)  BY DEF Capped
  <1>5. ~view.over  BY <1>4 DEF Bounded
  <1>6. Gross(after) <= Equity(view) * MaxLeverage  BY <1>1, <1>5 DEF Admissible
  <1>7. view' = IF Closes(o, v) THEN view ELSE paid
    BY <1>1, <1>5 DEF Reserved
  <1>8. /\ paid.qty = [view.qty EXCEPT ![s] = @ + o.left] /\ paid.cash = view.cash - o.left
        /\ paid.over = view.over /\ DOMAIN paid = DOMAIN view
        /\ after.qty = paid.qty
    BY <1>0 DEF Projected
  <1>9. /\ CalmOrders
    <2>1. TransitionsLegal  BY OrdersStep DEF StepLegal, Next
    <2> QED BY <2>1, CalmSteps
  <1>10. \A j \in DOMAIN orders : orders'[j].sym = orders[j].sym /\ orders'[j].left = orders[j].left
    BY <1>9 DEF CalmOrders, Calm
  <1>11. Active(orders') \subseteq Active(orders) /\ Active(orders) \subseteq DOMAIN orders
    BY <1>9 DEF CalmOrders, Active
  <1> HIDE DEF after, paid
  <1>12. Money(paid)  BY <1>3, <1>8 DEF Money
  <1>13. Equity(paid) = Equity(view)
    <2>1. Traded(paid, view, s, o.left, 0)  BY <1>3, <1>8 DEF Traded
    <2>2. Equity(paid) = Equity(view) - 0  BY <1>0, <1>3, <1>12, <2>1, EquityTraded
    <2>3. Equity(view) \in Int  BY <1>0, WorthTyped
    <2> QED BY <2>2, <2>3
  <1>14. Gross(paid) = Gross(after)  BY <1>8 DEF Gross
  <1>15. Bounded(view')
    <2>1. Bounded(paid)  BY <1>5, <1>6, <1>8, <1>13, <1>14 DEF Bounded
    <2> QED BY <1>4, <1>7, <2>1
  <1>16. Inside(book', view', orders', todo', accepted')
    <2>1. CASE book.dead /\ book.qty = Flat /\ Equity(book) >= 0  BY <1>1, <2>1 DEF Inside
    <2>2. CASE ~(book.dead /\ book.qty = Flat /\ Equity(book) >= 0)
      <3>1. /\ Equity(book) = Equity(view)
            /\ \A r \in Symbols : Abs(book.qty[r]) <= Abs(view.qty[r])
            /\ \A j \in todo : view.qty[orders[j].sym] = book.qty[orders[j].sym]
            /\ \A j \in accepted \cap Active(orders) :
                 LET p == book.qty[orders[j].sym] IN
                 \/ p * orders[j].left >= 0 /\ p + orders[j].left = view.qty[orders[j].sym]
                 \/ p * orders[j].left <= 0 /\ Abs(orders[j].left) <= Abs(p)
        BY <1>4, <2>2 DEF Inside
      <3>2. book.qty[s] = v  BY <3>1
      <3>3. Equity(book) = Equity(view')  BY <1>7, <1>13, <3>1
      <3>4. /\ \A r \in Symbols : r # s => view'.qty[r] = view.qty[r]
            /\ view'.qty[s] = IF Closes(o, v) THEN v ELSE v + o.left
        BY <1>3, <1>7, <1>8
      <3>5. Abs(v) <= Abs(view'.qty[s])
        <4>1. CASE Closes(o, v)  BY <1>3, <3>4, <4>1 DEF Abs
        <4>2. CASE ~Closes(o, v)
          <5>1. v * o.left >= 0  BY <1>1, <1>3, <4>2, Products
          <5>2. (v >= 0 /\ o.left >= 0) \/ (v <= 0 /\ o.left <= 0)  BY <1>3, <5>1, Products
          <5> QED BY <1>3, <3>4, <4>2, <5>2 DEF Abs
        <4> QED BY <4>1, <4>2
      <3>6. \A r \in Symbols : Abs(book.qty[r]) <= Abs(view'.qty[r])
        BY <3>1, <3>2, <3>4, <3>5
      <3>7. \A j \in Active(orders) : j # i => orders[j].sym # s /\ orders[j].sym \in Symbols
        BY <1>2, <1>11, OtherSymbols, OrderSymbol
      <3>8. \A j \in todo' : view'.qty[orders'[j].sym] = book.qty[orders'[j].sym]
        BY <1>1, <1>2, <1>10, <1>11, <3>1, <3>4, <3>7
      <3>9. LET p == book.qty[s] IN
            \/ p * o.left >= 0 /\ p + o.left = view'.qty[s]
            \/ p * o.left <= 0 /\ Abs(o.left) <= Abs(p)
        <4>1. CASE Closes(o, v)
          <5>1. v * o.left < 0 /\ Abs(o.left) <= Abs(v)  BY <4>1 DEF Closes
          <5>2. v * o.left <= 0
            <6>1. v * o.left \in Int  BY <1>3
            <6> QED BY <5>1, <6>1
          <5> QED BY <3>2, <5>1, <5>2
        <4>2. CASE ~Closes(o, v)
          <5>1. v * o.left >= 0  BY <1>1, <1>3, <4>2, Products
          <5> QED BY <3>2, <3>4, <4>2, <5>1
        <4> QED BY <4>1, <4>2
      <3>10. ASSUME NEW j \in accepted' \cap Active(orders')
             PROVE  LET p == book.qty[orders'[j].sym] IN
                    \/ p * orders'[j].left >= 0 /\ p + orders'[j].left = view'.qty[orders'[j].sym]
                    \/ p * orders'[j].left <= 0 /\ Abs(orders'[j].left) <= Abs(p)
        <4>1. j \in Active(orders) /\ j \in DOMAIN orders /\ (j = i \/ j \in accepted)
          BY <1>1, <1>11
        <4>2. orders'[j].sym = orders[j].sym /\ orders'[j].left = orders[j].left
          BY <1>10, <4>1
        <4>3. CASE j = i  BY <3>9, <4>2, <4>3
        <4>4. CASE j # i
          <5>1. view'.qty[orders[j].sym] = view.qty[orders[j].sym]  BY <3>4, <3>7, <4>1, <4>4
          <5>2. j \in accepted \cap Active(orders)  BY <4>1, <4>4
          <5> QED BY <3>1, <4>2, <5>1, <5>2
        <4> QED BY <4>3, <4>4
      <3> QED BY <1>1, <3>3, <3>6, <3>8, <3>10 DEF Inside
    <2> QED BY <2>1, <2>2
  <1> QED BY <1>1, <1>15, <1>16, CappedNext

(* An order that was admitted stays inside the projection when part of it   *)
(* is filled.                                                               *)
LEMMA PartFilled ==
  ASSUME NEW p \in Int, NEW left \in Int, NEW v \in Int, NEW q, PartOf(q, left),
         Abs(p) <= Abs(v),
         \/ p * left >= 0 /\ p + left = v
         \/ p * left <= 0 /\ Abs(left) <= Abs(p)
  PROVE  /\ Abs(p + q) <= Abs(v)
         /\ \/ (p + q) * (left - q) >= 0 /\ (p + q) + (left - q) = v
            \/ (p + q) * (left - q) <= 0 /\ Abs(left - q) <= Abs(p + q)
  <1>0. q \in Int /\ p + q \in Int /\ left - q \in Int  BY DEF PartOf
  <1>1. CASE p * left >= 0 /\ p + left = v
    <2>1. (p >= 0 /\ left >= 0) \/ (p <= 0 /\ left <= 0)  BY <1>1, Products
    <2>2. (p + q >= 0 /\ left - q >= 0) \/ (p + q <= 0 /\ left - q <= 0)
      BY <1>0, <2>1 DEF PartOf
    <2>3. (p + q) * (left - q) >= 0  BY <1>0, <2>2, Products
    <2>4. Abs(p + q) <= Abs(v)  BY <1>0, <1>1, <2>1 DEF PartOf, Abs
    <2>5. (p + q) + (left - q) = v  BY <1>0, <1>1
    <2> QED BY <2>3, <2>4, <2>5
  <1>2. CASE p * left <= 0 /\ Abs(left) <= Abs(p)
    <2>1. (p >= 0 /\ left <= 0) \/ (p <= 0 /\ left >= 0)
      <3>1. p * left < 0 \/ p * left >= 0  OBVIOUS
      <3>2. CASE p * left < 0  BY <3>2, Products
      <3>3. CASE p * left >= 0
        <4>1. p * left = 0
          <5>1. p * left \in Int  OBVIOUS
          <5> QED BY <1>2, <3>3, <5>1
        <4>2. p = 0 \/ left = 0
          <5>1. p < 0 /\ left < 0 => p * left > 0  OBVIOUS
          <5>2. p > 0 /\ left > 0 => p * left > 0  OBVIOUS
          <5>3. p < 0 /\ left > 0 => p * left < 0  BY Products
          <5>4. p > 0 /\ left < 0 => p * left < 0  BY Products
          <5> QED BY <4>1, <5>1, <5>2, <5>3, <5>4
        <4> QED BY <4>2
      <3> QED BY <3>1, <3>2, <3>3
    <2>2. Abs(left - q) <= Abs(p + q) /\ Abs(p + q) <= Abs(p)
      BY <1>0, <1>2, <2>1 DEF PartOf, Abs
    <2>3. (p + q >= 0 /\ left - q <= 0) \/ (p + q <= 0 /\ left - q >= 0)
      BY <1>0, <1>2, <2>1 DEF PartOf, Abs
    <2>4. (p + q) * (left - q) <= 0
      <3>1. CASE p + q = 0 \/ left - q = 0  BY <1>0, <3>1
      <3>2. CASE p + q # 0 /\ left - q # 0
        <4>1. (p + q) * (left - q) < 0  BY <1>0, <2>3, <3>2, Products
        <4>2. (p + q) * (left - q) \in Int  BY <1>0
        <4> QED BY <4>1, <4>2
      <3> QED BY <3>1, <3>2
    <2>5. Abs(p) \in Int /\ Abs(v) \in Int /\ Abs(p + q) \in Int  BY <1>0 DEF Abs
    <2>6. Abs(p + q) <= Abs(v)
      <3> HIDE DEF Abs
      <3> QED BY <2>2, <2>5
    <2> QED BY <2>2, <2>4, <2>6
  <1> QED BY <1>1, <1>2

(* A fill without cost stays inside the projection, or kills the book. *)
LEMMA CapFills ==
  ASSUME OrdersInv, LedgerInv, Direct = {}, Capped, Fill(0)
  PROVE  Capped'
  <1> DEFINE a == Head(allocs)
             i == a.id
             o == orders[i]
             s == o.sym
             p == book.qty[s]
  <1>0. /\ NSymbols \in Nat /\ MaxLeverage \in Nat \ {0}
        /\ Account(book) /\ Projected(view) /\ Money(view)
    BY Basics DEF LedgerInv, Projected
  <1>1. /\ pc = "fill" /\ allocs # <<>> /\ book' = Filled(book, s, a.q, 0)
        /\ UNCHANGED <<setup, view, todo, accepted>>
    BY DEF Fill, passVars
  <1>2. /\ i \in Active(orders) /\ i \in accepted /\ PartOf(a.q, o.left) /\ a.q \in Int
    BY <1>1, NextAllocation DEF PartOf
  <1>3. /\ i \in DOMAIN orders /\ DOMAIN orders' = DOMAIN orders
        /\ \A j \in DOMAIN orders \ {i} : orders'[j] = orders[j]
        /\ orders'[i].left = o.left - a.q /\ orders'[i].sym = s
    BY FilledOrders
  <1>4. todo = {}  BY <1>1 DEF OrdersInv, PassInv
  <1>5. s \in Symbols /\ o.left \in Int  BY <1>3, OrderSymbol
  <1>6. Bounded(view) /\ Inside(book, view, orders, todo, accepted)  BY DEF Capped
  <1>7. /\ ~book'.dead => /\ ~book.dead /\ book'.qty = [book.qty EXCEPT ![s] = @ + a.q]
                          /\ Equity(book') = Equity(book) - 0
        /\ book'.dead => book'.qty = Flat /\ (Equity(book) >= 0 => Equity(book') >= 0)
    BY <1>0, <1>1, <1>2, <1>5, AccountFilled
  <1>8. Equity(book) \in Int /\ Equity(view) \in Int /\ Gross(view) \in Nat
    BY <1>0, WorthTyped DEF Account
  <1>9. Equity(view) >= 0
    <2>1. Gross(view) <= Equity(view) * MaxLeverage  BY <1>6 DEF Bounded
    <2>2. Equity(view) < 0 => Equity(view) * MaxLeverage < 0  BY <1>0, <1>8, Products
    <2>3. Equity(view) * MaxLeverage \in Int  BY <1>0, <1>8
    <2> QED BY <1>8, <2>1, <2>2, <2>3
  <1> HIDE DEF a
  <1>10. Inside(book', view', orders', todo', accepted')
    <2>1. CASE book'.dead
      <3>1. Equity(book) >= 0  BY <1>6, <1>9 DEF Inside
      <3> QED BY <1>7, <2>1, <3>1 DEF Inside
    <2>2. CASE ~book'.dead
      <3>1. /\ ~book.dead /\ book'.qty = [book.qty EXCEPT ![s] = @ + a.q]
            /\ Equity(book') = Equity(book)
        BY <1>7, <1>8, <2>2
      <3>2. /\ Equity(book) = Equity(view)
            /\ \A r \in Symbols : Abs(book.qty[r]) <= Abs(view.qty[r])
            /\ \A j \in accepted \cap Active(orders) :
                 LET x == book.qty[orders[j].sym] IN
                 \/ x * orders[j].left >= 0 /\ x + orders[j].left = view.qty[orders[j].sym]
                 \/ x * orders[j].left <= 0 /\ Abs(orders[j].left) <= Abs(x)
        BY <1>6, <3>1 DEF Inside
      <3>3. book.qty \in [Symbols -> Int] /\ view.qty \in [Symbols -> Int]
        BY <1>0 DEF Account, Money
      <3>4. /\ \A r \in Symbols : r # s => book'.qty[r] = book.qty[r]
            /\ book'.qty[s] = p + a.q
        BY <1>5, <3>1, <3>3
      <3>5. /\ Abs(p + a.q) <= Abs(view.qty[s])
            /\ \/ (p + a.q) * (o.left - a.q) >= 0 /\ (p + a.q) + (o.left - a.q) = view.qty[s]
               \/ (p + a.q) * (o.left - a.q) <= 0 /\ Abs(o.left - a.q) <= Abs(p + a.q)
        <4>1. p \in Int /\ view.qty[s] \in Int /\ Abs(p) <= Abs(view.qty[s])
          BY <1>5, <3>2, <3>3
        <4>2. \/ p * o.left >= 0 /\ p + o.left = view.qty[s]
              \/ p * o.left <= 0 /\ Abs(o.left) <= Abs(p)
          BY <1>2, <3>2
        <4> HIDE DEF p, o
        <4> QED BY <1>2, <1>5, <4>1, <4>2, PartFilled
      <3>6. \A r \in Symbols : Abs(book'.qty[r]) <= Abs(view'.qty[r])
        BY <1>1, <3>2, <3>4, <3>5
      <3>7. ASSUME NEW j \in accepted' \cap Active(orders')
            PROVE  LET x == book'.qty[orders'[j].sym] IN
                   \/ x * orders'[j].left >= 0 /\ x + orders'[j].left = view'.qty[orders'[j].sym]
                   \/ x * orders'[j].left <= 0 /\ Abs(orders'[j].left) <= Abs(x)
        <4>1. CASE j = i  BY <1>1, <1>3, <3>4, <3>5, <4>1
        <4>2. CASE j # i
          <5>1. j \in DOMAIN orders /\ orders'[j] = orders[j]  BY <1>3, <4>2 DEF Active
          <5>2. j \in accepted \cap Active(orders)  BY <1>1, <5>1 DEF Active
          <5>3. orders[j].sym # s /\ orders[j].sym \in Symbols
            BY <1>2, <4>2, <5>1, <5>2, OtherSymbols, OrderSymbol
          <5> QED BY <1>1, <3>2, <3>4, <5>1, <5>2, <5>3
        <4> QED BY <4>1, <4>2
      <3> QED BY <1>1, <1>4, <3>1, <3>2, <3>6, <3>7 DEF Inside
    <2> QED BY <2>1, <2>2
  <1> QED BY <1>1, <1>6, <1>10, CappedNext

(* What a step may do inside a bar. *)
LEMMA CapStep ==
  ASSUME OrdersInv, LedgerInv, CapInv, [Next]_vars
  PROVE  CapInv'
  <1> SUFFICES ASSUME Direct' = {}, Costs' = {0}, pc' \in InBar, history'.within,
                      ~history'.reversed
               PROVE  Capped'
    BY DEF CapInv, InBar
  <1>0. /\ setup' = setup /\ Direct = {} /\ Costs = {0}
        /\ DOMAIN history = {"within", "reversed", "impeded"}
        /\ Account(book')
    BY SetupStays, ConstantsKept, BookStep DEF LedgerInv
  <1>1. ASSUME NEW b, NEW os, Opens(b, os), ~OverCap(b)
        PROVE  Capped'
    <2>1. view' = Projection(b) /\ book' = b /\ accepted' = {} /\ Account(b)
      BY <1>0, <1>1 DEF Opens
    <2> QED BY <1>0, <1>1, <2>1, CapOpens
  <1>a. ASSUME NEW w, NEW m, history' = [within |-> w, reversed |-> FALSE, impeded |-> m]
        PROVE  w
    BY <1>a
  <1>2. CASE \E flow : BeginExhausted(flow)
    <2>1. PICK flow : BeginExhausted(flow)  BY <1>2
    <2> DEFINE b == Revalued([book EXCEPT !.cash = @ + flow])
               within == ~OverCap(b)
    <2>2. Opens(b, orders) /\ \E m : history' = [within |-> within, reversed |-> FALSE, impeded |-> m]
      BY <2>1, Zenon DEF BeginExhausted
    <2> HIDE DEF b, within
    <2>3. within  BY <1>a, <2>2
    <2> QED BY <1>1, <2>2, <2>3 DEF within
  <1>3. CASE \E gap, flow, split, inactive, recovery :
               BeginBar(gap, flow, split, inactive, recovery)
    <2>1. PICK gap, flow, split, inactive, recovery :
            BeginBar(gap, flow, split, inactive, recovery)
      BY <1>3
    <2> DEFINE b == OpenedBook(gap, flow, inactive, recovery)
               within == ~OverCap(b)
    <2>2. Opens(b, orders') /\ \E m : history' = [within |-> within, reversed |-> FALSE, impeded |-> m]
      BY <2>1, BarOpened, Zenon
    <2> HIDE DEF b, within
    <2>3. within  BY <1>a, <2>2
    <2> QED BY <1>1, <2>2, <2>3 DEF within
  <1>4. CASE \/ (\E target : Decide(target)) \/ (\E intent \in Direct : Submit(intent)) \/ Start
             \/ \E flow : FinishBar(flow)
    BY <1>0, <1>4 DEF Decide, Start, FinishBar, InBar
  <1>5. ASSUME pc \in InBar, CalmOrders, book' = book, view' = view, todo' \subseteq todo,
               accepted' = accepted, history'.within = history.within,
               history'.reversed = history.reversed
        PROVE  Capped'
    <2>1. Capped  BY <1>0, <1>5 DEF CapInv
    <2> QED BY <1>0, <1>5, <2>1, CapCalm
  <1>6. CASE \/ \E i : PrepareExpired(i) \/ PrepareWaits(i) \/ PrepareInadmissible(i)
             \/ \E i : PrepareRefused(i)
    <2>1. /\ pc \in InBar /\ book' = book /\ view' = view /\ todo' \subseteq todo
          /\ accepted' = accepted /\ history'.within = history.within
          /\ history'.reversed = history.reversed
      <3>1. /\ \E i, st : NotAdmitted(i, st)
            /\ history' = history \/ history' = [history EXCEPT !.impeded = TRUE]
        BY <1>6 DEF PrepareExpired, PrepareWaits, PrepareInadmissible, PrepareRefused
      <3>2. history'.within = history.within /\ history'.reversed = history.reversed
        BY <1>0, <3>1
      <3> QED BY <3>1, <3>2 DEF NotAdmitted, IsNext, Passed, InBar
    <2>2. CalmOrders
      <3>1. TransitionsLegal  BY OrdersStep DEF StepLegal
      <3>2. \E i, st : NotAdmitted(i, st)
        BY <1>6 DEF PrepareExpired, PrepareWaits, PrepareInadmissible, PrepareRefused
      <3> QED BY <3>1, <3>2, CalmSteps
    <2> QED BY <1>5, <2>1, <2>2
  <1>7. CASE \/ (\E s : Allocate(s)) \/ NoFill \/ FillAbsorbed \/ ExpireRemainders
    <2>1. /\ pc \in InBar /\ book' = book /\ view' = view /\ todo' = todo
          /\ accepted' = accepted
      BY <1>7 DEF Allocate, NoFill, FillAbsorbed, ExpireRemainders, passVars, InBar
    <2>2. history'.within = history.within /\ history'.reversed = history.reversed
      <3>1. CASE \E s : Allocate(s)
        <4>1. \E x : history' = [history EXCEPT !.impeded = x]  BY <3>1, Zenon DEF Allocate
        <4> QED BY <1>0, <4>1
      <3>2. CASE NoFill \/ FillAbsorbed \/ ExpireRemainders
        BY <3>2 DEF NoFill, FillAbsorbed, ExpireRemainders
      <3> QED BY <1>7, <3>1, <3>2
    <2>3. CalmOrders
      <3>1. TransitionsLegal  BY OrdersStep DEF StepLegal
      <3> QED BY <1>7, <3>1, CalmSteps
    <2> QED BY <1>5, <2>1, <2>2, <2>3
  <1>8. CASE \E i \in todo : PrepareAccepted(i)
    <2>1. PICK i \in todo : PrepareAccepted(i)  BY <1>8
    <2>2. pc = "prepare" /\ \E x : history' = [history EXCEPT !.reversed = history.reversed \/ x]
      BY <2>1, Zenon DEF PrepareAccepted, IsNext
    <2>3. history'.within = history.within /\ ~history.reversed  BY <1>0, <2>2
    <2>4. Capped  BY <1>0, <2>2, <2>3 DEF CapInv, InBar
    <2> QED BY <1>0, <2>1, <2>4, CapAccepts
  <1>9. CASE \E cost \in Costs : Fill(cost)
    <2>1. Fill(0)  BY <1>0, <1>9
    <2>2. pc = "fill" /\ history' = history  BY <2>1 DEF Fill
    <2>3. Capped  BY <1>0, <2>2 DEF CapInv, InBar
    <2> QED BY <1>0, <2>1, <2>3, CapFills
  <1>10. CASE UNCHANGED vars
    <2>1. /\ pc \in InBar /\ book' = book /\ view' = view /\ todo' = todo
          /\ accepted' = accepted /\ history' = history /\ orders' = orders
      BY <1>10 DEF vars, InBar
    <2>2. CalmOrders  BY <2>1 DEF CalmOrders, Calm, Active
    <2> QED BY <1>5, <2>1, <2>2
  <1> QED BY <1>2, <1>3, <1>4, <1>6, <1>7, <1>8, <1>9, <1>10 DEF Next

(* A session's bar stays within the cap. *)
LEMMA CapHolds ==
  ASSUME OrdersInv, LedgerInv, CapInv
  PROVE  StaysWithinCapUnlessReversed
  <1> SUFFICES ASSUME CappedBar, ~history.reversed  PROVE ~OverCap(book)
    BY DEF StaysWithinCapUnlessReversed
  <1>0. /\ NSymbols \in Nat /\ MaxLeverage \in Nat \ {0}
        /\ Account(book) /\ Money(book) /\ Projected(view) /\ Money(view)
    BY Basics DEF LedgerInv, Projected, Account
  <1>1. Capped  BY DEF CappedBar, CapInv, InBar
  <1>2. Bounded(view) /\ Inside(book, view, orders, todo, accepted)  BY <1>1 DEF Capped
  <1>3. /\ Equity(book) \in Int /\ Gross(book) \in Nat /\ Gross(view) \in Nat
        /\ Equity(view) \in Int /\ (book.qty = Flat => Gross(book) = 0)
    BY <1>0, WorthTyped
  <1>4. CASE book.dead /\ book.qty = Flat /\ Equity(book) >= 0
    <2>1. Equity(book) * MaxLeverage >= 0  BY <1>0, <1>3, <1>4, Products
    <2>2. Equity(book) * MaxLeverage \in Int  BY <1>0, <1>3
    <2> QED BY <1>3, <1>4, <2>1, <2>2 DEF OverCap
  <1>5. CASE ~(book.dead /\ book.qty = Flat /\ Equity(book) >= 0)
    <2>1. /\ Equity(book) = Equity(view)
          /\ \A s \in Symbols : Abs(book.qty[s]) <= Abs(view.qty[s])
      BY <1>2, <1>5 DEF Inside
    <2>2. Gross(book) <= Gross(view)  BY <1>0, <2>1, GrossGrows
    <2>3. Gross(view) <= Equity(view) * MaxLeverage  BY <1>2 DEF Bounded
    <2>4. Equity(view) * MaxLeverage \in Int  BY <1>0, <1>3
    <2> QED BY <1>3, <2>1, <2>2, <2>3, <2>4 DEF OverCap
  <1> QED BY <1>4, <1>5

-----------------------------------------------------------------------------
(* The terminal settlement.                                                *)

(* What is left of the active orders of a symbol that has none, or one.    *)
LEMMA ResidualOfFew ==
  ASSUME NEW s
  PROVE  /\ Live(s) = {} => Residual(s) = 0
         /\ \A i : Live(s) = {i} /\ orders[i].left \in Int => Residual(s) = orders[i].left
  <1> DEFINE S == Live(s)
             Next1(t, g) == IF t = {} THEN 0
                            ELSE g[t \ {CHOOSE x \in t : TRUE}]
                                   + orders[CHOOSE x \in t : TRUE].left
  <1>1. Residual(s) = (CHOOSE g : g = [t \in SUBSET S |-> Next1(t, g)])[S]
    BY DEF Residual, FoldSet, MapThenFoldSet
  <1>2. ASSUME NEW g, g = [t \in SUBSET S |-> Next1(t, g)]
        PROVE  Residual(s) = (CHOOSE h : h = [t \in SUBSET S |-> Next1(t, h)])[S]
               /\ (CHOOSE h : h = [t \in SUBSET S |-> Next1(t, h)])
                    = [t \in SUBSET S |->
                         Next1(t, CHOOSE h : h = [t_1 \in SUBSET S |-> Next1(t_1, h)])]
    BY <1>1, <1>2
  <1>3. CASE S = {}
    <2> DEFINE g == [t \in SUBSET S |-> 0]
    <2>1. g = [t \in SUBSET S |-> Next1(t, g)]  BY <1>3
    <2> QED BY <1>2, <1>3, <2>1
  <1>4. ASSUME NEW i, S = {i}, orders[i].left \in Int  PROVE Residual(s) = orders[i].left
    <2> DEFINE g == [t \in SUBSET S |-> IF t = {} THEN 0 ELSE orders[i].left]
    <2>0. SUBSET S = {{}, {i}}  BY <1>4
    <2>1. (CHOOSE x \in {i} : TRUE) = i /\ {i} \ {i} = {}  OBVIOUS
    <2>2. g = [t \in SUBSET S |-> Next1(t, g)]  BY <1>4, <2>0, <2>1
    <2> DEFINE f == CHOOSE h : h = [t \in SUBSET S |-> Next1(t, h)]
    <2>3. Residual(s) = f[S] /\ f = [t \in SUBSET S |-> Next1(t, f)]  BY <1>2, <2>2
    <2> HIDE DEF f
    <2>4. f[S] = f[{}] + orders[i].left /\ f[{}] = 0  BY <1>4, <2>0, <2>1, <2>3
    <2> QED BY <1>4, <2>3, <2>4
  <1> QED BY <1>3, <1>4

(* The active order of a symbol realises the target already. *)
Keeps(target, s) ==
  /\ \A i \in Live(s) : Compatible(orders[i], Reducing(target, s))
  /\ target[s] - book.qty[s] = Residual(s)

(* What a decision does to the orders of a symbol: it keeps them, or        *)
(* cancels them and submits what is missing.                                *)
LEMMA DecidedSymbol ==
  ASSUME OrdersInv, NEW target, Decide(target), NEW s \in Symbols
  PROVE  /\ Keeps(target, s) =>
              /\ \A i \in Live(s) : i \in Active(orders') /\ orders'[i] = orders[i]
              /\ \A i \in Active(orders') : orders'[i].sym = s =>
                   i \in Live(s) /\ orders'[i] = orders[i]
         /\ ~Keeps(target, s) =>
              /\ \A i \in Active(orders') : orders'[i].sym = s =>
                   target[s] - book.qty[s] # 0 /\ orders'[i] = Submitted(target, s)
              /\ target[s] - book.qty[s] # 0 =>
                   \E i \in Active(orders') : orders'[i] = Submitted(target, s)
  <1> DEFINE delta(r) == target[r] - book.qty[r]
             kept == {r \in Symbols :
                        /\ \A k \in Live(r) : Compatible(orders[k], Reducing(target, r))
                        /\ delta(r) = Residual(r)}
             superseded == {k \in Active(orders) : orders[k].sym \notin kept}
             renewed == {r \in Symbols \ kept : delta(r) # 0}
             fresh == {<<bar, r, 1>> : r \in renewed}
             cancelled == Moved(orders, superseded, "cancelled")
             new(k) == Pending(k[2], delta(k[2]), Kind, "gtc", bar + Latency, Never,
                               Reducing(target, k[2]))
  <1>0. pc = "decide" /\ Direct = {}  BY DEF Decide
  <1>1. orders' = [k \in DOMAIN orders \cup fresh |->
                     IF k \in fresh THEN new(k) ELSE cancelled[k]]
    BY DEF Decide, Reconciled
  <1>2. s \in kept <=> Keeps(target, s)  BY DEF Keeps
  <1>3. /\ s \in renewed <=> s \notin kept /\ target[s] - book.qty[s] # 0
        /\ renewed \subseteq Symbols /\ \A r \in renewed : r \notin kept
    OBVIOUS
  <1>4. ASSUME NEW i \in DOMAIN orders
        PROVE  /\ i \notin fresh /\ i \in DOMAIN orders' /\ orders'[i] = cancelled[i]
               /\ i \in superseded => cancelled[i] = Cancelled(orders[i])
               /\ i \notin superseded => cancelled[i] = orders[i]
    <2>1. orders[i].submit < bar /\ i[1] = orders[i].submit /\ bar \in Nat
          /\ orders[i].submit \in Nat
      BY <1>0, OrderSymbol DEF OrdersInv, FreshIds, OrdersKept, OrderKept, StateTyped
    <2>2. i \notin fresh  BY <2>1
    <2> HIDE DEF fresh, superseded
    <2> QED BY <1>1, <2>2 DEF Moved, Cancelled
  <1>5. ASSUME NEW i \in fresh
        PROVE  \E r \in renewed : /\ i = <<bar, r, 1>> /\ i \in DOMAIN orders'
                                  /\ orders'[i] = Submitted(target, r)
                                  /\ orders'[i].sym = r /\ i \in Active(orders')
    <2>1. PICK r \in renewed : i = <<bar, r, 1>>  OBVIOUS
    <2>2. i \in DOMAIN orders' /\ orders'[i] = new(i) /\ i[2] = r  BY <1>1, <2>1
    <2> HIDE DEF renewed, fresh, cancelled
    <2>3. orders'[i] = Submitted(target, r)  BY <2>2 DEF Submitted
    <2>4. orders'[i].sym = r /\ orders'[i].status = "submitted"
      BY <2>3 DEF Submitted, Pending
    <2> QED BY <2>1, <2>2, <2>3, <2>4 DEF Active, Done
  <1>6. \A i \in DOMAIN orders' : i \in DOMAIN orders \/ i \in fresh  BY <1>1
  <1>7. \A r \in renewed : <<bar, r, 1>> \in fresh  OBVIOUS
  <1>8. \A i \in DOMAIN orders : Cancelled(orders[i]).status = "cancelled"
                                 /\ Cancelled(orders[i]).sym = orders[i].sym
    BY OrderSymbol DEF Cancelled, OrderRecord
  <1>9. \A i \in superseded : i \in Active(orders) /\ orders[i].sym \notin kept  OBVIOUS
  <1>10. \A i \in Active(orders) : i \notin superseded => orders[i].sym \in kept  OBVIOUS
  <1> HIDE DEF kept, superseded, renewed, fresh, cancelled
  <1>11. ASSUME NEW i \in Active(orders'), i \notin fresh
         PROVE  i \in Active(orders) /\ orders'[i] = orders[i] /\ orders[i].sym \in kept
    <2>1. i \in DOMAIN orders' /\ orders'[i].status \notin Done  BY DEF Active
    <2>2. i \in DOMAIN orders  BY <1>6, <1>11, <2>1
    <2>3. i \notin superseded  BY <1>4, <1>8, <2>1, <2>2 DEF Done
    <2>4. orders'[i] = orders[i]  BY <1>4, <2>2, <2>3
    <2>5. i \in Active(orders)  BY <2>1, <2>2, <2>4 DEF Active
    <2> QED BY <1>10, <2>3, <2>4, <2>5
  <1>12. ASSUME Keeps(target, s)
         PROVE  /\ \A i \in Live(s) : i \in Active(orders') /\ orders'[i] = orders[i]
                /\ \A i \in Active(orders') : orders'[i].sym = s =>
                     i \in Live(s) /\ orders'[i] = orders[i]
    <2>1. s \in kept /\ s \notin renewed  BY <1>2, <1>3, <1>12
    <2>2. ASSUME NEW i \in Live(s)  PROVE i \in Active(orders') /\ orders'[i] = orders[i]
      <3>1. i \in Active(orders) /\ i \in DOMAIN orders /\ orders[i].sym = s
        BY DEF Live, Active
      <3>2. i \notin superseded  BY <1>9, <2>1, <3>1
      <3> QED BY <1>4, <3>1, <3>2 DEF Active
    <2>3. ASSUME NEW i \in Active(orders'), orders'[i].sym = s
          PROVE  i \in Live(s) /\ orders'[i] = orders[i]
      <3>1. i \notin fresh  BY <1>5, <2>1, <2>3
      <3> QED BY <1>11, <2>3, <3>1 DEF Live
    <2> QED BY <2>2, <2>3
  <1>13. ASSUME ~Keeps(target, s)
         PROVE  /\ \A i \in Active(orders') : orders'[i].sym = s =>
                     target[s] - book.qty[s] # 0 /\ orders'[i] = Submitted(target, s)
                /\ target[s] - book.qty[s] # 0 =>
                     \E i \in Active(orders') : orders'[i] = Submitted(target, s)
    <2>1. s \notin kept  BY <1>2, <1>13
    <2>2. ASSUME NEW i \in Active(orders'), orders'[i].sym = s
          PROVE  target[s] - book.qty[s] # 0 /\ orders'[i] = Submitted(target, s)
      <3>1. i \in fresh  BY <1>11, <2>1, <2>2
      <3> QED BY <1>3, <1>5, <2>2, <3>1
    <2>3. ASSUME target[s] - book.qty[s] # 0
          PROVE  \E i \in Active(orders') : orders'[i] = Submitted(target, s)
      <3>1. s \in renewed  BY <1>3, <2>1, <2>3
      <3>2. PICK r \in renewed : /\ <<bar, s, 1>> = <<bar, r, 1>>
                                 /\ orders'[<<bar, s, 1>>] = Submitted(target, r)
                                 /\ <<bar, s, 1>> \in Active(orders')
        BY <1>5, <1>7, <3>1
      <3> QED BY <3>2
    <2> QED BY <2>2, <2>3
  <1> QED BY <1>12, <1>13

(* What a settlement at the market is. *)
LEMMA SettlementFacts ==
  ASSUME OrdersInv, SettlesAtMarket
  PROVE  /\ Direct = {} /\ Kind = "market" /\ ~HasProfile
         /\ AgentStop = Stop - Latency - 1 /\ AgentStop \in Nat
  <1>1. setup \in Setups /\ Settle /\ Direct = {} /\ Kind = "market" /\ ~HasProfile
    BY DEF SettlesAtMarket, OrdersInv, StateTyped
  <1>2. Stop > Latency + 1  BY <1>1, OrdersAssumption DEF Settle, Stop, Latency
  <1>3. Stop \in Nat /\ Latency \in Nat  BY Basics
  <1> QED BY <1>1, <1>2, <1>3 DEF AgentStop

(* The closing orders of the next state. *)
LEMMA ClosingNext ==
  ASSUME setup' = setup
  PROVE  /\ Covered(book, orders)' <=> Covered(book', orders')
         /\ OnlyClosing(book, orders)' <=> OnlyClosing(book', orders')
  BY SetupKept, ConstantsKept DEF Covered, OnlyClosing, Matches, Active

(* In the reserved intervals the session submits an order that closes each  *)
(* position, in time, or keeps the one it finds.                            *)
LEMMA SettlementDecides ==
  ASSUME OrdersInv, LedgerInv, SettlesAtMarket, NEW target \in [Symbols -> Positions],
         Decide(target), bar >= AgentStop, bar > AgentStop => Covered(book, orders)
  PROVE  Covered(book', orders') /\ OnlyClosing(book', orders')
  <1>0. /\ Direct = {} /\ Kind = "market" /\ ~HasProfile
        /\ AgentStop = Stop - Latency - 1
        /\ Latency \in Nat /\ bar \in Nat /\ Stop \in Nat
    BY SettlementFacts, Basics
  <1>1. target = Flat /\ pc = "decide" /\ book' = book  BY DEF Decide
  <1>2. /\ book.qty \in [Symbols -> Int]
        /\ \A i \in Active(orders) : orders[i].left # 0
        /\ \A i \in DOMAIN orders : orders[i].eligible = orders[i].submit + Latency
    BY <1>0 DEF LedgerInv, Account, Money
  <1>3. \A s \in Symbols : target[s] = 0 /\ target[s] - book.qty[s] = -book.qty[s]
    BY <1>1, <1>2 DEF Flat
  <1>4. ASSUME NEW s \in Symbols, book.qty[s] # 0  PROVE Reducing(target, s)
    <2>1. book.qty[s] \in Int  BY <1>2
    <2>2. book.qty[s] * target[s] >= 0 /\ Abs(target[s]) < Abs(book.qty[s])
      BY <1>3, <1>4, <2>1 DEF Abs
    <2> QED BY <1>0, <1>3, <1>4, <2>2 DEF Reducing
  <1>5. ASSUME NEW i \in Active(orders)
        PROVE  /\ i \in DOMAIN orders /\ orders[i].left \in Int /\ orders[i].sym \in Symbols
               /\ bar = AgentStop => orders[i].eligible < Stop
    <2>1. i \in DOMAIN orders  BY DEF Active
    <2>2. orders[i].submit < bar /\ orders[i].submit \in Nat
      BY <1>0, <1>1, <2>1, OrderSymbol DEF OrdersInv, FreshIds
    <2> QED BY <1>0, <1>2, <2>1, <2>2, OrderSymbol
  <1>6. ASSUME NEW s \in Symbols, NEW i \in Live(s)
        PROVE  i \in Active(orders) /\ orders[i].sym = s /\ Live(s) = {i}
               /\ Residual(s) = orders[i].left /\ Residual(s) # 0
    <2>1. i \in Active(orders) /\ orders[i].sym = s  BY DEF Live
    <2>2. \A j \in Live(s) : j = i  BY <1>0, <2>1, OtherSymbols DEF Live
    <2>3. Live(s) = {i}  BY <2>2
    <2>4. Residual(s) = orders[i].left  BY <1>5, <2>1, <2>3, ResidualOfFew
    <2> QED BY <1>2, <2>1, <2>3, <2>4
  <1>7. ASSUME NEW s \in Symbols, NEW i \in Live(s), Keeps(target, s)
        PROVE  Matches(book, orders[i])
    <2>1. orders[i].left = -book.qty[s] /\ book.qty[s] # 0 /\ orders[i].sym = s
          /\ i \in Active(orders)
      BY <1>2, <1>3, <1>6, <1>7 DEF Keeps
    <2>2. orders[i].reduce = Reducing(target, s) /\ orders[i].kind = "market"
          /\ orders[i].tif = "gtc" /\ orders[i].expiry = Never
      BY <1>0, <1>7 DEF Keeps, Compatible
    <2>3. orders[i].reduce  BY <1>4, <2>1, <2>2
    <2>4. orders[i].eligible < Stop
      <3>1. CASE bar = AgentStop  BY <1>5, <2>1, <3>1
      <3>2. CASE bar # AgentStop
        <4>1. bar > AgentStop  BY <1>0, <3>2
        <4>2. PICK k \in Active(orders) : orders[k].sym = s /\ Matches(book, orders[k])
          BY <2>1, <4>1 DEF Covered
        <4>3. k = i  BY <1>0, <2>1, <4>2, OtherSymbols
        <4> QED BY <4>2, <4>3 DEF Matches
      <3> QED BY <3>1, <3>2
    <2> QED BY <2>1, <2>2, <2>3, <2>4 DEF Matches
  <1>8. ASSUME NEW s \in Symbols, ~Keeps(target, s), book.qty[s] # 0
        PROVE  Matches(book, Submitted(target, s)) /\ Submitted(target, s).sym = s
    <2>1. bar = AgentStop
      <3>1. SUFFICES ASSUME bar # AgentStop PROVE FALSE  OBVIOUS
      <3>2. bar > AgentStop  BY <1>0, <3>1
      <3>3. PICK k \in Active(orders) : orders[k].sym = s /\ Matches(book, orders[k])
        BY <1>8, <3>2 DEF Covered
      <3>4. k \in Live(s)  BY <3>3 DEF Live
      <3>5. Live(s) = {k} /\ Residual(s) = -book.qty[s]  BY <1>6, <3>3, <3>4 DEF Matches
      <3>6. Compatible(orders[k], Reducing(target, s))
        BY <1>0, <1>4, <1>8, <3>3, Zenon DEF Compatible, Matches
      <3> QED BY <1>3, <1>8, <3>5, <3>6 DEF Keeps
    <2> DEFINE o == Submitted(target, s)
    <2>2. /\ o.left = -book.qty[s] /\ o.sym = s /\ o.kind = "market" /\ o.tif = "gtc"
          /\ o.expiry = Never /\ o.eligible = bar + Latency /\ o.reduce = Reducing(target, s)
      BY <1>0, <1>3 DEF Submitted, Pending
    <2> HIDE DEF o
    <2>3. o.reduce  BY <1>4, <1>8, <2>2
    <2>4. o.eligible < Stop  BY <1>0, <2>1, <2>2
    <2>5. Matches(book, o)  BY <2>2, <2>3, <2>4 DEF Matches
    <2> QED BY <2>2, <2>5 DEF o
  <1>9. ASSUME NEW s \in Symbols, ~Keeps(target, s), book.qty[s] = 0
        PROVE  \A i \in Active(orders') : orders'[i].sym # s
    BY <1>3, <1>9, DecidedSymbol
  <1>10. ASSUME NEW s \in Symbols, Keeps(target, s), book.qty[s] # 0
         PROVE  \E i \in Live(s) : TRUE
    <2>1. Residual(s) # 0  BY <1>2, <1>3, <1>10 DEF Keeps
    <2> QED BY <2>1, ResidualOfFew
  <1>11. ASSUME NEW s \in Symbols, book.qty[s] # 0
         PROVE  \E i \in Active(orders') : orders'[i].sym = s /\ Matches(book, orders'[i])
    <2>1. CASE Keeps(target, s)
      <3>1. PICK i \in Live(s) : TRUE  BY <1>10, <1>11, <2>1
      <3>2. i \in Active(orders') /\ orders'[i] = orders[i]  BY <2>1, <3>1, DecidedSymbol
      <3>3. orders[i].sym = s /\ Matches(book, orders[i])  BY <1>6, <1>7, <2>1, <3>1
      <3> QED BY <3>2, <3>3
    <2>2. CASE ~Keeps(target, s)
      <3>1. target[s] - book.qty[s] # 0  BY <1>2, <1>3, <1>11
      <3>2. PICK i \in Active(orders') : orders'[i] = Submitted(target, s)
        BY <2>2, <3>1, DecidedSymbol
      <3> QED BY <1>8, <1>11, <2>2, <3>2
    <2> QED BY <2>1, <2>2
  <1>12. ASSUME NEW i \in Active(orders')  PROVE Matches(book, orders'[i])
    <2>1. i \in DOMAIN orders'  BY DEF Active
    <2>2. orders'[i].sym \in Symbols
      <3>1. OrdersInv'  BY OrdersStep DEF Next
      <3>2. Symbols' = Symbols  BY SetupStays, SetupKept DEF Next
      <3> QED BY <2>1, <3>1, <3>2 DEF OrdersInv, OrdersKept, OrderKept, OrderRecord
    <2> DEFINE s == orders'[i].sym
    <2>3. CASE Keeps(target, s)
      <3>1. i \in Live(s) /\ orders'[i] = orders[i]  BY <2>2, <2>3, DecidedSymbol
      <3>2. Matches(book, orders[i])  BY <1>7, <2>2, <2>3, <3>1
      <3> QED BY <3>1, <3>2
    <2>4. CASE ~Keeps(target, s)
      <3>1. orders'[i] = Submitted(target, s)  BY <2>2, <2>4, DecidedSymbol
      <3>2. book.qty[s] # 0  BY <1>9, <2>2, <2>4
      <3>3. Matches(book, Submitted(target, s))  BY <1>8, <2>2, <2>4, <3>2
      <3> QED BY <3>1, <3>3
    <2> QED BY <2>3, <2>4
  <1> QED BY <1>1, <1>11, <1>12 DEF Covered, OnlyClosing

(* A book that died stays dead. *)
LEMMA DeathIsFinal ==
  ASSUME OrdersInv, LedgerInv, [Next]_vars, ~book'.dead
  PROVE  ~book.dead
  <1>0. /\ NSymbols \in Nat /\ Flows \subseteq Int /\ Costs \subseteq Nat /\ Account(book)
    BY Basics DEF LedgerInv
  <1>1. CASE book' = book  BY <1>1
  <1>2. CASE \E flow \in Flows : BeginExhausted(flow)
    <2>1. PICK flow \in Flows : BeginExhausted(flow)  BY <1>2
    <2> DEFINE paid == [book EXCEPT !.cash = @ + flow]
    <2>2. flow \in Int /\ book' = Revalued(paid)  BY <1>0, <2>1 DEF BeginExhausted, Opens
    <2>3. Account(paid) /\ paid.dead = book.dead  BY <1>0, <2>2, AccountPaid
    <2> HIDE DEF paid
    <2> QED BY <1>0, <2>2, <2>3, AccountRevalued
  <1>3. CASE \E gap \in BOOLEAN, flow \in Flows, split, inactive \in SUBSET Symbols,
                recovery \in 0..1 : BeginBar(gap, flow, split, inactive, recovery)
    <2>1. PICK gap \in BOOLEAN, flow \in Flows, split \in SUBSET Symbols,
               inactive \in SUBSET Symbols, recovery \in 0..1 :
            BeginBar(gap, flow, split, inactive, recovery)
      BY <1>3
    <2> DEFINE b == OpenedBook(gap, flow, inactive, recovery)
    <2>2. Opens(b, orders') /\ flow \in Int  BY <1>0, <2>1, BarOpened
    <2>3. ~b.dead => ~book.dead  BY <1>0, <2>2, BarBook
    <2> HIDE DEF b
    <2> QED BY <2>2, <2>3 DEF Opens
  <1>4. CASE \E cost \in Costs : Fill(cost)
    <2>1. PICK cost \in Costs : Fill(cost)  BY <1>4
    <2> DEFINE a == Head(allocs)
    <2>2. pc = "fill" /\ allocs # <<>> /\ book' = Filled(book, orders[a.id].sym, a.q, cost)
      BY <2>1 DEF Fill
    <2>3. a.q \in Int /\ a.id \in DOMAIN orders
      BY <2>2, NextAllocation DEF AllocationRecord
    <2>4. orders[a.id].sym \in Symbols /\ cost \in Int  BY <1>0, <2>3, OrderSymbol
    <2> HIDE DEF a
    <2> QED BY <1>0, <2>2, <2>3, <2>4, AccountFilled
  <1>5. CASE \E flow \in Flows : FinishBar(flow)
    <2>1. PICK flow \in Flows : FinishBar(flow)  BY <1>5
    <2>2. flow \in Int /\ book' = Finished(flow)  BY <1>0, <2>1 DEF FinishBar
    <2> QED BY <1>0, <2>2, AccountFinished
  <1>6. CASE \/ \E target : Decide(target)
             \/ \E intent : Submit(intent)
             \/ Start
             \/ \E i, st : NotAdmitted(i, st)
             \/ \E i : PrepareAccepted(i)
             \/ \E s : Allocate(s)
             \/ NoFill \/ FillAbsorbed \/ ExpireRemainders \/ UNCHANGED vars
    BY <1>1, <1>6 DEF Decide, Submit, Start, NotAdmitted, PrepareAccepted, Allocate, NoFill,
                      FillAbsorbed, ExpireRemainders, vars
  <1> QED BY <1>2, <1>3, <1>4, <1>5, <1>6
          DEF Next, PrepareExpired, PrepareWaits, PrepareInadmissible, PrepareRefused

(* The fields of a history. *)
LEMMA HistoryOf ==
  ASSUME NEW h, NEW w, NEW r, NEW m, h = [within |-> w, reversed |-> r, impeded |-> m]
  PROVE  h.impeded = m
  OBVIOUS

(* What was impeded stays so until the settlement begins. *)
LEMMA ImpededStays ==
  ASSUME LedgerInv, [Next]_vars, ~history'.impeded, ~\E target : Decide(target)
  PROVE  ~history.impeded
  <1>0. DOMAIN history = {"within", "reversed", "impeded"}  BY DEF LedgerInv
  <1>1. CASE \E flow : BeginExhausted(flow)
    <2>1. \E w : history' = [within |-> w, reversed |-> FALSE, impeded |-> history.impeded]
      BY <1>1, Zenon DEF BeginExhausted
    <2> QED BY <2>1
  <1>2. CASE \E gap, flow, split, inactive, recovery :
               BeginBar(gap, flow, split, inactive, recovery)
    <2>1. PICK gap, flow, split, inactive, recovery :
            BeginBar(gap, flow, split, inactive, recovery)
      BY <1>2
    <2> DEFINE x == split # {}
    <2>2. \E w : history' = [within |-> w, reversed |-> FALSE, impeded |-> (history.impeded \/ x)]
      BY <2>1, BarOpened, Zenon
    <2> HIDE DEF x
    <2>3. history'.impeded = (history.impeded \/ x)  BY <2>2, HistoryOf, Zenon
    <2> QED BY <2>3, Zenon
  <1>3. CASE \E i : PrepareRefused(i)
    <2>1. history' = [history EXCEPT !.impeded = TRUE]  BY <1>3 DEF PrepareRefused
    <2> QED BY <1>0, <2>1
  <1>4. CASE \E i : PrepareAccepted(i)
    <2>1. \E x : history' = [history EXCEPT !.reversed = x]  BY <1>4, Zenon DEF PrepareAccepted
    <2> QED BY <1>0, <2>1
  <1>5. CASE \E s : Allocate(s)
    <2>1. \E x : history' = [history EXCEPT !.impeded = history.impeded \/ x]
      BY <1>5, Zenon DEF Allocate
    <2> QED BY <1>0, <2>1
  <1>6. CASE \/ \E intent : Submit(intent)
             \/ Start
             \/ \E i : PrepareExpired(i) \/ PrepareWaits(i) \/ PrepareInadmissible(i)
             \/ NoFill \/ (\E cost : Fill(cost)) \/ FillAbsorbed \/ ExpireRemainders
             \/ (\E flow : FinishBar(flow)) \/ UNCHANGED vars
    <2>1. history' = history
      BY <1>6 DEF Submit, Start, PrepareExpired, PrepareWaits, PrepareInadmissible,
                      NoFill, Fill, FillAbsorbed, ExpireRemainders, FinishBar, vars
    <2> QED BY <2>1
  <1> QED BY <1>1, <1>2, <1>3, <1>4, <1>5, <1>6 DEF Next

(* A settlement was one before the step, or begins with a decision. *)
LEMMA SettlingBefore ==
  ASSUME OrdersInv, LedgerInv, [Next]_vars, Settling'
  PROVE  /\ SettlesAtMarket /\ Direct = {} /\ ~book.dead /\ ~book'.dead /\ ~history'.impeded
         /\ setup' = setup /\ AgentStop' = AgentStop
         /\ Settling \/ \E target : Decide(target)
  <1>1. /\ setup' = setup /\ SettlesAtMarket /\ AgentStop' = AgentStop
        /\ ~book'.dead /\ ~history'.impeded
    BY SetupStays, ConstantsKept DEF Settling
  <1> QED BY <1>1, DeathIsFinal, ImpededStays, SettlementFacts DEF Settling

(* Closing orders stay while no order is cancelled and the book is left.    *)
LEMMA ClosingStays ==
  ASSUME CalmOrders, Active(orders) \subseteq Active(orders'), book'.qty = book.qty
  PROVE  /\ Covered(book, orders) => Covered(book', orders')
         /\ OnlyClosing(book, orders) => OnlyClosing(book', orders')
  <1>1. \A i \in Active(orders) : i \in DOMAIN orders /\ Calm(orders[i], orders'[i])
    BY DEF CalmOrders, Active
  <1>2. Active(orders') = Active(orders)  BY DEF CalmOrders
  <1> QED BY <1>1, <1>2 DEF Covered, OnlyClosing, Matches, Calm

(* A bar opens: what is delisted is closed and cancelled. *)
LEMMA SettlementOpens ==
  ASSUME OrdersInv, LedgerInv, SettleInv, NEW gap \in BOOLEAN, NEW flow \in Flows,
         NEW split \in SUBSET Symbols, NEW inactive \in SUBSET Symbols, NEW recovery \in 0..1,
         BeginBar(gap, flow, split, inactive, recovery)
  PROVE  SettleInv'
  <1> SUFFICES ASSUME Settling'  PROVE SettleInv'  BY DEF SettleInv
  <1>n. [Next]_vars  BY DEF Next
  <1>0. /\ SettlesAtMarket /\ Direct = {} /\ ~book.dead /\ ~book'.dead /\ ~history'.impeded
        /\ setup' = setup /\ AgentStop' = AgentStop /\ (Settling \/ \E target : Decide(target))
    BY <1>n, SettlingBefore
  <1> DEFINE b == OpenedBook(gap, flow, inactive, recovery)
  <1>1. /\ pc = "begin" /\ Opens(b, orders')
        /\ orders' = [i \in DOMAIN orders |->
                         IF i \in {k \in Active(orders) :
                                     (gap /\ b.dead) \/ orders[k].sym \in split \cup inactive}
                         THEN [orders[i] EXCEPT !.status = "cancelled", !.last = bar + 1]
                         ELSE orders[i]]
        /\ history' = [within |-> ~OverCap(b), reversed |-> FALSE,
                       impeded |-> history.impeded \/ split # {}]
    BY BarOpened
  <1>2. /\ NSymbols \in Nat /\ flow \in Int /\ Account(book) /\ bar \in Nat
        /\ AgentStop \in Nat
    BY <1>0, Basics, SettlementFacts DEF LedgerInv
  <1>3. /\ Account(b)
        /\ ~b.dead => /\ Equity(b) > 0
                      /\ \A s \in Symbols : b.qty[s] = IF s \in inactive THEN 0 ELSE book.qty[s]
    <2>1. Account(b)  BY <1>2, BarBook
    <2>2. ~b.dead => /\ ~book.dead /\ Equity(b) > 0
                     /\ \A s \in Symbols : b.qty[s] = IF s \in inactive THEN 0 ELSE book.qty[s]
      <3> SUFFICES ASSUME ~b.dead
                   PROVE  /\ ~book.dead /\ Equity(b) > 0
                          /\ \A s \in Symbols : b.qty[s] = IF s \in inactive THEN 0 ELSE book.qty[s]
        OBVIOUS
      <3>1. ~book.dead  BY <1>2, BarBook
      <3>2. Equity(b) > 0  BY <1>2, BarBook
      <3>3. \A s \in Symbols : b.qty[s] = IF s \in inactive THEN 0 ELSE book.qty[s]
        BY <1>2, BarBook
      <3> QED BY <3>1, <3>2, <3>3
    <2> HIDE DEF b
    <2> QED BY <2>1, <2>2
  <1>4. split = {}
    <2> DEFINE x == split # {}
    <2>1. \E w : history' = [within |-> w, reversed |-> FALSE, impeded |-> (history.impeded \/ x)]
      BY <1>1, Zenon
    <2> HIDE DEF x
    <2>2. history'.impeded = (history.impeded \/ x)  BY <2>1, HistoryOf, Zenon
    <2>3. ~x  BY <1>0, <2>2, Zenon
    <2> QED BY <2>3 DEF x
  <1> HIDE DEF b
  <1>5. /\ bar' = bar + 1 /\ book' = b /\ view' = Projection(b) /\ accepted' = {}
        /\ pc' = AfterBegin(b, orders') /\ allocs' = allocs
        /\ todo' = IF pc' = "prepare" THEN Active(orders') ELSE {}
    BY <1>1, Zenon DEF Opens, fillVars
  <1>6. /\ pc' = IF Active(orders') = {} THEN "fill" ELSE "prepare"
        /\ ~b.dead /\ Equity(b) > 0
        /\ \A s \in Symbols : b.qty[s] = IF s \in inactive THEN 0 ELSE book.qty[s]
    BY <1>0, <1>3, <1>5 DEF AfterBegin
  <1>7. ASSUME bar' > AgentStop'
        PROVE  Covered(book', orders') /\ OnlyClosing(book', orders')
    <2>1. Settling /\ bar >= AgentStop
      <3>1. Settling  BY <1>0, <1>1 DEF Decide
      <3> QED BY <1>0, <1>2, <1>5, <1>7, <3>1
    <2>2. Covered(book, orders) /\ OnlyClosing(book, orders)
      BY <1>1, <2>1 DEF SettleInv
    <2>3. ASSUME NEW i \in Active(orders')
          PROVE  i \in Active(orders) /\ orders'[i] = orders[i] /\ orders[i].sym \notin inactive
                 /\ orders[i].sym \in Symbols
      <3>1. i \in DOMAIN orders /\ orders'[i].status \notin Done  BY <1>1 DEF Active
      <3> DEFINE hit == {k \in Active(orders) : (gap /\ b.dead) \/ orders[k].sym \in split \cup inactive}
      <3>2. i \notin hit
        <4>1. SUFFICES ASSUME i \in hit  PROVE FALSE  OBVIOUS
        <4>2. orders'[i] = [orders[i] EXCEPT !.status = "cancelled", !.last = bar + 1]
          BY <1>1, <3>1, <4>1
        <4>3. orders[i] \in OrderRecord  BY <3>1, OrderSymbol
        <4>4. orders'[i].status = "cancelled"  BY <4>2, <4>3 DEF OrderRecord
        <4> QED BY <3>1, <4>4 DEF Done
      <3>3. orders'[i] = orders[i]  BY <1>1, <3>1, <3>2
      <3>4. i \in Active(orders)  BY <3>1, <3>3 DEF Active
      <3>5. orders[i].sym \notin inactive  BY <3>2, <3>4
      <3> QED BY <3>1, <3>3, <3>4, <3>5, OrderSymbol
    <2>4. ASSUME NEW i \in Active(orders), orders[i].sym \notin inactive
          PROVE  i \in Active(orders') /\ orders'[i] = orders[i]
      <3>1. i \in DOMAIN orders  BY DEF Active
      <3>2. orders'[i] = orders[i]  BY <1>1, <1>4, <1>6, <2>4, <3>1
      <3> QED BY <1>1, <3>1, <3>2 DEF Active
    <2>5. OnlyClosing(book', orders')
      <3> SUFFICES ASSUME NEW i \in Active(orders')  PROVE Matches(book', orders'[i])
        BY DEF OnlyClosing
      <3>1. Matches(book, orders[i]) /\ book'.qty[orders[i].sym] = book.qty[orders[i].sym]
        BY <1>5, <1>6, <2>2, <2>3 DEF OnlyClosing
      <3> QED BY <2>3, <3>1 DEF Matches
    <2>6. Covered(book', orders')
      <3> SUFFICES ASSUME NEW s \in Symbols, book'.qty[s] # 0
                   PROVE  \E i \in Active(orders') : orders'[i].sym = s /\ Matches(book', orders'[i])
        BY DEF Covered
      <3>1. s \notin inactive /\ book.qty[s] # 0  BY <1>5, <1>6
      <3>2. PICK i \in Active(orders) : orders[i].sym = s  BY <2>2, <3>1 DEF Covered
      <3>3. i \in Active(orders') /\ orders'[i] = orders[i]  BY <2>4, <3>1, <3>2
      <3> QED BY <2>5, <3>2, <3>3 DEF OnlyClosing
    <2> QED BY <2>5, <2>6
  <1>8. ASSUME bar' > AgentStop'
        PROVE  (Covered(book, orders) /\ OnlyClosing(book, orders))'
    BY <1>0, <1>7, <1>8, ClosingNext
  <1>9. ASSUME pc' = "prepare"  PROVE WillAdmit' /\ (Equity(book))' > 0
    <2>1. /\ view'.qty = b.qty /\ view'.cash = b.cash /\ view'.free = b.qty
          /\ ~view'.dead /\ view'.over = OverCap(b)
      <3> DEFINE rich == Equity(b) > 0
                 poor == Equity(b) <= 0
                 cap == OverCap(b)
      <3>1. Equity(b) \in Int  BY <1>2, <1>3, WorthTyped DEF Account
      <3>2. rich /\ ~poor  BY <1>6, <3>1
      <3>3. view' = [qty |-> b.qty, cash |-> b.cash, dead |-> (b.dead \/ poor),
                     over |-> (~b.dead /\ rich /\ cap), free |-> b.qty]
        BY <1>5 DEF Projection
      <3>a. cap \in BOOLEAN  BY DEF OverCap
      <3> HIDE DEF rich, poor, cap
      <3>4. /\ view'.qty = b.qty /\ view'.cash = b.cash /\ view'.free = b.qty
            /\ view'.dead = (b.dead \/ poor) /\ view'.over = (~b.dead /\ rich /\ cap)
        BY <3>3
      <3>5. ~view'.dead /\ view'.over = cap  BY <1>6, <3>a, <3>2, <3>4, Zenon
      <3> QED BY <3>4, <3>5 DEF cap
    <2>2. /\ (OverCap(book))' = OverCap(b) /\ (Equity(book))' = Equity(b)
      BY <1>0, <1>5, SumsStay DEF OverCap
    <2>3. Active(orders)' = Active(orders')  BY DEF Active
    <2>4. todo' = Active(orders') /\ accepted' = {}  BY <1>5, <1>9
    <2>5. WillAdmit'
      BY <1>5, <2>1, <2>2, <2>3, <2>4 DEF WillAdmit
    <2> QED BY <1>6, <2>2, <2>5
  <1>10. ASSUME pc' = "fill"  PROVE WillFill'
    <2>1. Active(orders') = {}  BY <1>6, <1>10
    <2>2. allocs' = <<>>  BY <1>1, <1>5 DEF OrdersInv, AllocInv
    <2>3. Active(orders)' = {}  BY <2>1 DEF Active
    <2>4. Len(allocs') = 0 /\ 1..0 = {}  BY <2>2
    <2>5. Len(allocs') <= 1 /\ 1..Len(allocs') = {}  BY <2>4
    <2> QED BY <2>3, <2>5 DEF WillFill
  <1>11. pc' \in {"fill", "prepare"}  BY <1>6
  <1> QED BY <1>8, <1>9, <1>10, <1>11 DEF SettleInv

(* The settlement inside the admission pass and the fills. *)
LEMMA SettlingPass ==
  ASSUME OrdersInv, LedgerInv, SettleInv, [Next]_vars, Settling', pc = "prepare",
         bar' = bar, bar' > AgentStop'
  PROVE  /\ Covered(book, orders) /\ OnlyClosing(book, orders) /\ WillAdmit
         /\ Equity(book) > 0 /\ Direct = {} /\ setup' = setup /\ ~history'.impeded
  <1>1. /\ Direct = {} /\ setup' = setup /\ AgentStop' = AgentStop /\ ~history'.impeded
        /\ Settling \/ \E target : Decide(target)
    BY SettlingBefore
  <1>2. Settling  BY <1>1 DEF Decide
  <1> QED BY <1>1, <1>2 DEF SettleInv

(* And inside the fills. *)
LEMMA SettlingFills ==
  ASSUME OrdersInv, LedgerInv, SettleInv, [Next]_vars, Settling', pc = "fill",
         bar' = bar, bar' > AgentStop'
  PROVE  /\ Covered(book, orders) /\ OnlyClosing(book, orders) /\ WillFill
         /\ Direct = {} /\ setup' = setup /\ ~history'.impeded
  <1>1. /\ Direct = {} /\ setup' = setup /\ AgentStop' = AgentStop /\ ~history'.impeded
        /\ Settling \/ \E target : Decide(target)
    BY SettlingBefore
  <1>2. Settling  BY <1>1 DEF Decide
  <1> QED BY <1>1, <1>2 DEF SettleInv

(* An order that closes its position is part of it. *)
LEMMA ClosingOrder ==
  ASSUME OrdersInv, LedgerInv, NEW i \in Active(orders), Matches(book, orders[i])
  PROVE  LET o == orders[i] IN
         /\ i \in DOMAIN orders /\ o.sym \in Symbols /\ o.left \in Int \ {0}
         /\ book.qty[o.sym] \in Int /\ book.qty[o.sym] = -o.left
         /\ book.qty[o.sym] * o.left < 0
         /\ Abs(o.left) = Abs(book.qty[o.sym]) /\ o.reduce
         /\ o.kind = "market" /\ o.expiry = Never /\ o.eligible < Stop
  <1> DEFINE o == orders[i]
             p == book.qty[o.sym]
  <1>1. i \in DOMAIN orders  BY DEF Active
  <1>2. o.sym \in Symbols /\ o.left \in Int  BY <1>1, OrderSymbol
  <1>3. p \in Int /\ o.left # 0 /\ o.left = -p  BY <1>2 DEF LedgerInv, Account, Money, Matches
  <1>4. p * o.left < 0  BY <1>2, <1>3, Products
  <1>5. Abs(o.left) = Abs(p)  BY <1>2, <1>3 DEF Abs
  <1> QED BY <1>1, <1>2, <1>3, <1>4, <1>5 DEF Matches

(* No closing order of a book that is worth something is refused. *)
LEMMA ClosingAdmissible ==
  ASSUME OrdersInv, LedgerInv, WillAdmit, Equity(book) > 0, NEW i \in todo,
         Matches(book, orders[i])
  PROVE  Admissible(orders[i]) /\ Closes(orders[i], view.qty[orders[i].sym])
  <1> DEFINE o == orders[i]
             s == o.sym
             after == [view EXCEPT !.qty[s] = @ + o.left]
  <1>1. i \in Active(orders)  BY DEF OrdersInv, PassInv
  <1>2. /\ s \in Symbols /\ o.left \in Int \ {0}
        /\ book.qty[s] \in Int /\ book.qty[s] = -o.left
        /\ book.qty[s] * o.left < 0 /\ Abs(o.left) = Abs(book.qty[s]) /\ o.reduce
    BY <1>1, ClosingOrder
  <1>3. /\ view.qty = book.qty /\ view.cash = book.cash /\ ~view.dead
        /\ view.over = OverCap(book) /\ view.free[s] = book.qty[s]
    BY DEF WillAdmit
  <1>4. Equity(view) = Equity(book) /\ Gross(view) = Gross(book)  BY <1>3, WorthSame
  <1>5. /\ NSymbols \in Nat /\ MaxLeverage \in Nat \ {0} /\ Money(view) /\ Projected(view)
        /\ Account(book)
    BY Basics DEF LedgerInv, Projected
  <1>6. /\ after.qty = [view.qty EXCEPT ![s] = @ + o.left] /\ after.cash = view.cash
    BY <1>5 DEF Projected
  <1> HIDE DEF after
  <1>7. /\ Money(after) /\ after.qty[s] = 0
        /\ \A r \in Symbols : r # s => after.qty[r] = view.qty[r]
    BY <1>2, <1>3, <1>5, <1>6 DEF Money
  <1>8. Gross(after) = Gross(view) + (Abs(after.qty[s]) - Abs(view.qty[s]))
    BY <1>2, <1>5, <1>7, GrossChanges
  <1>9. /\ Gross(view) \in Nat /\ Gross(after) \in Nat /\ Equity(view) \in Int
    BY <1>5, <1>7, WorthTyped
  <1>10. Gross(after) < Gross(view)
    <2>1. Abs(after.qty[s]) = 0 /\ Abs(view.qty[s]) > 0 /\ Abs(view.qty[s]) \in Int
      BY <1>2, <1>3, <1>7 DEF Abs
    <2> HIDE DEF Abs
    <2> QED BY <1>8, <1>9, <2>1
  <1>11. Closes(o, book.qty[s]) /\ Closes(o, view.qty[s])
    <2>1. Abs(o.left) <= Abs(book.qty[s])  BY <1>2 DEF Abs
    <2> QED BY <1>2, <1>3, <2>1 DEF Closes
  <1>12. view.qty[s] + o.left >= 0  BY <1>2, <1>3
  <1>13. ~view.dead /\ Equity(view) > 0  BY <1>3, <1>4
  <1>14. \/ Gross(after) <= Equity(view) * MaxLeverage
         \/ view.over /\ o.reduce /\ Gross(after) < Gross(view)
    <2>1. CASE OverCap(book)  BY <1>2, <1>3, <1>10, <2>1
    <2>2. CASE ~OverCap(book)
      <3>1. Equity(view) * MaxLeverage \in Int  BY <1>5, <1>9
      <3>2. Gross(view) <= Equity(view) * MaxLeverage
        BY <1>4, <1>9, <2>2, <3>1 DEF OverCap
      <3> QED BY <1>9, <1>10, <3>1, <3>2
    <2> QED BY <2>1, <2>2
  <1> DEFINE position == IF view.over THEN view.free[s] ELSE book.qty[s]
  <1>15. position = book.qty[s]  BY <1>3
  <1>16. o.reduce => Closes(o, position)  BY <1>11, <1>15
  <1>17. Admissible(o)
    BY <1>12, <1>13, <1>14, <1>16 DEF Admissible, after
  <1> QED BY <1>11, <1>17

(* An order of the pass waits, or is admitted. *)
LEMMA SettlementPasses ==
  ASSUME OrdersInv, LedgerInv, SettleInv, NEW i \in todo,
         PrepareWaits(i) \/ PrepareAccepted(i)
  PROVE  SettleInv'
  <1>n. [Next]_vars  BY DEF Next
  <1>0. /\ pc = "prepare" /\ bar' = bar /\ book' = book /\ todo' = todo \ {i}
        /\ pc' = (IF todo' = {} THEN "fill" ELSE "prepare") /\ allocs' = allocs
    BY DEF PrepareWaits, NotAdmitted, PrepareAccepted, IsNext, Passed
  <1>1. SUFFICES ASSUME Settling', bar' > AgentStop'  PROVE SettleInv'
    BY <1>0 DEF SettleInv
  <1>2. /\ Covered(book, orders) /\ OnlyClosing(book, orders) /\ WillAdmit
        /\ Equity(book) > 0 /\ Direct = {} /\ setup' = setup
    BY <1>n, <1>0, <1>1, SettlingPass
  <1>3. CalmOrders
    <2>1. TransitionsLegal  BY <1>n, OrdersStep DEF StepLegal
    <2>2. (\E j, st : NotAdmitted(j, st)) \/ (\E j : PrepareAccepted(j))  BY DEF PrepareWaits
    <2> QED BY <2>1, <2>2, CalmSteps
  <1>4. Active(orders) \subseteq Active(orders')
    <2>1. \/ orders' = orders
          \/ orders' = Moved(orders, {i}, "latency_wait")
          \/ orders' = Moved(orders, {i}, "eligible")
      BY DEF PrepareWaits, NotAdmitted, PrepareAccepted
    <2>2. ASSUME NEW st \in {"latency_wait", "eligible"}, orders' = Moved(orders, {i}, st),
                 NEW j \in Active(orders)
          PROVE  j \in Active(orders')
      <3>1. j \in DOMAIN orders /\ orders[j] \in OrderRecord /\ orders[j].status \notin Done
        BY OrderSymbol DEF Active
      <3>2. orders'[j] = orders[j] \/ orders'[j] = [orders[j] EXCEPT !.status = st, !.last = bar]
        BY <2>2, <3>1 DEF Moved
      <3>3. orders'[j].status \notin Done  BY <3>1, <3>2 DEF OrderRecord, Done
      <3>4. j \in DOMAIN orders'  BY <1>3, <3>1 DEF CalmOrders
      <3> QED BY <3>3, <3>4 DEF Active
    <2> QED BY <2>1, <2>2
  <1>5. Covered(book', orders') /\ OnlyClosing(book', orders')
    BY <1>0, <1>2, <1>3, <1>4, ClosingStays
  <1>6. (Covered(book, orders) /\ OnlyClosing(book, orders))'  BY <1>2, <1>5, ClosingNext
  <1>7. i \in Active(orders) /\ Matches(book, orders[i])
    BY <1>2 DEF OrdersInv, PassInv, OnlyClosing
  <1>8. /\ DOMAIN orders' = DOMAIN orders /\ Active(orders') = Active(orders)
        /\ \A j \in DOMAIN orders : orders'[j].sym = orders[j].sym
                                    /\ orders'[j].eligible = orders[j].eligible
        /\ todo \subseteq Active(orders) /\ todo \subseteq DOMAIN orders
        /\ accepted \subseteq DOMAIN orders /\ i \in DOMAIN orders
    BY <1>3, <1>4 DEF CalmOrders, Calm, OrdersInv, PassInv, Active
  <1>9. /\ view'.qty = view.qty /\ view'.cash = view.cash /\ view'.dead = view.dead
        /\ view'.over = view.over
        /\ \A j \in todo' : view'.free[orders[j].sym] = view.free[orders[j].sym]
    <2>1. CASE PrepareWaits(i)
      <3>1. view' = view  BY <2>1 DEF PrepareWaits, NotAdmitted
      <3> QED BY <3>1
    <2>2. CASE PrepareAccepted(i)
      <3> DEFINE o == orders[i]
      <3>1. Closes(o, view.qty[o.sym])  BY <1>2, <1>7, ClosingAdmissible
      <3>2. view' = IF view.over /\ o.reduce THEN [view EXCEPT !.free[o.sym] = @ + o.left] ELSE view
        BY <2>2, <3>1 DEF PrepareAccepted, Reserved
      <3>3. Projected(view)  BY DEF LedgerInv
      <3>4. \A j \in todo' : orders[j].sym # o.sym /\ orders[j].sym \in Symbols
        BY <1>0, <1>2, <1>7, <1>8, OtherSymbols, OrderSymbol
      <3> HIDE DEF o
      <3>5. CASE view' = view  BY <3>5
      <3>6. CASE view' = [view EXCEPT !.free[o.sym] = @ + o.left]
        <4>1. /\ view'.qty = view.qty /\ view'.cash = view.cash /\ view'.dead = view.dead
              /\ view'.over = view.over /\ view'.free = [view.free EXCEPT ![o.sym] = @ + o.left]
          BY <3>3, <3>6 DEF Projected
        <4>2. view.free \in [Symbols -> Int]  BY <3>3 DEF Projected
        <4>3. \A j \in todo' : view'.free[orders[j].sym] = view.free[orders[j].sym]
          BY <3>4, <4>1, <4>2
        <4> QED BY <4>1, <4>3
      <3> QED BY <3>2, <3>5, <3>6
    <2> QED BY <2>1, <2>2
  <1>10. /\ Active(orders') \subseteq
              todo' \cup accepted' \cup {j \in DOMAIN orders' : bar < orders'[j].eligible}
         /\ \A j \in accepted' : orders'[j].sym \in symbols'
    <2>1. CASE PrepareWaits(i)
      <3>1. bar < orders[i].eligible /\ accepted' = accepted /\ symbols' = symbols
        BY <2>1 DEF PrepareWaits, NotAdmitted
      <3> QED BY <1>0, <1>2, <1>8, <3>1 DEF WillAdmit
    <2>2. CASE PrepareAccepted(i)
      <3>1. accepted' = accepted \cup {i} /\ symbols' = symbols \cup {orders[i].sym}
        BY <2>2 DEF PrepareAccepted
      <3> QED BY <1>0, <1>2, <1>8, <3>1 DEF WillAdmit
    <2> QED BY <2>1, <2>2
  <1>11. WillAdmit'
    <2>1. (OverCap(book))' = OverCap(book)  BY <1>0, <1>2, SumsStay DEF OverCap
    <2>2. \A j \in todo' : view'.free[orders'[j].sym] = book'.qty[orders'[j].sym]
      BY <1>0, <1>2, <1>8, <1>9 DEF WillAdmit
    <2>3. Active(orders)' = Active(orders')  BY DEF Active
    <2>4. view'.qty = book'.qty /\ view'.cash = book'.cash /\ ~view'.dead
      BY <1>0, <1>2, <1>9 DEF WillAdmit
    <2>5. view'.over = OverCap(book)  BY <1>2, <1>9 DEF WillAdmit
    <2> QED BY <1>0, <1>10, <2>1, <2>2, <2>3, <2>4, <2>5 DEF WillAdmit
  <1>12. (Equity(book))' > 0  BY <1>0, <1>2, SumsStay
  <1>13. ASSUME pc' = "fill"  PROVE WillFill'
    <2>1. todo' = {}  BY <1>0, <1>13
    <2>2. \A j \in Active(orders') : bar < orders'[j].eligible
                                     \/ (j \in accepted' /\ orders'[j].sym \in symbols')
      BY <1>10, <2>1
    <2>3. allocs' = <<>>  BY <1>0 DEF OrdersInv, AllocInv
    <2>4. Len(allocs') = 0 /\ 1..0 = {}  BY <2>3
    <2>5. Len(allocs') <= 1 /\ 1..Len(allocs') = {}  BY <2>4
    <2>6. Active(orders)' = Active(orders')  BY DEF Active
    <2> QED BY <1>0, <2>2, <2>5, <2>6 DEF WillFill
  <1>14. pc' \in {"fill", "prepare"}  BY <1>0
  <1> QED BY <1>6, <1>11, <1>12, <1>13, <1>14 DEF SettleInv

(* No closing order expires or is refused. *)
LEMMA SettlementAdmits ==
  ASSUME OrdersInv, LedgerInv, SettleInv, NEW i \in todo,
         PrepareExpired(i) \/ PrepareInadmissible(i) \/ PrepareRefused(i)
  PROVE  SettleInv'
  <1>n. [Next]_vars  BY DEF Next
  <1>0. /\ pc = "prepare" /\ bar' = bar
        /\ pc' = (IF todo' = {} THEN "fill" ELSE "prepare")
    BY DEF PrepareExpired, PrepareInadmissible, PrepareRefused, NotAdmitted, IsNext, Passed
  <1>1. SUFFICES ASSUME Settling', bar' > AgentStop'  PROVE FALSE
    BY <1>0 DEF SettleInv
  <1>2. /\ OnlyClosing(book, orders) /\ WillAdmit /\ Equity(book) > 0 /\ ~history'.impeded
    BY <1>n, <1>0, <1>1, SettlingPass
  <1>3. i \in Active(orders) /\ Matches(book, orders[i])
    BY <1>2 DEF OrdersInv, PassInv, OnlyClosing
  <1>4. CASE PrepareExpired(i)
    <2>1. bar > Never /\ bar <= Stop
      BY <1>3, <1>4, ClosingOrder DEF PrepareExpired, LedgerInv
    <2>2. Never = Stop + 1 /\ Stop \in Nat /\ bar \in Nat  BY Basics
    <2> QED BY <2>1, <2>2
  <1>5. CASE PrepareInadmissible(i)
    BY <1>2, <1>3, <1>5, ClosingAdmissible DEF PrepareInadmissible
  <1>6. CASE PrepareRefused(i)
    <2>1. history' = [history EXCEPT !.impeded = TRUE]  BY <1>6 DEF PrepareRefused
    <2>2. DOMAIN history = {"within", "reversed", "impeded"}  BY DEF LedgerInv
    <2> QED BY <1>2, <2>1, <2>2
  <1> QED BY <1>4, <1>5, <1>6

(* A closing order that finds the volume is allocated all of it. *)
LEMMA ClosingShare ==
  ASSUME NEW o, NEW p \in Int, o.left \in Int \ {0}, o.left = -p, o.reduce,
         NEW volume \in Nat, Abs(o.left) <= volume
  PROVE  Share(o, (volume * 2) \div 2, volume, p) = o.left
  <1>1. (volume * 2) \div 2 = volume  OBVIOUS
  <1>2. ~(p * o.left >= 0)  BY Products
  <1> DEFINE reach == Least(volume, volume)
             size == Least(Abs(o.left), Least(reach, Abs(p)))
  <1>3. Share(o, volume, volume, p) = Sign(o.left) * size  BY <1>2 DEF Share
  <1>4. size = Abs(o.left)  BY DEF Least, Abs
  <1> HIDE DEF size
  <1>5. Sign(o.left) * Abs(o.left) = o.left
    <2>1. CASE o.left < 0
      <3>1. Sign(o.left) = -1 /\ Abs(o.left) = -o.left  BY <2>1 DEF Sign, Abs
      <3> QED BY <3>1
    <2>2. CASE ~(o.left < 0)
      <3>1. Sign(o.left) = 1 /\ Abs(o.left) = o.left  BY <2>2 DEF Sign, Abs
      <3> QED BY <3>1
    <2> QED BY <2>1, <2>2
  <1> QED BY <1>1, <1>3, <1>4, <1>5

(* The first of a queue is served from the whole pool. *)
LEMMA FirstAllocated ==
  ASSUME NEW queue, NEW touch, NEW volume, NEW held, Queued(queue, touch, volume, held),
         Len(queue) = 1
  PROVE  LET out == Allocation(queue, touch, volume, held) IN
         /\ DOMAIN out = 1..1 /\ out[1].id = queue[1]
         /\ out[1].q = Share(orders[queue[1]], (volume * touch[queue[1]]) \div 2, volume, held)
  <1> DEFINE left == Remaining(queue, touch, volume, held)
             q(n) == Share(orders[queue[n]], (volume * touch[queue[n]]) \div 2,
                           left[n - 1][1], left[n - 1][2])
             out == Allocation(queue, touch, volume, held)
  <1>1. out = [n \in 1..1 |->
                 [id |-> queue[n], q |-> q(n),
                  closed |-> Closed(orders[queue[n]], q(n), left[n - 1][2])]]
    BY DEF Allocation
  <1>2. left[0] = <<volume, held>>  BY RemainingIsWhole
  <1> HIDE DEF left, out
  <1>3. 1 \in 1..1 /\ 1 - 1 = 0  OBVIOUS
  <1>4. out[1].id = queue[1] /\ out[1].q = q(1)  BY <1>1, <1>3
  <1>5. left[1 - 1][1] = volume /\ left[1 - 1][2] = held  BY <1>2, <1>3
  <1>6. q(1) = Share(orders[queue[1]], (volume * touch[queue[1]]) \div 2, volume, held)
    BY <1>5
  <1> HIDE DEF q
  <1> QED BY <1>1, <1>4, <1>6 DEF out

(* The one order of a symbol is allocated what closes its position. *)
LEMMA SettlementAllocates ==
  ASSUME OrdersInv, LedgerInv, SettleInv, NEW s \in Symbols, Allocate(s)
  PROVE  SettleInv'
  <1>n. [Next]_vars  BY DEF Next
  <1> DEFINE ids == {i \in accepted : orders[i].sym = s}
  <1>0. /\ pc = "fill" /\ pc' = "fill" /\ bar' = bar /\ book' = book /\ allocs = <<>>
        /\ s \in symbols /\ symbols' = symbols \ {s} /\ accepted' = accepted
    BY DEF Allocate, passVars
  <1>1. SUFFICES ASSUME Settling', bar' > AgentStop'  PROVE SettleInv'
    BY <1>0 DEF SettleInv
  <1>2. /\ Covered(book, orders) /\ OnlyClosing(book, orders) /\ WillFill
        /\ Direct = {} /\ setup' = setup /\ ~history'.impeded
    BY <1>n, <1>0, <1>1, SettlingFills
  <1>3. ASSUME NEW i \in ids
        PROVE  i \in Active(orders) /\ Matches(book, orders[i]) /\ orders[i].sym = s
               /\ i \in accepted
    <2>1. i \notin attempted /\ i \in accepted /\ orders[i].sym = s
      BY <1>0 DEF OrdersInv, PassInv
    <2>2. i \in DOMAIN orders /\ orders[i].status \in Working
      BY <2>1 DEF OrdersInv, PassInv
    <2>3. i \in Active(orders)  BY <2>2 DEF Active, Working, Done
    <2> QED BY <1>2, <2>1, <2>3 DEF OnlyClosing
  <1>4. PICK volume \in Volumes, touch \in [ids -> Untouched..2] :
          /\ \A i \in ids : touch[i] \in Touches(orders[i])
          /\ \E queue \in SetToSeqs({i \in ids : touch[i] # Untouched}) :
               allocs' = Allocation(queue, touch, volume, book.qty[s])
          /\ orders' = [i \in DOMAIN orders |->
                 IF i \in {k \in ids : orders[k].kind = "stop_market" /\ ~orders[k].trigger
                                       /\ touch[k] # Untouched}
                 THEN [orders[i] EXCEPT !.status = "triggered", !.trigger = TRUE, !.last = bar]
                 ELSE orders[i]]
          /\ history' = [history EXCEPT !.impeded = @ \/
                 \E i \in ids : \/ touch[i] = Untouched
                                \/ Abs(orders[i].left) > volume]
    <2>1. \E volume \in Volumes, touch \in [ids -> Untouched..2] :
            LET fresh == {i \in ids : /\ orders[i].kind = "stop_market"
                                      /\ ~orders[i].trigger
                                      /\ touch[i] # Untouched}
                rank(i) == Rank(orders[i], i \in fresh)
            IN  /\ \A i \in ids : touch[i] \in Touches(orders[i])
                /\ \E queue \in SetToSeqs({i \in ids : touch[i] # Untouched}) :
                     /\ \A m, n \in DOMAIN queue : m < n =>
                          \/ rank(queue[m]) < rank(queue[n])
                          \/ /\ rank(queue[m]) = rank(queue[n])
                             /\ orders[queue[m]].eligible <= orders[queue[n]].eligible
                     /\ allocs' = Allocation(queue, touch, volume, book.qty[s])
                /\ orders' = [i \in DOMAIN orders |->
                       IF i \in fresh
                       THEN [orders[i] EXCEPT !.status = "triggered",
                                              !.trigger = TRUE, !.last = bar]
                       ELSE orders[i]]
                /\ history' = [history EXCEPT !.impeded = @ \/
                       \E i \in ids : \/ touch[i] = Untouched
                                      \/ Abs(orders[i].left) > volume]
      BY Zenon DEF Allocate
    <2> HIDE DEF ids
    <2> QED BY <2>1, Zenon
  <1>5. PICK queue \in SetToSeqs({i \in ids : touch[i] # Untouched}) :
          allocs' = Allocation(queue, touch, volume, book.qty[s])
    BY <1>4
  <1>6. \A i \in ids : touch[i] # Untouched /\ ~(Abs(orders[i].left) > volume)
    <2> DEFINE bad == \E i \in ids : \/ touch[i] = Untouched
                                     \/ Abs(orders[i].left) > volume
    <2>1. history' = [history EXCEPT !.impeded = @ \/ bad]  BY <1>4
    <2>2. DOMAIN history = {"within", "reversed", "impeded"}  BY DEF LedgerInv
    <2> HIDE DEF bad
    <2>3. ~bad  BY <1>2, <2>1, <2>2
    <2> QED BY <2>3 DEF bad
  <1> HIDE DEF ids
  <1>7. DOMAIN orders' = DOMAIN orders /\ \A i \in DOMAIN orders : orders'[i] = orders[i]
    <2>1. \A k \in ids : orders[k].kind = "market"  BY <1>3 DEF Matches
    <2>2. {k \in ids : orders[k].kind = "stop_market" /\ ~orders[k].trigger
                       /\ touch[k] # Untouched} = {}
      BY <2>1
    <2>3. orders' = [i \in DOMAIN orders |-> orders[i]]  BY <1>4, <2>2
    <2> QED BY <2>3
  <1>8. Active(orders') = Active(orders)  BY <1>7 DEF Active
  <1>9. CalmOrders  BY <1>7, <1>8 DEF CalmOrders, Calm
  <1>10. (Covered(book, orders) /\ OnlyClosing(book, orders))'
    BY <1>0, <1>2, <1>8, <1>9, ClosingStays, ClosingNext
  <1>11. IsFiniteSet(ids) /\ Cardinality(ids) <= 1
         /\ (ids # {} => Cardinality(ids) = 1)
    <2>1. CASE ids = {}  BY <2>1, FS_EmptySet
    <2>2. CASE ids # {}
      <3>1. PICK i \in ids : TRUE  BY <2>2
      <3>2. \A j \in ids : j = i  BY <1>2, <1>3, OtherSymbols
      <3>3. ids = {i}  BY <3>1, <3>2
      <3>4. IsFiniteSet({i}) /\ Cardinality({i}) = 1  BY FS_Singleton
      <3>5. IsFiniteSet(ids) /\ Cardinality(ids) = 1  BY <3>3, <3>4
      <3> HIDE DEF ids
      <3> QED BY <3>5
    <2> QED BY <2>1, <2>2
  <1>12. queue \in Seq(ids) /\ Len(queue) = Cardinality(ids)
    <2>1. {i \in ids : touch[i] # Untouched} = ids  BY <1>6
    <2>2. queue \in SetToSeqs(ids)  BY <1>5, <2>1
    <2>3. Cardinality(ids) \in Nat  BY <1>11, FS_CardinalityType
    <2>4. queue \in [1..Cardinality(ids) -> ids]  BY <2>2 DEF SetToSeqs
    <2> QED BY <2>3, <2>4
  <1>13. volume \in Nat  BY <1>4, Basics
  <1>14. \A i \in ids : touch[i] = 2
    BY <1>3, <1>4 DEF Touches, Matches
  <1>15. Queued(queue, touch, volume, book.qty[s])
    <2>1. book.qty[s] \in Int  BY DEF LedgerInv, Account, Money
    <2>2. Len(queue) \in Nat /\ \A n \in 1..Len(queue) : queue[n] \in ids  BY <1>12
    <2>3. ASSUME NEW n \in 1..Len(queue)
          PROVE  /\ orders[queue[n]].left \in Int /\ orders[queue[n]].reduce \in BOOLEAN
                 /\ (volume * touch[queue[n]]) \div 2 \in Nat
      <3>1. queue[n] \in DOMAIN orders /\ touch[queue[n]] = 2
        BY <1>3, <1>14, <2>2 DEF Active
      <3>2. (volume * 2) \div 2 \in Nat  BY <1>13
      <3> QED BY <3>1, <3>2, OrderSymbol
    <2> QED BY <1>13, <2>1, <2>2, <2>3 DEF Queued
  <1>16. /\ Len(allocs') <= 1
         /\ \A n \in 1..Len(allocs') : allocs'[n].q = orders[allocs'[n].id].left
         /\ \A i \in ids : allocs' # <<>> /\ allocs'[1].id = i
    <2>1. CASE ids = {}
      <3>1. Len(queue) = 0  BY <1>12, <2>1, FS_EmptySet
      <3>2. DOMAIN allocs' = 1..0  BY <1>5, <1>15, <3>1, AllocationIsPart
      <3>3. allocs' \in Seq(AllocationRecord)
        BY <1>n, OrdersStep, SetupStays, SetupKept DEF OrdersInv, AllocInv
      <3>4. 1..0 = {}  OBVIOUS
      <3>5. Len(allocs') = 0 /\ 1..Len(allocs') = {}  BY <3>2, <3>3, <3>4
      <3> QED BY <2>1, <3>5
    <2>2. CASE ids # {}
      <3>1. Len(queue) = 1 /\ queue[1] \in ids  BY <1>11, <1>12, <2>2
      <3>2. /\ DOMAIN allocs' = 1..1 /\ allocs'[1].id = queue[1]
            /\ allocs'[1].q = Share(orders[queue[1]], (volume * touch[queue[1]]) \div 2,
                                    volume, book.qty[s])
        BY <1>5, <1>15, <3>1, FirstAllocated
      <3>3. allocs'[1].q = orders[queue[1]].left
        <4> DEFINE o == orders[queue[1]]
        <4>1. /\ o.left \in Int \ {0} /\ book.qty[s] \in Int /\ book.qty[s] = -o.left
              /\ o.reduce /\ Abs(o.left) \in Int
          <5>1. queue[1] \in Active(orders) /\ Matches(book, o) /\ o.sym = s  BY <1>3, <3>1
          <5>2. o.left \in Int \ {0} /\ book.qty[s] \in Int /\ book.qty[s] = -o.left /\ o.reduce
            BY <5>1, ClosingOrder
          <5> QED BY <5>2 DEF Abs
        <4>2. Abs(o.left) <= volume  BY <1>6, <1>13, <3>1, <4>1
        <4>3. touch[queue[1]] = 2  BY <1>14, <3>1
        <4>4. allocs'[1].q = Share(o, (volume * 2) \div 2, volume, book.qty[s])
          BY <3>2, <4>3
        <4> HIDE DEF o
        <4>5. o.left = -book.qty[s]  BY <4>1
        <4>6. Share(o, (volume * 2) \div 2, volume, book.qty[s]) = o.left
          BY <1>13, <4>1, <4>2, <4>5, ClosingShare
        <4> QED BY <4>4, <4>6 DEF o
      <3>4. allocs' \in Seq(AllocationRecord)
        BY <1>n, OrdersStep, SetupStays, SetupKept DEF OrdersInv, AllocInv
      <3>5. Len(allocs') = 1  BY <3>2, <3>4
      <3>6. ASSUME NEW i \in ids  PROVE i = queue[1]
        <4>1. /\ i \in Active(orders) /\ queue[1] \in Active(orders)
              /\ orders[i].sym = s /\ orders[queue[1]].sym = s
          BY <1>3, <3>1
        <4> QED BY <1>2, <4>1, OtherSymbols
      <3>7. allocs' # <<>> /\ Len(allocs') <= 1
        <4>1. allocs' = <<>> => Len(allocs') = 0  OBVIOUS
        <4> QED BY <3>5, <4>1
      <3>8. ASSUME NEW n \in 1..Len(allocs')
            PROVE  allocs'[n].q = orders[allocs'[n].id].left
        <4>1. n = 1  BY <3>5
        <4> QED BY <3>2, <3>3, <4>1
      <3>9. \A i \in ids : allocs'[1].id = i  BY <3>2, <3>6
      <3> QED BY <3>7, <3>8, <3>9
    <2> QED BY <2>1, <2>2
  <1>17. ASSUME NEW i \in Active(orders')
         PROVE  \/ bar' < orders'[i].eligible
                \/ i \in accepted' /\ orders'[i].sym \in symbols'
                \/ allocs' # <<>> /\ allocs'[1].id = i
    <2>1. i \in Active(orders) /\ orders'[i] = orders[i]  BY <1>7, <1>8 DEF Active
    <2>2. \/ bar < orders[i].eligible
          \/ i \in accepted /\ orders[i].sym \in symbols
      BY <1>0, <1>2, <2>1 DEF WillFill
    <2>3. i \in accepted /\ orders[i].sym = s => i \in ids  BY DEF ids
    <2> QED BY <1>0, <1>16, <2>1, <2>2, <2>3
  <1>18. WillFill'
    <2>1. Active(orders)' = Active(orders')  BY DEF Active
    <2>2. ASSUME NEW n \in 1..Len(allocs')
          PROVE  allocs'[n].q = orders'[allocs'[n].id].left
      <3>1. allocs' \in Seq(AllocationRecord) /\ allocs'[n].id \in attempted'
            /\ attempted' \subseteq DOMAIN orders'
        BY <1>n, OrdersStep, SetupStays, SetupKept DEF OrdersInv, AllocInv, PassInv
      <3>2. allocs'[n].id \in DOMAIN orders  BY <1>7, <3>1
      <3> QED BY <1>7, <1>16, <3>2
    <2> QED BY <1>16, <1>17, <2>1, <2>2 DEF WillFill
  <1> QED BY <1>0, <1>10, <1>18 DEF SettleInv

(* The allocation at the head is of a closing order, in full. *)
LEMMA ClosingAllocation ==
  ASSUME OrdersInv, LedgerInv, OnlyClosing(book, orders), WillFill,
         pc = "fill", allocs # <<>>
  PROVE  LET a == Head(allocs) IN
         /\ allocs[1] = a /\ a.id \in Active(orders) /\ Matches(book, orders[a.id])
         /\ a.q = orders[a.id].left /\ Tail(allocs) = <<>>
  <1> DEFINE a == Head(allocs)
  <1>1. /\ a \in AllocationRecord /\ a.id \in Active(orders)
        /\ Tail(allocs) \in Seq(AllocationRecord)
    BY NextAllocation
  <1>2. allocs \in Seq(AllocationRecord) /\ Len(allocs) = 1 /\ a = allocs[1]
    <2>1. allocs \in Seq(AllocationRecord) /\ Len(allocs) <= 1
      BY DEF OrdersInv, AllocInv, WillFill
    <2>2. Len(allocs) \in Nat /\ Len(allocs) > 0 /\ Head(allocs) = allocs[1]  BY <2>1
    <2>3. Len(allocs) = 1
      <3> DEFINE n == Len(allocs)
      <3>1. n <= 1 /\ n \in Nat /\ n > 0  BY <2>1, <2>2
      <3> HIDE DEF n
      <3>2. n = 1  BY <3>1
      <3> QED BY <3>2 DEF n
    <2> QED BY <2>1, <2>2, <2>3
  <1>3. Tail(allocs) = <<>>
    <2>1. Len(Tail(allocs)) = 0  BY <1>2
    <2> QED BY <1>1, <2>1
  <1>4. a.q = orders[a.id].left
    <2>1. 1 \in 1..Len(allocs)  BY <1>2
    <2> QED BY <1>2, <2>1 DEF WillFill
  <1>5. Matches(book, orders[a.id])  BY <1>1 DEF OnlyClosing
  <1> QED BY <1>1, <1>2, <1>3, <1>4, <1>5

(* A fill closes the position of its order. *)
LEMMA SettlementFills ==
  ASSUME OrdersInv, LedgerInv, SettleInv, NEW cost \in Costs, Fill(cost)
  PROVE  SettleInv'
  <1>n. [Next]_vars  BY DEF Next
  <1> DEFINE a == Head(allocs)
             i == a.id
             s == orders[i].sym
  <1>0. /\ pc = "fill" /\ pc' = "fill" /\ bar' = bar /\ allocs # <<>>
        /\ book' = Filled(book, s, a.q, cost) /\ allocs' = Tail(allocs)
        /\ accepted' = accepted /\ symbols' = symbols
    BY DEF Fill, passVars
  <1>1. SUFFICES ASSUME Settling', bar' > AgentStop'  PROVE SettleInv'
    BY <1>0 DEF SettleInv
  <1>2. /\ Covered(book, orders) /\ OnlyClosing(book, orders) /\ WillFill
        /\ Direct = {} /\ setup' = setup
    BY <1>n, <1>0, <1>1, SettlingFills
  <1>3. /\ allocs[1] = a /\ i \in Active(orders) /\ Matches(book, orders[i])
        /\ a.q = orders[i].left /\ allocs' = <<>>
    BY <1>0, <1>2, ClosingAllocation
  <1>4. /\ i \in DOMAIN orders /\ DOMAIN orders' = DOMAIN orders
        /\ \A j \in DOMAIN orders \ {i} : orders'[j] = orders[j]
        /\ orders'[i].left = orders[i].left - a.q
        /\ orders'[i].left = 0 => i \notin Active(orders')
    BY FilledOrders
  <1>5. /\ s \in Symbols /\ orders[i].left \in Int /\ book.qty[s] \in Int
        /\ book.qty[s] = -orders[i].left
    BY <1>3, ClosingOrder
  <1>6. ~book'.dead  BY <1>n, <1>1, SettlingBefore
  <1>7. NSymbols \in Nat /\ Account(book) /\ cost \in Int /\ a.q \in Int
        /\ book.qty \in [Symbols -> Int]
    BY <1>3, <1>5, Basics DEF LedgerInv, Account, Money
  <1>8. book'.qty = [book.qty EXCEPT ![s] = @ + a.q]
    <2> HIDE DEF a, s
    <2> QED BY <1>0, <1>5, <1>6, <1>7, AccountFilled
  <1> HIDE DEF a
  <1>9. book'.qty[s] = 0 /\ \A r \in Symbols : r # s => book'.qty[r] = book.qty[r]
    BY <1>3, <1>5, <1>7, <1>8
  <1>10. ASSUME NEW j \in Active(orders')
         PROVE  /\ j \in Active(orders) /\ j # i /\ orders'[j] = orders[j]
                /\ orders[j].sym # s /\ orders[j].sym \in Symbols
    <2>1. j \in DOMAIN orders' /\ orders'[j].status \notin Done  BY DEF Active
    <2>2. orders'[i].left = 0  BY <1>3, <1>4, <1>5
    <2>3. j # i /\ orders'[j] = orders[j]  BY <1>4, <2>1, <2>2
    <2>4. j \in Active(orders) /\ j \in DOMAIN orders  BY <1>4, <2>1, <2>3 DEF Active
    <2> QED BY <1>2, <1>3, <2>3, <2>4, OtherSymbols, OrderSymbol
  <1>11. OnlyClosing(book', orders')
    <2> SUFFICES ASSUME NEW j \in Active(orders')  PROVE Matches(book', orders'[j])
      BY DEF OnlyClosing
    <2>1. Matches(book, orders[j])  BY <1>2, <1>10 DEF OnlyClosing
    <2> QED BY <1>9, <1>10, <2>1 DEF Matches
  <1>12. Covered(book', orders')
    <2> SUFFICES ASSUME NEW r \in Symbols, book'.qty[r] # 0
                 PROVE  \E j \in Active(orders') : orders'[j].sym = r /\ Matches(book', orders'[j])
      BY DEF Covered
    <2>1. r # s /\ book.qty[r] # 0  BY <1>9
    <2>2. PICK j \in Active(orders) : orders[j].sym = r  BY <1>2, <2>1 DEF Covered
    <2>3. j # i  BY <2>1, <2>2
    <2>4. j \in DOMAIN orders /\ orders'[j] = orders[j]  BY <1>4, <2>3 DEF Active
    <2>5. j \in Active(orders')  BY <1>4, <2>4 DEF Active
    <2> QED BY <1>11, <2>2, <2>4, <2>5 DEF OnlyClosing
  <1>13. (Covered(book, orders) /\ OnlyClosing(book, orders))'
    BY <1>2, <1>11, <1>12, ClosingNext
  <1>14. WillFill'
    <2>1. Active(orders)' = Active(orders')  BY DEF Active
    <2>2. ASSUME NEW j \in Active(orders')
          PROVE  bar' < orders'[j].eligible \/ (j \in accepted' /\ orders'[j].sym \in symbols')
      BY <1>0, <1>2, <1>3, <1>10 DEF WillFill
    <2>3. Len(allocs') = 0 /\ 1..0 = {}  BY <1>3
    <2>4. Len(allocs') <= 1 /\ 1..Len(allocs') = {}  BY <2>3
    <2> QED BY <2>1, <2>2, <2>4 DEF WillFill
  <1> QED BY <1>0, <1>13, <1>14 DEF SettleInv

(* No closing order is passed over, and no bar breaks off. *)
LEMMA SettlementIsFilled ==
  ASSUME OrdersInv, LedgerInv, SettleInv, NoFill \/ FillAbsorbed
  PROVE  SettleInv'
  <1>n. [Next]_vars  BY DEF Next
  <1>0. pc = "fill" /\ bar' = bar /\ pc' \in {"fill", "finish"}  BY DEF NoFill, FillAbsorbed
  <1>1. SUFFICES ASSUME Settling', bar' > AgentStop'  PROVE FALSE
    BY <1>0 DEF SettleInv
  <1>2. OnlyClosing(book, orders) /\ WillFill  BY <1>n, <1>0, <1>1, SettlingFills
  <1>3. ~book.dead  BY <1>n, <1>1, SettlingBefore
  <1>4. CASE FillAbsorbed  BY <1>3, <1>4 DEF FillAbsorbed, Absorbed
  <1>5. CASE NoFill
    <2> DEFINE a == Head(allocs)
               o == orders[a.id]
    <2>1. allocs # <<>> /\ (a.q = 0 \/ Void(a))  BY <1>5 DEF NoFill
    <2>2. a.id \in Active(orders) /\ Matches(book, o) /\ a.q = o.left
      BY <1>0, <1>2, <2>1, ClosingAllocation
    <2>3. /\ o.left \in Int \ {0} /\ book.qty[o.sym] * o.left < 0
          /\ Abs(o.left) = Abs(book.qty[o.sym]) /\ book.qty[o.sym] \in Int
      BY <2>2, ClosingOrder
    <2> HIDE DEF a
    <2>4. ~Void(a)
      <3>1. ~(book.qty[o.sym] * o.left >= 0)
        <4>1. book.qty[o.sym] * o.left \in Int  BY <2>3
        <4> QED BY <2>3, <4>1
      <3>2. ~(Abs(a.q) > Abs(book.qty[o.sym]))
        <4>1. Abs(a.q) = Abs(book.qty[o.sym]) /\ Abs(book.qty[o.sym]) \in Int
          BY <2>2, <2>3 DEF Abs
        <4> QED BY <4>1
      <3> QED BY <3>1, <3>2 DEF Void
    <2> QED BY <2>1, <2>2, <2>3, <2>4
  <1> QED BY <1>4, <1>5

(* What is not yet eligible outlives the bar. *)
LEMMA SettlementRemains ==
  ASSUME OrdersInv, LedgerInv, SettleInv, ExpireRemainders
  PROVE  SettleInv'
  <1>n. [Next]_vars  BY DEF Next
  <1> DEFINE over == {i \in attempted \cap Active(orders) :
                        \/ orders[i].tif = "ioc"
                        \/ ~PartialCarry /\ orders[i].status = "partially_filled"}
  <1>0. /\ pc = "fill" /\ pc' = "finish" /\ bar' = bar /\ book' = book
        /\ allocs = <<>> /\ symbols = {} /\ orders' = Moved(orders, over, "expired")
    BY DEF ExpireRemainders
  <1>1. SUFFICES ASSUME Settling', bar' > AgentStop'  PROVE SettleInv'
    BY <1>0 DEF SettleInv
  <1>2. /\ Covered(book, orders) /\ WillFill /\ setup' = setup
    BY <1>n, <1>0, <1>1, SettlingFills
  <1>3. \A i \in Active(orders) : bar < orders[i].eligible  BY <1>0, <1>2 DEF WillFill
  <1>4. over = {}
    <2> SUFFICES ASSUME NEW i \in over  PROVE FALSE  OBVIOUS
    <2>1. i \in Active(orders) /\ i \in DOMAIN orders /\ i \in accepted
      BY DEF Active, OrdersInv, PassInv
    <2>2. bar >= orders[i].eligible  BY <2>1 DEF OrdersInv, PassInv, Due
    <2>3. bar \in Nat /\ orders[i].eligible \in Int  BY <2>1, Basics, OrderSymbol
    <2> QED BY <1>3, <2>1, <2>2, <2>3
  <1> HIDE DEF over
  <1>5. DOMAIN orders' = DOMAIN orders /\ \A i \in DOMAIN orders : orders'[i] = orders[i]
    BY <1>0, <1>4 DEF Moved
  <1>6. Active(orders') = Active(orders)  BY <1>5 DEF Active
  <1>7. CalmOrders  BY <1>5, <1>6 DEF CalmOrders, Calm
  <1>8. Covered(book, orders)'  BY <1>0, <1>2, <1>6, <1>7, ClosingStays, ClosingNext
  <1>9. (\A i \in Active(orders) : bar < orders[i].eligible)'
    <2>1. Active(orders)' = Active(orders')  BY DEF Active
    <2>2. \A i \in Active(orders') : bar' < orders'[i].eligible
      BY <1>0, <1>3, <1>5, <1>6 DEF Active
    <2> QED BY <2>1, <2>2
  <1> QED BY <1>0, <1>8, <1>9 DEF SettleInv

(* The bar ends; at the stop no position is left. *)
LEMMA SettlementFinishes ==
  ASSUME OrdersInv, LedgerInv, SettleInv, NEW flow \in Flows, FinishBar(flow)
  PROVE  SettleInv'
  <1>n. [Next]_vars  BY DEF Next
  <1> SUFFICES ASSUME Settling'  PROVE SettleInv'  BY DEF SettleInv
  <1>1. /\ Direct = {} /\ ~book'.dead /\ setup' = setup /\ AgentStop' = AgentStop
        /\ SettlesAtMarket /\ (Settling \/ \E target : Decide(target))
    BY <1>n, SettlingBefore
  <1>2. pc = "finish" /\ bar' = bar /\ book' = Finished(flow)  BY DEF FinishBar
  <1>3. Settling  BY <1>1, <1>2 DEF Decide
  <1>4. /\ NSymbols \in Nat /\ Account(book) /\ flow \in Int /\ AgentStop \in Nat
        /\ bar \in Nat /\ Stop \in Nat /\ AgentStop = Stop - Latency - 1 /\ Latency \in Nat
    BY <1>1, Basics, SettlementFacts DEF LedgerInv
  <1>5. book'.qty = book.qty  BY <1>1, <1>2, <1>4, AccountFinished
  <1>6. /\ orders' = orders /\ pc' \in {"over", "decide"}
        /\ pc' = "over" => bar = Stop
    <2>1. /\ book' = Finished(flow)
          /\ orders' = IF Finished(flow).dead THEN Moved(orders, Active(orders), "cancelled")
                       ELSE orders
          /\ \/ pc' = IF bar = Stop \/ (Direct = {} /\ Finished(flow).dead)
                      THEN "over" ELSE "decide"
             \/ Direct # {} /\ pc' = "begin"
      BY DEF FinishBar
    <2> QED BY <1>1, <2>1
  <1>7. ASSUME bar > AgentStop
        PROVE  /\ Covered(book, orders)
               /\ \A i \in Active(orders) : bar < orders[i].eligible
    BY <1>2, <1>3, <1>7 DEF SettleInv
  <1>8. CASE pc' = "decide"
    <2>1. ASSUME bar' > AgentStop'  PROVE Covered(book, orders)'
      <3>1. Covered(book, orders)  BY <1>1, <1>2, <1>7, <2>1
      <3>2. CalmOrders /\ Active(orders') = Active(orders)
        BY <1>6 DEF CalmOrders, Calm, Active
      <3> QED BY <1>1, <1>5, <3>1, <3>2, ClosingStays, ClosingNext
    <2> QED BY <1>8, <2>1 DEF SettleInv
  <1>9. CASE pc' = "over"
    <2>1. bar = Stop /\ bar > AgentStop  BY <1>4, <1>6, <1>9
    <2>2. ASSUME NEW s \in Symbols  PROVE book.qty[s] = 0
      <3>1. SUFFICES ASSUME book.qty[s] # 0  PROVE FALSE  OBVIOUS
      <3>2. PICK i \in Active(orders) : Matches(book, orders[i])
        BY <1>7, <2>1, <3>1 DEF Covered
      <3>3. bar < orders[i].eligible /\ orders[i].eligible < Stop
        BY <1>7, <2>1, <3>2 DEF Matches
      <3>4. orders[i].eligible \in Int  BY OrderSymbol DEF Active
      <3> QED BY <1>4, <2>1, <3>3, <3>4
    <2>3. book.qty = Flat
      <3>1. book.qty \in [Symbols -> Int]  BY <1>4 DEF Account, Money
      <3> QED BY <2>2, <3>1 DEF Flat
    <2>4. (book.qty = Flat)'  BY <1>1, <1>5, <2>3, SumsStay
    <2> QED BY <1>9, <2>4 DEF SettleInv
  <1> QED BY <1>6, <1>8, <1>9

(* A decision, and the steps a session does not take. *)
LEMMA SettlementDecided ==
  ASSUME OrdersInv, LedgerInv, SettleInv, NEW target \in [Symbols -> Positions], Decide(target)
  PROVE  SettleInv'
  <1>n. [Next]_vars  BY DEF Next
  <1>0. pc = "decide" /\ pc' = "begin" /\ bar' = bar  BY DEF Decide
  <1>1. SUFFICES ASSUME Settling', bar' >= AgentStop'  PROVE SettleInv'
    BY <1>0 DEF SettleInv
  <1>2. /\ SettlesAtMarket /\ ~book.dead /\ ~history'.impeded /\ setup' = setup
        /\ AgentStop' = AgentStop
    BY <1>n, <1>1, SettlingBefore
  <1>3. ASSUME bar > AgentStop  PROVE Covered(book, orders)
    <2> DEFINE later == bar # AgentStop
    <2>1. history' = [history EXCEPT !.impeded = @ /\ later]  BY DEF Decide
    <2>2. DOMAIN history = {"within", "reversed", "impeded"}  BY DEF LedgerInv
    <2>3. later  BY <1>2, <1>3, Basics, SettlementFacts
    <2> HIDE DEF later
    <2>4. ~history.impeded  BY <1>2, <2>1, <2>2, <2>3
    <2> QED BY <1>0, <1>2, <1>3, <2>4 DEF SettleInv, Settling
  <1>4. Covered(book', orders') /\ OnlyClosing(book', orders')
    BY <1>0, <1>1, <1>2, <1>3, SettlementDecides
  <1>5. (Covered(book, orders) /\ OnlyClosing(book, orders))'  BY <1>2, <1>4, ClosingNext
  <1> QED BY <1>0, <1>5 DEF SettleInv

(* A step that changes nothing keeps the settlement. *)
LEMMA SettleStutter ==
  ASSUME SettleInv, UNCHANGED vars
  PROVE  SettleInv'
  <1>1. /\ setup' = setup /\ bar' = bar /\ pc' = pc /\ orders' = orders /\ book' = book
        /\ view' = view /\ todo' = todo /\ accepted' = accepted /\ symbols' = symbols
        /\ allocs' = allocs /\ history' = history
    BY DEF vars
  <1>2. /\ Covered(book, orders)' <=> Covered(book, orders)
        /\ OnlyClosing(book, orders)' <=> OnlyClosing(book, orders)
    BY <1>1, ClosingNext
  <1>3. /\ (Equity(book))' = Equity(book) /\ (OverCap(book))' = OverCap(book)
        /\ Flat' = Flat /\ AgentStop' = AgentStop /\ SettlesAtMarket' = SettlesAtMarket
    BY <1>1, SumsStay, ConstantsKept DEF OverCap
  <1>4. Active(orders)' = Active(orders)  BY <1>1 DEF Active
  <1>5. WillAdmit' <=> WillAdmit
    BY <1>1, <1>3, <1>4 DEF WillAdmit
  <1>6. WillFill' <=> WillFill
    BY <1>1, <1>4 DEF WillFill
  <1>7. Settling' <=> Settling  BY <1>1, <1>3 DEF Settling
  <1> QED BY <1>1, <1>2, <1>3, <1>4, <1>5, <1>6, <1>7 DEF SettleInv

(* Every step keeps the settlement. *)
LEMMA SettleStep ==
  ASSUME OrdersInv, LedgerInv, SettleInv, [Next]_vars
  PROVE  SettleInv'
  <1>1. CASE \E intent \in Direct : Submit(intent)
    <2>1. Direct # {}  BY <1>1
    <2> QED BY <2>1, SettlingBefore DEF SettleInv
  <1>2. CASE Start
    <2>1. Direct # {}  BY <1>2 DEF Start
    <2> QED BY <2>1, SettlingBefore DEF SettleInv
  <1>3. CASE \E flow \in Flows : BeginExhausted(flow)
    <2>1. book'.dead
      <3>1. PICK flow \in Flows : BeginExhausted(flow)  BY <1>3
      <3> QED BY <3>1, Zenon DEF BeginExhausted, Opens
    <2> QED BY <2>1, SettlingBefore DEF SettleInv
  <1>4. CASE \E gap \in BOOLEAN, flow \in Flows, split, inactive \in SUBSET Symbols,
                recovery \in 0..1 : BeginBar(gap, flow, split, inactive, recovery)
    BY <1>4, SettlementOpens
  <1>5. CASE UNCHANGED vars  BY <1>5, SettleStutter
  <1> QED BY <1>1, <1>2, <1>3, <1>4, <1>5, SettlementDecided, SettlementAdmits, SettlementPasses,
             SettlementAllocates, SettlementIsFilled, SettlementFills, SettlementRemains,
             SettlementFinishes
          DEF Next

-----------------------------------------------------------------------------
(* The book stays sound.                                                   *)

(* A session starts sound. *)
LEMMA SoundInitially ==
  ASSUME Init  PROVE SoundInv
  <1>0. OrdersInv  BY OrdersInitially
  <1>1. /\ NSymbols \in Nat /\ Stop \in Nat  BY <1>0, Basics
  <1>2. /\ bar = 0 /\ pc = "decide" /\ orders = <<>>
        /\ book = [qty |-> Flat, cash |-> Capital, dead |-> FALSE]
        /\ view = [qty |-> Flat, cash |-> 0, dead |-> FALSE, over |-> FALSE, free |-> Flat]
        /\ history = [within |-> TRUE, reversed |-> FALSE, impeded |-> FALSE]
    BY DEF Init
  <1>3. Flat \in [Symbols -> Int] /\ Capital \in Int  BY OrdersAssumption DEF Flat
  <1>4. Account(book)
    <2>1. /\ book.qty = Flat /\ book.cash = Capital /\ book.dead = FALSE
          /\ DOMAIN book = {"qty", "cash", "dead"}
      BY <1>2
    <2> QED BY <1>3, <2>1 DEF Account, BookTyped, Money
  <1>5. Projected(view)  BY <1>2, <1>3 DEF Projected, Money
  <1>6. DOMAIN orders = {} /\ Active(orders) = {}  BY <1>2 DEF Active
  <1>7. DOMAIN history = {"within", "reversed", "impeded"}  BY <1>2
  <1>8. LedgerInv
    <2>1. bar <= Stop /\ pc # "begin"  BY <1>1, <1>2
    <2> QED BY <1>4, <1>5, <1>6, <1>7, <2>1 DEF LedgerInv
  <1>9. CapInv  BY <1>2 DEF CapInv, InBar
  <1>10. SettleInv
    <2>1. ASSUME Settling, bar > AgentStop  PROVE FALSE
      <3>1. AgentStop \in Nat  BY <1>0, <2>1, SettlementFacts DEF Settling
      <3> QED BY <1>2, <2>1, <3>1
    <2> QED BY <1>2, <2>1 DEF SettleInv
  <1> QED BY <1>8, <1>9, <1>10 DEF SoundInv

(* Every step keeps a sound book sound. *)
LEMMA SoundStep ==
  ASSUME OrdersInv, SoundInv, [Next]_vars
  PROVE  SoundInv'
  BY LedgerStep, CapStep, SettleStep DEF SoundInv

(* A session's book stays sound: one active order per symbol, a dead book  *)
(* empty, a bar within the leverage cap when it opened within it and        *)
(* nothing was reversed, and a session that settles at the market flat when *)
(* its reserved intervals trade freely.                                     *)
THEOREM OrdersAlwaysSound == Spec => []OrdersStaySound
  <1>1. Init => OrdersInv /\ SoundInv  BY OrdersInitially, SoundInitially
  <1>2. OrdersInv /\ SoundInv /\ [Next]_vars => (OrdersInv /\ SoundInv)'
    BY OrdersStep, SoundStep
  <1>3. OrdersInv /\ SoundInv => OrdersStaySound
    <2>1. ASSUME OrdersInv, SoundInv  PROVE SettledFlat
      <3> SUFFICES ASSUME SettlesAtMarket, pc = "over", ~history.impeded
                   PROVE  book.qty = Flat
        BY DEF SettledFlat
      <3>1. CASE book.dead  BY <2>1, <3>1 DEF OrdersInv, TerminationIsFinal
      <3>2. CASE ~book.dead  BY <2>1, <3>2 DEF SoundInv, SettleInv, Settling
      <3> QED BY <3>1, <3>2
    <2>2. ASSUME OrdersInv, SoundInv  PROVE StaysWithinCapUnlessReversed
      BY <2>2, CapHolds DEF SoundInv
    <2> QED BY <2>1, <2>2 DEF OrdersInv, OrdersStaySound
  <1> QED BY <1>1, <1>2, <1>3, PTL DEF Spec
=============================================================================
