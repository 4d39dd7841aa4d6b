------------------------- MODULE Collection_proofs -------------------------
(***************************************************************************)
(* Proofs about the three parts of the system that a run drives together:  *)
(* the paper collector, the repository tools and the portfolio policies,   *)
(* for every set of processes, topic branches and symbols, every timing    *)
(* and every bound.                                                        *)
(*                                                                         *)
(* The collector: the state stays well formed, and at most one command     *)
(* follows the end of the collection.  Whoever is past the collector's     *)
(* lock holds it alone.  A program point that can still append a command   *)
(* without another look at the marker and the source is reached only       *)
(* through such a look (or, in _halt, by writing the marker oneself), so   *)
(* while the collection is healthy nothing is late, and once a late        *)
(* command is committed its process, the only one inside, has left those   *)
(* points for good.                                                        *)
(*                                                                         *)
(* The tools (second part): what a tool reports was true of the repository *)
(* at one moment, although it is gathered by many calls while the          *)
(* repository moves.  Nothing the repository holds returns to an earlier   *)
(* value, so a part that reads the same before and after another call was  *)
(* the same at that call; and a branch is deleted only after its guards    *)
(* were read again, and never more branches than allowed.                  *)
(*                                                                         *)
(* The policies (third part): what a policy asks for, bar after bar, stays *)
(* within the limits and leaves the orders in flight alone while it holds. *)
(* Gross exposure is a sum over the symbols; what is shown of such sums    *)
(* (a bound for each share, a shrunk or partly held vector) goes by        *)
(* induction over the sets of symbols.                                     *)
(***************************************************************************)
EXTENDS PaperCollector, PortfolioPolicies, RepositoryTools, FiniteSetTheorems, SequenceTheorems,
        WellFoundedInduction, TLAPS

Holding == ProgramPoints \ {"off", "locking", "exiting"}

(* BEGIN EXCLUSIVE: every program point between the acquisition and the    *)
(* release belongs to the lock's only holder.                              *)
LockExclusive == \A p \in Procs : pc[p] \in Holding => lock = {p}

(* A command may be committed from here without another guard.             *)
ArmedPoints ==
  {"guarded", "deciding", "filling", "cancelling", "recovering", "reviving"}

Armed(p) ==
  \/ pc[p] \in ArmedPoints
  \/ pc[p] = "timely" /\ pending

(* What the last two conjuncts need of the types.                          *)
PcTyped == pc \in [Procs -> ProgramPoints] /\ late \in Nat

LateOnce ==
  /\ Healthy => late = 0
  /\ late <= 1
  /\ late = 1 => \A p \in Procs : ~Armed(p)

CollectorInv == TypeOK /\ LockExclusive /\ LateOnce

(* The initial state satisfies the invariant.                              *)
LEMMA CollectorInit == Init => CollectorInv
  <1> SUFFICES ASSUME Init PROVE CollectorInv
    OBVIOUS
  <1>1. TypeOK
    <2>1. shape \in Seq({"decision", "execution", "gap"})
      BY DEF Init
    <2>2. pc \in [Procs -> ProgramPoints]
      BY DEF Init, ProgramPoints
    <2>3. ruled \in [Procs -> BOOLEAN]
      BY DEF Init
    <2> QED BY <2>1, <2>2, <2>3, TimingAssumption DEF Init, TypeOK
  <1>2. LockExclusive  BY DEF Init, LockExclusive, Holding
  <1>3. LateOnce  BY DEF Init, LateOnce
  <1> QED BY <1>1, <1>2, <1>3 DEF CollectorInv

(* The due time of the cadence loop is a time.                             *)
LEMMA DueIsTime ==
  ASSUME NEW a \in Nat, NEW b \in Nat
  PROVE  Min({a, b}) \in Nat
  <1> DEFINE Least(m) == m \in {a, b} /\ \A y \in {a, b} : m =< y
  <1>1. \E m : Least(m)
    <2>1. CASE a <= b  BY <2>1
    <2>2. CASE ~(a <= b)  BY <2>2
    <2> QED BY <2>1, <2>2
  <1>2. Least(CHOOSE m : Least(m))  BY <1>1
  <1>3. Min({a, b}) \in {a, b}  BY <1>1 DEF Min
  <1> QED BY <1>3

(* The next slot is a time.                                                *)
LEMMA SlotIsTime ==
  ASSUME NEW now \in Nat
  PROVE  StartAt + Slot(now) * Interval \in Nat
  <1>1. Interval \in Nat /\ Interval > 0 /\ StartAt \in Nat  BY TimingAssumption
  <1>2. CASE now < StartAt  BY <1>1, <1>2 DEF Slot
  <1>3. CASE ~(now < StartAt)
    <2>1. (now - StartAt) \div Interval \in Nat  BY <1>1, <1>3
    <2> QED BY <1>1, <1>3, <2>1 DEF Slot
  <1> QED BY <1>2, <1>3

(* The part of the state that a command changes is well formed.            *)
AccountTyped ==
  /\ lastAt \in Nat /\ pending \in BOOLEAN /\ flat \in BOOLEAN /\ quality \in BOOLEAN
  /\ shape \in Seq({"decision", "execution", "gap"})
  /\ late \in Nat

(* A gap, and the deadline that may record one, keep it so.                *)
LEMMA GapTyped ==
  ASSUME TypeOK, NEW t \in Nat, Gap(t)
  PROVE  AccountTyped'
  <1>1. lastAt' \in Nat /\ late' \in Nat
    <2>1. CASE Healthy  BY <2>1 DEF TypeOK, Gap, Commit
    <2>2. CASE ~Healthy  BY <2>2 DEF TypeOK, Gap, Commit
    <2> QED BY <2>1, <2>2
  <1>2. shape' \in Seq({"decision", "execution", "gap"})
    BY DEF TypeOK, Gap, Commit
  <1>3. pending' \in BOOLEAN /\ flat' \in BOOLEAN /\ quality' \in BOOLEAN
    BY DEF TypeOK, Gap
  <1> QED BY <1>1, <1>2, <1>3 DEF AccountTyped

(* Ending a cycle that is due keeps the types.                              *)
LEMMA FinishTyped ==
  ASSUME TypeOK, NEW t \in Nat, FinishIfDue(t)
  PROVE  AccountTyped'
  <1>1. CASE Gap(t)  BY <1>1, GapTyped
  <1>2. CASE UNCHANGED <<account, late, shape>>
    BY <1>2 DEF TypeOK, AccountTyped, account
  <1> QED BY <1>1, <1>2 DEF FinishIfDue

(* A step to another program point that changes at most the account.       *)
LEMMA PlaceTyped ==
  ASSUME TypeOK, AccountTyped', NEW p \in Procs, NEW l \in ProgramPoints, Goto(p, l),
         UNCHANGED <<disk, local, began, shapes, env>>
  PROVE  TypeOK'
  BY DEF TypeOK, AccountTyped, Goto, disk, local, env

(* A step to another program point that changes nothing else.              *)
LEMMA MoveTyped ==
  ASSUME TypeOK, NEW p \in Procs, NEW l \in ProgramPoints, Goto(p, l),
         UNCHANGED <<disk, account, local, history, env>>
  PROVE  TypeOK'
  BY DEF TypeOK, Goto, disk, account, local, history, env

(* A raised exception.                                                     *)
LEMMA RaiseTyped ==
  ASSUME TypeOK, NEW p \in Procs, Raise(p), UNCHANGED env
  PROVE  TypeOK'
  BY DEF TypeOK, Raise, Unwind, Goto, disk, account, history, env, ProgramPoints,
         Opened,
         Halting

(* A step of a process keeps the state well formed.                        *)
LEMMA StepTyped ==
  ASSUME TypeOK, NEW p \in Procs, Launch(p) \/ Step(p) \/ Terminate(p) \/ Crash(p)
  PROVE  TypeOK'
  <1>1. CASE Launch(p)
    BY <1>1 DEF Launch, TypeOK, Goto, disk, account, local, history, env,
                ProgramPoints, Opened, InCycle, Looping, Halting
  <1>2. CASE LockAcquire(p)
    BY <1>2 DEF LockAcquire, TypeOK, Goto, disk, account, local, history, env,
                ProgramPoints, Opened, InCycle, Looping, Halting
  <1>3. CASE LockHeld(p)
    BY <1>3 DEF LockHeld, TypeOK, Goto, disk, account, local, history, env,
                ProgramPoints, Opened, InCycle, Looping, Halting
  <1>4. CASE EnterGuard(p)
    BY <1>4 DEF EnterGuard, TypeOK, Goto, disk, account, local, history, env,
                ProgramPoints, Opened, InCycle, Looping, Halting
  <1>5. CASE Refuse(p)
    BY <1>5 DEF Refuse, TypeOK, Goto, disk, account, local, history, env,
                ProgramPoints, Opened, InCycle, Looping, Halting
  <1>6. CASE RefuseEnd(p)
    BY <1>6 DEF RefuseEnd, TypeOK, Goto, disk, account, local, history, env,
                ProgramPoints, Opened, InCycle, Looping, Halting
  <1>7. CASE Open(p)
    BY <1>7 DEF Open, TypeOK, Goto, disk, account, local, history, env, ProgramPoints,
                Opened, InCycle, Looping, Halting
  <1>8. CASE CycleGuard(p)
    <2>1. CASE Raise(p)  BY <1>8, <2>1, RaiseTyped DEF CycleGuard
    <2>2. CASE ~Raise(p)
      <3>1. /\ seen' = [seen EXCEPT ![p] = clock] /\ at' = [at EXCEPT ![p] = clock]
            /\ Goto(p, "guarded")
            /\ UNCHANGED <<disk, account, due, ruled, history, env>>
        BY <1>8, <2>2 DEF CycleGuard
      <3> QED BY <3>1 DEF TypeOK, Goto, disk, account, history, env, ProgramPoints,
                          Opened, InCycle, Looping, Halting
    <2> QED BY <2>1, <2>2
  <1>9. CASE CycleBackwards(p)
    BY <1>9 DEF CycleBackwards, Raise, Unwind, TypeOK, Goto, disk, account, local,
                history, env, ProgramPoints, Opened, InCycle, Looping, Halting
  <1>10. CASE CycleWaiting(p)
    BY <1>10 DEF CycleWaiting, ClockAhead, TypeOK, Goto, disk, account, local, history,
                 env, ProgramPoints, Opened, InCycle, Looping, Halting
  <1>11. CASE CycleGap(p)
    <2>1. AccountTyped'
      <3>1. CASE Gap(at[p])  BY <3>1, GapTyped DEF TypeOK
      <3>2. CASE UNCHANGED <<account, history>>
        BY <3>2 DEF TypeOK, AccountTyped, account, history
      <3> QED BY <1>11, <3>1, <3>2 DEF CycleGap
    <2>2. Goto(p, "timely") /\ UNCHANGED <<disk, local, began, shapes, env>>
      BY <1>11 DEF CycleGap, history
    <2> QED BY <2>1, <2>2, PlaceTyped DEF ProgramPoints, Opened, InCycle, Looping,
                                          Halting
  <1>12. CASE CycleFinish(p)
    <2>1. AccountTyped'  BY <1>12, FinishTyped DEF CycleFinish, TypeOK
    <2>2. Goto(p, "concluded") /\ UNCHANGED <<disk, local, began, shapes, env>>
      BY <1>12 DEF CycleFinish
    <2> QED BY <2>1, <2>2, PlaceTyped DEF ProgramPoints, Opened, InCycle, Looping,
                                          Halting
  <1>13. CASE CycleBegin(p)
    <2>1. CASE Raise(p)  BY <1>13, <2>1, RaiseTyped DEF CycleBegin
    <2>2. CASE ~Raise(p)
      <3>1. /\ control' = "open" /\ began' = {p} /\ shape' = << >> /\ Goto(p, "begun")
            /\ UNCHANGED <<failure, lock, terminal, account, local, shapes, late, env>>
        BY <1>13, <2>2 DEF CycleBegin
      <3> QED BY <3>1 DEF TypeOK, Goto, account, local, env, ProgramPoints, Opened,
                          InCycle, Looping, Halting
    <2> QED BY <2>1, <2>2
  <1>14. CASE CycleBranch(p)
    BY <1>14 DEF CycleBranch, TypeOK, Goto, disk, account, local, history, env,
                 ProgramPoints, Opened, InCycle, Looping, Halting
  <1>15. CASE CaptureRules(p)
    <2>1. CASE Raise(p)  BY <1>15, <2>1, RaiseTyped DEF CaptureRules
    <2>2. CASE ~Raise(p)
      <3>1. AccountTyped'
        <4>1. CASE FinishIfDue(clock)  BY <4>1, FinishTyped DEF TypeOK
        <4>2. CASE UNCHANGED <<account, late, shape>>
          BY <4>2 DEF TypeOK, AccountTyped, account
        <4> QED BY <1>15, <2>2, <4>1, <4>2 DEF CaptureRules
      <3>2. /\ ruled' = [ruled EXCEPT ![p] = TRUE]
            /\ UNCHANGED <<disk, at, seen, due, began, shapes, env>>
            /\ \E l \in {"ruled", "concluding"} : Goto(p, l)
        BY <1>15, <2>2 DEF CaptureRules
      <3> QED BY <3>1, <3>2 DEF TypeOK, AccountTyped, Goto, disk, env, ProgramPoints,
                                Opened, InCycle, Looping, Halting
    <2> QED BY <2>1, <2>2
  <1>16. CASE CaptureMarket(p)
    <2>1. CASE Raise(p)  BY <1>16, <2>1, RaiseTyped DEF CaptureMarket
    <2>2. CASE ~Raise(p)
      <3>1. Goto(p, "snapping") /\ UNCHANGED <<disk, account, local, history, env>>
        BY <1>16, <2>2 DEF CaptureMarket
      <3> QED BY <3>1, MoveTyped DEF ProgramPoints, Opened, InCycle, Looping, Halting
    <2> QED BY <2>1, <2>2
  <1>17. CASE CaptureMarketEnd(p)
    <2>1. CASE Raise(p)  BY <1>17, <2>1, RaiseTyped DEF CaptureMarketEnd
    <2>2. CASE ~Raise(p)
      <3>1. /\ at' = [at EXCEPT ![p] = clock] /\ Goto(p, "deciding")
            /\ UNCHANGED <<disk, account, seen, due, ruled, history, env>>
        BY <1>17, <2>2 DEF CaptureMarketEnd
      <3> QED BY <3>1 DEF TypeOK, Goto, disk, account, history, env, ProgramPoints,
                          Opened, InCycle, Looping, Halting
    <2> QED BY <2>1, <2>2
  <1>18. CASE Decide(p)
    BY <1>18 DEF Decide, Commit, Observe, TypeOK, Goto, disk, account, local, history,
                 env, ProgramPoints, Opened, InCycle, Looping, Halting
  <1>19. CASE DecideFails(p)
    BY <1>19 DEF DecideFails, Raise, Unwind, TypeOK, Goto, disk, account, local,
                 history, env, ProgramPoints, Opened, InCycle, Looping, Halting
  <1>20. CASE DecideFinish(p)
    <2>1. AccountTyped'  BY <1>20, FinishTyped DEF DecideFinish, TypeOK
    <2>2. Goto(p, "concluding") /\ UNCHANGED <<disk, local, began, shapes, env>>
      BY <1>20 DEF DecideFinish
    <2> QED BY <2>1, <2>2, PlaceTyped DEF ProgramPoints, Opened, InCycle, Looping,
                                          Halting
  <1>21. CASE ExecuteBegin(p)
    <2>1. CASE Raise(p)  BY <1>21, <2>1, RaiseTyped DEF ExecuteBegin
    <2>2. CASE ~Raise(p)
      <3>1. PICK l \in {"expiring", "matching"} :
              Goto(p, l) /\ UNCHANGED <<disk, account, local, history, env>>
        BY <1>21, <2>2 DEF ExecuteBegin
      <3> QED BY <3>1, MoveTyped DEF ProgramPoints, Opened, InCycle, Looping, Halting
    <2> QED BY <2>1, <2>2
  <1>22. CASE ExecuteCaptureEnd(p)
    <2>1. CASE Raise(p)  BY <1>22, <2>1, RaiseTyped DEF ExecuteCaptureEnd
    <2>2. CASE ~Raise(p)
      <3>1. /\ at' = [at EXCEPT ![p] = clock] /\ Goto(p, "filling")
            /\ UNCHANGED <<disk, account, seen, due, ruled, history, env>>
        BY <1>22, <2>2 DEF ExecuteCaptureEnd
      <3> QED BY <3>1 DEF TypeOK, Goto, disk, account, history, env, ProgramPoints,
                          Opened, InCycle, Looping, Halting
    <2> QED BY <2>1, <2>2
  <1>23. CASE Execute(p)
    <2>1. AccountTyped'
      <3>1. lastAt' \in Nat /\ late' \in Nat
        <4>1. CASE Healthy  BY <1>23, <4>1 DEF Execute, Commit, TypeOK
        <4>2. CASE ~Healthy  BY <1>23, <4>2 DEF Execute, Commit, TypeOK
        <4> QED BY <4>1, <4>2
      <3>4. pending' \in BOOLEAN /\ flat' \in BOOLEAN  BY <1>23 DEF Execute
      <3>2. shape' \in Seq({"decision", "execution", "gap"})
        BY <1>23 DEF Execute, Commit, TypeOK
      <3>3. quality' \in BOOLEAN  BY <1>23 DEF Execute, Observe, TypeOK
      <3> QED BY <3>1, <3>2, <3>3, <3>4 DEF AccountTyped
    <2>2. Goto(p, "completing") /\ UNCHANGED <<disk, local, began, shapes, env>>
      BY <1>23 DEF Execute
    <2> QED BY <2>1, <2>2, PlaceTyped DEF ProgramPoints, Opened, InCycle, Looping,
                                          Halting
  <1>24. CASE ExecuteFails(p)
    BY <1>24 DEF ExecuteFails, Raise, Unwind, TypeOK, Goto, disk, account, local,
                 history, env, ProgramPoints, Opened, InCycle, Looping, Halting
  <1>25. CASE ExecuteFinish(p)
    <2>1. AccountTyped'  BY <1>25, FinishTyped DEF ExecuteFinish, TypeOK
    <2>2. Goto(p, "concluding") /\ UNCHANGED <<disk, local, began, shapes, env>>
      BY <1>25 DEF ExecuteFinish
    <2> QED BY <2>1, <2>2, PlaceTyped DEF ProgramPoints, Opened, InCycle, Looping,
                                          Halting
  <1>26. CASE ExecuteTooLate(p)
    BY <1>26 DEF ExecuteTooLate, TypeOK, Goto, disk, account, local, history, env,
                 ProgramPoints, Opened, InCycle, Looping, Halting
  <1>27. CASE ExpireGuard(p)
    <2>1. CASE Raise(p)  BY <1>27, <2>1, RaiseTyped DEF ExpireGuard
    <2>2. CASE ~Raise(p)
      <3>1. Goto(p, "cancelling") /\ UNCHANGED <<disk, account, local, history, env>>
        BY <1>27, <2>2 DEF ExpireGuard
      <3> QED BY <3>1, MoveTyped DEF ProgramPoints, Opened, InCycle, Looping, Halting
    <2> QED BY <2>1, <2>2
  <1>28. CASE ExpireGap(p)
    <2>1. CASE Raise(p)  BY <1>28, <2>1, RaiseTyped DEF ExpireGap
    <2>2. CASE ~Raise(p)
      <3>1. AccountTyped'  BY <1>28, <2>2, GapTyped DEF ExpireGap, TypeOK
      <3>2. Goto(p, "completing") /\ UNCHANGED <<disk, local, began, shapes, env>>
        BY <1>28, <2>2 DEF ExpireGap
      <3> QED BY <3>1, <3>2, PlaceTyped DEF ProgramPoints, Opened, InCycle, Looping,
                                            Halting
    <2> QED BY <2>1, <2>2
  <1>29. CASE CompleteCycle(p)
    BY <1>29 DEF CompleteCycle, TypeOK, Goto, disk, account, local, history, env,
                 ProgramPoints, Opened, InCycle, Looping, Halting
  <1>30. CASE ReportTerminal(p)
    BY <1>30 DEF ReportTerminal, TypeOK, Goto, disk, account, local, history, env,
                 ProgramPoints, Opened, InCycle, Looping, Halting
  <1>31. CASE ReportSleep(p)
    <2>1. CASE Raise(p)  BY <1>31, <2>1, RaiseTyped DEF ReportSleep
    <2>2. CASE ~Raise(p)
      <3>1. /\ seen' = [seen EXCEPT ![p] = clock]
            /\ due' = [due EXCEPT ![p] = Min({EndAt, StartAt + Slot(clock) * Interval})]
            /\ Goto(p, "sleeping")
            /\ UNCHANGED <<disk, account, at, ruled, history, env>>
        BY <1>31, <2>2 DEF ReportSleep
      <3>2. Min({EndAt, StartAt + Slot(clock) * Interval}) \in Nat
        <4>1. EndAt \in Nat  BY TimingAssumption DEF EndAt
        <4>2. StartAt + Slot(clock) * Interval \in Nat  BY SlotIsTime DEF TypeOK
        <4> QED BY <4>1, <4>2, DueIsTime
      <3> QED BY <3>1, <3>2 DEF TypeOK, Goto, disk, account, history, env,
                                ProgramPoints, Opened, InCycle, Looping, Halting
    <2> QED BY <2>1, <2>2
  <1>32. CASE Finish(p)
    BY <1>32 DEF Finish, Unwind, TypeOK, Goto, disk, account, local, history, env,
                 ProgramPoints, Opened, InCycle, Looping, Halting
  <1>33. CASE Halt(p)
    BY <1>33 DEF Halt, AfterMarker, TypeOK, Goto, disk, account, local, history, env,
                 ProgramPoints, Opened, InCycle, Looping, Halting
  <1>34. CASE Recover(p)
    <2>1. AccountTyped'
      <3>1. CASE Gap(clock)  BY <3>1, GapTyped DEF TypeOK
      <3>2. CASE UNCHANGED <<account, late, shape>>
        BY <3>2 DEF TypeOK, AccountTyped, account
      <3> QED BY <1>34, <3>1, <3>2 DEF Recover
    <2>2. PICK l \in {"leaving", "ending"} :
            Goto(p, l) /\ UNCHANGED <<disk, local, began, shapes, env>>
      BY <1>34 DEF Recover
    <2> QED BY <2>1, <2>2, PlaceTyped DEF ProgramPoints, Opened, InCycle, Looping,
                                          Halting
  <1>35. CASE Leave(p)
    BY <1>35 DEF Leave, TypeOK, Goto, disk, account, local, history, env,
                 ProgramPoints, Opened, InCycle, Looping, Halting
  <1>36. CASE ExitGuard(p)
    BY <1>36 DEF ExitGuard, TypeOK, Goto, disk, account, local, history, env,
                 ProgramPoints, Opened, InCycle, Looping, Halting
  <1>37. CASE Terminate(p)
    BY <1>37 DEF Terminate, Unwind, TypeOK, Goto, disk, account, local, history, env,
                 ProgramPoints, Opened, InCycle, Looping, Halting
  <1>38. CASE Crash(p)
    BY <1>38 DEF Crash, Unwind, TypeOK, Goto, disk, account, local, history, env,
                 ProgramPoints, Opened, InCycle, Looping, Halting
  <1> QED
    BY <1>1, <1>2, <1>3, <1>4, <1>5, <1>6, <1>7, <1>8, <1>9, <1>10, <1>11, <1>12,
       <1>13, <1>14, <1>15, <1>16, <1>17, <1>18, <1>19, <1>20, <1>21, <1>22, <1>23,
          <1>24, <1>25, <1>26, <1>27, <1>28, <1>29, <1>30, <1>31, <1>32, <1>33, <1>34,
             <1>35, <1>36, <1>37, <1>38 DEF Step

(* A step of a process keeps the lock exclusive: only the free lock is     *)
(* taken, and only its holder lets go of it.                               *)
LEMMA StepExclusive ==
  ASSUME PcTyped, LockExclusive, NEW p \in Procs,
    Launch(p) \/ Step(p) \/ Terminate(p) \/ Crash(p)
  PROVE  LockExclusive'
  <1> USE DEF LockExclusive, Holding, Goto, disk, PcTyped, ProgramPoints, Opened,
              InCycle, Looping, Halting
  <1>1. CASE Launch(p)
    BY <1>1 DEF Launch
  <1>2. CASE LockAcquire(p)
    BY <1>2 DEF LockAcquire
  <1>3. CASE LockHeld(p)
    BY <1>3 DEF LockHeld
  <1>4. CASE EnterGuard(p)
    BY <1>4 DEF EnterGuard
  <1>5. CASE Refuse(p)
    BY <1>5 DEF Refuse
  <1>6. CASE RefuseEnd(p)
    BY <1>6 DEF RefuseEnd
  <1>7. CASE Open(p)
    BY <1>7 DEF Open
  <1>8. CASE CycleGuard(p)
    BY <1>8 DEF CycleGuard, Raise, Unwind
  <1>9. CASE CycleBackwards(p)
    BY <1>9 DEF CycleBackwards, Raise, Unwind
  <1>10. CASE CycleWaiting(p)
    BY <1>10 DEF CycleWaiting, ClockAhead
  <1>11. CASE CycleGap(p)
    BY <1>11 DEF CycleGap, ClockAhead, Gap, Commit
  <1>12. CASE CycleFinish(p)
    BY <1>12 DEF CycleFinish, FinishIfDue, Gap, Commit
  <1>13. CASE CycleBegin(p)
    BY <1>13 DEF CycleBegin, Raise, Unwind
  <1>14. CASE CycleBranch(p)
    BY <1>14 DEF CycleBranch
  <1>15. CASE CaptureRules(p)
    BY <1>15 DEF CaptureRules, Raise, Unwind, FinishIfDue, Gap, Commit
  <1>16. CASE CaptureMarket(p)
    BY <1>16 DEF CaptureMarket, Raise, Unwind
  <1>17. CASE CaptureMarketEnd(p)
    BY <1>17 DEF CaptureMarketEnd, Raise, Unwind
  <1>18. CASE Decide(p)
    BY <1>18 DEF Decide, Commit, Observe
  <1>19. CASE DecideFails(p)
    BY <1>19 DEF DecideFails, Raise, Unwind
  <1>20. CASE DecideFinish(p)
    BY <1>20 DEF DecideFinish, FinishIfDue, Gap, Commit
  <1>21. CASE ExecuteBegin(p)
    BY <1>21 DEF ExecuteBegin, Raise, Unwind
  <1>22. CASE ExecuteCaptureEnd(p)
    BY <1>22 DEF ExecuteCaptureEnd, Raise, Unwind
  <1>23. CASE Execute(p)
    BY <1>23 DEF Execute, Commit, Observe
  <1>24. CASE ExecuteFails(p)
    BY <1>24 DEF ExecuteFails, Raise, Unwind
  <1>25. CASE ExecuteFinish(p)
    BY <1>25 DEF ExecuteFinish, FinishIfDue, Gap, Commit
  <1>26. CASE ExecuteTooLate(p)
    BY <1>26 DEF ExecuteTooLate
  <1>27. CASE ExpireGuard(p)
    BY <1>27 DEF ExpireGuard, Raise, Unwind
  <1>28. CASE ExpireGap(p)
    BY <1>28 DEF ExpireGap, Raise, Unwind, Gap, Commit
  <1>29. CASE CompleteCycle(p)
    BY <1>29 DEF CompleteCycle
  <1>30. CASE ReportTerminal(p)
    BY <1>30 DEF ReportTerminal
  <1>31. CASE ReportSleep(p)
    BY <1>31 DEF ReportSleep, Raise, Unwind
  <1>32. CASE Finish(p)
    BY <1>32 DEF Finish, Unwind
  <1>33. CASE Halt(p)
    BY <1>33 DEF Halt, AfterMarker
  <1>34. CASE Recover(p)
    BY <1>34 DEF Recover, Gap, Commit
  <1>35. CASE Leave(p)
    BY <1>35 DEF Leave
  <1>36. CASE ExitGuard(p)
    BY <1>36 DEF ExitGuard
  <1>37. CASE Terminate(p)
    BY <1>37 DEF Terminate, Unwind
  <1>38. CASE Crash(p)
    BY <1>38 DEF Crash, Unwind
  <1> QED
    BY <1>1, <1>2, <1>3, <1>4, <1>5, <1>6, <1>7, <1>8, <1>9, <1>10, <1>11, <1>12,
       <1>13, <1>14, <1>15, <1>16, <1>17, <1>18, <1>19, <1>20, <1>21, <1>22, <1>23,
          <1>24, <1>25, <1>26, <1>27, <1>28, <1>29, <1>30, <1>31, <1>32, <1>33, <1>34,
             <1>35, <1>36, <1>37, <1>38 DEF Step

(* A command committed from an armed point: nothing was late before, no    *)
(* other process is inside, and the process is no longer armed.            *)
LEMMA CommitOnce ==
  ASSUME PcTyped, LockExclusive, LateOnce, NEW p \in Procs, NEW l,
         Armed(p), UNCHANGED <<failure, drift>>,
         late' = IF Healthy THEN late ELSE late + 1,
         pc' = [pc EXCEPT ![p] = l], l \notin ArmedPoints, l = "timely" => ~pending'
  PROVE  LateOnce'
  <1>1. late = 0  BY DEF LateOnce, PcTyped
  <1>2. pc[p] \in Holding
    BY DEF Armed, ArmedPoints, Holding, ProgramPoints, Opened, InCycle, Looping, Halting
  <1>3. ASSUME NEW q \in Procs, q # p
        PROVE  pc'[q] \notin Holding
    BY <1>2, <1>3 DEF LockExclusive, PcTyped
  <1>4. ASSUME NEW q \in Procs
        PROVE  ~Armed(q)'
    <2>1. CASE q = p  BY <2>1 DEF Armed, PcTyped
    <2>2. CASE q # p
      BY <1>3, <2>2 DEF Armed, ArmedPoints, Holding, ProgramPoints, Opened, InCycle,
                        Looping, Halting
    <2> QED BY <2>1, <2>2
  <1>5. Healthy' <=> Healthy  BY DEF Healthy
  <1>6. CASE Healthy  BY <1>1, <1>4, <1>5, <1>6 DEF LateOnce
  <1>7. CASE ~Healthy  BY <1>1, <1>4, <1>5, <1>7 DEF LateOnce
  <1> QED BY <1>6, <1>7

(* A step without a command that does not arm its process.                 *)
LEMMA QuietOnce ==
  ASSUME PcTyped, LateOnce, NEW p \in Procs, NEW l,
         UNCHANGED <<failure, drift, late, pending>>,
         pc' = [pc EXCEPT ![p] = l], l \notin ArmedPoints, l = "timely" => Armed(p)
  PROVE  LateOnce'
  <1>1. Healthy' <=> Healthy  BY DEF Healthy
  <1>2. ASSUME late = 1, NEW q \in Procs
        PROVE  ~Armed(q)'
    <2>1. ~Armed(p) /\ ~Armed(q)  BY <1>2 DEF LateOnce
    <2>2. CASE q = p  BY <2>1, <2>2 DEF Armed, PcTyped
    <2>3. CASE q # p  BY <2>1, <2>3 DEF Armed, PcTyped
    <2> QED BY <2>2, <2>3
  <1> QED BY <1>1, <1>2 DEF LateOnce

(* A step of a process commits a late command only from an armed point,    *)
(* which no other process shares, and leaves it.                           *)
LEMMA StepLateOnce ==
  ASSUME PcTyped, LockExclusive, LateOnce, NEW p \in Procs,
    Launch(p) \/ Step(p) \/ Terminate(p) \/ Crash(p)
  PROVE  LateOnce'
  <1> USE DEF LockExclusive, LateOnce, Armed, ArmedPoints, Holding, Healthy, Goto,
              disk, account, history, env, PcTyped, ProgramPoints, Opened, InCycle,
                Looping, Halting
  <1>1. CASE Launch(p)
    BY <1>1 DEF Launch
  <1>2. CASE LockAcquire(p)
    BY <1>2 DEF LockAcquire
  <1>3. CASE LockHeld(p)
    BY <1>3 DEF LockHeld
  <1>4. CASE EnterGuard(p)
    BY <1>4 DEF EnterGuard
  <1>5. CASE Refuse(p)
    BY <1>5 DEF Refuse
  <1>6. CASE RefuseEnd(p)
    BY <1>6 DEF RefuseEnd
  <1>7. CASE Open(p)
    BY <1>7 DEF Open
  <1>8. CASE CycleGuard(p)
    BY <1>8 DEF CycleGuard, Raise, Unwind
  <1>9. CASE CycleBackwards(p)
    BY <1>9 DEF CycleBackwards, Raise, Unwind
  <1>10. CASE CycleWaiting(p)
    BY <1>10 DEF CycleWaiting, ClockAhead
  <1>11. CASE CycleGap(p)
    <2>1. CASE at[p] > lastAt + MaxGap
      <3>1. /\ Armed(p) /\ UNCHANGED <<failure, drift>> /\ ~pending'
            /\ late' = IF Healthy THEN late ELSE late + 1
            /\ pc' = [pc EXCEPT ![p] = "timely"]
        BY <1>11, <2>1 DEF CycleGap, Gap, Commit, Goto, disk, env, Armed, ArmedPoints
      <3> QED BY <3>1, CommitOnce DEF ArmedPoints
    <2>2. CASE ~(at[p] > lastAt + MaxGap)
      <3>1. /\ UNCHANGED <<failure, drift, late, pending>> /\ Armed(p)
            /\ pc' = [pc EXCEPT ![p] = "timely"]
        BY <1>11, <2>2 DEF CycleGap, Goto, disk, account, history, env, Armed,
                           ArmedPoints
      <3> QED BY <3>1, QuietOnce DEF ArmedPoints
    <2> QED BY <2>1, <2>2
  <1>12. CASE CycleFinish(p)
    <2>1. CASE pending
      <3>1. /\ Armed(p) /\ UNCHANGED <<failure, drift>>
            /\ late' = IF Healthy THEN late ELSE late + 1
            /\ pc' = [pc EXCEPT ![p] = "concluded"]
        BY <1>12, <2>1 DEF CycleFinish, FinishIfDue, Gap, Commit, Goto, disk, env,
                           Armed, ArmedPoints
      <3> QED BY <3>1, CommitOnce DEF ArmedPoints
    <2>2. CASE ~pending
      <3>1. /\ UNCHANGED <<failure, drift, late, pending>>
            /\ pc' = [pc EXCEPT ![p] = "concluded"]
        BY <1>12, <2>2 DEF CycleFinish, FinishIfDue, Goto, disk, account, env
      <3> QED BY <3>1, QuietOnce DEF ArmedPoints
    <2> QED BY <2>1, <2>2
  <1>13. CASE CycleBegin(p)
    BY <1>13 DEF CycleBegin, Raise, Unwind
  <1>14. CASE CycleBranch(p)
    BY <1>14 DEF CycleBranch
  <1>15. CASE CaptureRules(p)
    BY <1>15 DEF CaptureRules, Raise, Unwind, FinishIfDue, Gap, Commit
  <1>16. CASE CaptureMarket(p)
    BY <1>16 DEF CaptureMarket, Raise, Unwind
  <1>17. CASE CaptureMarketEnd(p)
    BY <1>17 DEF CaptureMarketEnd, Raise, Unwind
  <1>18. CASE Decide(p)
    <2>1. /\ Armed(p) /\ UNCHANGED <<failure, drift>>
          /\ late' = IF Healthy THEN late ELSE late + 1
          /\ \E l \in {"executing", "completing"} : pc' = [pc EXCEPT ![p] = l]
      BY <1>18 DEF Decide, Commit, Goto, disk, env, Armed, ArmedPoints
    <2> QED BY <2>1, CommitOnce DEF ArmedPoints
  <1>19. CASE DecideFails(p)
    BY <1>19 DEF DecideFails, Raise, Unwind
  <1>20. CASE DecideFinish(p)
    <2>1. CASE pending
      <3>1. /\ Armed(p) /\ UNCHANGED <<failure, drift>>
            /\ late' = IF Healthy THEN late ELSE late + 1
            /\ pc' = [pc EXCEPT ![p] = "concluding"]
        BY <1>20, <2>1 DEF DecideFinish, FinishIfDue, Gap, Commit, Goto, disk, env,
                           Armed, ArmedPoints
      <3> QED BY <3>1, CommitOnce DEF ArmedPoints
    <2>2. CASE ~pending
      <3>1. /\ UNCHANGED <<failure, drift, late, pending>>
            /\ pc' = [pc EXCEPT ![p] = "concluding"]
        BY <1>20, <2>2 DEF DecideFinish, FinishIfDue, Goto, disk, account, env
      <3> QED BY <3>1, QuietOnce DEF ArmedPoints
    <2> QED BY <2>1, <2>2
  <1>21. CASE ExecuteBegin(p)
    BY <1>21 DEF ExecuteBegin, Raise, Unwind
  <1>22. CASE ExecuteCaptureEnd(p)
    BY <1>22 DEF ExecuteCaptureEnd, Raise, Unwind
  <1>23. CASE Execute(p)
    <2>1. /\ Armed(p) /\ UNCHANGED <<failure, drift>>
          /\ late' = IF Healthy THEN late ELSE late + 1
          /\ \E l \in {"completing"} : pc' = [pc EXCEPT ![p] = l]
      BY <1>23 DEF Execute, Commit, Goto, disk, env, Armed, ArmedPoints
    <2> QED BY <2>1, CommitOnce DEF ArmedPoints
  <1>24. CASE ExecuteFails(p)
    BY <1>24 DEF ExecuteFails, Raise, Unwind
  <1>25. CASE ExecuteFinish(p)
    <2>1. CASE pending
      <3>1. /\ Armed(p) /\ UNCHANGED <<failure, drift>>
            /\ late' = IF Healthy THEN late ELSE late + 1
            /\ pc' = [pc EXCEPT ![p] = "concluding"]
        BY <1>25, <2>1 DEF ExecuteFinish, FinishIfDue, Gap, Commit, Goto, disk, env,
                           Armed, ArmedPoints
      <3> QED BY <3>1, CommitOnce DEF ArmedPoints
    <2>2. CASE ~pending
      <3>1. /\ UNCHANGED <<failure, drift, late, pending>>
            /\ pc' = [pc EXCEPT ![p] = "concluding"]
        BY <1>25, <2>2 DEF ExecuteFinish, FinishIfDue, Goto, disk, account, env
      <3> QED BY <3>1, QuietOnce DEF ArmedPoints
    <2> QED BY <2>1, <2>2
  <1>26. CASE ExecuteTooLate(p)
    BY <1>26 DEF ExecuteTooLate
  <1>27. CASE ExpireGuard(p)
    BY <1>27 DEF ExpireGuard, Raise, Unwind
  <1>28. CASE ExpireGap(p)
    <2>1. CASE clock <= lastAt /\ Raise(p)
      <3>1. /\ UNCHANGED <<failure, drift, late, pending>>
            /\ pc' = [pc EXCEPT ![p] = "halting"]
        BY <1>28, <2>1 DEF ExpireGap, Raise, Goto, disk, account, history, env
      <3> QED BY <3>1, QuietOnce DEF ArmedPoints
    <2>2. CASE Gap(clock) /\ Goto(p, "completing")
      <3>1. /\ Armed(p) /\ UNCHANGED <<failure, drift>>
            /\ late' = IF Healthy THEN late ELSE late + 1
            /\ pc' = [pc EXCEPT ![p] = "completing"]
        BY <1>28, <2>2 DEF ExpireGap, Raise, Gap, Commit, Goto, disk, env, Armed,
                           ArmedPoints
      <3> QED BY <3>1, CommitOnce DEF ArmedPoints
    <2> QED BY <1>28, <2>1, <2>2 DEF ExpireGap
  <1>29. CASE CompleteCycle(p)
    BY <1>29 DEF CompleteCycle
  <1>30. CASE ReportTerminal(p)
    BY <1>30 DEF ReportTerminal
  <1>31. CASE ReportSleep(p)
    BY <1>31 DEF ReportSleep, Raise, Unwind
  <1>32. CASE Finish(p)
    BY <1>32 DEF Finish, Unwind
  <1>33. CASE Halt(p)
    BY <1>33 DEF Halt, AfterMarker
  <1>34. CASE Recover(p)
    <2>1. PICK l \in {"leaving", "ending"} : pc' = [pc EXCEPT ![p] = l]
      BY <1>34 DEF Recover, Goto
    <2>2. Armed(p) /\ UNCHANGED <<failure, drift>>
      BY <1>34 DEF Recover, disk, env, Armed, ArmedPoints
    <2>3. CASE Gap(clock)
      BY <2>1, <2>2, <2>3, CommitOnce DEF Gap, Commit, ArmedPoints
    <2>4. CASE UNCHANGED <<account, late, shape>>
      <3>1. UNCHANGED <<late, pending>>  BY <2>4 DEF account
      <3> QED BY <2>1, <2>2, <3>1, QuietOnce DEF ArmedPoints
    <2> QED BY <1>34, <2>3, <2>4 DEF Recover
  <1>35. CASE Leave(p)
    BY <1>35 DEF Leave
  <1>36. CASE ExitGuard(p)
    BY <1>36 DEF ExitGuard
  <1>37. CASE Terminate(p)
    BY <1>37 DEF Terminate, Unwind
  <1>38. CASE Crash(p)
    BY <1>38 DEF Crash, Unwind
  <1> QED
    BY <1>1, <1>2, <1>3, <1>4, <1>5, <1>6, <1>7, <1>8, <1>9, <1>10, <1>11, <1>12,
       <1>13, <1>14, <1>15, <1>16, <1>17, <1>18, <1>19, <1>20, <1>21, <1>22, <1>23,
          <1>24, <1>25, <1>26, <1>27, <1>28, <1>29, <1>30, <1>31, <1>32, <1>33, <1>34,
             <1>35, <1>36, <1>37, <1>38 DEF Step

(* What happens around the processes keeps the invariant.                  *)
LEMMA EnvironmentStep ==
  ASSUME CollectorInv, Environment
  PROVE  CollectorInv'
  <1> USE DEF CollectorInv, TypeOK, LockExclusive, LateOnce, Armed, ArmedPoints,
              Healthy, disk, account,
              local, history, env
  <1>1. CASE WatchdogFailure  BY <1>1 DEF WatchdogFailure
  <1>2. CASE Drift  BY <1>2 DEF Drift
  <1>3. CASE Tick  BY <1>3 DEF Tick
  <1>4. CASE ClockBack  BY <1>4 DEF ClockBack
  <1> QED BY <1>1, <1>2, <1>3, <1>4 DEF Environment

(* The invariant is inductive.                                             *)
LEMMA CollectorNext == CollectorInv /\ [Next]_vars => CollectorInv'
  <1> SUFFICES ASSUME CollectorInv, [Next]_vars
               PROVE  CollectorInv'
    OBVIOUS
  <1>1. ASSUME NEW p \in Procs, Launch(p) \/ Step(p) \/ Terminate(p) \/ Crash(p)
        PROVE  CollectorInv'
    <2>1. PcTyped  BY DEF CollectorInv, TypeOK, PcTyped
    <2> QED BY <1>1, <2>1, StepTyped, StepExclusive, StepLateOnce DEF CollectorInv
  <1>2. CASE Environment  BY <1>2, EnvironmentStep
  <1>3. CASE UNCHANGED vars
    BY <1>3 DEF vars, disk, account, local, history, env, CollectorInv, TypeOK,
                LockExclusive, LateOnce, Armed, ArmedPoints, Healthy
  <1> QED BY <1>1, <1>2, <1>3 DEF Next

(* The invariant of the collector: typing, exclusive lock, and the armed   *)
(* points from which a stopped collection can still take a command.        *)
THEOREM CollectorInvariant == Spec => []CollectorInv
  BY CollectorInit, CollectorNext, PTL DEF Spec

(* Type correctness of the collector's state.                              *)
THEOREM CollectorTypeCorrect == Spec => []TypeOK
  <1>1. CollectorInv => TypeOK  BY DEF CollectorInv
  <1> QED BY <1>1, CollectorInvariant, PTL

(* "Any collection failure permanently halts I/O": whatever the processes, *)
(* their clocks and their launches, at most one command is committed once  *)
(* the marker exists or the source has changed.                            *)
THEOREM AtMostOneLateCommand == Spec => []OneCommandAfterStop
  <1>1. CollectorInv => OneCommandAfterStop
    BY DEF CollectorInv, LateOnce, OneCommandAfterStop
  <1> QED BY <1>1, CollectorInvariant, PTL

(* The first recorded cause of a failure is kept: every action that        *)
(* touches the marker leaves one that exists alone.                        *)
THEOREM FirstCauseAlwaysKept == Spec => FirstCauseKept
  <1>1. ASSUME Next, failure # "none"
        PROVE  failure' = failure
    <2>1. ASSUME NEW p \in Procs, Launch(p) \/ Step(p) \/ Terminate(p) \/ Crash(p)
          PROVE  failure' = failure
      BY <1>1, <2>1
         DEF Launch, Step, Terminate, Crash, LockAcquire, LockHeld, EnterGuard, Refuse,
             RefuseEnd, Open, CycleGuard, CycleBackwards, CycleWaiting, CycleGap,
               CycleFinish, CycleBegin, CycleBranch, CaptureRules, CaptureMarket,
                 CaptureMarketEnd, Decide, DecideFails, DecideFinish, ExecuteBegin,
                   ExecuteCaptureEnd, Execute, ExecuteFails, ExecuteFinish,
                     ExecuteTooLate, ExpireGuard, ExpireGap, CompleteCycle,
                       ReportTerminal, ReportSleep, Finish, Halt, Recover, Leave,
                         ExitGuard,
             Raise, disk
    <2>2. CASE Environment
      BY <1>1, <2>2 DEF Environment, WatchdogFailure, Drift, Tick, ClockBack, disk
    <2> QED BY <1>1, <2>1, <2>2 DEF Next
  <1>2. [Next]_vars => [failure # "none" => failure' = failure]_vars
    BY <1>1
  <1> QED BY <1>2, PTL DEF Spec, FirstCauseKept

-----------------------------------------------------------------------------

(* The parts of a cycle: before its decision, between the decision and the *)
(* execution, and before its acknowledgement.                              *)
Undetermined == {"begun", "ruling", "ruled", "snapping", "deciding"}
Decided == {"executing", "matching", "filling", "expiring", "cancelling"}
Ending == {"completing", "concluding"}

CleanShapes == {<< >>, <<"decision">>, <<"decision", "execution">>}

(* The process in a cycle began it, it is durably open, and the account    *)
(* and the commands so far are those of this point of it; a process        *)
(* between cycles has left none open behind it.                            *)
CycleInv ==
  /\ \A p \in Procs :
       /\ pc[p] \in InCycle => control = "open" /\ began = {p}
       /\ pc[p] \in Looping => control # "open"
       /\ pc[p] \in Undetermined => shape = << >> /\ ~pending
       /\ pc[p] \in Decided => shape = <<"decision">>
       /\ pc[p] \in Ending => ~pending /\ (~quality => shape \in CleanShapes)
  /\ PendingInsideOpenCycle
  /\ CleanCycles

(* What a step may do to a cycle, as far as CycleInv is concerned.         *)
CycleTyped ==
  /\ pc \in [Procs -> ProgramPoints] /\ quality \in BOOLEAN /\ pending \in BOOLEAN

(* A command at the head of a cycle is its decision, the next its          *)
(* execution.                                                              *)
LEMMA ShapesGrow ==
  /\ Append(<< >>, "decision") = <<"decision">>
  /\ Append(<<"decision">>, "execution") = <<"decision", "execution">>
  <1> DEFINE Kinds == {"decision", "execution", "gap"}
             s == Append(<<"decision">>, "execution")
             t == <<"decision", "execution">>
  <1>1. Append(<< >>, "decision") = <<"decision">>
    BY << >> \in Seq(Kinds) /\ "decision" \in Kinds
  <1>2. /\ s \in Seq(Kinds) /\ Len(s) = 2
        /\ s[1] = "decision" /\ s[2] = "execution"
    BY <<"decision">> \in Seq(Kinds) /\ "execution" \in Kinds /\ Len(<<"decision">>) = 1
  <1>3. t \in Seq(Kinds) /\ Len(t) = 2 /\ t[1] = "decision" /\ t[2] = "execution"
    OBVIOUS
  <1>4. \A i \in 1 .. 2 : i = 1 \/ i = 2
    OBVIOUS
  <1> HIDE DEF s, t, Kinds
  <1>5. s = t  BY <1>2, <1>3, <1>4, SeqEqual
  <1> QED BY <1>1, <1>5 DEF s, t

(* A step to a point outside every cycle that leaves the journal alone, or *)
(* records a gap in it.                                                    *)
LEMMA OutsideStep ==
  ASSUME CycleTyped, LockExclusive, CycleInv, NEW p \in Procs,
         NEW l \in ProgramPoints \ (InCycle \union Looping), pc' = [pc EXCEPT ![p] = l],
         UNCHANGED <<control, began, shapes>>,
         \/ UNCHANGED <<pending, quality, shape>>
         \/ pc[p] \in Holding /\ pending' = FALSE /\ quality' = TRUE
  PROVE  CycleInv'
  <1>1. ASSUME NEW q \in Procs, pc'[q] \in InCycle \union Looping
        PROVE  q # p /\ pc'[q] = pc[q] /\ UNCHANGED <<pending, quality, shape>>
    <2>1. q # p /\ pc'[q] = pc[q]  BY <1>1 DEF CycleTyped
    <2>2. pc[p] \notin Holding
      BY <1>1, <2>1 DEF LockExclusive, Holding, ProgramPoints, Opened, InCycle, Looping,
                        Halting
    <2> QED BY <2>1, <2>2
  <1>2. Undetermined \union Decided \union Ending \subseteq InCycle
    BY DEF Undetermined, Decided, Ending, InCycle
  <1>3. PendingInsideOpenCycle' /\ CleanCycles'
    BY DEF CycleInv, PendingInsideOpenCycle, CleanCycles
  <1> QED BY <1>1, <1>2, <1>3 DEF CycleInv

(* A raised exception leaves the cycle as it is, in the journal and in the *)
(* control database.                                                       *)
LEMMA RaiseStep ==
  ASSUME CycleTyped, LockExclusive, CycleInv, NEW p \in Procs, Raise(p)
  PROVE  CycleInv'
  <1>1. "halting" \in ProgramPoints \ (InCycle \union Looping)
    BY DEF ProgramPoints, Opened, InCycle, Looping, Halting
  <1> QED BY <1>1, OutsideStep DEF Raise, Goto, disk, account, history

(* The step of a process inside: no other process is.                      *)
LEMMA InsideStep ==
  ASSUME CycleTyped, LockExclusive, CycleInv, NEW p \in Procs,
    NEW l \in InCycle \union Looping,
         pc[p] \in InCycle \union Looping \union {"opening"}, pc' = [pc EXCEPT ![p] = l],
         l \in InCycle => control' = "open" /\ began' = {p},
         l \in Looping => control' # "open",
         l \in Undetermined => shape' = << >> /\ ~pending',
         l \in Decided => shape' = <<"decision">>,
         l \in Ending => ~pending' /\ (~quality' => shape' \in CleanShapes),
         PendingInsideOpenCycle', CleanCycles'
  PROVE  CycleInv'
  <1>1. ASSUME NEW q \in Procs, q # p PROVE pc'[q] \notin InCycle \union Looping
    BY <1>1 DEF CycleTyped, LockExclusive, Holding, ProgramPoints, Opened, InCycle, Looping,
                Halting
  <1>2. Undetermined \union Decided \union Ending \subseteq InCycle
    BY DEF Undetermined, Decided, Ending, InCycle
  <1>3. pc'[p] = l  BY DEF CycleTyped
  <1> QED BY <1>1, <1>2, <1>3 DEF CycleInv

(* A step of a process inside that neither begins, acknowledges nor        *)
(* records anything, to a point of the same part.                          *)
LEMMA QuietStep ==
  ASSUME CycleTyped, LockExclusive, CycleInv, NEW p \in Procs, NEW l,
         pc' = [pc EXCEPT ![p] = l],
         UNCHANGED <<control, began, shapes, shape, pending, quality>>,
         \/ pc[p] \in Undetermined /\ l \in Undetermined
         \/ pc[p] \in Decided /\ l \in Decided
         \/ pc[p] \in Undetermined /\ l \in Ending
         \/ pc[p] \in Decided /\ l \in Ending /\ ~pending
         \/ pc[p] \in Looping /\ l \in Looping
  PROVE  CycleInv'
  <1>1. /\ PendingInsideOpenCycle' /\ CleanCycles'
        /\ pc[p] \in Undetermined \union Decided => control = "open" /\ began = {p}
        /\ pc[p] \in Looping => control # "open"
        /\ pc[p] \in Undetermined => shape = << >> /\ ~pending
        /\ pc[p] \in Decided => shape = <<"decision">>
    BY DEF CycleInv, PendingInsideOpenCycle, CleanCycles, Undetermined, Decided, InCycle
  <1>2. l \in InCycle \union Looping /\ pc[p] \in InCycle \union Looping
    BY DEF Undetermined, Decided, Ending, InCycle, Looping
  <1>3. /\ l \in Looping <=> pc[p] \in Looping
        /\ l \in Undetermined => pc[p] \in Undetermined
        /\ l \in Decided => pc[p] \in Decided
        /\ l \in Ending => pc[p] \in Undetermined \/ (pc[p] \in Decided /\ ~pending)
        /\ l \in InCycle => pc[p] \in Undetermined \union Decided
    BY DEF Undetermined, Decided, Ending, InCycle, Looping
  <1>4. ~pending' <=> ~pending  OBVIOUS
  <1> QED BY <1>1, <1>2, <1>3, <1>4, InsideStep DEF CleanShapes

(* The deadline: a pending decision becomes a gap, which rejects.          *)
LEMMA FinishStep ==
  ASSUME CycleTyped, LockExclusive, CycleInv, NEW p \in Procs, NEW t, FinishIfDue(t),
         pc[p] \in Undetermined \union Decided, pc' = [pc EXCEPT ![p] = "concluding"],
         UNCHANGED <<control, began, shapes>>
  PROVE  CycleInv'
  <1>1. CASE pending /\ Gap(t)
    <2>1. ~pending' /\ quality' = TRUE  BY <1>1 DEF Gap
    <2>2. control = "open" /\ began = {p} /\ pc[p] \in InCycle
      BY DEF CycleInv, Undetermined, Decided, InCycle
    <2>3. "concluding" \in InCycle /\ "concluding" \notin Undetermined \union Decided \union Looping
      BY DEF Undetermined, Decided, InCycle, Looping
    <2>4. PendingInsideOpenCycle' /\ CleanCycles'
      BY <2>1 DEF PendingInsideOpenCycle, CleanCycles
    <2> QED BY <2>1, <2>2, <2>3, <2>4, InsideStep
  <1>2. CASE ~pending /\ UNCHANGED <<account, late, shape>>
    BY <1>2, QuietStep DEF account, Ending
  <1> QED BY <1>1, <1>2 DEF FinishIfDue

(* A step of a process keeps every cycle whole.                            *)
LEMMA StepCycle ==
  ASSUME CycleTyped, LockExclusive, CycleInv, NEW p \in Procs,
         Launch(p) \/ Step(p) \/ Terminate(p) \/ Crash(p)
  PROVE  CycleInv'
  <1> DEFINE Outside == {"off", "locking", "locked", "opening", "unopened", "reviving",
                         "refusing", "ending", "leaving", "exiting"} \union Halting
  <1>0. Outside \subseteq ProgramPoints \ (InCycle \union Looping)
    BY DEF ProgramPoints, Opened, InCycle, Looping, Halting
  <1>1. CASE Launch(p)
    <2>1. PICK l \in Outside : pc' = [pc EXCEPT ![p] = l]
      BY <1>1 DEF Launch, Goto, Halting
    <2>2. UNCHANGED <<control, began, shapes, pending, quality, shape>>
      BY <1>1 DEF Launch, disk, account, local, history
    <2> QED BY <1>0, <2>1, <2>2, OutsideStep
  <1>2. CASE LockAcquire(p)
    <2>1. PICK l \in Outside : pc' = [pc EXCEPT ![p] = l]
      BY <1>2 DEF LockAcquire, Goto, Halting
    <2>2. UNCHANGED <<control, began, shapes, pending, quality, shape>>
      BY <1>2 DEF LockAcquire, disk, account, local, history
    <2> QED BY <1>0, <2>1, <2>2, OutsideStep
  <1>3. CASE LockHeld(p)
    <2>1. PICK l \in Outside : pc' = [pc EXCEPT ![p] = l]
      BY <1>3 DEF LockHeld, Goto, Halting
    <2>2. UNCHANGED <<control, began, shapes, pending, quality, shape>>
      BY <1>3 DEF LockHeld, disk, account, local, history
    <2> QED BY <1>0, <2>1, <2>2, OutsideStep
  <1>4. CASE EnterGuard(p)
    <2>1. PICK l \in Outside : pc' = [pc EXCEPT ![p] = l]
      BY <1>4 DEF EnterGuard, Goto, Halting
    <2>2. UNCHANGED <<control, began, shapes, pending, quality, shape>>
      BY <1>4 DEF EnterGuard, disk, account, local, history
    <2> QED BY <1>0, <2>1, <2>2, OutsideStep
  <1>5. CASE Refuse(p)
    <2>1. PICK l \in Outside : pc' = [pc EXCEPT ![p] = l]
      BY <1>5 DEF Refuse, Goto, Halting
    <2>2. UNCHANGED <<control, began, shapes, pending, quality, shape>>
      BY <1>5 DEF Refuse, disk, account, local, history
    <2> QED BY <1>0, <2>1, <2>2, OutsideStep
  <1>6. CASE RefuseEnd(p)
    <2>1. PICK l \in Outside : pc' = [pc EXCEPT ![p] = l]
      BY <1>6 DEF RefuseEnd, Goto, Halting
    <2>2. UNCHANGED <<control, began, shapes, pending, quality, shape>>
      BY <1>6 DEF RefuseEnd, disk, account, local, history
    <2> QED BY <1>0, <2>1, <2>2, OutsideStep
  <1>7. CASE Open(p)
    <2>1. CASE control = "open"
      <3>1. pc' = [pc EXCEPT ![p] = "unopened"] /\ "unopened" \in Outside
        BY <1>7, <2>1 DEF Open, Goto
      <3>2. UNCHANGED <<control, began, shapes, pending, quality, shape>>
        BY <1>7, <2>1 DEF Open, account, history
      <3> QED BY <1>0, <3>1, <3>2, OutsideStep
    <2>2. CASE control # "open"
      <3>1. /\ pc' = [pc EXCEPT ![p] = "sleeping"] /\ control' = "clean"
            /\ UNCHANGED <<pending, quality, shapes>>
        BY <1>7, <2>2 DEF Open, Goto, account, history
      <3>2. ~pending'  BY <2>2, <3>1 DEF CycleInv, PendingInsideOpenCycle
      <3>3. PendingInsideOpenCycle' /\ CleanCycles'
        BY <3>1, <3>2 DEF CycleInv, PendingInsideOpenCycle, CleanCycles
      <3>4. "sleeping" \in Looping /\ "sleeping" \notin InCycle \union Undetermined
                                                      \union Decided \union Ending
        BY DEF Looping, InCycle, Undetermined, Decided, Ending
      <3> QED BY <1>7, <3>1, <3>3, <3>4, InsideStep DEF Open
    <2> QED BY <2>1, <2>2
  <1>8. CASE CycleGuard(p)
    <2>1. CASE Raise(p)  BY <2>1, RaiseStep
    <2>2. CASE ~Raise(p)
      <3>1. /\ pc' = [pc EXCEPT ![p] = "guarded"]
            /\ UNCHANGED <<control, began, shapes, shape, pending, quality>>
        BY <1>8, <2>2 DEF CycleGuard, Goto, disk, account, local, history
      <3> QED BY <1>8, <3>1, QuietStep DEF CycleGuard, Looping
    <2> QED BY <2>1, <2>2
  <1>9. CASE CycleBackwards(p)
    BY <1>9, RaiseStep DEF CycleBackwards
  <1>10. CASE CycleWaiting(p)
    <2>1. /\ pc' = [pc EXCEPT ![p] = "reporting"]
          /\ UNCHANGED <<control, began, shapes, shape, pending, quality>>
      BY <1>10 DEF CycleWaiting, Goto, disk, account, local, history
    <2> QED BY <1>10, <2>1, QuietStep DEF CycleWaiting, Looping
  <1>11. CASE CycleGap(p)
    <2>1. pc' = [pc EXCEPT ![p] = "timely"] /\ UNCHANGED <<control, began, shapes>>
      BY <1>11 DEF CycleGap, Goto, disk, history
    <2>2. CASE Gap(at[p])
      <3>1. PendingInsideOpenCycle' /\ CleanCycles'
        BY <2>2 DEF Gap, PendingInsideOpenCycle, CleanCycles
      <3>2. /\ "timely" \in Looping /\ pc[p] \in Looping
            /\ "timely" \notin InCycle \union Undetermined \union Decided \union Ending
        BY <1>11 DEF CycleGap, Looping, InCycle, Undetermined, Decided, Ending
      <3>3. control' # "open"  BY <2>1, <3>2 DEF CycleInv
      <3> QED BY <2>1, <3>1, <3>2, <3>3, InsideStep
    <2>3. CASE UNCHANGED <<account, history>>
      BY <1>11, <2>1, <2>3, QuietStep DEF CycleGap, account, history, Looping
    <2> QED BY <1>11, <2>2, <2>3 DEF CycleGap
  <1>12. CASE CycleFinish(p)
    <2>1. ~pending
      BY <1>12 DEF CycleFinish, CycleInv, PendingInsideOpenCycle, Looping
    <2>2. /\ pc' = [pc EXCEPT ![p] = "concluded"]
          /\ UNCHANGED <<control, began, shapes, shape, pending, quality>>
      BY <1>12, <2>1 DEF CycleFinish, FinishIfDue, Goto, disk, account
    <2> QED BY <1>12, <2>2, QuietStep DEF CycleFinish, Looping
  <1>13. CASE CycleBegin(p)
    <2>1. CASE Raise(p)  BY <2>1, RaiseStep
    <2>2. CASE ~Raise(p)
      <3>1. /\ control' = "open" /\ began' = {p} /\ shape' = << >>
            /\ pc' = [pc EXCEPT ![p] = "begun"] /\ UNCHANGED <<account, shapes>>
        BY <1>13, <2>2 DEF CycleBegin, Goto
      <3>2. /\ pc[p] \in Looping /\ "begun" \in InCycle
            /\ "begun" \notin Looping \union Decided \union Ending
        BY <1>13 DEF CycleBegin, Looping, InCycle, Decided, Ending
      <3>3. ~pending'
        BY <3>1, <3>2 DEF CycleInv, PendingInsideOpenCycle, account
      <3>4. PendingInsideOpenCycle' /\ CleanCycles'
        BY <3>1 DEF CycleInv, PendingInsideOpenCycle, CleanCycles, account
      <3> QED BY <3>1, <3>2, <3>3, <3>4, InsideStep
    <2> QED BY <2>1, <2>2
  <1>14. CASE CycleBranch(p)
    <2>1. pc[p] \in Undetermined /\ ~pending
      BY <1>14 DEF CycleBranch, CycleInv, Undetermined
    <2>2. /\ \E l \in {"ruling", "ruled"} : pc' = [pc EXCEPT ![p] = l]
          /\ UNCHANGED <<control, began, shapes, shape, pending, quality>>
      BY <1>14, <2>1 DEF CycleBranch, Goto, disk, account, history
    <2>3. {"ruling", "ruled"} \subseteq Undetermined  BY DEF Undetermined
    <2> QED BY <2>1, <2>2, <2>3, QuietStep
  <1>15. CASE CaptureRules(p)
    <2>1. CASE Raise(p)  BY <2>1, RaiseStep
    <2>2. CASE Goto(p, "ruled") /\ UNCHANGED <<account, late, shape>>
      <3>1. CASE Raise(p)  BY <3>1, RaiseStep
      <3>2. CASE ~Raise(p)
        BY <1>15, <2>2, <3>2, QuietStep DEF CaptureRules, Goto, disk, account, Undetermined
      <3> QED BY <3>1, <3>2
    <2>3. CASE FinishIfDue(clock) /\ Goto(p, "concluding")
      <3>1. CASE Raise(p)  BY <3>1, RaiseStep
      <3>2. CASE ~Raise(p)
        BY <1>15, <2>3, <3>2, FinishStep DEF CaptureRules, Goto, disk, Undetermined
      <3> QED BY <3>1, <3>2
    <2> QED BY <1>15, <2>1, <2>2, <2>3 DEF CaptureRules
  <1>16. CASE CaptureMarket(p)
    <2>1. CASE Raise(p)  BY <2>1, RaiseStep
    <2>2. CASE ~Raise(p)
      <3>1. /\ pc' = [pc EXCEPT ![p] = "snapping"]
            /\ UNCHANGED <<control, began, shapes, shape, pending, quality>>
        BY <1>16, <2>2 DEF CaptureMarket, Goto, disk, account, local, history
      <3> QED BY <1>16, <3>1, QuietStep DEF CaptureMarket, Undetermined
    <2> QED BY <2>1, <2>2
  <1>17. CASE CaptureMarketEnd(p)
    <2>1. CASE Raise(p)  BY <2>1, RaiseStep
    <2>2. CASE ~Raise(p)
      <3>1. /\ pc' = [pc EXCEPT ![p] = "deciding"]
            /\ UNCHANGED <<control, began, shapes, shape, pending, quality>>
        BY <1>17, <2>2 DEF CaptureMarketEnd, Goto, disk, account, local, history
      <3> QED BY <1>17, <3>1, QuietStep DEF CaptureMarketEnd, Undetermined
    <2> QED BY <2>1, <2>2
  <1>18. CASE Decide(p)
    <2>1. control = "open" /\ began = {p} /\ shape = << >> /\ pc[p] \in InCycle
      BY <1>18 DEF Decide, CycleInv, InCycle, Undetermined
    <2>2. shape' = <<"decision">> /\ UNCHANGED <<control, began, shapes>>
      BY <1>18, <2>1, ShapesGrow DEF Decide, Commit, disk
    <2>3. PendingInsideOpenCycle' /\ CleanCycles'
      <3>1. ~quality' => ~quality  BY <1>18 DEF Decide, Observe, CycleTyped
      <3> QED BY <2>1, <2>2, <3>1 DEF CycleInv, PendingInsideOpenCycle, CleanCycles
    <2>4. CASE pending'
      <3>1. pc' = [pc EXCEPT ![p] = "executing"]  BY <1>18, <2>4 DEF Decide, Goto
      <3>2. "executing" \in InCycle \ (Undetermined \union Ending \union Looping)
        BY DEF InCycle, Undetermined, Ending, Looping
      <3> QED BY <2>1, <2>2, <2>3, <3>1, <3>2, InsideStep
    <2>5. CASE ~pending'
      <3>1. pc' = [pc EXCEPT ![p] = "completing"]  BY <1>18, <2>5 DEF Decide, Goto
      <3>2. "completing" \in InCycle \ (Undetermined \union Decided \union Looping)
        BY DEF InCycle, Undetermined, Decided, Looping
      <3> QED BY <2>1, <2>2, <2>3, <2>5, <3>1, <3>2, InsideStep DEF CleanShapes
    <2> QED BY <2>4, <2>5
  <1>19. CASE DecideFails(p)
    BY <1>19, RaiseStep DEF DecideFails
  <1>20. CASE DecideFinish(p)
    BY <1>20, FinishStep DEF DecideFinish, Goto, disk, Undetermined
  <1>21. CASE ExecuteBegin(p)
    <2>1. CASE Raise(p)  BY <2>1, RaiseStep
    <2>2. CASE ~Raise(p)
      <3>1. /\ \E l \in {"expiring", "matching"} : pc' = [pc EXCEPT ![p] = l]
            /\ UNCHANGED <<control, began, shapes, shape, pending, quality>>
        BY <1>21, <2>2 DEF ExecuteBegin, Goto, disk, account, history
      <3>2. {"expiring", "matching"} \subseteq Decided  BY DEF Decided
      <3> QED BY <1>21, <3>1, <3>2, QuietStep DEF ExecuteBegin, Decided
    <2> QED BY <2>1, <2>2
  <1>22. CASE ExecuteCaptureEnd(p)
    <2>1. CASE Raise(p)  BY <2>1, RaiseStep
    <2>2. CASE ~Raise(p)
      <3>1. /\ pc' = [pc EXCEPT ![p] = "filling"]
            /\ UNCHANGED <<control, began, shapes, shape, pending, quality>>
        BY <1>22, <2>2 DEF ExecuteCaptureEnd, Goto, disk, account, local, history
      <3> QED BY <1>22, <3>1, QuietStep DEF ExecuteCaptureEnd, Decided
    <2> QED BY <2>1, <2>2
  <1>23. CASE Execute(p)
    <2>1. /\ control = "open" /\ began = {p} /\ shape = <<"decision">>
          /\ pc[p] \in InCycle
      BY <1>23 DEF Execute, CycleInv, InCycle, Decided
    <2>2. /\ shape' = <<"decision", "execution">> /\ UNCHANGED <<control, began, shapes>>
          /\ ~pending'
      BY <1>23, <2>1, ShapesGrow DEF Execute, Commit, disk
    <2>3. PendingInsideOpenCycle' /\ CleanCycles'
      <3>1. ~quality' => ~quality  BY <1>23 DEF Execute, Observe, CycleTyped
      <3> QED BY <2>2, <3>1 DEF CycleInv, PendingInsideOpenCycle, CleanCycles
    <2>4. pc' = [pc EXCEPT ![p] = "completing"]  BY <1>23 DEF Execute, Goto
    <2>5. "completing" \in InCycle \ (Undetermined \union Decided \union Looping)
      BY DEF InCycle, Undetermined, Decided, Looping
    <2> QED BY <2>1, <2>2, <2>3, <2>4, <2>5, InsideStep DEF CleanShapes
  <1>24. CASE ExecuteFails(p)
    BY <1>24, RaiseStep DEF ExecuteFails
  <1>25. CASE ExecuteFinish(p)
    BY <1>25, FinishStep DEF ExecuteFinish, Goto, disk, Decided
  <1>26. CASE ExecuteTooLate(p)
    <2>1. /\ pc' = [pc EXCEPT ![p] = "expiring"]
          /\ UNCHANGED <<control, began, shapes, shape, pending, quality>>
      BY <1>26 DEF ExecuteTooLate, Goto, disk, account, local, history
    <2> QED BY <1>26, <2>1, QuietStep DEF ExecuteTooLate, Decided
  <1>27. CASE ExpireGuard(p)
    <2>1. CASE Raise(p)  BY <2>1, RaiseStep
    <2>2. CASE ~Raise(p)
      <3>1. /\ pc' = [pc EXCEPT ![p] = "cancelling"]
            /\ UNCHANGED <<control, began, shapes, shape, pending, quality>>
        BY <1>27, <2>2 DEF ExpireGuard, Goto, disk, account, local, history
      <3> QED BY <1>27, <3>1, QuietStep DEF ExpireGuard, Decided
    <2> QED BY <2>1, <2>2
  <1>28. CASE ExpireGap(p)
    <2>1. CASE Raise(p)  BY <2>1, RaiseStep
    <2>2. CASE ~Raise(p)
      <3>1. /\ ~pending' /\ quality' = TRUE /\ UNCHANGED <<control, began, shapes>>
            /\ pc' = [pc EXCEPT ![p] = "completing"]
        BY <1>28, <2>2 DEF ExpireGap, Gap, Goto, disk
      <3>2. control = "open" /\ began = {p} /\ pc[p] \in InCycle
        BY <1>28 DEF ExpireGap, CycleInv, InCycle, Decided
      <3>3. PendingInsideOpenCycle' /\ CleanCycles'
        BY <3>1 DEF PendingInsideOpenCycle, CleanCycles
      <3>4. "completing" \in InCycle \ (Undetermined \union Decided \union Looping)
        BY DEF InCycle, Undetermined, Decided, Looping
      <3> QED BY <3>1, <3>2, <3>3, <3>4, InsideStep
    <2> QED BY <2>1, <2>2
  <1>29. CASE CompleteCycle(p)
    <2>1. pc[p] \in InCycle /\ ~pending /\ (~quality => shape \in CleanShapes)
      BY <1>29 DEF CompleteCycle, CycleInv, InCycle, Ending
    <2>2. /\ control' = "clean" /\ shapes' = shapes \union {shape}
          /\ UNCHANGED <<pending, quality>>
      BY <1>29 DEF CompleteCycle, account
    <2>3. PICK l \in {"reporting", "concluded"} : pc' = [pc EXCEPT ![p] = l]
      BY <1>29 DEF CompleteCycle, Goto
    <2>4. PendingInsideOpenCycle' /\ CleanCycles'
      BY <2>1, <2>2 DEF CycleInv, PendingInsideOpenCycle, CleanCycles, CleanShapes
    <2>5. l \in Looping \ (InCycle \union Undetermined \union Decided \union Ending)
      BY <2>3 DEF Looping, InCycle, Undetermined, Decided, Ending
    <2> QED BY <2>1, <2>2, <2>3, <2>4, <2>5, InsideStep
  <1>30. CASE ReportTerminal(p)
    <2>1. /\ pc' = [pc EXCEPT ![p] = "finishing"]
          /\ UNCHANGED <<control, began, shapes, shape, pending, quality>>
      BY <1>30 DEF ReportTerminal, Goto, disk, account, local, history
    <2> QED BY <1>30, <2>1, QuietStep DEF ReportTerminal, Looping
  <1>31. CASE ReportSleep(p)
    <2>1. CASE Raise(p)  BY <2>1, RaiseStep
    <2>2. CASE ~Raise(p)
      <3>1. /\ pc' = [pc EXCEPT ![p] = "sleeping"]
            /\ UNCHANGED <<control, began, shapes, shape, pending, quality>>
        BY <1>31, <2>2 DEF ReportSleep, Goto, disk, account, local, history
      <3> QED BY <1>31, <3>1, QuietStep DEF ReportSleep, Looping
    <2> QED BY <2>1, <2>2
  <1>32. CASE Finish(p)
    <2>1. PICK l \in Outside : pc' = [pc EXCEPT ![p] = l]
      BY <1>32 DEF Finish, Goto, Halting
    <2>2. UNCHANGED <<control, began, shapes, pending, quality, shape>>
      BY <1>32 DEF Finish, disk, account, local, history
    <2> QED BY <1>0, <2>1, <2>2, OutsideStep
  <1>33. CASE Halt(p)
    <2>1. PICK l \in Outside : pc' = [pc EXCEPT ![p] = l]
      BY <1>33 DEF Halt, Goto, AfterMarker, Halting
    <2>2. UNCHANGED <<control, began, shapes, pending, quality, shape>>
      BY <1>33 DEF Halt, disk, account, local, history
    <2> QED BY <1>0, <2>1, <2>2, OutsideStep
  <1>34. CASE Recover(p)
    <2>1. PICK l \in Outside : pc' = [pc EXCEPT ![p] = l]
      BY <1>34 DEF Recover, Goto
    <2>2. UNCHANGED <<control, began, shapes>> /\ pc[p] \in Holding
      BY <1>34 DEF Recover, disk, Holding, ProgramPoints, Opened, Halting
    <2>3. CASE Gap(clock)
      BY <1>0, <2>1, <2>2, <2>3, OutsideStep DEF Gap
    <2>4. CASE UNCHANGED <<account, late, shape>>
      BY <1>0, <2>1, <2>2, <2>4, OutsideStep DEF account
    <2> QED BY <1>34, <2>3, <2>4 DEF Recover
  <1>35. CASE Leave(p)
    <2>1. PICK l \in Outside : pc' = [pc EXCEPT ![p] = l]
      BY <1>35 DEF Leave, Goto, Halting
    <2>2. UNCHANGED <<control, began, shapes, pending, quality, shape>>
      BY <1>35 DEF Leave, disk, account, local, history
    <2> QED BY <1>0, <2>1, <2>2, OutsideStep
  <1>36. CASE ExitGuard(p)
    <2>1. PICK l \in Outside : pc' = [pc EXCEPT ![p] = l]
      BY <1>36 DEF ExitGuard, Goto, Halting
    <2>2. UNCHANGED <<control, began, shapes, pending, quality, shape>>
      BY <1>36 DEF ExitGuard, disk, account, local, history
    <2> QED BY <1>0, <2>1, <2>2, OutsideStep
  <1>37. CASE Terminate(p)
    <2>1. PICK l \in Outside : pc' = [pc EXCEPT ![p] = l]
      BY <1>37 DEF Terminate, Goto, Halting
    <2>2. UNCHANGED <<control, began, shapes, pending, quality, shape>>
      BY <1>37 DEF Terminate, disk, account, local, history
    <2> QED BY <1>0, <2>1, <2>2, OutsideStep
  <1>38. CASE Crash(p)
    <2>1. PICK l \in Outside : pc' = [pc EXCEPT ![p] = l]
      BY <1>38 DEF Crash, Goto, Halting
    <2>2. UNCHANGED <<control, began, shapes, pending, quality, shape>>
      BY <1>38 DEF Crash, disk, account, local, history
    <2> QED BY <1>0, <2>1, <2>2, OutsideStep
  <1> QED
    BY <1>1, <1>2, <1>3, <1>4, <1>5, <1>6, <1>7, <1>8, <1>9, <1>10, <1>11, <1>12,
       <1>13, <1>14, <1>15, <1>16, <1>17, <1>18, <1>19, <1>20, <1>21, <1>22, <1>23,
       <1>24, <1>25, <1>26, <1>27, <1>28, <1>29, <1>30, <1>31, <1>32, <1>33, <1>34,
       <1>35, <1>36, <1>37, <1>38 DEF Step

(* What happens around the processes leaves every cycle alone.             *)
LEMMA EnvironmentCycle ==
  ASSUME CycleInv, Environment
  PROVE  CycleInv'
  <1>1. UNCHANGED <<pc, control, began, shape, shapes, pending, quality>>
    BY DEF Environment, WatchdogFailure, Drift, Tick, ClockBack, disk, account, history
  <1> QED BY <1>1 DEF CycleInv, PendingInsideOpenCycle, CleanCycles

(* A cycle belongs to the process that began it and contains its own       *)
(* pending decision, and the cycles acknowledged without a quality failure *)
(* are those the audit accepts: whatever the number of processes, their    *)
(* crashes and relaunches.                                                 *)
THEOREM CyclesAlwaysWhole == Spec => []CyclesAreWhole
  <1>1. Init => CycleInv
    BY DEF Init, CycleInv, PendingInsideOpenCycle, CleanCycles, InCycle, Looping,
           Undetermined, Decided, Ending
  <1>2. CollectorInv /\ CycleInv /\ [Next]_vars => CycleInv'
    <2> SUFFICES ASSUME CollectorInv, CycleInv, [Next]_vars
                 PROVE  CycleInv'
      OBVIOUS
    <2>1. CycleTyped /\ LockExclusive  BY DEF CollectorInv, TypeOK, CycleTyped
    <2>2. ASSUME NEW p \in Procs, Launch(p) \/ Step(p) \/ Terminate(p) \/ Crash(p)
          PROVE  CycleInv'
      BY <2>1, <2>2, StepCycle
    <2>3. CASE Environment  BY <2>3, EnvironmentCycle
    <2>4. CASE UNCHANGED vars
      BY <2>4 DEF vars, disk, account, history, CycleInv, PendingInsideOpenCycle,
                  CleanCycles
    <2> QED BY <2>2, <2>3, <2>4 DEF Next
  <1>3. CollectorInv /\ CycleInv => CyclesAreWhole
    BY DEF CycleInv, CyclesAreWhole, InterruptedCycleNeverResumed
  <1> QED BY <1>1, <1>2, <1>3, CollectorInvariant, PTL DEF Spec

(* How long the journal was silent when a step commits: a command ends the *)
(* silence with a gap, or as an observation that measures it.              *)
LEMMA CommandMeasuresSilence ==
  ASSUME TypeOK, NEW p \in Procs, Launch(p) \/ Step(p) \/ Terminate(p) \/ Crash(p)
  PROVE  \/ lastAt' = lastAt
         \/ quality' = TRUE
         \/ Observe(lastAt')
  <1>1. CASE CycleGap(p)  BY <1>1 DEF CycleGap, Gap, account
  <1>2. CASE CycleFinish(p) \/ DecideFinish(p) \/ ExecuteFinish(p)
    BY <1>2 DEF CycleFinish, DecideFinish, ExecuteFinish, FinishIfDue, Gap, account
  <1>3. CASE CaptureRules(p)
    BY <1>3 DEF CaptureRules, FinishIfDue, Gap, Raise, account
  <1>4. CASE Decide(p)  BY <1>4 DEF Decide, Commit
  <1>5. CASE Execute(p)  BY <1>5 DEF Execute, Commit
  <1>6. CASE ExpireGap(p)  BY <1>6 DEF ExpireGap, Gap, Raise, account
  <1>7. CASE Recover(p)  BY <1>7 DEF Recover, Gap, account
  <1>8. ASSUME ~CycleGap(p), ~CycleFinish(p), ~DecideFinish(p), ~ExecuteFinish(p),
               ~CaptureRules(p), ~Decide(p), ~Execute(p), ~ExpireGap(p), ~Recover(p)
        PROVE  lastAt' = lastAt
    BY <1>8 DEF Step, Launch, LockAcquire, LockHeld, EnterGuard, Refuse, RefuseEnd,
               Open, CycleGuard, CycleBackwards, CycleWaiting, CycleBegin,
               CycleBranch, CaptureMarket, CaptureMarketEnd, DecideFails,
               ExecuteBegin, ExecuteCaptureEnd, ExecuteFails, ExecuteTooLate,
               ExpireGuard, CompleteCycle, ReportTerminal, ReportSleep, Finish,
               Halt, Leave, ExitGuard, Terminate, Crash, Raise, account
  <1> QED BY <1>1, <1>2, <1>3, <1>4, <1>5, <1>6, <1>7, <1>8

(* A silence longer than the frozen limit is never bridged quietly,        *)
(* whichever process ends it and however the clock was stepped.            *)
THEOREM SilenceAlwaysRecorded == Spec => SilenceRecorded
  <1>1. TypeOK /\ [Next]_vars => [lastAt' > lastAt + MaxGap => quality']_vars
    <2> SUFFICES ASSUME TypeOK, Next, lastAt' > lastAt + MaxGap
                 PROVE  quality'
      OBVIOUS
    <2>1. lastAt \in Nat /\ MaxGap \in Nat  BY TimingAssumption DEF TypeOK
    <2>2. lastAt' # lastAt  BY <2>1
    <2>3. ASSUME NEW p \in Procs, Launch(p) \/ Step(p) \/ Terminate(p) \/ Crash(p)
          PROVE  quality'
      BY <2>2, <2>3, CommandMeasuresSilence DEF Observe
    <2>4. ~Environment
      BY <2>2 DEF Environment, WatchdogFailure, Drift, Tick, ClockBack, account
    <2> QED BY <2>3, <2>4 DEF Next
  <1> QED BY <1>1, CollectorTypeCorrect, PTL DEF Spec, SilenceRecorded


-----------------------------------------------------------------------------
(* How the repository moves.                                                *)

HubBranchLists == [tip : [Topics -> Nat], protected : SUBSET Topics, main : Nat,
                   history : SUBSET Nat, retention : Nat, registry : Nat]
HubRuns == [attempt : Nat, state : {"none", "running", "completed"}, sha : Nat]
HubComments == [text : Comments, updated : Nat]
HubReviews == [sha : Nat, verdict : {"none", "approved", "blocked", "dismissed"},
               by : {"author", "other"}, receipt : BOOLEAN]

(* Branches only move on: a push makes a commit nobody has seen.            *)
BranchesMoved(x, y) ==
  /\ x \in HubBranchLists /\ y \in HubBranchLists
  /\ \A b \in Topics : x.tip[b] <= y.tip[b]
  /\ x.protected \subseteq y.protected /\ x.main <= y.main /\ x.history \subseteq y.history
  /\ x.retention <= y.retention /\ x.registry <= y.registry

(* A run ends, or a new attempt of it starts.                               *)
RunMoved(x, y) ==
  /\ x \in HubRuns /\ y \in HubRuns
  /\ \/ x = y \/ x.attempt < y.attempt
     \/ x.attempt = y.attempt /\ x.state = "running" /\ y = [x EXCEPT !.state = "completed"]

(* Comments are added, or updated later than they were.                     *)
IssueMoved(x, y) ==
  /\ x \in Seq(HubComments) /\ y \in Seq(HubComments) /\ Len(x) <= Len(y)
  /\ \A i \in 1..Len(x) : x[i] = y[i] \/ x[i].updated < y[i].updated

(* The review of a packet is submitted, and dismissed.                      *)
ReviewMoved(x, y) ==
  /\ x \in HubReviews /\ y \in HubReviews
  /\ \/ x = y
     \/ x.verdict = "none" /\ y.verdict # "none"
     \/ x.verdict # "none" /\ y = [x EXCEPT !.verdict = "dismissed"]

Guards == {"branches", "run", "issues", "review"}

PartMoved(g, x, y) ==
  /\ g = "branches" => BranchesMoved(x, y)
  /\ g = "run" => RunMoved(x, y)
  /\ g = "issues" => IssueMoved(x, y)
  /\ g = "review" => ReviewMoved(x, y)

(* What moved on and is as it was has not moved.                            *)
LEMMA MovedAntisymmetric ==
  ASSUME NEW g \in Guards, NEW x, NEW y, PartMoved(g, x, y), PartMoved(g, y, x)
  PROVE  x = y
<1>1. CASE g = "branches"
  <2>1. BranchesMoved(x, y) /\ BranchesMoved(y, x)  BY <1>1 DEF PartMoved
  <2>2. x \in HubBranchLists /\ y \in HubBranchLists  BY <2>1 DEF BranchesMoved
  <2>3. x.tip = y.tip
    <3>1. x.tip \in [Topics -> Nat] /\ y.tip \in [Topics -> Nat]  BY <2>2 DEF HubBranchLists
    <3>2. \A b \in Topics : x.tip[b] = y.tip[b]  BY <2>1, <3>1 DEF BranchesMoved
    <3> QED BY <3>1, <3>2
  <2>4. x.protected = y.protected /\ x.history = y.history  BY <2>1 DEF BranchesMoved
  <2>5. x.main = y.main /\ x.retention = y.retention /\ x.registry = y.registry
    BY <2>1, <2>2 DEF BranchesMoved, HubBranchLists
  <2> QED BY <2>2, <2>3, <2>4, <2>5 DEF HubBranchLists
<1>2. CASE g = "run"
  BY <1>2 DEF PartMoved, RunMoved, HubRuns
<1>3. CASE g = "issues"
  <2>1. IssueMoved(x, y) /\ IssueMoved(y, x)  BY <1>3 DEF PartMoved
  <2>2. /\ x \in Seq(HubComments) /\ y \in Seq(HubComments) /\ Len(x) = Len(y)
        /\ \A i \in 1..Len(x) : x[i] \in HubComments /\ y[i] \in HubComments
    BY <2>1 DEF IssueMoved
  <2>3. \A i \in 1..Len(x) : x[i] = y[i]
    BY <2>1, <2>2 DEF IssueMoved, HubComments
  <2> QED BY <2>2, <2>3, SeqEqual
<1>4. CASE g = "review"
  BY <1>4 DEF PartMoved, ReviewMoved, HubReviews
<1> QED BY <1>1, <1>2, <1>3, <1>4 DEF Guards

(* And it moves on from step to step.                                       *)
LEMMA MovedTransitive ==
  ASSUME NEW g \in Guards, NEW x, NEW y, NEW z, PartMoved(g, x, y), PartMoved(g, y, z)
  PROVE  PartMoved(g, x, z)
<1>1. CASE g = "branches"
  BY <1>1 DEF PartMoved, BranchesMoved, HubBranchLists
<1>2. CASE g = "run"
  BY <1>2 DEF PartMoved, RunMoved, HubRuns
<1>3. CASE g = "issues"
  <2>1. IssueMoved(x, y) /\ IssueMoved(y, z)  BY <1>3 DEF PartMoved
  <2>2. /\ Len(x) \in Nat /\ Len(y) \in Nat /\ Len(z) \in Nat
        /\ \A i \in 1..Len(x) : x[i] \in HubComments /\ i \in 1..Len(y)
        /\ \A i \in 1..Len(y) : y[i] \in HubComments /\ i \in 1..Len(z)
        /\ \A i \in 1..Len(z) : z[i] \in HubComments
    BY <2>1 DEF IssueMoved
  <2>3. ASSUME NEW i \in 1..Len(x) PROVE x[i] = z[i] \/ x[i].updated < z[i].updated
    <3>1. /\ x[i] \in HubComments /\ y[i] \in HubComments /\ z[i] \in HubComments
          /\ i \in 1..Len(y)
      BY <2>2
    <3>2. x[i].updated \in Nat /\ y[i].updated \in Nat /\ z[i].updated \in Nat
      BY <3>1 DEF HubComments
    <3>3. x[i] = y[i] \/ x[i].updated < y[i].updated  BY <2>1 DEF IssueMoved
    <3>4. y[i] = z[i] \/ y[i].updated < z[i].updated  BY <2>1, <3>1 DEF IssueMoved
    <3> QED BY <3>2, <3>3, <3>4
  <2>4. IssueMoved(x, z)  BY <2>1, <2>2, <2>3 DEF IssueMoved
  <2> QED BY <1>3, <2>4 DEF PartMoved
<1>4. CASE g = "review"
  BY <1>4 DEF PartMoved, ReviewMoved, HubReviews
<1> QED BY <1>1, <1>2, <1>3, <1>4 DEF Guards

-----------------------------------------------------------------------------
(* The repository stays what it is, and moves on.                           *)

HubPulls == [state : {"none", "open", "merged", "closed"}, sha : Nat]
HubRecords == [name : Topics, sha : Nat, at : Nat, tip : Nat]
HubRegistries == [oid : Nat, holder : Topics, head : Nat, readable : BOOLEAN]
Repositories ==
  [tip : [Topics -> Nat], protected : SUBSET Topics, main : Nat, retention : Nat,
   history : SUBSET Nat, reach : Seq(SUBSET Nat), pull : [Topics -> HubPulls],
   sources : SUBSET (Topics \X Nat), retained : SUBSET HubRecords, run : [Topics -> HubRuns],
   uploads : Nat, issue : Seq(HubComments), registry : HubRegistries,
   reviews : Seq(HubReviews), clock : Nat, events : Nat]

HubInv(h) ==
  /\ h \in Repositories
  /\ \A b \in Topics : h.tip[b] <= Len(h.reach)
  /\ \A b \in Topics : h.pull[b].state = "open" => h.pull[b].sha \in 1..Len(h.reach)
  /\ \A i \in 1..Len(h.issue) : h.issue[i].updated <= h.events
  /\ \A i \in 1..Len(h.reviews) : h.reviews[i].verdict # "none"

Grew(x, y) ==
  /\ BranchesMoved(BranchList(x), BranchList(y))
  /\ \A b \in Topics : RunMoved(x.run[b], y.run[b])
  /\ IssueMoved(x.issue, y.issue)
  /\ ReviewMoved(ReviewNamed(x), ReviewNamed(y))
  /\ x.sources \subseteq y.sources /\ x.retained \subseteq y.retained /\ x.clock <= y.clock

(* The list of branches of a repository is one.                             *)
LEMMA ListsOfHubs ==
  ASSUME NEW h \in Repositories
  PROVE  BranchList(h) \in HubBranchLists
BY DEF Repositories, BranchList, HubBranchLists, HubRegistries

(* What does not move stays.                                                *)
LEMMA HubStays ==
  ASSUME NEW h, HubInv(h)
  PROVE  /\ BranchesMoved(BranchList(h), BranchList(h))
         /\ \A b \in Topics : RunMoved(h.run[b], h.run[b])
         /\ IssueMoved(h.issue, h.issue)
         /\ ReviewNamed(h) \in HubReviews
         /\ ReviewMoved(ReviewNamed(h), ReviewNamed(h))
<1>1. h \in Repositories  BY DEF HubInv
<1>2. BranchList(h) \in HubBranchLists
  BY <1>1, ListsOfHubs
<1>3. BranchesMoved(BranchList(h), BranchList(h))
  BY <1>2 DEF BranchesMoved, HubBranchLists
<1>4. \A b \in Topics : RunMoved(h.run[b], h.run[b])
  BY <1>1 DEF Repositories, RunMoved
<1>5. IssueMoved(h.issue, h.issue)
  BY <1>1 DEF Repositories, IssueMoved
<1>6. ReviewNamed(h) \in HubReviews
  <2>1. Unreviewed \in HubReviews  BY DEF Unreviewed, HubReviews, Absent
  <2>2. h.reviews \in Seq(HubReviews)  BY <1>1 DEF Repositories
  <2>3. h.reviews # <<>> => h.reviews[1] \in HubReviews  BY <2>2
  <2> QED BY <2>1, <2>3 DEF ReviewNamed
<1> QED BY <1>3, <1>4, <1>5, <1>6 DEF ReviewMoved

(* Fields of a repository that stay.                                        *)
Kept(x, y, moved) ==
  /\ "tip" \in moved \/ y.tip = x.tip
  /\ "protected" \in moved \/ y.protected = x.protected
  /\ "main" \in moved \/ y.main = x.main
  /\ "retention" \in moved \/ y.retention = x.retention
  /\ "history" \in moved \/ y.history = x.history
  /\ "reach" \in moved \/ y.reach = x.reach
  /\ "pull" \in moved \/ y.pull = x.pull
  /\ "sources" \in moved \/ y.sources = x.sources
  /\ "retained" \in moved \/ y.retained = x.retained
  /\ "run" \in moved \/ y.run = x.run
  /\ "uploads" \in moved \/ y.uploads = x.uploads
  /\ "issue" \in moved \/ y.issue = x.issue
  /\ "registry" \in moved \/ y.registry = x.registry
  /\ "reviews" \in moved \/ y.reviews = x.reviews
  /\ "clock" \in moved \/ y.clock = x.clock
  /\ "events" \in moved \/ y.events = x.events

TipsReach(h) == \A b \in Topics : h.tip[b] <= Len(h.reach)
PullsReach(h) ==
  \A b \in Topics : h.pull[b].state = "open" => h.pull[b].sha \in 1..Len(h.reach)
UpdatesPast(h) == \A i \in 1..Len(h.issue) : h.issue[i].updated <= h.events
ReviewsGiven(h) == \A i \in 1..Len(h.reviews) : h.reviews[i].verdict # "none"

(* What follows from the fields that stay.                                  *)
LEMMA KeptStays ==
  ASSUME NEW x, NEW y, NEW moved, HubInv(x), y \in Repositories, Kept(x, y, moved),
         x.events <= y.events
  PROVE  /\ moved \cap {"tip", "protected", "main", "history", "retention", "registry"} = {}
              => BranchesMoved(BranchList(x), BranchList(y))
         /\ "run" \notin moved => \A b \in Topics : RunMoved(x.run[b], y.run[b])
         /\ "issue" \notin moved => IssueMoved(x.issue, y.issue) /\ UpdatesPast(y)
         /\ "reviews" \notin moved => ReviewMoved(ReviewNamed(x), ReviewNamed(y)) /\ ReviewsGiven(y)
         /\ moved \cap {"tip", "reach"} = {} => TipsReach(y)
         /\ moved \cap {"pull", "reach"} = {} => PullsReach(y)
         /\ "sources" \notin moved => x.sources \subseteq y.sources
         /\ "retained" \notin moved => x.retained \subseteq y.retained
         /\ "clock" \notin moved => x.clock <= y.clock
<1>1. x \in Repositories  BY DEF HubInv
<1>2. moved \cap {"tip", "protected", "main", "history", "retention", "registry"} = {}
        => BranchList(x) = BranchList(y)
  BY DEF Kept, BranchList
<1>3. "reviews" \notin moved => ReviewNamed(x) = ReviewNamed(y)
  BY DEF Kept, ReviewNamed
<1>4. "run" \notin moved => \A b \in Topics : RunMoved(x.run[b], y.run[b])
  BY HubStays DEF Kept
<1>5. "issue" \notin moved => IssueMoved(x.issue, y.issue) /\ UpdatesPast(y)
  <2>1. ASSUME "issue" \notin moved, NEW i \in 1..Len(x.issue) PROVE x.issue[i].updated <= y.events
    <3>1. x.issue \in Seq(HubComments) /\ x.events \in Nat /\ y.events \in Nat
      BY <1>1 DEF Repositories
    <3>2. x.issue[i] \in HubComments  BY <3>1, <2>1
    <3>3. x.issue[i].updated \in Nat  BY <3>2 DEF HubComments
    <3>4. x.issue[i].updated <= x.events  BY <2>1 DEF HubInv
    <3> QED BY <3>1, <3>3, <3>4
  <2> QED BY <2>1, HubStays DEF Kept, UpdatesPast
<1>6. "reviews" \notin moved => ReviewsGiven(y)
  BY DEF Kept, HubInv, ReviewsGiven
<1>7. moved \cap {"tip", "reach"} = {} => TipsReach(y)
  BY DEF Kept, HubInv, TipsReach
<1>8. moved \cap {"pull", "reach"} = {} => PullsReach(y)
  BY DEF Kept, HubInv, PullsReach
<1>9. "clock" \notin moved => x.clock <= y.clock
  BY <1>1 DEF Kept, Repositories
<1> QED BY <1>2, <1>3, <1>4, <1>5, <1>6, <1>7, <1>8, <1>9, HubStays DEF Kept

(* The parts of the invariant of a repository.                              *)
LEMMA HubInvParts ==
  ASSUME NEW h, h \in Repositories, TipsReach(h), PullsReach(h), UpdatesPast(h), ReviewsGiven(h)
  PROVE  HubInv(h)
BY DEF HubInv, TipsReach, PullsReach, UpdatesPast, ReviewsGiven

(* A branch is protected.                                                   *)
LEMMA AfterProtect ==
  ASSUME HubInv(github), NEW b \in Topics
  PROVE  HubInv(Protect(b)) /\ Grew(github, Protect(b))
<1> DEFINE h == Protect(b)
<1>1. github \in Repositories  BY DEF HubInv
<1>2. Kept(github, h, {"protected", "events"})
  BY <1>1 DEF Repositories, Protect, Moved, Kept
<1>3. h.protected = github.protected \cup {b} /\ h.events = github.events + 1
  BY <1>1 DEF Repositories, Protect, Moved
<1>4. h \in Repositories
  <2>1. github.protected \cup {b} \in SUBSET Topics /\ github.events + 1 \in Nat
    BY <1>1 DEF Repositories
  <2> QED BY <1>1, <2>1 DEF Repositories, Protect, Moved
<1> HIDE DEF h
<1>5. github.events <= h.events  BY <1>1, <1>3 DEF Repositories
<1>6. BranchesMoved(BranchList(github), BranchList(h))
  <2>1. BranchList(github) \in HubBranchLists /\ BranchList(h) \in HubBranchLists
    BY <1>1, <1>4, ListsOfHubs
  <2> QED BY <1>1, <1>2, <1>3, <2>1 DEF BranchesMoved, BranchList, Kept, Repositories, HubRegistries
<1>7. HubInv(h)  BY <1>2, <1>4, <1>5, KeptStays, HubInvParts
<1>8. Grew(github, h)  BY <1>2, <1>4, <1>5, <1>6, KeptStays DEF Grew
<1> QED BY <1>7, <1>8 DEF h
(* A function with one value changed.                                       *)
LEMMA Updated ==
  ASSUME NEW S, NEW T, NEW f \in [S -> T], NEW a \in S, NEW v \in T
  PROVE  [f EXCEPT ![a] = v] \in [S -> T]
OBVIOUS

(* A pull request is closed.                                              *)
LEMMA AfterClosePull ==
  ASSUME HubInv(github), NEW b \in Topics
  PROVE  HubInv(ClosePull(b)) /\ Grew(github, ClosePull(b))
<1> DEFINE h == ClosePull(b)
<1>1. github \in Repositories  BY DEF HubInv
<1>0. [github.pull[b] EXCEPT !.state = "closed"] \in HubPulls
          /\ [github.pull[b] EXCEPT !.state = "closed"].state # "open"
  <2> github.pull \in [Topics -> HubPulls] /\ github.tip \in [Topics -> Nat]
    BY <1>1 DEF Repositories
  <2> QED BY DEF HubPulls
<1>2. Kept(github, h, {"pull", "events"})
  BY <1>1 DEF Repositories, ClosePull, Moved, Kept
<1>3. /\ h.pull = [github.pull EXCEPT ![b] = [github.pull[b] EXCEPT !.state = "closed"]]
      /\ h.events = github.events + 1
  BY <1>1 DEF Repositories, ClosePull, Moved
<1>4. h \in Repositories
  <2>1. /\ [github.pull EXCEPT ![b] = [github.pull[b] EXCEPT !.state = "closed"]]
               \in [Topics -> HubPulls]
        /\ github.events + 1 \in Nat
    BY <1>1, <1>0, Updated DEF Repositories
  <2> QED BY <1>1, <2>1 DEF Repositories, ClosePull, Moved
<1> HIDE DEF h
<1>5. github.events <= h.events  BY <1>1, <1>3 DEF Repositories
<1>7. PullsReach(h)
  <2>1. ASSUME NEW c \in Topics, h.pull[c].state = "open" PROVE h.pull[c].sha \in 1..Len(h.reach)
    <3>1. CASE c = b
      <4>1. h.pull[b] = [github.pull[b] EXCEPT !.state = "closed"]  BY <1>1, <1>3 DEF Repositories
      <4> QED BY <1>0, <1>2, <2>1, <3>1, <4>1 DEF Kept
    <3>2. CASE c # b
      BY <1>1, <1>2, <1>3, <2>1, <3>2 DEF Kept, Repositories, HubInv
    <3> QED BY <3>1, <3>2
  <2> QED BY <2>1 DEF PullsReach
<1>9. HubInv(h) /\ Grew(github, h)
  BY <1>1, <1>2, <1>3, <1>4, <1>5, <1>7, KeptStays, HubInvParts DEF Grew
<1> QED BY <1>9 DEF h

(* A pull request is opened at the tip of its branch.                     *)
LEMMA AfterOpenPull ==
  ASSUME HubInv(github), NEW b \in Topics, github.tip[b] # Absent
  PROVE  HubInv(OpenPull(b)) /\ Grew(github, OpenPull(b))
<1> DEFINE h == OpenPull(b)
<1>1. github \in Repositories  BY DEF HubInv
<1>0. [state |-> "open", sha |-> github.tip[b]] \in HubPulls /\ github.tip[b] \in 1..Len(github.reach)
  <2> github.pull \in [Topics -> HubPulls] /\ github.tip \in [Topics -> Nat]
    BY <1>1 DEF Repositories
  <2>1. github.tip[b] \in Nat /\ Len(github.reach) \in Nat  BY <1>1 DEF Repositories
  <2>2. github.tip[b] <= Len(github.reach)  BY DEF HubInv
  <2> QED BY <2>1, <2>2 DEF HubPulls, Absent
<1>2. Kept(github, h, {"pull", "events"})
  BY <1>1 DEF Repositories, OpenPull, Moved, Kept
<1>3. /\ h.pull = [github.pull EXCEPT ![b] = [state |-> "open", sha |-> github.tip[b]]]
      /\ h.events = github.events + 1
  BY <1>1 DEF Repositories, OpenPull, Moved
<1>4. h \in Repositories
  <2>1. /\ [github.pull EXCEPT ![b] = [state |-> "open", sha |-> github.tip[b]]]
               \in [Topics -> HubPulls]
        /\ github.events + 1 \in Nat
    BY <1>1, <1>0, Updated DEF Repositories
  <2> QED BY <1>1, <2>1 DEF Repositories, OpenPull, Moved
<1> HIDE DEF h
<1>5. github.events <= h.events  BY <1>1, <1>3 DEF Repositories
<1>7. PullsReach(h)
  <2>1. ASSUME NEW c \in Topics, h.pull[c].state = "open" PROVE h.pull[c].sha \in 1..Len(h.reach)
    <3>1. CASE c = b
      <4>1. h.pull[b] = [state |-> "open", sha |-> github.tip[b]]  BY <1>1, <1>3 DEF Repositories
      <4> QED BY <1>0, <1>2, <2>1, <3>1, <4>1 DEF Kept
    <3>2. CASE c # b
      BY <1>1, <1>2, <1>3, <2>1, <3>2 DEF Kept, Repositories, HubInv
    <3> QED BY <3>1, <3>2
  <2> QED BY <2>1 DEF PullsReach
<1>9. HubInv(h) /\ Grew(github, h)
  BY <1>1, <1>2, <1>3, <1>4, <1>5, <1>7, KeptStays, HubInvParts DEF Grew
<1> QED BY <1>9 DEF h

(* A run starts.                                                          *)
LEMMA AfterStartRun ==
  ASSUME HubInv(github), NEW b \in Topics
  PROVE  HubInv(StartRun(b)) /\ Grew(github, StartRun(b))
<1> DEFINE h == StartRun(b)
<1>1. github \in Repositories  BY DEF HubInv
<1>0. [attempt |-> github.run[b].attempt + 1, state |-> "running", sha |-> github.tip[b]] \in HubRuns
  <2>1. github.run[b] \in HubRuns /\ github.tip[b] \in Nat  BY <1>1 DEF Repositories
  <2> QED BY <2>1 DEF HubRuns
<1>2. Kept(github, h, {"run", "events"})
  BY <1>1 DEF Repositories, StartRun, Moved, Kept
<1>3. /\ h.run = [github.run EXCEPT ![b] =
                  [attempt |-> github.run[b].attempt + 1, state |-> "running", sha |-> github.tip[b]]]
      /\ h.events = github.events + 1
  BY <1>1 DEF Repositories, StartRun, Moved
<1>4. h \in Repositories
  <2>1. /\ [github.run EXCEPT ![b] =
              [attempt |-> github.run[b].attempt + 1, state |-> "running", sha |-> github.tip[b]]] \in [Topics -> HubRuns]
        /\ github.events + 1 \in Nat
    BY <1>1, <1>0, Updated DEF Repositories
  <2> QED BY <1>1, <2>1 DEF Repositories, StartRun, Moved
<1> HIDE DEF h
<1>5. github.events <= h.events  BY <1>1, <1>3 DEF Repositories
<1>6. ASSUME NEW c \in Topics PROVE RunMoved(github.run[c], h.run[c])
  <2>1. github.run[c] \in HubRuns /\ h.run[c] \in HubRuns  BY <1>1, <1>4 DEF Repositories
  <2>2. CASE c = b
    <3>1. h.run[b] = [attempt |-> github.run[b].attempt + 1, state |-> "running", sha |-> github.tip[b]]
      BY <1>1, <1>3 DEF Repositories
    <3> QED BY <1>1, <2>1, <2>2, <3>1 DEF RunMoved, HubRuns
  <2>3. CASE c # b
    BY <1>1, <1>3, <2>1, <2>3 DEF Repositories, RunMoved
  <2> QED BY <2>2, <2>3
<1>9. HubInv(h) /\ Grew(github, h)
  BY <1>1, <1>2, <1>3, <1>4, <1>5, <1>6, KeptStays, HubInvParts DEF Grew
<1> QED BY <1>9 DEF h

(* A run ends.                                                            *)
LEMMA AfterFinishRun ==
  ASSUME HubInv(github), NEW b \in Topics, github.run[b].state = "running"
  PROVE  HubInv(FinishRun(b)) /\ Grew(github, FinishRun(b))
<1> DEFINE h == FinishRun(b)
<1>1. github \in Repositories  BY DEF HubInv
<1>0. [github.run[b] EXCEPT !.state = "completed"] \in HubRuns
  <2>1. github.run[b] \in HubRuns /\ github.tip[b] \in Nat  BY <1>1 DEF Repositories
  <2> QED BY <2>1 DEF HubRuns
<1>2. Kept(github, h, {"run", "events"})
  BY <1>1 DEF Repositories, FinishRun, Moved, Kept
<1>3. /\ h.run = [github.run EXCEPT ![b] = [github.run[b] EXCEPT !.state = "completed"]]
      /\ h.events = github.events + 1
  BY <1>1 DEF Repositories, FinishRun, Moved
<1>4. h \in Repositories
  <2>1. /\ [github.run EXCEPT ![b] = [github.run[b] EXCEPT !.state = "completed"]]
               \in [Topics -> HubRuns]
        /\ github.events + 1 \in Nat
    BY <1>1, <1>0, Updated DEF Repositories
  <2> QED BY <1>1, <2>1 DEF Repositories, FinishRun, Moved
<1> HIDE DEF h
<1>5. github.events <= h.events  BY <1>1, <1>3 DEF Repositories
<1>6. ASSUME NEW c \in Topics PROVE RunMoved(github.run[c], h.run[c])
  <2>1. github.run[c] \in HubRuns /\ h.run[c] \in HubRuns  BY <1>1, <1>4 DEF Repositories
  <2>2. CASE c = b
    <3>1. h.run[b] = [github.run[b] EXCEPT !.state = "completed"]
      BY <1>1, <1>3 DEF Repositories
    <3> QED BY <1>1, <2>1, <2>2, <3>1 DEF RunMoved, HubRuns
  <2>3. CASE c # b
    BY <1>1, <1>3, <2>1, <2>3 DEF Repositories, RunMoved
  <2> QED BY <2>2, <2>3
<1>9. HubInv(h) /\ Grew(github, h)
  BY <1>1, <1>2, <1>3, <1>4, <1>5, <1>6, KeptStays, HubInvParts DEF Grew
<1> QED BY <1>9 DEF h

(* A run uploads an artifact.                                             *)
LEMMA AfterUploadArtifact ==
  ASSUME HubInv(github)
  PROVE  HubInv(UploadArtifact) /\ Grew(github, UploadArtifact)
<1> DEFINE h == UploadArtifact
<1>1. github \in Repositories  BY DEF HubInv
<1>2. Kept(github, h, {"uploads", "events"})
  BY <1>1 DEF Repositories, UploadArtifact, Moved, Kept
<1>3. /\ h.uploads = github.uploads + 1
      /\ h.events = github.events + 1
  BY <1>1 DEF Repositories, UploadArtifact, Moved
<1>4. h \in Repositories
  <2>1. /\ github.uploads + 1 \in Nat
        /\ github.events + 1 \in Nat
    BY <1>1 DEF Repositories
  <2> QED BY <1>1, <2>1 DEF Repositories, UploadArtifact, Moved
<1> HIDE DEF h
<1>5. github.events <= h.events  BY <1>1, <1>3 DEF Repositories
<1>9. HubInv(h) /\ Grew(github, h)
  BY <1>1, <1>2, <1>3, <1>4, <1>5, KeptStays, HubInvParts DEF Grew
<1> QED BY <1>9 DEF h

(* The registry moves.                                                    *)
LEMMA AfterMoveRegistry ==
  ASSUME HubInv(github), NEW b \in Topics, NEW readable \in BOOLEAN
  PROVE  HubInv(MoveRegistry(b, readable)) /\ Grew(github, MoveRegistry(b, readable))
<1> DEFINE h == MoveRegistry(b, readable)
<1>1. github \in Repositories  BY DEF HubInv
<1>0. [oid |-> github.registry.oid + 1, holder |-> b, head |-> github.tip[b], readable |-> readable]
            \in HubRegistries
  <2>1. github.registry \in HubRegistries /\ github.tip[b] \in Nat  BY <1>1 DEF Repositories
  <2> QED BY <2>1 DEF HubRegistries
<1>2. Kept(github, h, {"registry", "events"})
  BY <1>1 DEF Repositories, MoveRegistry, Moved, Kept
<1>3. /\ h.registry = [oid |-> github.registry.oid + 1, holder |-> b, head |-> github.tip[b], readable |-> readable]
      /\ h.events = github.events + 1
  BY <1>1 DEF Repositories, MoveRegistry, Moved
<1>4. h \in Repositories
  <2>1. /\ [oid |-> github.registry.oid + 1, holder |-> b, head |-> github.tip[b], readable |-> readable] \in HubRegistries
        /\ github.events + 1 \in Nat
    BY <1>1, <1>0, Updated DEF Repositories
  <2> QED BY <1>1, <2>1 DEF Repositories, MoveRegistry, Moved
<1> HIDE DEF h
<1>5. github.events <= h.events  BY <1>1, <1>3 DEF Repositories
<1>6. BranchesMoved(BranchList(github), BranchList(h))
  <2>1. BranchList(github) \in HubBranchLists /\ BranchList(h) \in HubBranchLists
    BY <1>1, <1>4, ListsOfHubs
  <2>2. github.registry.oid <= h.registry.oid  BY <1>1, <1>3 DEF Repositories, HubRegistries
  <2> QED BY <1>1, <1>2, <1>3, <2>1, <2>2 DEF BranchesMoved, BranchList, Kept, Repositories
<1>9. HubInv(h) /\ Grew(github, h)
  BY <1>1, <1>2, <1>3, <1>4, <1>5, <1>6, KeptStays, HubInvParts DEF Grew
<1> QED BY <1>9 DEF h

(* A tip is retained.                                                     *)
LEMMA AfterRetain ==
  ASSUME HubInv(github), NEW b \in Topics
  PROVE  HubInv(Retain(b)) /\ Grew(github, Retain(b))
<1> DEFINE h == Retain(b)
<1>1. github \in Repositories  BY DEF HubInv
<1>0. [name |-> b, sha |-> github.tip[b], at |-> github.clock, tip |-> github.retention + 1] \in HubRecords
  <2>1. github.retention \in Nat /\ github.tip[b] \in Nat /\ github.clock \in Nat
    BY <1>1 DEF Repositories
  <2> QED BY <2>1 DEF HubRecords
<1>2. Kept(github, h, {"retention", "retained", "events"})
  BY <1>1 DEF Repositories, Retain, Moved, Kept
<1>3. /\ h.retention = github.retention + 1
      /\ h.retained = github.retained \cup {[name |-> b, sha |-> github.tip[b], at |-> github.clock, tip |-> github.retention + 1]}
      /\ h.events = github.events + 1
  BY <1>1 DEF Repositories, Retain, Moved
<1>4. h \in Repositories
  <2>1. /\ github.retention + 1 \in Nat
        /\ github.retained \cup {[name |-> b, sha |-> github.tip[b], at |-> github.clock, tip |-> github.retention + 1]}
              \in SUBSET HubRecords
        /\ github.events + 1 \in Nat
    BY <1>1, <1>0, Updated DEF Repositories
  <2> QED BY <1>1, <2>1 DEF Repositories, Retain, Moved
<1> HIDE DEF h
<1>5. github.events <= h.events  BY <1>1, <1>3 DEF Repositories
<1>6. BranchesMoved(BranchList(github), BranchList(h))
  <2>1. BranchList(github) \in HubBranchLists /\ BranchList(h) \in HubBranchLists
    BY <1>1, <1>4, ListsOfHubs
  <2> QED BY <1>1, <1>2, <1>3, <2>1 DEF BranchesMoved, BranchList, Kept, Repositories, HubRegistries
<1>7. github.retained \subseteq h.retained
  BY <1>3
<1>9. HubInv(h) /\ Grew(github, h)
  BY <1>1, <1>2, <1>3, <1>4, <1>5, <1>6, <1>7, KeptStays, HubInvParts DEF Grew
<1> QED BY <1>9 DEF h

(* A review is submitted.                                                 *)
LEMMA AfterSubmit ==
  ASSUME HubInv(github), NEW b \in Topics, NEW verdict \in {"approved", "blocked"}, NEW by \in {"author", "other"}, 
         NEW receipt \in BOOLEAN
  PROVE  HubInv(Submit(b, verdict, by, receipt)) /\ Grew(github, Submit(b, verdict, by, receipt))
<1> DEFINE h == Submit(b, verdict, by, receipt)
<1>1. github \in Repositories  BY DEF HubInv
<1>0. [sha |-> github.pull[b].sha, verdict |-> verdict, by |-> by, receipt |-> receipt] \in HubReviews
  <2>1. github.pull[b] \in HubPulls  BY <1>1 DEF Repositories
  <2> QED BY <2>1 DEF HubPulls, HubReviews
<1>2. Kept(github, h, {"reviews", "events"})
  BY <1>1 DEF Repositories, Submit, Moved, Kept
<1>3. /\ h.reviews = Append(github.reviews, [sha |-> github.pull[b].sha, verdict |-> verdict, by |-> by, receipt |-> receipt])
      /\ h.events = github.events + 1
  BY <1>1 DEF Repositories, Submit, Moved
<1>4. h \in Repositories
  <2>1. /\ Append(github.reviews, [sha |-> github.pull[b].sha, verdict |-> verdict, by |-> by, receipt |-> receipt]) \in Seq(HubReviews)
        /\ github.events + 1 \in Nat
    BY <1>1, <1>0, Updated DEF Repositories
  <2> QED BY <1>1, <2>1 DEF Repositories, Submit, Moved
<1> HIDE DEF h
<1>5. github.events <= h.events  BY <1>1, <1>3 DEF Repositories
<1>6. ReviewsGiven(h)
  <2>1. github.reviews \in Seq(HubReviews)  BY <1>1 DEF Repositories
  <2>2. [sha |-> github.pull[b].sha, verdict |-> verdict, by |-> by, receipt |-> receipt].verdict # "none"
    OBVIOUS
  <2>3. ASSUME NEW i \in 1..Len(h.reviews) PROVE h.reviews[i].verdict # "none"
    <3>1. CASE i = Len(github.reviews) + 1
      <4>1. h.reviews[i] = [sha |-> github.pull[b].sha, verdict |-> verdict, by |-> by, receipt |-> receipt]
        BY <1>0, <1>3, <2>1, <3>1
      <4> QED BY <2>2, <4>1
    <3>2. CASE i # Len(github.reviews) + 1
      <4>1. i \in 1..Len(github.reviews) /\ h.reviews[i] = github.reviews[i]
        BY <1>0, <1>3, <2>1, <2>3, <3>2
      <4> QED BY <4>1 DEF HubInv
    <3> QED BY <3>1, <3>2
  <2> QED BY <2>3 DEF ReviewsGiven
<1>7. ReviewMoved(ReviewNamed(github), ReviewNamed(h))
  <2>1. ReviewNamed(github) \in HubReviews  BY HubStays
  <2>2. CASE github.reviews = <<>>
    <3>1. h.reviews # <<>>
              /\ h.reviews[1] = [sha |-> github.pull[b].sha, verdict |-> verdict, by |-> by, receipt |-> receipt]
      BY <1>1, <1>3, <2>2 DEF Repositories
    <3> QED BY <1>0, <2>1, <2>2, <3>1 DEF ReviewNamed, ReviewMoved, Unreviewed, HubReviews
  <2>3. CASE github.reviews # <<>>
    <3>1. github.reviews \in Seq(HubReviews) /\ Len(github.reviews) >= 1
      <4>1. github.reviews \in Seq(HubReviews)  BY <1>1 DEF Repositories
      <4> QED BY <2>3, <4>1, EmptySeq
    <3>2. h.reviews # <<>> /\ h.reviews[1] = github.reviews[1]
      BY <1>0, <1>3, <3>1
    <3> QED BY <2>1, <2>3, <3>2 DEF ReviewNamed, ReviewMoved
  <2> QED BY <2>2, <2>3
<1>9. HubInv(h) /\ Grew(github, h)
  BY <1>1, <1>2, <1>3, <1>4, <1>5, <1>6, <1>7, KeptStays, HubInvParts DEF Grew
<1> QED BY <1>9 DEF h

(* A review is dismissed.                                                 *)
LEMMA AfterDismissReview ==
  ASSUME HubInv(github), NEW i \in 1..Len(github.reviews)
  PROVE  HubInv(DismissReview(i)) /\ Grew(github, DismissReview(i))
<1> DEFINE h == DismissReview(i)
<1>1. github \in Repositories  BY DEF HubInv
<1>0. [github.reviews[i] EXCEPT !.verdict = "dismissed"] \in HubReviews
          /\ github.reviews[i] \in HubReviews
  <2>1. github.reviews \in Seq(HubReviews)  BY <1>1 DEF Repositories
  <2>2. github.reviews[i] \in HubReviews  BY <2>1
  <2> QED BY <2>2 DEF HubReviews
<1>2. Kept(github, h, {"reviews", "events"})
  BY <1>1 DEF Repositories, DismissReview, Moved, Kept
<1>3. /\ h.reviews = [github.reviews EXCEPT ![i] = [github.reviews[i] EXCEPT !.verdict = "dismissed"]]
      /\ h.events = github.events + 1
  BY <1>1 DEF Repositories, DismissReview, Moved
<1>4. h \in Repositories
  <2>1. /\ [github.reviews EXCEPT ![i]
               = [github.reviews[i] EXCEPT !.verdict = "dismissed"]] \in Seq(HubReviews)
        /\ github.events + 1 \in Nat
    BY <1>1, <1>0, Updated DEF Repositories
  <2> QED BY <1>1, <2>1 DEF Repositories, DismissReview, Moved
<1> HIDE DEF h
<1>5. github.events <= h.events  BY <1>1, <1>3 DEF Repositories
<1>6. ReviewsGiven(h)
  BY <1>0, <1>1, <1>3 DEF Repositories, HubInv, ReviewsGiven, HubReviews
<1>7. ReviewMoved(ReviewNamed(github), ReviewNamed(h))
  <2>1. ReviewNamed(github) \in HubReviews  BY HubStays
  <2>2. CASE i = 1
    <3>1. github.reviews # <<>> /\ h.reviews # <<>> /\ h.reviews[1]
              = [github.reviews[i] EXCEPT !.verdict = "dismissed"]
      <4>1. github.reviews \in Seq(HubReviews) /\ i \in 1..Len(github.reviews)
        BY <1>1 DEF Repositories
      <4> QED BY <1>0, <1>3, <2>2, <4>1
    <3>2. github.reviews[1].verdict # "none"  BY <2>2 DEF HubInv
    <3> QED BY <1>0, <2>1, <2>2, <3>1, <3>2 DEF ReviewNamed, ReviewMoved
  <2>3. CASE i # 1
    <3>1. github.reviews # <<>> /\ h.reviews # <<>> /\ h.reviews[1] = github.reviews[1]
      BY <1>1, <1>3, <2>3 DEF Repositories
    <3> QED BY <2>1, <2>3, <3>1 DEF ReviewNamed, ReviewMoved
  <2> QED BY <2>2, <2>3
<1>9. HubInv(h) /\ Grew(github, h)
  BY <1>1, <1>2, <1>3, <1>4, <1>5, <1>6, <1>7, KeptStays, HubInvParts DEF Grew
<1> QED BY <1>9 DEF h

(* A comment is added.                                                    *)
LEMMA AfterComment ==
  ASSUME HubInv(github), NEW c \in Comments
  PROVE  HubInv(Comment(c)) /\ Grew(github, Comment(c))
<1> DEFINE h == Comment(c)
<1>1. github \in Repositories  BY DEF HubInv
<1>0. Written(c) \in HubComments
  <2>1. github.events \in Nat  BY <1>1 DEF Repositories
  <2> QED BY <2>1 DEF HubComments, Written
<1>2. Kept(github, h, {"issue", "events"})
  BY <1>1 DEF Repositories, Comment, Moved, Kept, Written
<1>3. /\ h.issue = Append(github.issue, Written(c))
      /\ h.events = github.events + 1
  BY <1>1 DEF Repositories, Comment, Moved
<1>4. h \in Repositories
  <2>1. /\ Append(github.issue, Written(c)) \in Seq(HubComments)
        /\ github.events + 1 \in Nat
    BY <1>1, <1>0, Updated DEF Repositories
  <2> QED BY <1>1, <2>1 DEF Repositories, Comment, Moved
<1> HIDE DEF h
<1>5. github.events <= h.events  BY <1>1, <1>3 DEF Repositories
<1>6. UpdatesPast(h)
  <2>1. ASSUME NEW j \in 1..Len(h.issue) PROVE h.issue[j].updated <= h.events
    <3>1. CASE j = Len(github.issue) + 1
      <4>1. h.issue[j] = Written(c)  BY <1>1, <1>3, <3>1 DEF Repositories
      <4> QED BY <1>1, <1>3, <4>1 DEF Written, Repositories
    <3>2. CASE ~(j = Len(github.issue) + 1)
      <4>1. j \in 1..Len(github.issue) /\ h.issue[j] = github.issue[j]
        BY <1>1, <1>3, <2>1, <3>2 DEF Repositories
      <4>2. github.issue[j] \in HubComments  BY <1>1, <4>1 DEF Repositories
      <4>3. github.issue[j].updated \in Nat /\ github.issue[j].updated <= github.events
        BY <4>1, <4>2 DEF HubComments, HubInv
      <4>4. github.events \in Nat  BY <1>1 DEF Repositories
      <4> QED BY <1>3, <4>1, <4>3, <4>4
    <3> QED BY <3>1, <3>2
  <2> QED BY <2>1 DEF UpdatesPast
<1>7. IssueMoved(github.issue, h.issue)
  <2>1. github.issue \in Seq(HubComments) /\ h.issue \in Seq(HubComments)
    BY <1>1, <1>4 DEF Repositories
  <2>2. /\ Len(github.issue) \in Nat /\ Len(h.issue) = Len(github.issue) + 1
        /\ \A j \in 1..Len(github.issue) : h.issue[j] = github.issue[j]
    BY <1>0, <1>3, <2>1
  <2> QED BY <2>1, <2>2 DEF IssueMoved
<1>9. HubInv(h) /\ Grew(github, h)
  BY <1>1, <1>2, <1>3, <1>4, <1>5, <1>6, <1>7, KeptStays, HubInvParts DEF Grew
<1> QED BY <1>9 DEF h

(* A comment is edited.                                                   *)
LEMMA AfterEditComment ==
  ASSUME HubInv(github), NEW i \in 1..Len(github.issue), NEW c \in Comments
  PROVE  HubInv(EditComment(i, c)) /\ Grew(github, EditComment(i, c))
<1> DEFINE h == EditComment(i, c)
<1>1. github \in Repositories  BY DEF HubInv
<1>0. Written(c) \in HubComments
  <2>1. github.events \in Nat  BY <1>1 DEF Repositories
  <2> QED BY <2>1 DEF HubComments, Written
<1>2. Kept(github, h, {"issue", "events"})
  BY <1>1 DEF Repositories, EditComment, Moved, Kept, Written
<1>3. /\ h.issue = [github.issue EXCEPT ![i] = Written(c)]
      /\ h.events = github.events + 1
  BY <1>1 DEF Repositories, EditComment, Moved
<1>4. h \in Repositories
  <2>1. /\ [github.issue EXCEPT ![i] = Written(c)] \in Seq(HubComments)
        /\ github.events + 1 \in Nat
    BY <1>1, <1>0, Updated DEF Repositories
  <2> QED BY <1>1, <2>1 DEF Repositories, EditComment, Moved
<1> HIDE DEF h
<1>5. github.events <= h.events  BY <1>1, <1>3 DEF Repositories
<1>6. UpdatesPast(h)
  <2>1. ASSUME NEW j \in 1..Len(h.issue) PROVE h.issue[j].updated <= h.events
    <3>1. CASE j = i
      <4>1. h.issue[j] = Written(c)  BY <1>1, <1>3, <3>1 DEF Repositories
      <4> QED BY <1>1, <1>3, <4>1 DEF Written, Repositories
    <3>2. CASE ~(j = i)
      <4>1. j \in 1..Len(github.issue) /\ h.issue[j] = github.issue[j]
        BY <1>1, <1>3, <2>1, <3>2 DEF Repositories
      <4>2. github.issue[j] \in HubComments  BY <1>1, <4>1 DEF Repositories
      <4>3. github.issue[j].updated \in Nat /\ github.issue[j].updated <= github.events
        BY <4>1, <4>2 DEF HubComments, HubInv
      <4>4. github.events \in Nat  BY <1>1 DEF Repositories
      <4> QED BY <1>3, <4>1, <4>3, <4>4
    <3> QED BY <3>1, <3>2
  <2> QED BY <2>1 DEF UpdatesPast
<1>7. IssueMoved(github.issue, h.issue)
  <2>1. github.issue \in Seq(HubComments) /\ h.issue \in Seq(HubComments)
            /\ Len(github.issue) = Len(h.issue)
    BY <1>1, <1>3, <1>4 DEF Repositories
  <2>2. ASSUME NEW j \in 1..Len(github.issue)
        PROVE  github.issue[j] = h.issue[j] \/ github.issue[j].updated < h.issue[j].updated
    <3>1. CASE j = i
      <4>1. h.issue[j].updated = github.events + 1  BY <1>1, <1>3, <3>1 DEF Written, Repositories
      <4>2. github.issue[j] \in HubComments /\ github.events \in Nat  BY <1>1, <2>2 DEF Repositories
      <4>3. github.issue[j].updated \in Nat /\ github.issue[j].updated <= github.events
        BY <2>2, <4>2 DEF HubComments, HubInv
      <4> QED BY <4>1, <4>2, <4>3
    <3>2. CASE j # i
      BY <1>1, <1>3, <3>2 DEF Repositories
    <3> QED BY <3>1, <3>2
  <2> QED BY <2>1, <2>2 DEF IssueMoved
<1>9. HubInv(h) /\ Grew(github, h)
  BY <1>1, <1>2, <1>3, <1>4, <1>5, <1>6, <1>7, KeptStays, HubInvParts DEF Grew
<1> QED BY <1>9 DEF h

(* A pull request is merged.                                              *)
LEMMA AfterMergePull ==
  ASSUME HubInv(github), NEW b \in Topics, NEW squash \in BOOLEAN, github.pull[b].state = "open"
  PROVE  HubInv(MergePull(b, squash)) /\ Grew(github, MergePull(b, squash))
<1> DEFINE h == MergePull(b, squash)
<1>1. github \in Repositories  BY DEF HubInv
<1>0. /\ [github.pull[b] EXCEPT !.state = "merged"] \in HubPulls
             /\ [github.pull[b] EXCEPT !.state = "merged"].state # "open"
      /\ github.pull[b].sha \in Nat /\ github.reach[github.pull[b].sha] \in SUBSET Nat
  <2>1. github.pull[b] \in HubPulls /\ github.reach \in Seq(SUBSET Nat)  BY <1>1 DEF Repositories
  <2>2. github.pull[b].sha \in 1..Len(github.reach)  BY DEF HubInv
  <2>3. github.reach[github.pull[b].sha] \in SUBSET Nat  BY <2>1, <2>2
  <2> QED BY <2>1, <2>3 DEF HubPulls
<1>2. Kept(github, h, {"pull", "main", "sources", "history", "events"})
  BY <1>1 DEF Repositories, MergePull, Moved, Kept
<1>3. /\ h.pull = [github.pull EXCEPT ![b] = [github.pull[b] EXCEPT !.state = "merged"]]
      /\ h.main = github.main + 1
      /\ h.sources = github.sources \cup {<<b, github.pull[b].sha>>}
      /\ h.history = IF squash THEN github.history ELSE github.history \cup github.reach[github.pull[b].sha]
      /\ h.events = github.events + 1
  BY <1>1 DEF Repositories, MergePull, Moved
<1>4. h \in Repositories
  <2>1. /\ [github.pull EXCEPT ![b] = [github.pull[b] EXCEPT !.state = "merged"]]
               \in [Topics -> HubPulls]
        /\ github.main + 1 \in Nat
        /\ github.sources \cup {<<b, github.pull[b].sha>>} \in SUBSET (Topics \X Nat)
        /\ (IF squash THEN github.history ELSE github.history \cup github.reach[github.pull[b].sha]) \in SUBSET Nat
        /\ github.events + 1 \in Nat
    BY <1>1, <1>0, Updated DEF Repositories
  <2> QED BY <1>1, <2>1 DEF Repositories, MergePull, Moved
<1> HIDE DEF h
<1>5. github.events <= h.events  BY <1>1, <1>3 DEF Repositories
<1>6. BranchesMoved(BranchList(github), BranchList(h))
  <2>1. BranchList(github) \in HubBranchLists /\ BranchList(h) \in HubBranchLists
    BY <1>1, <1>4, ListsOfHubs
  <2> QED BY <1>1, <1>2, <1>3, <2>1 DEF BranchesMoved, BranchList, Kept, Repositories, HubRegistries
<1>7. PullsReach(h)
  <2>1. ASSUME NEW c \in Topics, h.pull[c].state = "open" PROVE h.pull[c].sha \in 1..Len(h.reach)
    <3>1. CASE c = b
      <4>1. h.pull[b] = [github.pull[b] EXCEPT !.state = "merged"]  BY <1>1, <1>3 DEF Repositories
      <4> QED BY <1>0, <1>2, <2>1, <3>1, <4>1 DEF Kept
    <3>2. CASE c # b
      BY <1>1, <1>2, <1>3, <2>1, <3>2 DEF Kept, Repositories, HubInv
    <3> QED BY <3>1, <3>2
  <2> QED BY <2>1 DEF PullsReach
<1>8. github.sources \subseteq h.sources
  BY <1>3
<1>9. HubInv(h) /\ Grew(github, h)
  BY <1>1, <1>2, <1>3, <1>4, <1>5, <1>6, <1>7, <1>8, KeptStays, HubInvParts DEF Grew
<1> QED BY <1>9 DEF h

(* What the pushed commit is built on, and the pull request that follows.    *)
Pushed(b) == IF github.tip[b] = Absent THEN github.history ELSE github.reach[github.tip[b]]
Followed(b) == IF github.pull[b].state = "open"
               THEN [github.pull[b] EXCEPT !.sha = Len(github.reach) + 1] ELSE github.pull[b]

(* A branch is pushed.                                                    *)
LEMMA AfterPush ==
  ASSUME HubInv(github), NEW b \in Topics
  PROVE  HubInv(Push(b)) /\ Grew(github, Push(b))
<1> DEFINE h == Push(b)
<1>1. github \in Repositories  BY DEF HubInv
<1>0. /\ Followed(b) \in HubPulls /\ (Followed(b).state = "open"
             => Followed(b).sha = Len(github.reach) + 1)
      /\ Pushed(b) \cup {Len(github.reach) + 1} \in SUBSET Nat /\ Len(github.reach) \in Nat
      /\ \A c \in Topics : github.tip[c] \in Nat /\ github.tip[c] <= Len(github.reach)
  <2>1. /\ github.pull[b] \in HubPulls /\ github.reach \in Seq(SUBSET Nat) /\ github.tip[b] \in Nat
        /\ github.history \in SUBSET Nat
    BY <1>1 DEF Repositories
  <2>2. Len(github.reach) \in Nat  BY <2>1
  <2>3. Followed(b) \in HubPulls /\ (Followed(b).state = "open"
            => Followed(b).sha = Len(github.reach) + 1)
    BY <2>1, <2>2 DEF Followed, HubPulls
  <2>4. \A c \in Topics : github.tip[c] \in Nat /\ github.tip[c] <= Len(github.reach)
    BY <1>1 DEF HubInv, Repositories
  <2>5. Pushed(b) \in SUBSET Nat
    <3>1. CASE github.tip[b] = Absent  BY <2>1, <3>1 DEF Pushed
    <3>2. CASE github.tip[b] # Absent
      <4>1. github.tip[b] \in 1..Len(github.reach)  BY <2>1, <2>2, <2>4, <3>2 DEF Absent
      <4>2. github.reach[github.tip[b]] \in SUBSET Nat  BY <2>1, <4>1
      <4> QED BY <3>2, <4>2 DEF Pushed
    <3> QED BY <3>1, <3>2
  <2> QED BY <2>2, <2>3, <2>4, <2>5
<1>2. Kept(github, h, {"reach", "tip", "pull", "events"})
  BY <1>1 DEF Repositories, Push, Moved, Pushed, Followed, Kept
<1>3. /\ h.reach = Append(github.reach, Pushed(b) \cup {Len(github.reach) + 1})
      /\ h.tip = [github.tip EXCEPT ![b] = Len(github.reach) + 1]
      /\ h.pull = [github.pull EXCEPT ![b] = Followed(b)]
      /\ h.events = github.events + 1
  BY <1>1 DEF Repositories, Push, Moved, Pushed, Followed
<1>4. h \in Repositories
  <2>1. /\ Append(github.reach, Pushed(b) \cup {Len(github.reach) + 1}) \in Seq(SUBSET Nat)
        /\ [github.tip EXCEPT ![b] = Len(github.reach) + 1] \in [Topics -> Nat]
        /\ [github.pull EXCEPT ![b] = Followed(b)] \in [Topics -> HubPulls]
        /\ github.events + 1 \in Nat
    BY <1>1, <1>0, Updated DEF Repositories
  <2> QED BY <1>1, <2>1 DEF Repositories, Push, Moved, Pushed, Followed
<1> HIDE DEF h
<1>5. github.events <= h.events  BY <1>1, <1>3 DEF Repositories
<1>6. BranchesMoved(BranchList(github), BranchList(h))
  <2>1. BranchList(github) \in HubBranchLists /\ BranchList(h) \in HubBranchLists
    BY <1>1, <1>4, ListsOfHubs
  <2>2. \A c \in Topics : github.tip[c] <= h.tip[c]
    BY <1>0, <1>1, <1>3 DEF Repositories
  <2> QED BY <1>1, <1>2, <2>1, <2>2 DEF BranchesMoved, BranchList, Kept, Repositories, HubRegistries
<1>7. TipsReach(h)
  <2>1. Len(h.reach) = Len(github.reach) + 1  BY <1>0, <1>1, <1>3 DEF Repositories
  <2> QED BY <1>0, <1>1, <1>3, <2>1 DEF Repositories, TipsReach
<1>8. PullsReach(h)
  <2>1. Len(h.reach) = Len(github.reach) + 1  BY <1>0, <1>1, <1>3 DEF Repositories
  <2>2. ASSUME NEW c \in Topics, h.pull[c].state = "open" PROVE h.pull[c].sha \in 1..Len(h.reach)
    <3>1. CASE c = b
      <4>1. h.pull[b] = Followed(b)  BY <1>1, <1>3 DEF Repositories
      <4> QED BY <1>0, <2>1, <2>2, <3>1, <4>1
    <3>2. CASE c # b
      <4>1. h.pull[c] = github.pull[c]  BY <1>1, <1>3, <3>2 DEF Repositories
      <4>2. github.pull[c].sha \in 1..Len(github.reach)  BY <2>2, <4>1 DEF HubInv
      <4> QED BY <1>0, <2>1, <4>1, <4>2
    <3> QED BY <3>1, <3>2
  <2> QED BY <2>2 DEF PullsReach
<1>9. HubInv(h) /\ Grew(github, h)
  BY <1>1, <1>2, <1>3, <1>4, <1>5, <1>6, <1>7, <1>8, KeptStays, HubInvParts DEF Grew
<1> QED BY <1>9 DEF h

(* The clock ticks.                                                         *)
LEMMA AfterClockTick ==
  ASSUME HubInv(github)
  PROVE  /\ HubInv(ClockTick) /\ Grew(github, ClockTick)
         /\ \A b \in Topics : MomentOf(ClockTick, b) = MomentOf(github, b)
<1> DEFINE h == ClockTick
<1>1. github \in Repositories  BY DEF HubInv
<1>2. Kept(github, h, {"clock"})
  BY <1>1 DEF Repositories, ClockTick, Kept
<1>3. h.clock = github.clock + 1
  BY <1>1 DEF Repositories, ClockTick
<1>4. h \in Repositories
  <2>1. github.clock + 1 \in Nat  BY <1>1 DEF Repositories
  <2> QED BY <1>1, <2>1 DEF Repositories, ClockTick
<1> HIDE DEF h
<1>5. github.events <= h.events  BY <1>1, <1>2 DEF Repositories, Kept
<1>6. github.clock <= h.clock  BY <1>1, <1>3 DEF Repositories
<1>7. HubInv(h) /\ Grew(github, h)
  BY <1>2, <1>4, <1>5, <1>6, KeptStays, HubInvParts DEF Grew
<1>8. \A b \in Topics : MomentOf(h, b) = MomentOf(github, b)
  BY <1>2 DEF Kept, MomentOf, BranchList, OpenHeads, Unfinished, JobsOf, ReviewNamed
<1> QED BY <1>7, <1>8 DEF h

(* Whatever happens in the repository.                                      *)
LEMMA AfterEvent ==
  ASSUME HubInv(github), NEW kind, NEW h \in Events(github, kind)
  PROVE  HubInv(h) /\ Grew(github, h)
<1> DEFINE live == {b \in Topics : github.tip[b] # Absent}
           open == {b \in Topics : github.pull[b].state = "open"}
           running == {b \in Topics : github.run[b].state = "running"}
<1>1. DOMAIN github.issue = 1..Len(github.issue) /\ DOMAIN github.reviews = 1..Len(github.reviews)
  <2>1. github.issue \in Seq(HubComments) /\ github.reviews \in Seq(HubReviews)
    BY DEF HubInv, Repositories
  <2> QED BY <2>1
<1>2. \/ h \in {Push(b) : b \in Topics}
      \/ h \in {OpenPull(b) : b \in live \ open}
      \/ h \in {ClosePull(b) : b \in open}
      \/ h \in {MergePull(b, squash) : b \in open, squash \in BOOLEAN}
      \/ h \in {Protect(b) : b \in live}
      \/ h \in {StartRun(b) : b \in live \ running}
      \/ h \in {FinishRun(b) : b \in running}
      \/ h \in {UploadArtifact}
      \/ h \in {Comment(c) : c \in Comments}
      \/ h \in {EditComment(i, c) : i \in DOMAIN github.issue, c \in Comments}
      \/ h \in {MoveRegistry(b, readable) : b \in live, readable \in BOOLEAN}
      \/ h \in {Retain(b) : b \in {t \in live : <<t, github.tip[t]>> \in github.sources}}
      \/ h \in {Submit(b, v, by, ok) : b \in open, v \in {"approved", "blocked"},
                            by \in {"author", "other"}, ok \in BOOLEAN}
      \/ h \in {DismissReview(i) : i \in DOMAIN github.reviews}
  BY DEF Events, Unfinished
<1>3. CASE h \in {Push(b) : b \in Topics}
  BY <1>3, AfterPush
<1>4. CASE h \in {OpenPull(b) : b \in live \ open}
  BY <1>4, AfterOpenPull
<1>5. CASE h \in {ClosePull(b) : b \in open}
  BY <1>5, AfterClosePull
<1>6. CASE h \in {MergePull(b, squash) : b \in open, squash \in BOOLEAN}
  BY <1>6, AfterMergePull
<1>7. CASE h \in {Protect(b) : b \in live}
  BY <1>7, AfterProtect
<1>8. CASE h \in {StartRun(b) : b \in live \ running}
  BY <1>8, AfterStartRun
<1>9. CASE h \in {FinishRun(b) : b \in running}
  BY <1>9, AfterFinishRun
<1>10. CASE h \in {UploadArtifact}
  BY <1>10, AfterUploadArtifact
<1>11. CASE h \in {Comment(c) : c \in Comments}
  BY <1>11, AfterComment
<1>12. CASE h \in {EditComment(i, c) : i \in DOMAIN github.issue, c \in Comments}
  BY <1>1, <1>12, AfterEditComment
<1>13. CASE h \in {MoveRegistry(b, readable) : b \in live, readable \in BOOLEAN}
  BY <1>13, AfterMoveRegistry
<1>14. CASE h \in {Retain(b) : b \in {t \in live : <<t, github.tip[t]>> \in github.sources}}
  BY <1>14, AfterRetain
<1>15. CASE h \in {Submit(b, v, by, ok) : b \in open, v \in {"approved", "blocked"},
                            by \in {"author", "other"}, ok \in BOOLEAN}
  BY <1>15, AfterSubmit
<1>16. CASE h \in {DismissReview(i) : i \in DOMAIN github.reviews}
  BY <1>1, <1>16, AfterDismissReview
<1> QED BY <1>2, <1>3, <1>4, <1>5, <1>6, <1>7, <1>8, <1>9, <1>10, <1>11, <1>12, <1>13, <1>14, <1>15, <1>16

(* The repository a tool starts with.                                       *)
LEMMA HubStarts ==
  ASSUME NEW kind
  PROVE  HubInv(HubStart(kind))
<1> DEFINE h == HubStart(kind)
<1>1. Subject \in Topics
  <2>1. \E b \in Topics \ ReservedTopics : TRUE  BY ToolsAssumption
  <2> QED BY <2>1 DEF Subject
<1>2. NeverRan \in HubRuns  BY DEF NeverRan, HubRuns, Absent
<1>3. /\ <<[text |-> "status", updated |-> 0]>> \in Seq(HubComments)
      /\ <<{1}>> \in Seq(SUBSET Nat) /\ <<>> \in Seq(HubReviews)
  <2>1. [text |-> "status", updated |-> 0] \in HubComments  BY DEF HubComments, Comments
  <2> QED BY <2>1
<1>4. [b \in Topics |-> [state |-> IF kind \in {"assurance", "source"} THEN "open" ELSE "merged", sha |-> 1]]
        \in [Topics -> HubPulls]
  BY DEF HubPulls
<1>5. {[name |-> b, sha |-> 1, at |-> 0, tip |-> 1] : b \in Topics} \in SUBSET HubRecords
  BY DEF HubRecords
<1>6. {<<b, 1>> : b \in Topics} \in SUBSET (Topics \X Nat)
  OBVIOUS
<1>7. h \in Repositories
  BY <1>1, <1>2, <1>3, <1>4, <1>5, <1>6 DEF HubStart, Repositories, HubRegistries
<1>8. /\ h.reach = <<{1}>> /\ h.issue = <<[text |-> "status", updated |-> 0]>> /\ h.reviews = <<>>
      /\ h.events = 0 /\ \A b \in Topics : h.tip[b] = 1 /\ h.pull[b].sha = 1
  BY DEF HubStart
<1> HIDE DEF h
<1>9. TipsReach(h) /\ PullsReach(h) /\ UpdatesPast(h) /\ ReviewsGiven(h)
  <2>1. Len(h.reach) = 1  BY <1>8
  <2>2. Len(h.issue) = 1 /\ h.issue[1].updated = 0  BY <1>8
  <2>3. Len(h.reviews) = 0  BY <1>8
  <2> QED BY <1>8, <2>1, <2>2, <2>3 DEF TipsReach, PullsReach, UpdatesPast, ReviewsGiven
<1>10. HubInv(h)  BY <1>7, <1>9, HubInvParts
<1> QED BY <1>10 DEF h

(* What a moment shows, and what GitHub answers at it.                      *)
LEMMA MomentsShow ==
  ASSUME NEW h, NEW b, NEW got, NEW v,
         NEW p \in {"branches", "pulls", "issues", "runs", "run", "uploads", "ref", "pull", "review"}
  PROVE  v \in HubAnswers(h, p, b, got) <=> v = MomentOf(h, b)[p]
BY DEF HubAnswers, MomentOf

(* The guarded parts of a moment move on with the repository.               *)
LEMMA MomentsMove ==
  ASSUME NEW x, NEW y, NEW b \in Topics, Grew(x, y), NEW g \in Guards
  PROVE  PartMoved(g, MomentOf(x, b)[g], MomentOf(y, b)[g])
BY DEF Guards, PartMoved, MomentOf, Grew

(* A moment has not moved since itself.                                     *)
LEMMA MomentsStay ==
  ASSUME NEW h, HubInv(h), NEW b \in Topics, NEW g \in Guards
  PROVE  PartMoved(g, MomentOf(h, b)[g], MomentOf(h, b)[g])
BY HubStays DEF Guards, PartMoved, MomentOf

-----------------------------------------------------------------------------
(* The order of the calls of a script.                                      *)

CallParts == {"branches", "pulls", "issues", "runs", "run", "jobs", "uploads", "ref", "pull",
              "review", "reviews", "merged", "record"}
Calls == [part : CallParts, again : BOOLEAN]

LeftIn(s, c) == \E i \in 1..Len(s) : s[i] = c
After(s, x, y) == \A j \in 1..Len(s) : s[j] = x => \E i \in (j + 1)..Len(s) : s[i] = y

(* After a call the rest of the script is left.                             *)
LEMMA TailOfScript ==
  ASSUME NEW s \in Seq(Calls), s # <<>>
  PROVE  /\ Head(s) \in Calls /\ Tail(s) \in Seq(Calls)
         /\ \A c : LeftIn(s, c) <=> (Head(s) = c \/ LeftIn(Tail(s), c))
         /\ \A x, y : After(s, x, y) => After(Tail(s), x, y)
         /\ \A x, y : After(s, x, y) /\ Head(s) = x => LeftIn(Tail(s), y)
<1>1. /\ Len(s) \in Nat /\ Len(s) >= 1 /\ Head(s) = s[1] /\ Head(s) \in Calls
      /\ Tail(s) \in Seq(Calls) /\ Len(Tail(s)) = Len(s) - 1
      /\ \A i \in 1..(Len(s) - 1) : Tail(s)[i] = s[i + 1]
  BY EmptySeq
<1>2. \A c : LeftIn(s, c) <=> (Head(s) = c \/ LeftIn(Tail(s), c))
  <2>1. ASSUME NEW c, LeftIn(s, c), Head(s) # c PROVE LeftIn(Tail(s), c)
    <3>1. PICK i \in 1..Len(s) : s[i] = c  BY <2>1 DEF LeftIn
    <3>2. i - 1 \in 1..(Len(s) - 1) /\ Tail(s)[i - 1] = c  BY <1>1, <2>1, <3>1
    <3> QED BY <1>1, <3>2 DEF LeftIn
  <2>2. ASSUME NEW c, LeftIn(Tail(s), c) PROVE LeftIn(s, c)
    <3>1. PICK i \in 1..(Len(s) - 1) : Tail(s)[i] = c  BY <1>1, <2>2 DEF LeftIn
    <3>2. i + 1 \in 1..Len(s) /\ s[i + 1] = c  BY <1>1, <3>1
    <3> QED BY <3>2 DEF LeftIn
  <2>3. ASSUME NEW c, Head(s) = c PROVE LeftIn(s, c)
    BY <1>1, <2>3 DEF LeftIn
  <2> QED BY <2>1, <2>2, <2>3
<1>3. ASSUME NEW x, NEW y, After(s, x, y) PROVE After(Tail(s), x, y)
  <2>1. ASSUME NEW j \in 1..(Len(s) - 1), Tail(s)[j] = x
        PROVE  \E i \in (j + 1)..(Len(s) - 1) : Tail(s)[i] = y
    <3>1. j + 1 \in 1..Len(s) /\ s[j + 1] = x  BY <1>1, <2>1
    <3>2. PICK i \in (j + 1 + 1)..Len(s) : s[i] = y  BY <1>3, <3>1 DEF After
    <3>3. i - 1 \in (j + 1)..(Len(s) - 1) /\ Tail(s)[i - 1] = y  BY <1>1, <3>1, <3>2
    <3> QED BY <3>3
  <2> QED BY <1>1, <2>1 DEF After
<1>4. ASSUME NEW x, NEW y, After(s, x, y), Head(s) = x PROVE LeftIn(Tail(s), y)
  <2>1. PICK i \in 2..Len(s) : s[i] = y  BY <1>1, <1>4 DEF After
  <2>2. i - 1 \in 1..(Len(s) - 1) /\ Tail(s)[i - 1] = y  BY <1>1, <2>1
  <2> QED BY <1>1, <2>2 DEF LeftIn
<1> QED BY <1>1, <1>2, <1>3, <1>4

(* What has to be followed is not left when what follows it is not.         *)
LEMMA NothingFollows ==
  ASSUME NEW s, NEW x, NEW y, After(s, x, y), Len(s) \in Nat, ~LeftIn(s, y)
  PROVE  ~LeftIn(s, x)
BY DEF After, LeftIn

(* One script after another.                                                *)
LEMMA JoinedScripts ==
  ASSUME NEW s \in Seq(Calls), NEW t \in Seq(Calls)
  PROVE  /\ s \o t \in Seq(Calls)
         /\ \A c : LeftIn(s, c) \/ LeftIn(t, c) <=> LeftIn(s \o t, c)
         /\ \A x, y : After(t, x, y) /\ (After(s, x, y) \/ LeftIn(t, y)) => After(s \o t, x, y)
<1> DEFINE u == s \o t
<1>1. /\ u \in Seq(Calls) /\ Len(s) \in Nat /\ Len(t) \in Nat /\ Len(u) = Len(s) + Len(t)
      /\ \A i \in 1..Len(s) : i \in 1..Len(u) /\ u[i] = s[i]
      /\ \A i \in 1..Len(t) : Len(s) + i \in 1..Len(u) /\ u[Len(s) + i] = t[i]
      /\ \A i \in (Len(s) + 1)..Len(u) : i - Len(s) \in 1..Len(t) /\ u[i] = t[i - Len(s)]
  OBVIOUS
<1> HIDE DEF u
<1>2. ASSUME NEW c, LeftIn(s, c) \/ LeftIn(t, c) PROVE LeftIn(u, c)
  BY <1>1, <1>2 DEF LeftIn
<1>3. ASSUME NEW c, LeftIn(u, c) PROVE LeftIn(s, c) \/ LeftIn(t, c)
  <2>1. PICK i \in 1..Len(u) : u[i] = c  BY <1>3 DEF LeftIn
  <2>2. CASE i <= Len(s)
    <3>1. i \in 1..Len(s) /\ s[i] = c  BY <1>1, <2>1, <2>2
    <3> QED BY <3>1 DEF LeftIn
  <2>3. CASE i > Len(s)
    <3>1. i - Len(s) \in 1..Len(t) /\ t[i - Len(s)] = c  BY <1>1, <2>1, <2>3
    <3> QED BY <3>1 DEF LeftIn
  <2> QED BY <1>1, <2>1, <2>2, <2>3
<1>4. ASSUME NEW x, NEW y, After(t, x, y), After(s, x, y) \/ LeftIn(t, y) PROVE After(u, x, y)
  <2>1. ASSUME NEW j \in 1..Len(u), u[j] = x PROVE \E i \in (j + 1)..Len(u) : u[i] = y
    <3>1. CASE j <= Len(s) /\ LeftIn(t, y)
      <4>1. PICK i \in 1..Len(t) : t[i] = y  BY <3>1 DEF LeftIn
      <4>2. Len(s) + i \in (j + 1)..Len(u) /\ u[Len(s) + i] = y  BY <1>1, <3>1, <4>1
      <4> QED BY <4>2
    <3>2. CASE j <= Len(s) /\ After(s, x, y)
      <4>1. j \in 1..Len(s) /\ s[j] = x  BY <1>1, <2>1, <3>2
      <4>2. PICK i \in (j + 1)..Len(s) : s[i] = y  BY <3>2, <4>1 DEF After
      <4>3. i \in 1..Len(s) /\ i \in (j + 1)..Len(u)  BY <1>1, <4>1, <4>2
      <4> QED BY <1>1, <4>2, <4>3
    <3>3. CASE j > Len(s)
      <4>1. j - Len(s) \in 1..Len(t) /\ t[j - Len(s)] = x  BY <1>1, <2>1, <3>3
      <4>2. PICK i \in (j - Len(s) + 1)..Len(t) : t[i] = y  BY <1>4, <4>1 DEF After
      <4>3. i \in 1..Len(t) /\ Len(s) + i \in (j + 1)..Len(u)  BY <1>1, <4>1, <4>2
      <4> QED BY <1>1, <4>2, <4>3
    <3> QED BY <1>1, <1>4, <2>1, <3>1, <3>2, <3>3
  <2> QED BY <2>1 DEF After
<1> QED BY <1>1, <1>2, <1>3, <1>4 DEF u

(* A report claims that what one call showed and what the guards showed was   *)
(* true at one moment: the guards were read before the call and again after it.*)
Claim(call, guards) == [call |-> call, guards |-> guards]
PullClaim == Claim(Again("pulls"), {"branches", "issues"})
RunsClaim == Claim(Ask("runs"), {"branches"})
JobsClaim == Claim(Ask("jobs"), {"run"})
UploadsClaim == Claim(Ask("uploads"), {"run"})
RegistryClaim == Claim(Ask("ref"), {})
ReviewClaim == Claim(Again("pull"), {"review"})

Claims(kind) ==
  CASE kind = "inventory" -> {PullClaim, RunsClaim}
    [] kind = "attempt"   -> {JobsClaim}
    [] kind = "artifact"  -> {UploadsClaim}
    [] kind = "lease"     -> {PullClaim, RunsClaim, UploadsClaim}
    [] kind = "assurance" -> {ReviewClaim}
    [] kind = "registry"  -> {RegistryClaim}
    [] OTHER              -> {}

AllClaims == {PullClaim, RunsClaim, JobsClaim, UploadsClaim, RegistryClaim, ReviewClaim}

Ordered(s, claim) ==
  /\ claim.call.again => After(s, Ask(claim.call.part), claim.call)
  /\ \A g \in claim.guards : After(s, Ask(g), claim.call) /\ After(s, claim.call, Again(g))

Complete(s, claim) ==
  LeftIn(s, claim.call) /\ \A g \in claim.guards : LeftIn(s, Ask(g))

(* Two calls are the same only when they ask the same the same way.          *)
LEMMA CallsAreDistinct ==
  /\ \A p, q : (Ask(p) = Ask(q) <=> p = q) /\ (Again(p) = Again(q) <=> p = q)
  /\ \A p, q : Ask(p) # Again(q)
  /\ \A p \in CallParts : Ask(p) \in Calls /\ Again(p) \in Calls
  /\ \A c \in Calls : c = IF c.again THEN Again(c.part) ELSE Ask(c.part)
<1>1. ASSUME NEW c \in Calls PROVE c = IF c.again THEN Again(c.part) ELSE Ask(c.part)
  <2>1. c = [part |-> c.part, again |-> c.again] /\ (c.again = TRUE \/ c.again = FALSE)
    BY DEF Calls
  <2>2. CASE c.again = TRUE  BY <2>1, <2>2 DEF Again
  <2>3. CASE c.again = FALSE  BY <2>1, <2>3 DEF Ask
  <2> QED BY <2>1, <2>2, <2>3
<1> QED BY <1>1 DEF Ask, Again, Calls

(* A script that is about some parts has no call about another.             *)
OnlyAbout(s, parts) == \A i \in 1..Len(s) : s[i].part \in parts

(* In such a script no call about another part has been made before.      *)
LEMMA OtherCalls ==
  ASSUME NEW s, NEW parts, OnlyAbout(s, parts), NEW p, p \notin parts
  PROVE  \A y : After(s, Ask(p), y) /\ After(s, Again(p), y)
BY DEF OnlyAbout, After, Ask, Again

(* The calls of an inventory.                                              *)
LEMMA InventoryScriptOrder ==
  /\ InventoryScript \in Seq(Calls)
  /\ OnlyAbout(InventoryScript, {"branches", "pulls", "issues", "runs"})
  /\ After(InventoryScript, Ask("pulls"), Again("pulls"))
  /\ After(InventoryScript, Ask("branches"), Again("pulls"))
  /\ After(InventoryScript, Again("pulls"), Again("branches"))
  /\ After(InventoryScript, Ask("issues"), Again("pulls"))
  /\ After(InventoryScript, Again("pulls"), Again("issues"))
  /\ After(InventoryScript, Ask("branches"), Ask("runs"))
  /\ After(InventoryScript, Ask("runs"), Again("branches"))
  /\ LeftIn(InventoryScript, Again("pulls"))
  /\ LeftIn(InventoryScript, Ask("branches"))
  /\ LeftIn(InventoryScript, Ask("issues"))
  /\ LeftIn(InventoryScript, Ask("runs"))
<1> DEFINE s == InventoryScript
<1>1. /\ s \in Seq(Calls) /\ Len(s) = 10
      /\ s[1] = Ask("branches")
      /\ s[2] = Ask("pulls")
      /\ s[3] = Ask("issues")
      /\ s[4] = Again("pulls")
      /\ s[5] = Again("issues")
      /\ s[6] = Again("issues")
      /\ s[7] = Again("branches")
      /\ s[8] = Ask("runs")
      /\ s[9] = Again("runs")
      /\ s[10] = Again("branches")
  BY CallsAreDistinct DEF CallParts, InventoryScript
<1> HIDE DEF s
<1>2. After(s, Ask("pulls"), Again("pulls"))
  <2>1. /\ Ask("pulls") # Ask("branches") /\ Ask("pulls") # Ask("issues")
        /\ Ask("pulls") # Again("pulls") /\ Ask("pulls") # Again("issues")
        /\ Ask("pulls") # Again("branches") /\ Ask("pulls") # Ask("runs")
        /\ Ask("pulls") # Again("runs")
    BY DEF Ask, Again
  <2>2. \A j \in 1..Len(s) : s[j] = Ask("pulls") => j \in {2}
    BY <1>1, <2>1
  <2>3. \A j \in {2} : 4 \in (j + 1)..Len(s)  BY <1>1
  <2> QED BY <1>1, <2>2, <2>3 DEF After
<1>3. After(s, Ask("branches"), Again("pulls"))
  <2>1. /\ Ask("branches") # Ask("pulls") /\ Ask("branches") # Ask("issues")
        /\ Ask("branches") # Again("pulls") /\ Ask("branches") # Again("issues")
        /\ Ask("branches") # Again("branches") /\ Ask("branches") # Ask("runs")
        /\ Ask("branches") # Again("runs")
    BY DEF Ask, Again
  <2>2. \A j \in 1..Len(s) : s[j] = Ask("branches") => j \in {1}
    BY <1>1, <2>1
  <2>3. \A j \in {1} : 4 \in (j + 1)..Len(s)  BY <1>1
  <2> QED BY <1>1, <2>2, <2>3 DEF After
<1>4. After(s, Again("pulls"), Again("branches"))
  <2>1. /\ Again("pulls") # Ask("branches") /\ Again("pulls") # Ask("pulls")
        /\ Again("pulls") # Ask("issues") /\ Again("pulls") # Again("issues")
        /\ Again("pulls") # Again("branches") /\ Again("pulls") # Ask("runs")
        /\ Again("pulls") # Again("runs")
    BY DEF Ask, Again
  <2>2. \A j \in 1..Len(s) : s[j] = Again("pulls") => j \in {4}
    BY <1>1, <2>1
  <2>3. \A j \in {4} : 10 \in (j + 1)..Len(s)  BY <1>1
  <2> QED BY <1>1, <2>2, <2>3 DEF After
<1>5. After(s, Ask("issues"), Again("pulls"))
  <2>1. /\ Ask("issues") # Ask("branches") /\ Ask("issues") # Ask("pulls")
        /\ Ask("issues") # Again("pulls") /\ Ask("issues") # Again("issues")
        /\ Ask("issues") # Again("branches") /\ Ask("issues") # Ask("runs")
        /\ Ask("issues") # Again("runs")
    BY DEF Ask, Again
  <2>2. \A j \in 1..Len(s) : s[j] = Ask("issues") => j \in {3}
    BY <1>1, <2>1
  <2>3. \A j \in {3} : 4 \in (j + 1)..Len(s)  BY <1>1
  <2> QED BY <1>1, <2>2, <2>3 DEF After
<1>6. After(s, Again("pulls"), Again("issues"))
  <2>1. /\ Again("pulls") # Ask("branches") /\ Again("pulls") # Ask("pulls")
        /\ Again("pulls") # Ask("issues") /\ Again("pulls") # Again("issues")
        /\ Again("pulls") # Again("branches") /\ Again("pulls") # Ask("runs")
        /\ Again("pulls") # Again("runs")
    BY DEF Ask, Again
  <2>2. \A j \in 1..Len(s) : s[j] = Again("pulls") => j \in {4}
    BY <1>1, <2>1
  <2>3. \A j \in {4} : 6 \in (j + 1)..Len(s)  BY <1>1
  <2> QED BY <1>1, <2>2, <2>3 DEF After
<1>7. After(s, Ask("branches"), Ask("runs"))
  <2>1. /\ Ask("branches") # Ask("pulls") /\ Ask("branches") # Ask("issues")
        /\ Ask("branches") # Again("pulls") /\ Ask("branches") # Again("issues")
        /\ Ask("branches") # Again("branches") /\ Ask("branches") # Ask("runs")
        /\ Ask("branches") # Again("runs")
    BY DEF Ask, Again
  <2>2. \A j \in 1..Len(s) : s[j] = Ask("branches") => j \in {1}
    BY <1>1, <2>1
  <2>3. \A j \in {1} : 8 \in (j + 1)..Len(s)  BY <1>1
  <2> QED BY <1>1, <2>2, <2>3 DEF After
<1>8. After(s, Ask("runs"), Again("branches"))
  <2>1. /\ Ask("runs") # Ask("branches") /\ Ask("runs") # Ask("pulls")
        /\ Ask("runs") # Ask("issues") /\ Ask("runs") # Again("pulls")
        /\ Ask("runs") # Again("issues") /\ Ask("runs") # Again("branches")
        /\ Ask("runs") # Again("runs")
    BY DEF Ask, Again
  <2>2. \A j \in 1..Len(s) : s[j] = Ask("runs") => j \in {8}
    BY <1>1, <2>1
  <2>3. \A j \in {8} : 10 \in (j + 1)..Len(s)  BY <1>1
  <2> QED BY <1>1, <2>2, <2>3 DEF After
<1>9. LeftIn(s, Again("pulls"))
  <2>1. 4 \in 1..Len(s)  BY <1>1
  <2> QED BY <1>1, <2>1 DEF LeftIn
<1>10. LeftIn(s, Ask("branches"))
  <2>1. 1 \in 1..Len(s)  BY <1>1
  <2> QED BY <1>1, <2>1 DEF LeftIn
<1>11. LeftIn(s, Ask("issues"))
  <2>1. 3 \in 1..Len(s)  BY <1>1
  <2> QED BY <1>1, <2>1 DEF LeftIn
<1>12. LeftIn(s, Ask("runs"))
  <2>1. 8 \in 1..Len(s)  BY <1>1
  <2> QED BY <1>1, <2>1 DEF LeftIn
<1>13. OnlyAbout(s, {"branches", "pulls", "issues", "runs"})  BY <1>1 DEF OnlyAbout, Ask, Again
<1> QED BY <1>1, <1>2, <1>3, <1>4, <1>5, <1>6, <1>7, <1>8, <1>9, <1>10, <1>11, <1>12, <1>13 DEF s

(* The calls of an observed attempt.                                       *)
LEMMA AttemptScriptOrder ==
  /\ AttemptScript \in Seq(Calls)
  /\ OnlyAbout(AttemptScript, {"run", "jobs"})
  /\ After(AttemptScript, Ask("run"), Ask("jobs"))
  /\ After(AttemptScript, Ask("jobs"), Again("run"))
  /\ LeftIn(AttemptScript, Ask("jobs"))
  /\ LeftIn(AttemptScript, Ask("run"))
<1> DEFINE s == AttemptScript
<1>1. /\ s \in Seq(Calls) /\ Len(s) = 3
      /\ s[1] = Ask("run")
      /\ s[2] = Ask("jobs")
      /\ s[3] = Again("run")
  BY CallsAreDistinct DEF CallParts, AttemptScript
<1> HIDE DEF s
<1>2. After(s, Ask("run"), Ask("jobs"))
  <2>1. /\ Ask("run") # Ask("jobs") /\ Ask("run") # Again("run")
    BY DEF Ask, Again
  <2>2. \A j \in 1..Len(s) : s[j] = Ask("run") => j \in {1}
    BY <1>1, <2>1
  <2>3. \A j \in {1} : 2 \in (j + 1)..Len(s)  BY <1>1
  <2> QED BY <1>1, <2>2, <2>3 DEF After
<1>3. After(s, Ask("jobs"), Again("run"))
  <2>1. /\ Ask("jobs") # Ask("run") /\ Ask("jobs") # Again("run")
    BY DEF Ask, Again
  <2>2. \A j \in 1..Len(s) : s[j] = Ask("jobs") => j \in {2}
    BY <1>1, <2>1
  <2>3. \A j \in {2} : 3 \in (j + 1)..Len(s)  BY <1>1
  <2> QED BY <1>1, <2>2, <2>3 DEF After
<1>4. LeftIn(s, Ask("jobs"))
  <2>1. 2 \in 1..Len(s)  BY <1>1
  <2> QED BY <1>1, <2>1 DEF LeftIn
<1>5. LeftIn(s, Ask("run"))
  <2>1. 1 \in 1..Len(s)  BY <1>1
  <2> QED BY <1>1, <2>1 DEF LeftIn
<1>6. OnlyAbout(s, {"run", "jobs"})  BY <1>1 DEF OnlyAbout, Ask, Again
<1> QED BY <1>1, <1>2, <1>3, <1>4, <1>5, <1>6 DEF s

(* The calls of observed artifacts.                                        *)
LEMMA ArtifactScriptOrder ==
  /\ ArtifactScript \in Seq(Calls)
  /\ OnlyAbout(ArtifactScript, {"run", "uploads"})
  /\ After(ArtifactScript, Ask("run"), Ask("uploads"))
  /\ After(ArtifactScript, Ask("uploads"), Again("run"))
  /\ LeftIn(ArtifactScript, Ask("uploads"))
  /\ LeftIn(ArtifactScript, Ask("run"))
<1> DEFINE s == ArtifactScript
<1>1. /\ s \in Seq(Calls) /\ Len(s) = 4
      /\ s[1] = Ask("run")
      /\ s[2] = Ask("uploads")
      /\ s[3] = Again("uploads")
      /\ s[4] = Again("run")
  BY CallsAreDistinct DEF CallParts, ArtifactScript
<1> HIDE DEF s
<1>2. After(s, Ask("run"), Ask("uploads"))
  <2>1. /\ Ask("run") # Ask("uploads") /\ Ask("run") # Again("uploads")
        /\ Ask("run") # Again("run")
    BY DEF Ask, Again
  <2>2. \A j \in 1..Len(s) : s[j] = Ask("run") => j \in {1}
    BY <1>1, <2>1
  <2>3. \A j \in {1} : 2 \in (j + 1)..Len(s)  BY <1>1
  <2> QED BY <1>1, <2>2, <2>3 DEF After
<1>3. After(s, Ask("uploads"), Again("run"))
  <2>1. /\ Ask("uploads") # Ask("run") /\ Ask("uploads") # Again("uploads")
        /\ Ask("uploads") # Again("run")
    BY DEF Ask, Again
  <2>2. \A j \in 1..Len(s) : s[j] = Ask("uploads") => j \in {2}
    BY <1>1, <2>1
  <2>3. \A j \in {2} : 4 \in (j + 1)..Len(s)  BY <1>1
  <2> QED BY <1>1, <2>2, <2>3 DEF After
<1>4. LeftIn(s, Ask("uploads"))
  <2>1. 2 \in 1..Len(s)  BY <1>1
  <2> QED BY <1>1, <2>1 DEF LeftIn
<1>5. LeftIn(s, Ask("run"))
  <2>1. 1 \in 1..Len(s)  BY <1>1
  <2> QED BY <1>1, <2>1 DEF LeftIn
<1>6. OnlyAbout(s, {"run", "uploads"})  BY <1>1 DEF OnlyAbout, Ask, Again
<1> QED BY <1>1, <1>2, <1>3, <1>4, <1>5, <1>6 DEF s

(* The calls of a snapshot of the registry.                                *)
LEMMA RegistryScriptOrder ==
  /\ RegistryScript \in Seq(Calls)
  /\ OnlyAbout(RegistryScript, {"ref"})
  /\ LeftIn(RegistryScript, Ask("ref"))
<1> DEFINE s == RegistryScript
<1>1. /\ s \in Seq(Calls) /\ Len(s) = 2
      /\ s[1] = Ask("ref")
      /\ s[2] = Again("ref")
  BY CallsAreDistinct DEF CallParts, RegistryScript
<1> HIDE DEF s
<1>2. LeftIn(s, Ask("ref"))
  <2>1. 1 \in 1..Len(s)  BY <1>1
  <2> QED BY <1>1, <2>1 DEF LeftIn
<1>3. OnlyAbout(s, {"ref"})  BY <1>1 DEF OnlyAbout, Ask, Again
<1> QED BY <1>1, <1>2, <1>3 DEF s

(* The calls of a verified review.                                         *)
LEMMA AssuranceScriptOrder ==
  /\ AssuranceScript \in Seq(Calls)
  /\ OnlyAbout(AssuranceScript, {"pull", "review"})
  /\ After(AssuranceScript, Ask("pull"), Again("pull"))
  /\ After(AssuranceScript, Ask("review"), Again("pull"))
  /\ After(AssuranceScript, Again("pull"), Again("review"))
  /\ LeftIn(AssuranceScript, Again("pull"))
  /\ LeftIn(AssuranceScript, Ask("review"))
<1> DEFINE s == AssuranceScript
<1>1. /\ s \in Seq(Calls) /\ Len(s) = 4
      /\ s[1] = Ask("pull")
      /\ s[2] = Ask("review")
      /\ s[3] = Again("pull")
      /\ s[4] = Again("review")
  BY CallsAreDistinct DEF CallParts, AssuranceScript
<1> HIDE DEF s
<1>2. After(s, Ask("pull"), Again("pull"))
  <2>1. /\ Ask("pull") # Ask("review") /\ Ask("pull") # Again("pull")
        /\ Ask("pull") # Again("review")
    BY DEF Ask, Again
  <2>2. \A j \in 1..Len(s) : s[j] = Ask("pull") => j \in {1}
    BY <1>1, <2>1
  <2>3. \A j \in {1} : 3 \in (j + 1)..Len(s)  BY <1>1
  <2> QED BY <1>1, <2>2, <2>3 DEF After
<1>3. After(s, Ask("review"), Again("pull"))
  <2>1. /\ Ask("review") # Ask("pull") /\ Ask("review") # Again("pull")
        /\ Ask("review") # Again("review")
    BY DEF Ask, Again
  <2>2. \A j \in 1..Len(s) : s[j] = Ask("review") => j \in {2}
    BY <1>1, <2>1
  <2>3. \A j \in {2} : 3 \in (j + 1)..Len(s)  BY <1>1
  <2> QED BY <1>1, <2>2, <2>3 DEF After
<1>4. After(s, Again("pull"), Again("review"))
  <2>1. /\ Again("pull") # Ask("pull") /\ Again("pull") # Ask("review")
        /\ Again("pull") # Again("review")
    BY DEF Ask, Again
  <2>2. \A j \in 1..Len(s) : s[j] = Again("pull") => j \in {3}
    BY <1>1, <2>1
  <2>3. \A j \in {3} : 4 \in (j + 1)..Len(s)  BY <1>1
  <2> QED BY <1>1, <2>2, <2>3 DEF After
<1>5. LeftIn(s, Again("pull"))
  <2>1. 3 \in 1..Len(s)  BY <1>1
  <2> QED BY <1>1, <2>1 DEF LeftIn
<1>6. LeftIn(s, Ask("review"))
  <2>1. 2 \in 1..Len(s)  BY <1>1
  <2> QED BY <1>1, <2>1 DEF LeftIn
<1>7. OnlyAbout(s, {"pull", "review"})  BY <1>1 DEF OnlyAbout, Ask, Again
<1> QED BY <1>1, <1>2, <1>3, <1>4, <1>5, <1>6, <1>7 DEF s

(* The last calls of a lease, which observe the artifacts of the attempt again. *)
LeaseEnd == <<Again("run"), Ask("uploads"), Again("uploads"), Again("run")>>

(* Their order.                                                            *)
LEMMA LeaseEndOrder ==
  /\ LeaseEnd \in Seq(Calls)
  /\ OnlyAbout(LeaseEnd, {"run", "uploads"})
  /\ After(LeaseEnd, Ask("run"), Ask("uploads"))
  /\ After(LeaseEnd, Ask("uploads"), Again("run"))
  /\ LeftIn(LeaseEnd, Ask("uploads"))
  /\ LeftIn(LeaseEnd, Again("run"))
<1> DEFINE s == LeaseEnd
<1>1. /\ s \in Seq(Calls) /\ Len(s) = 4
      /\ s[1] = Again("run")
      /\ s[2] = Ask("uploads")
      /\ s[3] = Again("uploads")
      /\ s[4] = Again("run")
  BY CallsAreDistinct DEF CallParts, LeaseEnd
<1> HIDE DEF s
<1>2. After(s, Ask("run"), Ask("uploads"))
  <2>1. /\ Ask("run") # Again("run") /\ Ask("run") # Ask("uploads")
        /\ Ask("run") # Again("uploads")
    BY DEF Ask, Again
  <2>2. \A j \in 1..Len(s) : s[j] # Ask("run")
    BY <1>1, <2>1
  <2> QED BY <2>2 DEF After
<1>3. After(s, Ask("uploads"), Again("run"))
  <2>1. /\ Ask("uploads") # Again("run") /\ Ask("uploads") # Again("uploads")
    BY DEF Ask, Again
  <2>2. \A j \in 1..Len(s) : s[j] = Ask("uploads") => j \in {2}
    BY <1>1, <2>1
  <2>3. \A j \in {2} : 4 \in (j + 1)..Len(s)  BY <1>1
  <2> QED BY <1>1, <2>2, <2>3 DEF After
<1>4. LeftIn(s, Ask("uploads"))
  <2>1. 2 \in 1..Len(s)  BY <1>1
  <2> QED BY <1>1, <2>1 DEF LeftIn
<1>5. LeftIn(s, Again("run"))
  <2>1. 1 \in 1..Len(s)  BY <1>1
  <2> QED BY <1>1, <2>1 DEF LeftIn
<1>6. OnlyAbout(s, {"run", "uploads"})  BY <1>1 DEF OnlyAbout, Ask, Again
<1> QED BY <1>1, <1>2, <1>3, <1>4, <1>5, <1>6 DEF s

(* A lease puts an inventory, a snapshot, an attempt and its artifacts after   *)
(* one another.                                                              *)
LEMMA LeaseScriptOrder ==
  /\ LeaseScript \in Seq(Calls)
  /\ \A claim \in {PullClaim, RunsClaim, UploadsClaim} :
       Ordered(LeaseScript, claim) /\ Complete(LeaseScript, claim)
<1> DEFINE r == InventoryScript \o RegistryScript
           s == r \o AttemptScript
           t == s \o LeaseEnd
<1>1. t = LeaseScript  BY DEF LeaseScript, LeaseEnd
<1>2. /\ r \in Seq(Calls)
      /\ \A c : LeftIn(r, c) <=> LeftIn(InventoryScript, c) \/ LeftIn(RegistryScript, c)
      /\ \A x, y : After(RegistryScript, x, y)
             /\ (After(InventoryScript, x, y) \/ LeftIn(RegistryScript, y)) => After(r, x, y)
  BY InventoryScriptOrder, RegistryScriptOrder, JoinedScripts
<1> HIDE DEF r
<1>3. /\ s \in Seq(Calls)
      /\ \A c : LeftIn(s, c) <=> LeftIn(r, c) \/ LeftIn(AttemptScript, c)
      /\ \A x, y : After(AttemptScript, x, y) /\ (After(r, x, y) \/ LeftIn(AttemptScript, y))
             => After(s, x, y)
  BY <1>2, AttemptScriptOrder, JoinedScripts
<1> HIDE DEF s
<1>4. /\ t \in Seq(Calls)
      /\ \A c : LeftIn(t, c) <=> LeftIn(s, c) \/ LeftIn(LeaseEnd, c)
      /\ \A x, y : After(LeaseEnd, x, y) /\ (After(s, x, y) \/ LeftIn(LeaseEnd, y)) => After(t, x, y)
  BY <1>3, LeaseEndOrder, JoinedScripts
<1> HIDE DEF t
<1>5. ASSUME NEW p \in {"branches", "pulls", "issues", "runs"}, NEW y
      PROVE  /\ After(InventoryScript, Ask(p), y) => After(t, Ask(p), y)
             /\ After(InventoryScript, Again(p), y) => After(t, Again(p), y)
  <2>1. /\ After(RegistryScript, Ask(p), y) /\ After(RegistryScript, Again(p), y)
        /\ After(AttemptScript, Ask(p), y) /\ After(AttemptScript, Again(p), y)
        /\ After(LeaseEnd, Ask(p), y) /\ After(LeaseEnd, Again(p), y)
    BY RegistryScriptOrder, AttemptScriptOrder, LeaseEndOrder, OtherCalls
  <2> QED BY <1>2, <1>3, <1>4, <2>1
<1>6. \A claim \in {PullClaim, RunsClaim} : Ordered(t, claim) /\ Complete(t, claim)
  <2>1. /\ After(t, Ask("pulls"), Again("pulls")) /\ After(t, Ask("branches"), Again("pulls"))
        /\ After(t, Again("pulls"), Again("branches")) /\ After(t, Ask("issues"), Again("pulls"))
        /\ After(t, Again("pulls"), Again("issues")) /\ After(t, Ask("branches"), Ask("runs"))
        /\ After(t, Ask("runs"), Again("branches"))
    BY <1>5, InventoryScriptOrder
  <2>2. /\ LeftIn(t, Again("pulls")) /\ LeftIn(t, Ask("branches")) /\ LeftIn(t, Ask("issues"))
        /\ LeftIn(t, Ask("runs"))
    BY <1>2, <1>3, <1>4, InventoryScriptOrder
  <2>3. Ordered(t, PullClaim) /\ Complete(t, PullClaim)
    BY <2>1, <2>2 DEF Ordered, Complete, PullClaim, Claim, Ask, Again
  <2>4. Ordered(t, RunsClaim) /\ Complete(t, RunsClaim)
    BY <2>1, <2>2 DEF Ordered, Complete, RunsClaim, Claim, Ask, Again
  <2> QED BY <2>3, <2>4
<1>7. Ordered(t, UploadsClaim) /\ Complete(t, UploadsClaim)
  <2>1. After(LeaseEnd, Ask("run"), Ask("uploads"))
    BY LeaseEndOrder
  <2>2. /\ After(t, Ask("run"), Ask("uploads")) /\ After(t, Ask("uploads"), Again("run"))
    BY <1>4, <2>1, LeaseEndOrder
  <2>3. LeftIn(t, Ask("run")) /\ LeftIn(t, Ask("uploads"))
    BY <1>3, <1>4, AttemptScriptOrder, LeaseEndOrder
  <2> QED BY <2>2, <2>3 DEF Ordered, Complete, UploadsClaim, Claim, Ask, Again
<1> QED BY <1>1, <1>4, <1>6, <1>7

(* A claim of a kind of tool, and the script of that kind.                   *)
LEMMA ScriptsAreOrdered ==
  ASSUME NEW kind, Claims(kind) # {}
  PROVE  /\ ScriptOf(kind) \in Seq(Calls)
         /\ \A claim \in Claims(kind) : Ordered(ScriptOf(kind), claim)
                /\ Complete(ScriptOf(kind), claim)
<1>1. CASE kind = "inventory"
  <2>1. Ordered(InventoryScript, PullClaim) /\ Complete(InventoryScript, PullClaim)
    BY InventoryScriptOrder DEF Ordered, Complete, PullClaim, Claim, Ask, Again
  <2>2. Ordered(InventoryScript, RunsClaim) /\ Complete(InventoryScript, RunsClaim)
    BY InventoryScriptOrder DEF Ordered, Complete, RunsClaim, Claim, Ask, Again
  <2> QED BY <1>1, <2>1, <2>2, InventoryScriptOrder DEF ScriptOf, Claims
<1>2. CASE kind = "attempt"
  <2>1. Ordered(AttemptScript, JobsClaim) /\ Complete(AttemptScript, JobsClaim)
    BY AttemptScriptOrder DEF Ordered, Complete, JobsClaim, Claim, Ask, Again
  <2> QED BY <1>2, <2>1, AttemptScriptOrder DEF ScriptOf, Claims
<1>3. CASE kind = "artifact"
  <2>1. Ordered(ArtifactScript, UploadsClaim) /\ Complete(ArtifactScript, UploadsClaim)
    BY ArtifactScriptOrder DEF Ordered, Complete, UploadsClaim, Claim, Ask, Again
  <2> QED BY <1>3, <2>1, ArtifactScriptOrder DEF ScriptOf, Claims
<1>4. CASE kind = "lease"
  BY <1>4, LeaseScriptOrder DEF ScriptOf, Claims
<1>5. CASE kind = "assurance"
  <2>1. Ordered(AssuranceScript, ReviewClaim) /\ Complete(AssuranceScript, ReviewClaim)
    BY AssuranceScriptOrder DEF Ordered, Complete, ReviewClaim, Claim, Ask, Again
  <2> QED BY <1>5, <2>1, AssuranceScriptOrder DEF ScriptOf, Claims
<1>6. CASE kind = "registry"
  <2>1. Ordered(RegistryScript, RegistryClaim) /\ Complete(RegistryScript, RegistryClaim)
    BY RegistryScriptOrder DEF Ordered, Complete, RegistryClaim, Claim, Ask, Again
  <2> QED BY <1>6, <2>1, RegistryScriptOrder DEF ScriptOf, Claims
<1> QED BY <1>1, <1>2, <1>3, <1>4, <1>5, <1>6 DEF Claims

(* What the claims are made of.                                             *)
LEMMA ClaimsAreTyped ==
  ASSUME NEW kind, NEW claim \in Claims(kind)
  PROVE  /\ claim.call \in Calls /\ claim.guards \subseteq Guards
         /\ claim.call = IF claim.call.again THEN Again(claim.call.part) ELSE Ask(claim.call.part)
         /\ claim.call.part \in {"pulls", "runs", "jobs", "uploads", "ref", "pull"}
         /\ claim.call.part = "jobs" => "run" \in claim.guards
         /\ claim.call.part \notin claim.guards
         /\ kind \notin Deleting
<1> DEFINE Typed(c) ==
             /\ c.call \in Calls /\ c.guards \subseteq Guards
             /\ c.call = IF c.call.again THEN Again(c.call.part) ELSE Ask(c.call.part)
             /\ c.call.part \in {"pulls", "runs", "jobs", "uploads", "ref", "pull"}
             /\ c.call.part = "jobs" => "run" \in c.guards
             /\ c.call.part \notin c.guards
<1>1. claim \in AllClaims /\ kind \notin Deleting
  BY DEF Claims, AllClaims, Deleting
<1>2. Typed(PullClaim)  BY DEF PullClaim, Claim, Ask, Again, Calls, CallParts, Guards
<1>3. Typed(RunsClaim)  BY DEF RunsClaim, Claim, Ask, Again, Calls, CallParts, Guards
<1>4. Typed(JobsClaim)  BY DEF JobsClaim, Claim, Ask, Again, Calls, CallParts, Guards
<1>5. Typed(UploadsClaim)  BY DEF UploadsClaim, Claim, Ask, Again, Calls, CallParts, Guards
<1>6. Typed(RegistryClaim)  BY DEF RegistryClaim, Claim, Ask, Again, Calls, CallParts, Guards
<1>7. Typed(ReviewClaim)  BY DEF ReviewClaim, Claim, Ask, Again, Calls, CallParts, Guards
<1> HIDE DEF Typed
<1>8. Typed(claim)
  BY <1>1, <1>2, <1>3, <1>4, <1>5, <1>6, <1>7 DEF AllClaims
<1> QED BY <1>1, <1>8 DEF Typed

-----------------------------------------------------------------------------
(* What a tool that only reads has seen.                                    *)

ToolFields == {"kind", "branch", "sha", "script", "got", "phase", "first", "queue", "batch",
               "deleted", "outcome", "now", "lease"}
ToolShape ==
  /\ DOMAIN tool = ToolFields /\ DOMAIN tool.got = CallParts
  /\ tool.kind \in ToolKinds /\ tool.branch \in Topics
  /\ tool.outcome \in {"idle", "running", "refused", "reported", "done"}

(* A guard has been read: it has only moved on since.                       *)
GuardHolds(t, h, g) == ~LeftIn(t.script, Ask(g)) => PartMoved(g, t.got[g], MomentOf(h, t.branch)[g])

(* The call of a claim was answered at a moment, between the two readings of   *)
(* its guards. An attempt that has moved on by then will not be read again.    *)
Witnesses(t, h, claim, m) ==
  /\ claim.call.part # "jobs" => m[claim.call.part] = t.got[claim.call.part]
  /\ claim.call.part = "jobs" =>
       /\ m.jobs = JobsOf(m.run)
       /\ m.run = t.got.run => \/ t.got.jobs = m.jobs
                               \/ t.got.jobs = [attempt |-> t.got.run.attempt, done |-> FALSE]
  /\ \A g \in claim.guards :
       /\ PartMoved(g, t.got[g], m[g]) /\ PartMoved(g, m[g], MomentOf(h, t.branch)[g])
       /\ ~LeftIn(t.script, Again(g)) => m[g] = t.got[g]

ClaimHolds(t, h, ms, claim) ==
  ~LeftIn(t.script, claim.call) => \E m \in ms : Witnesses(t, h, claim, m)

Reading(t, h, ms) ==
  /\ t.script \in Seq(Calls) /\ MomentOf(h, t.branch) \in ms
  /\ \A claim \in Claims(t.kind) :
       /\ Ordered(t.script, claim) /\ ClaimHolds(t, h, ms, claim)
       /\ \A g \in claim.guards : GuardHolds(t, h, g)

ReportIsTrue ==
  \A parts \in Together(tool.kind) :
    \E m \in moments : \A part \in parts : m[part] = tool.got[part]

ReadInv ==
  /\ tool.outcome = "idle" => tool.script = ScriptOf(tool.kind)
  /\ tool.outcome = "running" /\ Claims(tool.kind) # {} => Reading(tool, github, moments)
  /\ tool.outcome = "reported" => ReportIsTrue

(* The repository moves while the tool reads.                               *)
LEMMA ReadingSurvives ==
  ASSUME NEW t, NEW x, NEW y, NEW ms, NEW ns, HubInv(x), Grew(x, y), t.branch \in Topics,
         Reading(t, x, ms), ms \subseteq ns, MomentOf(y, t.branch) \in ns
  PROVE  Reading(t, y, ns)
<1>1. ASSUME NEW claim \in Claims(t.kind), NEW g \in claim.guards
      PROVE  /\ g \in Guards /\ GuardHolds(t, y, g)
             /\ PartMoved(g, MomentOf(x, t.branch)[g], MomentOf(y, t.branch)[g])
  <2>1. g \in Guards /\ PartMoved(g, MomentOf(x, t.branch)[g], MomentOf(y, t.branch)[g])
    BY ClaimsAreTyped, MomentsMove
  <2>2. GuardHolds(t, x, g)  BY DEF Reading
  <2> QED BY <2>1, <2>2, MovedTransitive DEF GuardHolds
<1>2. ASSUME NEW claim \in Claims(t.kind), ~LeftIn(t.script, claim.call)
      PROVE  \E m \in ns : Witnesses(t, y, claim, m)
  <2>1. PICK m \in ms : Witnesses(t, x, claim, m)  BY <1>2 DEF Reading, ClaimHolds
  <2>2. \A g \in claim.guards : PartMoved(g, m[g], MomentOf(y, t.branch)[g])
    <3>1. SUFFICES ASSUME NEW g \in claim.guards PROVE PartMoved(g, m[g], MomentOf(y, t.branch)[g])
      OBVIOUS
    <3>2. PartMoved(g, m[g], MomentOf(x, t.branch)[g])  BY <2>1 DEF Witnesses
    <3> QED BY <1>1, <3>2, MovedTransitive
  <2>3. Witnesses(t, y, claim, m)  BY <2>1, <2>2 DEF Witnesses
  <2> QED BY <2>3
<1> QED BY <1>1, <1>2 DEF Reading, ClaimHolds

(* The tool makes its next call.                                            *)
LEMMA CallReads ==
  ASSUME NEW t, NEW u, NEW h, NEW ms, NEW v, HubInv(h), t.branch \in Topics, DOMAIN t.got = CallParts,
         t.script # <<>>, Reading(t, h, ms),
         v \in HubAnswers(h, Head(t.script).part, t.branch, t.got),
         Head(t.script).again => v = t.got[Head(t.script).part],
         u.script = Tail(t.script), u.got = [t.got EXCEPT ![Head(t.script).part] = v],
         u.branch = t.branch, u.kind = t.kind
  PROVE  Reading(u, h, ms)
<1> DEFINE c == Head(t.script)
           now == MomentOf(h, t.branch)
<1>1. /\ t.script \in Seq(Calls) /\ c \in Calls /\ u.script \in Seq(Calls)
      /\ Len(t.script) \in Nat /\ Len(u.script) \in Nat
      /\ \A x : LeftIn(t.script, x) <=> (c = x \/ LeftIn(u.script, x))
      /\ \A x, y : After(t.script, x, y) => After(u.script, x, y)
      /\ \A x, y : After(t.script, x, y) /\ c = x => LeftIn(u.script, y)
  BY TailOfScript DEF Reading
<1>2. /\ c.part \in CallParts
      /\ c = IF c.again THEN Again(c.part) ELSE Ask(c.part)
  BY <1>1, CallsAreDistinct DEF Calls
<1>3. /\ u.got[c.part] = v
      /\ \A q \in CallParts : c # Ask(q) => u.got[q] = t.got[q]
  <2>1. \A q \in CallParts : u.got[q] = IF q = c.part THEN v ELSE t.got[q]
    OBVIOUS
  <2> QED BY <1>2, <2>1
<1>4. c.part \in {"branches", "pulls", "issues", "runs", "run", "uploads", "ref", "pull", "review"}
        => v = now[c.part]
  BY MomentsShow
<1>5. now \in ms  BY DEF Reading
<1>6. \A claim \in Claims(t.kind) : claim \in Claims(u.kind) /\ Ordered(t.script, claim)
  BY DEF Reading
<1> HIDE DEF c, now
<1>7. ASSUME NEW claim \in Claims(t.kind), NEW g \in claim.guards
      PROVE  g \in Guards /\ g \in CallParts /\ GuardHolds(u, h, g)
  <2>1. g \in Guards /\ g \in CallParts  BY ClaimsAreTyped DEF Guards, CallParts
  <2>2. ASSUME ~LeftIn(u.script, Ask(g)) PROVE PartMoved(g, u.got[g], now[g])
    <3>1. CASE c = Ask(g)
      <4>1. c.part = g /\ v = now[g]  BY <1>4, <2>1, <3>1 DEF Ask, Guards
      <4>2. u.got[g] = now[g]  BY <1>3, <4>1
      <4> QED BY <2>1, <4>2, MomentsStay DEF now
    <3>2. CASE c # Ask(g)
      <4>1. ~LeftIn(t.script, Ask(g))  BY <1>1, <2>2, <3>2
      <4>2. PartMoved(g, t.got[g], now[g])  BY <4>1 DEF Reading, GuardHolds, now
      <4> QED BY <1>3, <2>1, <3>2, <4>2
    <3> QED BY <3>1, <3>2
  <2> QED BY <2>1, <2>2 DEF GuardHolds, now
<1>8. ASSUME NEW claim \in Claims(t.kind), ~LeftIn(u.script, claim.call)
      PROVE  \E m \in ms : Witnesses(u, h, claim, m)
  <2> DEFINE p == claim.call.part
  <2>1. /\ claim.call \in Calls /\ p \in {"pulls", "runs", "jobs", "uploads", "ref", "pull"}
        /\ claim.call = IF claim.call.again THEN Again(p) ELSE Ask(p)
        /\ p = "jobs" => "run" \in claim.guards
    BY ClaimsAreTyped
  <2>2. p \in CallParts  BY <2>1 DEF CallParts
  <2> HIDE DEF p
  <2>3. \A g \in claim.guards : ~LeftIn(u.script, Ask(g))
    <3>1. SUFFICES ASSUME NEW g \in claim.guards PROVE ~LeftIn(u.script, Ask(g))
      OBVIOUS
    <3>2. After(u.script, Ask(g), claim.call)  BY <1>1, <1>6 DEF Ordered
    <3> QED BY <1>1, <1>8, <3>2, NothingFollows
  <2>4. \A g \in claim.guards : PartMoved(g, u.got[g], now[g])
    BY <1>7, <2>3 DEF GuardHolds, now
  <2>5. CASE c = claim.call
    <3>1. c.part = p  BY <2>5 DEF p
    <3>2. p # "jobs" => now[p] = u.got[p]  BY <1>3, <1>4, <2>1, <3>1
    <3>3. p = "jobs" => /\ now.jobs = JobsOf(now.run)
                        /\ now.run = u.got.run => \/ u.got.jobs = now.jobs
                                                  \/ u.got.jobs = [attempt |-> u.got.run.attempt, done |-> FALSE]
      <4>1. SUFFICES ASSUME p = "jobs"
                     PROVE  /\ now.jobs = JobsOf(now.run)
                            /\ now.run = u.got.run => \/ u.got.jobs = now.jobs
                                                      \/ u.got.jobs = [attempt |-> u.got.run.attempt, done |-> FALSE]
        OBVIOUS
      <4>2. now.run = h.run[t.branch] /\ now.jobs = JobsOf(now.run)  BY DEF now, MomentOf
      <4>3. c # Ask("run")  BY <3>1, <4>1 DEF Ask
      <4>4. "run" \in CallParts  BY DEF CallParts
      <4>5. u.got.run = t.got.run  BY <1>3, <4>3, <4>4
      <4>6. u.got.jobs = v  BY <1>3, <3>1, <4>1
      <4>7. v \in JobAnswers(h.run[t.branch], t.got.run.attempt)
        BY <3>1, <4>1 DEF HubAnswers, c
      <4>8. ASSUME now.run = u.got.run
            PROVE  v \in {now.jobs, [attempt |-> u.got.run.attempt, done |-> FALSE]}
        <5>1. h.run[t.branch] \in HubRuns  BY DEF HubInv, Repositories
        <5>2. h.run[t.branch].attempt \in Nat  BY <5>1 DEF HubRuns
        <5> QED BY <4>2, <4>5, <4>7, <4>8, <5>2 DEF JobAnswers
      <4> QED BY <4>2, <4>6, <4>8
    <3>4. \A g \in claim.guards : /\ PartMoved(g, now[g], now[g])
                                  /\ LeftIn(u.script, Again(g))
      BY <1>1, <1>6, <1>7, <2>5, MomentsStay DEF Ordered, now
    <3>5. Witnesses(u, h, claim, now)
      BY <2>4, <3>2, <3>3, <3>4 DEF Witnesses, p, now
    <3> QED BY <1>5, <3>5
  <2>6. CASE c # claim.call
    <3>1. ~LeftIn(t.script, claim.call)  BY <1>1, <1>8, <2>6
    <3>2. PICK m \in ms : Witnesses(t, h, claim, m)  BY <3>1 DEF Reading, ClaimHolds
    <3>3. c # Ask(p)
      <4>1. CASE claim.call.again
        <5>1. After(t.script, Ask(p), claim.call)  BY <1>6, <4>1 DEF Ordered, p
        <5>2. ~LeftIn(t.script, Ask(p))  BY <1>1, <3>1, <5>1, NothingFollows
        <5> QED BY <1>1, <5>2
      <4>2. CASE ~claim.call.again  BY <2>1, <2>6, <4>2
      <4> QED BY <4>1, <4>2
    <3>4. u.got[p] = t.got[p]  BY <1>3, <2>2, <3>3
    <3>5. ASSUME NEW g \in claim.guards PROVE c # Ask(g) /\ u.got[g] = t.got[g]
      <4>1. After(t.script, Ask(g), claim.call)  BY <1>6 DEF Ordered
      <4>2. ~LeftIn(t.script, Ask(g))  BY <1>1, <3>1, <4>1, NothingFollows
      <4>3. c # Ask(g)  BY <1>1, <4>2
      <4> QED BY <1>3, <1>7, <4>3
    <3>6. ASSUME NEW g \in claim.guards
          PROVE  /\ PartMoved(g, u.got[g], m[g]) /\ PartMoved(g, m[g], now[g])
                 /\ ~LeftIn(u.script, Again(g)) => m[g] = u.got[g]
      <4>1. /\ PartMoved(g, t.got[g], m[g]) /\ PartMoved(g, m[g], now[g])
            /\ ~LeftIn(t.script, Again(g)) => m[g] = t.got[g]
        BY <3>2 DEF Witnesses, now
      <4>2. ASSUME ~LeftIn(u.script, Again(g)), LeftIn(t.script, Again(g)) PROVE m[g] = t.got[g]
        <5>1. c = Again(g)  BY <1>1, <4>2
        <5>2. c.part = g /\ c.again  BY <5>1 DEF Again
        <5>3. v = t.got[g] /\ v = now[g]  BY <1>4, <1>7, <5>2 DEF Guards, c
        <5> QED BY <1>7, <4>1, <5>3, MovedAntisymmetric
      <4> QED BY <3>5, <4>1, <4>2
    <3>7. p = "jobs" => u.got.run = t.got.run  BY <2>1, <3>5
    <3>8. Witnesses(u, h, claim, m)
      BY <3>2, <3>4, <3>6, <3>7 DEF Witnesses, p, now
    <3> QED BY <3>8
  <2> QED BY <2>5, <2>6
<1>9. \A claim \in Claims(t.kind) : Ordered(u.script, claim)
  BY <1>1, <1>6 DEF Ordered
<1> QED BY <1>1, <1>5, <1>7, <1>8, <1>9 DEF Reading, ClaimHolds, now

(* A tool that starts has read nothing, and the moment it starts at is one.   *)
LEMMA ReadingStarts ==
  ASSUME NEW t, NEW h, NEW ms, Claims(t.kind) # {}, t.script = ScriptOf(t.kind),
         MomentOf(h, t.branch) \in ms
  PROVE  Reading(t, h, ms)
<1>1. /\ t.script \in Seq(Calls)
      /\ \A claim \in Claims(t.kind) : Ordered(t.script, claim) /\ Complete(t.script, claim)
  BY ScriptsAreOrdered
<1> QED BY <1>1 DEF Reading, Complete, ClaimHolds, GuardHolds

Settled(t, claim, m) ==
  /\ \A g \in claim.guards : m[g] = t.got[g]
  /\ claim.call.part # "jobs" => m[claim.call.part] = t.got[claim.call.part]
  /\ claim.call.part = "jobs" =>
       /\ m.jobs = JobsOf(m.run)
       /\ \/ t.got.jobs = m.jobs
          \/ t.got.jobs = [attempt |-> t.got.run.attempt, done |-> FALSE]

(* When every call is made, what the claims are about was seen together.      *)
LEMMA ReadingEnds ==
  ASSUME NEW t, NEW h, NEW ms, NEW claim \in Claims(t.kind), Reading(t, h, ms), t.script = <<>>
  PROVE  \E m \in ms : Settled(t, claim, m)
<1>1. \A c : ~LeftIn(t.script, c)
  <2>1. Len(t.script) = 0  OBVIOUS
  <2> QED BY <2>1 DEF LeftIn
<1>2. PICK m \in ms : Witnesses(t, h, claim, m)
  BY <1>1 DEF Reading, ClaimHolds
<1>3. \A g \in claim.guards : m[g] = t.got[g]
  BY <1>1, <1>2 DEF Witnesses
<1>4. claim.call.part = "jobs" => m.run = t.got.run
  BY <1>3, ClaimsAreTyped
<1> QED BY <1>2, <1>3, <1>4 DEF Witnesses, Settled

(* And the report that is made of it is true.                               *)
LEMMA ReportsAreTrue ==
  ASSUME Claims(tool.kind) # {} => Reading(tool, github, moments), tool.script = <<>>,
         ReportHolds(tool.got)
  PROVE  ReportIsTrue
<1>1. ASSUME NEW claim \in Claims(tool.kind)
      PROVE  \E m \in moments : /\ \A g \in claim.guards : m[g] = tool.got[g]
                                /\ claim.call.part # "jobs"
                                       => m[claim.call.part] = tool.got[claim.call.part]
  BY <1>1, ReadingEnds DEF Settled
<1>2. ASSUME PullClaim \in Claims(tool.kind)
      PROVE  \E m \in moments : \A part \in {"branches", "pulls", "issues"} : m[part] = tool.got[part]
  BY <1>1, <1>2 DEF PullClaim, Claim, Again
<1>3. ASSUME RunsClaim \in Claims(tool.kind)
      PROVE  \E m \in moments : \A part \in {"branches", "runs"} : m[part] = tool.got[part]
  BY <1>1, <1>3 DEF RunsClaim, Claim, Ask
<1>4. ASSUME UploadsClaim \in Claims(tool.kind)
      PROVE  \E m \in moments : \A part \in {"run", "uploads"} : m[part] = tool.got[part]
  BY <1>1, <1>4 DEF UploadsClaim, Claim, Ask
<1>5. ASSUME RegistryClaim \in Claims(tool.kind)
      PROVE  \E m \in moments : \A part \in {"ref"} : m[part] = tool.got[part]
  BY <1>1, <1>5 DEF RegistryClaim, Claim, Ask
<1>6. ASSUME ReviewClaim \in Claims(tool.kind)
      PROVE  \E m \in moments : \A part \in {"pull", "review"} : m[part] = tool.got[part]
  BY <1>1, <1>6 DEF ReviewClaim, Claim, Again
<1>7. ASSUME tool.kind = "attempt"
      PROVE  \E m \in moments : \A part \in {"run", "jobs"} : m[part] = tool.got[part]
  <2>1. JobsClaim \in Claims(tool.kind) /\ Reading(tool, github, moments)
    BY <1>7 DEF Claims
  <2>2. JobsClaim.guards = {"run"} /\ JobsClaim.call.part = "jobs"  BY DEF JobsClaim, Claim, Ask
  <2>3. PICK m \in moments : /\ m.run = tool.got.run /\ m.jobs = JobsOf(m.run)
                             /\ \/ tool.got.jobs = m.jobs
                                \/ tool.got.jobs = [attempt |-> tool.got.run.attempt, done |-> FALSE]
    <3>1. PICK m \in moments : Settled(tool, JobsClaim, m)
      BY <2>1, ReadingEnds
    <3> QED BY <2>2, <3>1 DEF Settled
  <2>4. tool.got.run.state = "completed" => tool.got.jobs.done
    BY <1>7 DEF ReportHolds, AttemptHolds
  <2>5. tool.got.jobs = m.jobs
    <3>1. CASE tool.got.jobs = [attempt |-> tool.got.run.attempt, done |-> FALSE]
      <4>1. tool.got.run.state # "completed"  BY <2>4, <3>1
      <4> QED BY <2>3, <3>1, <4>1 DEF JobsOf
    <3> QED BY <2>3, <3>1
  <2> QED BY <2>3, <2>5
<1> DEFINE Shown(parts) == \E m \in moments : \A part \in parts : m[part] = tool.got[part]
<1>8. SUFFICES ASSUME NEW parts \in Together(tool.kind) PROVE Shown(parts)
  BY DEF ReportIsTrue
<1>9. /\ PullClaim \in Claims(tool.kind) => Shown({"branches", "pulls", "issues"})
      /\ RunsClaim \in Claims(tool.kind) => Shown({"branches", "runs"})
      /\ UploadsClaim \in Claims(tool.kind) => Shown({"run", "uploads"})
      /\ RegistryClaim \in Claims(tool.kind) => Shown({"ref"})
      /\ ReviewClaim \in Claims(tool.kind) => Shown({"pull", "review"})
      /\ tool.kind = "attempt" => Shown({"run", "jobs"})
  BY <1>2, <1>3, <1>4, <1>5, <1>6, <1>7
<1> HIDE DEF Shown
<1> QED BY <1>8, <1>9 DEF Together, Claims

-----------------------------------------------------------------------------
(* What a tool that deletes has read, and may still delete.                  *)

DeleteInv ==
  /\ tool.got.merged \subseteq github.sources /\ tool.got.record \subseteq github.retained
  /\ tool.got.branches.history \subseteq github.history
  /\ tool.now \in Nat /\ tool.now <= github.clock
  /\ \A r \in retired : /\ r.merged /\ r.inMain /\ r.name \notin ReservedTopics
                        /\ r.by = "prune" => r.kept
  /\ IsFiniteSet(retired) /\ Cardinality(retired) <= MaxDeletes
  /\ tool.queue \subseteq Topics /\ tool.batch \subseteq Topics
  /\ tool.deleted \subseteq {r.name : r \in retired}
  /\ 1 \in github.history
  /\ tool.outcome = "idle" => tool.phase = "read"
  /\ tool.outcome \in {"idle", "running"} =>
       /\ tool.kind = "bulk" => tool.phase \in {"read", "check", "after"}
       /\ tool.kind = "prune" => tool.phase \in {"read", "delete", "after"}
       /\ tool.phase \in {"read", "delete"} => retired = {}
       /\ tool.kind = "bulk" /\ tool.phase = "check" =>
            Cardinality(retired) + Cardinality(tool.queue) <= MaxDeletes
       /\ tool.kind = "bulk" /\ tool.phase = "after" =>
            Cardinality(retired) + Cardinality(tool.queue \ tool.batch) <= MaxDeletes
       /\ tool.phase = "after" =>
            /\ tool.batch \subseteq {r.name : r \in retired}
            /\ tool.kind = "prune" => tool.batch = {tool.branch}
       /\ tool.kind = "prune" /\ tool.phase = "delete" => PruneEligible /\ tool.script = <<>>

ToolsInv == ToolShape /\ HubInv(github) /\ ReadInv /\ DeleteInv

(* Fields of the tool that stay.                                            *)
ToolKept(moved) ==
  /\ tool'.kind = tool.kind /\ tool'.branch = tool.branch
  /\ "sha" \in moved \/ tool'.sha = tool.sha
  /\ "script" \in moved \/ tool'.script = tool.script
  /\ "got" \in moved \/ tool'.got = tool.got
  /\ "phase" \in moved \/ tool'.phase = tool.phase
  /\ "queue" \in moved \/ tool'.queue = tool.queue
  /\ "batch" \in moved \/ tool'.batch = tool.batch
  /\ "deleted" \in moved \/ tool'.deleted = tool.deleted
  /\ "outcome" \in moved \/ tool'.outcome = tool.outcome
  /\ "now" \in moved \/ tool'.now = tool.now

(* A tool before its first call.                                            *)
LEMMA NothingGot ==
  /\ DOMAIN NoGot = CallParts /\ NoGot.merged = {} /\ NoGot.record = {}
  /\ NoGot.branches.history = {1}
BY DEF NoGot, CallParts, BranchList, HubStart

(* The subject of a tool is one of the branches.                            *)
LEMMA SubjectIsTopic == Subject \in Topics \ ReservedTopics
<1>1. \E b \in Topics \ ReservedTopics : TRUE  BY ToolsAssumption
<1> QED BY <1>1 DEF Subject

(* The invariant holds when a tool is called.                               *)
LEMMA ToolsInitially == ToolInit => ToolsInv
<1>1. SUFFICES ASSUME ToolInit PROVE ToolsInv
  OBVIOUS
<1>2. PICK kind \in ToolKinds : \E b \in IF kind = "prune" THEN Topics ELSE {Subject} :
         /\ github = HubStart(kind)
         /\ tool = [kind |-> kind, branch |-> b, sha |-> Absent, script |-> ScriptOf(kind), got |-> NoGot,
                    phase |-> "read", first |-> NoReport, queue |-> {}, batch |-> {}, deleted |-> {},
                    outcome |-> "idle", now |-> 0, lease |-> LeaseOf(HubStart(kind), b)]
  BY <1>1 DEF ToolInit
<1>3. PICK b \in Topics :
         /\ github = HubStart(kind)
         /\ tool = [kind |-> kind, branch |-> b, sha |-> Absent, script |-> ScriptOf(kind), got |-> NoGot,
                    phase |-> "read", first |-> NoReport, queue |-> {}, batch |-> {}, deleted |-> {},
                    outcome |-> "idle", now |-> 0, lease |-> LeaseOf(HubStart(kind), b)]
  BY <1>2, SubjectIsTopic
<1>4. moments = {} /\ retired = {}  BY <1>1 DEF ToolInit
<1>5. /\ DOMAIN tool = ToolFields /\ tool.kind = kind /\ tool.branch = b
             /\ tool.script = ScriptOf(kind)
      /\ tool.got = NoGot /\ tool.phase = "read" /\ tool.queue = {} /\ tool.batch = {}
             /\ tool.deleted = {}
      /\ tool.outcome = "idle" /\ tool.now = 0
  BY <1>3 DEF ToolFields
<1>6. github.history = {1} /\ github.clock = 0  BY <1>3 DEF HubStart
<1>7. IsFiniteSet(retired) /\ Cardinality(retired) = 0 /\ MaxDeletes \in Nat
  BY <1>4, FS_EmptySet, ToolsAssumption
<1>8. HubInv(github)  BY <1>3, HubStarts
<1>9. ToolShape  BY <1>5, NothingGot DEF ToolShape
<1>10. ReadInv  BY <1>5 DEF ReadInv
<1>11. DeleteInv  BY <1>4, <1>5, <1>6, <1>7, NothingGot DEF DeleteInv
<1> QED BY <1>8, <1>9, <1>10, <1>11 DEF ToolsInv

(* Something happens in the repository.                                     *)
LEMMA HubMovesKeeps ==
  ASSUME ToolsInv, NEW h, HubInv(h), Grew(github, h), github' = h, tool' = tool, retired' = retired,
         moments \subseteq moments',
         Claims(tool.kind) # {} /\ tool.outcome = "running" => MomentOf(h, tool.branch) \in moments',
         tool.outcome \in {"idle", "running"}
  PROVE  ToolsInv'
<1>1. ToolShape /\ HubInv(github) /\ ReadInv /\ DeleteInv  BY DEF ToolsInv
<1>2. ToolShape'  BY <1>1 DEF ToolShape
<1>3. HubInv(github)'  BY DEF HubInv, Repositories, TipsReach
<1>4. ReadInv'
  <2>1. tool.branch \in Topics  BY <1>1 DEF ToolShape
  <2>2. ASSUME tool.outcome = "running", Claims(tool.kind) # {} PROVE Reading(tool, h, moments')
    <3>1. Reading(tool, github, moments)  BY <1>1, <2>2 DEF ReadInv
    <3> QED BY <1>1, <2>1, <2>2, <3>1, ReadingSurvives
  <2> QED BY <1>1, <2>2 DEF ReadInv
<1>5. DeleteInv'
  <2>1. /\ github.sources \subseteq h.sources /\ github.retained \subseteq h.retained
        /\ github.clock <= h.clock /\ github.history \subseteq h.history
    BY DEF Grew, BranchesMoved, BranchList
  <2>2. github.clock \in Nat /\ h.clock \in Nat  BY <1>1 DEF HubInv, Repositories
  <2>3. tool.now \in Nat /\ tool.now <= h.clock  BY <1>1, <2>1, <2>2 DEF DeleteInv
  <2>4. PruneEligible' <=> PruneEligible
    BY DEF PruneEligible, Prunable, RecordHolds, OpenNames
  <2> QED BY <1>1, <2>1, <2>3, <2>4 DEF DeleteInv
<1> QED BY <1>2, <1>3, <1>4, <1>5 DEF ToolsInv

(* A step of the repository.                                                *)
LEMMA HubSteps ==
  ASSUME ToolsInv, NEW h, HubMoves(h)
  PROVE  ToolsInv'
<1>1. HubInv(github)  BY DEF ToolsInv
<1>2. HubInv(h) /\ Grew(github, h)  BY <1>1, AfterEvent DEF HubMoves
<1>3. Claims(tool.kind) # {} => tool.kind \notin Deleting  BY ClaimsAreTyped
<1>4. /\ moments \subseteq moments'
      /\ Claims(tool.kind) # {} /\ tool.outcome = "running" => MomentOf(h, tool.branch) \in moments'
  BY <1>3 DEF HubMoves, Remember, Watching
<1> QED BY <1>2, <1>4, HubMovesKeeps DEF HubMoves, InUse

(* A tick of the clock.                                                     *)
LEMMA TimeSteps ==
  ASSUME ToolsInv, TimePasses
  PROVE  ToolsInv'
<1>1. HubInv(github) /\ ToolShape /\ ReadInv  BY DEF ToolsInv
<1>2. HubInv(ClockTick) /\ Grew(github, ClockTick)  BY <1>1, AfterClockTick
<1>3. MomentOf(ClockTick, tool.branch) = MomentOf(github, tool.branch)
  BY <1>1, AfterClockTick DEF ToolShape
<1>4. Claims(tool.kind) # {} /\ tool.outcome = "running" => MomentOf(github, tool.branch) \in moments
  BY <1>1 DEF ReadInv, Reading
<1> QED BY <1>2, <1>3, <1>4, HubMovesKeeps DEF TimePasses, InUse

(* A tool starts, or gives up.                                              *)
LEMMA StartSteps ==
  ASSUME ToolsInv, StartTool
  PROVE  ToolsInv'
<1>1. ToolShape /\ HubInv(github) /\ ReadInv /\ DeleteInv  BY DEF ToolsInv
<1>2. /\ ToolKept({"outcome", "sha", "now"}) /\ tool'.outcome = "running" /\ tool'.now = github.clock
      /\ tool.outcome = "idle" /\ DOMAIN tool' = ToolFields
      /\ github' = github /\ retired' = retired /\ moments' = {MomentOf(github, tool.branch)}
  BY <1>1 DEF StartTool, ToolShape, ToolKept, ToolFields
<1>3. ToolShape'  BY <1>1, <1>2 DEF ToolShape, ToolKept
<1>4. HubInv(github)'  BY <1>1, <1>2 DEF HubInv, Repositories
<1>5. ReadInv'
  <2>1. ASSUME Claims(tool.kind) # {} PROVE Reading(tool', github', moments')
    BY <1>1, <1>2, <2>1, ReadingStarts DEF ReadInv, ToolKept
  <2> QED BY <1>2, <2>1 DEF ReadInv, ToolKept
<1>6. DeleteInv'
  <2>1. github.clock \in Nat  BY <1>1 DEF HubInv, Repositories
  <2> QED BY <1>1, <1>2, <2>1 DEF DeleteInv, ToolKept
<1> QED BY <1>3, <1>4, <1>5, <1>6 DEF ToolsInv

(* A tool raises: what it has deleted stays deleted.                        *)
LEMMA RefusalSteps ==
  ASSUME ToolsInv, ToolRefuses
  PROVE  ToolsInv'
<1>1. ToolShape /\ HubInv(github) /\ ReadInv /\ DeleteInv  BY DEF ToolsInv
<1>2. /\ ToolKept({"outcome", "got", "script"}) /\ tool'.outcome = "refused" /\ tool'.got = NoGot
      /\ DOMAIN tool' = ToolFields /\ github' = github /\ retired' = retired
  BY <1>1 DEF ToolRefuses, ToolShape, ToolKept, ToolFields
<1>3. ToolShape'  BY <1>1, <1>2, NothingGot DEF ToolShape, ToolKept
<1>4. HubInv(github)'  BY <1>1, <1>2 DEF HubInv, Repositories
<1>5. ReadInv'  BY <1>2 DEF ReadInv
<1>6. DeleteInv'
  BY <1>1, <1>2, NothingGot DEF DeleteInv, ToolKept
<1> QED BY <1>3, <1>4, <1>5, <1>6 DEF ToolsInv

(* A call is answered.                                                      *)
LEMMA CallSteps ==
  ASSUME ToolsInv, NEW v, CallGitHub(v)
  PROVE  ToolsInv'
<1> DEFINE c == Head(tool.script)
<1>1. ToolShape /\ HubInv(github) /\ ReadInv /\ DeleteInv  BY DEF ToolsInv
<1>2. /\ ToolKept({"script", "got"}) /\ tool'.script = Tail(tool.script)
      /\ tool'.got = [tool.got EXCEPT ![c.part] = v] /\ DOMAIN tool' = ToolFields
      /\ github' = github /\ retired' = retired /\ moments' = moments
      /\ tool.outcome = "running" /\ tool.script # <<>>
      /\ v \in HubAnswers(github, c.part, tool.branch, tool.got)
      /\ c.again => v = tool.got[c.part]
  BY <1>1 DEF CallGitHub, ToolShape, ToolKept, ToolFields, Watching
<1> HIDE DEF c
<1>3. ToolShape'  BY <1>1, <1>2 DEF ToolShape, ToolKept
<1>4. HubInv(github)'  BY <1>1, <1>2 DEF HubInv, Repositories
<1>5. ReadInv'
  <2>1. ASSUME Claims(tool.kind) # {} PROVE Reading(tool', github', moments')
    <3>1. Reading(tool, github, moments)  BY <1>1, <1>2, <2>1 DEF ReadInv
    <3>2. tool.branch \in Topics /\ DOMAIN tool.got = CallParts  BY <1>1 DEF ToolShape
    <3>3. tool'.branch = tool.branch /\ tool'.kind = tool.kind  BY <1>2 DEF ToolKept
    <3>4. Reading(tool', github, moments)
      BY <1>1, <1>2, <3>1, <3>2, <3>3, CallReads DEF c
    <3> QED BY <1>2, <3>4
  <2> QED BY <1>2, <2>1 DEF ReadInv, ToolKept
<1>6. DeleteInv'
  <2>1. \A p \in CallParts : tool'.got[p] = IF p = c.part THEN v ELSE tool.got[p]
    BY <1>1, <1>2 DEF ToolShape
  <2>2. "merged" \in CallParts /\ "record" \in CallParts /\ "branches" \in CallParts  BY DEF CallParts
  <2>3. tool'.got.merged \subseteq github.sources
    <3>1. CASE c.part = "merged"  BY <1>2, <2>1, <2>2, <3>1 DEF HubAnswers
    <3>2. CASE c.part # "merged"  BY <1>1, <2>1, <2>2, <3>2 DEF DeleteInv
    <3> QED BY <3>1, <3>2
  <2>4. tool'.got.record \subseteq github.retained
    <3>1. CASE c.part = "record"  BY <1>2, <2>1, <2>2, <3>1 DEF HubAnswers, RecordsOf
    <3>2. CASE c.part # "record"  BY <1>1, <2>1, <2>2, <3>2 DEF DeleteInv
    <3> QED BY <3>1, <3>2
  <2>5. tool'.got.branches.history \subseteq github.history
    <3>1. CASE c.part = "branches"  BY <1>2, <2>1, <2>2, <3>1 DEF HubAnswers, BranchList
    <3>2. CASE c.part # "branches"  BY <1>1, <2>1, <2>2, <3>2 DEF DeleteInv
    <3> QED BY <3>1, <3>2
  <2>6. tool.kind = "prune" => tool.phase # "delete"
    BY <1>1, <1>2 DEF DeleteInv
  <2> QED BY <1>1, <1>2, <2>3, <2>4, <2>5, <2>6 DEF DeleteInv, ToolKept
<1> QED BY <1>3, <1>4, <1>5, <1>6 DEF ToolsInv

(* A tool reports what it has read.                                         *)
LEMMA ReportSteps ==
  ASSUME ToolsInv, Report
  PROVE  ToolsInv'
<1>1. ToolShape /\ HubInv(github) /\ ReadInv /\ DeleteInv  BY DEF ToolsInv
<1>2. /\ ToolKept({"outcome", "queue"}) /\ tool'.outcome = "reported" /\ tool'.queue \subseteq Topics
      /\ DOMAIN tool' = ToolFields /\ github' = github /\ retired' = retired /\ moments' = moments
      /\ tool.outcome = "running" /\ tool.script = <<>> /\ ReportHolds(tool.got)
  BY <1>1 DEF Report, ToolShape, ToolKept, ToolFields, ReadDone, Watching
<1>3. ToolShape'  BY <1>1, <1>2 DEF ToolShape, ToolKept
<1>4. HubInv(github)'  BY <1>1, <1>2 DEF HubInv, Repositories
<1>5. ReadInv'
  <2>1. ReportIsTrue  BY <1>1, <1>2, ReportsAreTrue DEF ReadInv
  <2>2. ReportIsTrue'  BY <1>2, <2>1 DEF ReportIsTrue, ToolKept
  <2> QED BY <1>2, <2>2 DEF ReadInv
<1>6. DeleteInv'  BY <1>1, <1>2 DEF DeleteInv, ToolKept
<1> QED BY <1>3, <1>4, <1>5, <1>6 DEF ToolsInv

(* A tool that deletes plans, observes and confirms.                         *)
LEMMA DeletingReadsNothing ==
  ASSUME tool'.kind = tool.kind, tool.kind \in {"bulk", "prune"}, tool'.outcome # "idle",
         tool'.outcome = "running" \/ tool'.outcome \in {"done", "refused"}
  PROVE  ReadInv'
BY DEF ReadInv, Claims

(* The bulk retirement fixes its queue, within max_deletes.                 *)
LEMMA PlanSteps ==
  ASSUME ToolsInv, NEW queue, NEW apply, PlanRetirement(queue, apply)
  PROVE  ToolsInv'
<1>1. ToolShape /\ HubInv(github) /\ ReadInv /\ DeleteInv  BY DEF ToolsInv
<1>2. /\ ToolKept({"queue", "phase", "script", "outcome"}) /\ tool'.queue = queue
             /\ tool'.phase = "check"
      /\ tool'.outcome \in {"running", "done"}
      /\ DOMAIN tool' = ToolFields /\ github' = github /\ retired' = retired /\ moments' = moments
      /\ tool.outcome = "running" /\ tool.kind = "bulk" /\ tool.phase = "read"
      /\ queue \in kSubset(Min({MaxDeletes, Cardinality(Retirable(tool.got))}), Retirable(tool.got))
  BY <1>1 DEF PlanRetirement, ToolShape, ToolKept, ToolFields, ReadDone, Watching
<1>3. ToolShape'  BY <1>1, <1>2 DEF ToolShape, ToolKept
<1>4. HubInv(github)'  BY <1>1, <1>2 DEF HubInv, Repositories
<1>5. ReadInv'  BY <1>2, DeletingReadsNothing DEF ToolKept
<1>6. queue \subseteq Topics /\ Cardinality(queue) <= MaxDeletes
  <2>1. Retirable(tool.got) \subseteq Topics  BY DEF Retirable
  <2>2. IsFiniteSet(Retirable(tool.got)) /\ Cardinality(Retirable(tool.got)) \in Nat
    BY <2>1, FS_Subset, FS_CardinalityType, ToolsAssumption
  <2>3. Min({MaxDeletes, Cardinality(Retirable(tool.got))}) <= MaxDeletes
    <3>1. MaxDeletes \in Nat  BY ToolsAssumption
    <3>2. ASSUME NEW n \in Nat PROVE Min({MaxDeletes, n}) <= MaxDeletes
      <4>1. \E x \in {MaxDeletes, n} : \A y \in {MaxDeletes, n} : x =< y  BY <3>1
      <4> QED BY <4>1 DEF Min
    <3> QED BY <2>2, <3>2
  <2>4. queue \subseteq Retirable(tool.got)
        /\ Cardinality(queue) = Min({MaxDeletes, Cardinality(Retirable(tool.got))})
    BY <1>2 DEF kSubset
  <2> QED BY <2>1, <2>3, <2>4
<1>7. DeleteInv'
  <2>1. Cardinality(retired) = 0  BY <1>1, <1>2, FS_EmptySet DEF DeleteInv
  <2>2. Cardinality(queue) \in Nat  BY <1>6, FS_Subset, FS_CardinalityType, ToolsAssumption
  <2>3. Cardinality(retired) + Cardinality(queue) <= MaxDeletes  BY <1>6, <2>1, <2>2
  <2> QED BY <1>1, <1>2, <1>6, <2>3 DEF DeleteInv, ToolKept
<1> QED BY <1>3, <1>4, <1>5, <1>7 DEF ToolsInv

(* The first observation of a single prune.                                 *)
LEMMA ObservedSteps ==
  ASSUME ToolsInv, NEW apply, PruneObserved(apply)
  PROVE  ToolsInv'
<1>1. ToolShape /\ HubInv(github) /\ ReadInv /\ DeleteInv  BY DEF ToolsInv
<1>2. /\ ToolKept({"script", "outcome"}) /\ tool'.outcome \in {"running", "done"}
      /\ DOMAIN tool' = ToolFields /\ github' = github /\ retired' = retired /\ moments' = moments
      /\ tool.outcome = "running" /\ tool.kind = "prune" /\ tool.phase = "read"
  BY <1>1 DEF PruneObserved, ToolShape, ToolKept, ToolFields, ReadDone, Watching
<1>3. ToolShape'  BY <1>1, <1>2 DEF ToolShape, ToolKept
<1>4. HubInv(github)'  BY <1>1, <1>2 DEF HubInv, Repositories
<1>5. ReadInv'  BY <1>2, DeletingReadsNothing DEF ToolKept
<1>6. DeleteInv'  BY <1>1, <1>2 DEF DeleteInv, ToolKept
<1> QED BY <1>3, <1>4, <1>5, <1>6 DEF ToolsInv

(* The second one agrees.                                                   *)
LEMMA ConfirmedSteps ==
  ASSUME ToolsInv, PruneConfirmed
  PROVE  ToolsInv'
<1>1. ToolShape /\ HubInv(github) /\ ReadInv /\ DeleteInv  BY DEF ToolsInv
<1>2. /\ ToolKept({"phase"}) /\ tool'.phase = "delete"
      /\ DOMAIN tool' = ToolFields /\ github' = github /\ retired' = retired /\ moments' = moments
      /\ tool.outcome = "running" /\ tool.kind = "prune" /\ tool.phase = "read" /\ tool.script = <<>>
      /\ PruneEligible
  BY <1>1 DEF PruneConfirmed, ToolShape, ToolKept, ToolFields, ReadDone, Watching
<1>3. ToolShape'  BY <1>1, <1>2 DEF ToolShape, ToolKept
<1>4. HubInv(github)'  BY <1>1, <1>2 DEF HubInv, Repositories
<1>5. ReadInv'  BY <1>2, DeletingReadsNothing DEF ToolKept
<1>6. PruneEligible'
  BY <1>2 DEF PruneEligible, Prunable, RecordHolds, OpenNames, ToolKept
<1>7. DeleteInv'  BY <1>1, <1>2, <1>6 DEF DeleteInv, ToolKept
<1> QED BY <1>3, <1>4, <1>5, <1>7 DEF ToolsInv

(* The readback of a single prune.                                          *)
LEMMA PruneDoneSteps ==
  ASSUME ToolsInv, PruneDone
  PROVE  ToolsInv'
<1>1. ToolShape /\ HubInv(github) /\ ReadInv /\ DeleteInv  BY DEF ToolsInv
<1>2. /\ ToolKept({"outcome", "deleted"}) /\ tool'.outcome \in {"done", "refused"}
      /\ tool'.deleted \subseteq {tool.branch}
      /\ DOMAIN tool' = ToolFields /\ github' = github /\ retired' = retired /\ moments' = moments
      /\ tool.outcome = "running" /\ tool.kind = "prune" /\ tool.phase = "after"
  BY <1>1 DEF PruneDone, ToolShape, ToolKept, ToolFields, ReadDone, Watching
<1>3. ToolShape'  BY <1>1, <1>2 DEF ToolShape, ToolKept
<1>4. HubInv(github)'  BY <1>1, <1>2 DEF HubInv, Repositories
<1>5. ReadInv'  BY <1>2, DeletingReadsNothing DEF ToolKept
<1>6. {tool.branch} \subseteq {r.name : r \in retired}  BY <1>1, <1>2 DEF DeleteInv
<1>7. DeleteInv'  BY <1>1, <1>2, <1>6 DEF DeleteInv, ToolKept
<1> QED BY <1>3, <1>4, <1>5, <1>7 DEF ToolsInv

(* The readback of a batch.                                                 *)
LEMMA BatchDoneSteps ==
  ASSUME ToolsInv, BatchDone
  PROVE  ToolsInv'
<1>1. ToolShape /\ HubInv(github) /\ ReadInv /\ DeleteInv  BY DEF ToolsInv
<1>2. /\ ToolKept({"outcome", "deleted", "queue", "phase", "script"})
             /\ tool'.outcome \in {"done", "running"}
      /\ tool'.deleted = tool.deleted \cup tool.batch /\ tool'.queue = tool.queue \ tool.batch
      /\ tool'.phase = "check"
      /\ DOMAIN tool' = ToolFields /\ github' = github /\ retired' = retired /\ moments' = moments
      /\ tool.outcome = "running" /\ tool.kind = "bulk" /\ tool.phase = "after"
  BY <1>1 DEF BatchDone, ToolShape, ToolKept, ToolFields, ReadDone, Watching
<1>3. ToolShape'  BY <1>1, <1>2 DEF ToolShape, ToolKept
<1>4. HubInv(github)'  BY <1>1, <1>2 DEF HubInv, Repositories
<1>5. ReadInv'  BY <1>2, DeletingReadsNothing DEF ToolKept
<1>6. tool.batch \subseteq {r.name : r \in retired}  BY <1>1, <1>2 DEF DeleteInv
<1>7. DeleteInv'  BY <1>1, <1>2, <1>6 DEF DeleteInv, ToolKept
<1> QED BY <1>3, <1>4, <1>5, <1>7 DEF ToolsInv

(* The branches that go are deleted with what holds of them.                  *)
LEMMA ImageIsBounded ==
  ASSUME NEW names, IsFiniteSet(names)
  PROVE  /\ IsFiniteSet({Circumstances(b) : b \in names})
         /\ Cardinality({Circumstances(b) : b \in names}) <= Cardinality(names)
<1> DEFINE image == {Circumstances(b) : b \in names}
           f == [b \in names |-> Circumstances(b)]
<1>1. f \in Surjection(names, image)
  BY DEF Surjection
<1> HIDE DEF f, image
<1> QED BY <1>1, FS_Surjection DEF image

(* A push that went through, of branches that may go.                         *)
LEMMA DeletionSteps ==
  ASSUME ToolsInv, NEW names, NEW answered \in BOOLEAN, DeleteBranches(names, answered),
         names \subseteq Topics \ ReservedTopics, tool.outcome = "running",
         \A b \in names : /\ <<b, tool.got.branches.tip[b]>> \in github.sources
                          /\ tool.got.branches.tip[b] \in github.history,
         \/ /\ tool.kind = "bulk" /\ tool.phase = "check" /\ names \subseteq tool.queue
         \/ /\ tool.kind = "prune" /\ retired = {} /\ names = {tool.branch}
            /\ \E r \in github.retained : /\ r.name = tool.branch
                                          /\ r.sha = tool.got.branches.tip[tool.branch]
                                          /\ github.clock - r.at >= GraceTicks
  PROVE  ToolsInv'
<1>1. ToolShape /\ HubInv(github) /\ ReadInv /\ DeleteInv  BY DEF ToolsInv
<1>2. /\ github' = [github EXCEPT !.tip = [b \in Topics |-> IF b \in names THEN Absent ELSE @[b]],
                        !.pull = [b \in Topics |-> IF b \in names /\ @[b].state = "open"
                                                   THEN [@[b] EXCEPT !.state = "closed"] ELSE @[b]]]
      /\ retired' = retired \cup {Circumstances(b) : b \in names}
      /\ \A b \in names : github.tip[b] = tool.got.branches.tip[b]
  BY DEF DeleteBranches, LeasesHold
<1>3. HubInv(github)'
  <2>1. github \in Repositories  BY <1>1 DEF HubInv
  <2> DEFINE left == [b \in Topics |-> IF b \in names THEN Absent ELSE github.tip[b]]
             pulls == [b \in Topics |-> IF b \in names /\ github.pull[b].state = "open"
                                        THEN [github.pull[b] EXCEPT !.state = "closed"] ELSE github.pull[b]]
  <2>2. left \in [Topics -> Nat]  BY <2>1 DEF Repositories, Absent
  <2>3. pulls \in [Topics -> HubPulls]
    <3>1. \A b \in Topics : github.pull[b] \in HubPulls  BY <2>1 DEF Repositories
    <3>2. \A p \in HubPulls : [p EXCEPT !.state = "closed"] \in HubPulls  BY DEF HubPulls
    <3> QED BY <3>1, <3>2
  <2>4. \A b \in Topics : pulls[b].state = "open" => pulls[b] = github.pull[b]
    <3>1. \A p \in HubPulls : [p EXCEPT !.state = "closed"].state = "closed"  BY DEF HubPulls
    <3>2. \A b \in Topics : github.pull[b] \in HubPulls  BY <2>1 DEF Repositories
    <3> QED BY <3>1, <3>2
  <2>5. \A b \in Topics : left[b] <= Len(github.reach)
    <3>1. Len(github.reach) \in Nat  BY <2>1 DEF Repositories
    <3> QED BY <1>1, <3>1 DEF HubInv, Absent
  <2>6. github' = [github EXCEPT !.tip = left, !.pull = pulls]
    BY <1>2, <2>1 DEF Repositories
  <2> HIDE DEF left, pulls
  <2>7. github' \in Repositories  BY <2>1, <2>2, <2>3, <2>6 DEF Repositories
  <2>8. Kept(github, github', {"tip", "pull"})  BY <2>1, <2>6 DEF Kept, Repositories
  <2>9. github'.tip = left /\ github'.pull = pulls  BY <2>1, <2>6 DEF Repositories
  <2>10. TipsReach(github')  BY <2>5, <2>8, <2>9 DEF TipsReach, Kept
  <2>11. PullsReach(github')  BY <1>1, <2>4, <2>8, <2>9 DEF PullsReach, Kept, HubInv
  <2>12. github.events <= github'.events  BY <2>1, <2>8 DEF Kept, Repositories
  <2>13. HubInv(github')
    BY <1>1, <2>7, <2>8, <2>10, <2>11, <2>12, KeptStays, HubInvParts
  <2> QED BY <2>13 DEF HubInv, Repositories
<1>4. /\ github'.sources = github.sources /\ github'.retained = github.retained
      /\ github'.history = github.history /\ github'.clock = github.clock
  BY <1>1, <1>2 DEF HubInv, Repositories
<1>5. /\ tool'.kind = tool.kind /\ tool'.branch = tool.branch /\ DOMAIN tool' = ToolFields
      /\ DOMAIN tool'.got = CallParts /\ tool'.now = tool.now /\ tool'.queue = tool.queue
      /\ tool'.deleted = tool.deleted /\ tool'.batch \in {names, tool.batch}
      /\ tool'.got.merged = tool.got.merged /\ tool'.got.record = tool.got.record
      /\ tool'.outcome \in {"running", "refused"}
      /\ tool'.outcome = "running" => tool'.batch = names /\ tool'.phase = "after"
  BY <1>1 DEF DeleteBranches, ToolShape, ToolFields, CallParts
<1>6. tool'.got.branches.history = tool.got.branches.history
  BY <1>1 DEF DeleteBranches, ToolShape, ToolFields, CallParts
<1>7. ToolShape'  BY <1>1, <1>5 DEF ToolShape
<1>8. ReadInv'  BY <1>5, DeletingReadsNothing
<1>9. \A r \in retired' : /\ r.merged /\ r.inMain /\ r.name \notin ReservedTopics
                          /\ r.by = "prune" => r.kept
  <2>1. ASSUME NEW b \in names
        PROVE  /\ Circumstances(b).merged /\ Circumstances(b).inMain
               /\ Circumstances(b).name \notin ReservedTopics
               /\ Circumstances(b).by = "prune" => Circumstances(b).kept
    <3>1. <<b, github.tip[b]>> \in github.sources /\ github.tip[b] \in github.history
      BY <1>2
    <3>2. Circumstances(b).merged  BY <3>1 DEF Circumstances
    <3>3. Circumstances(b).inMain  BY <3>1 DEF Circumstances
    <3>4. Circumstances(b).name \notin ReservedTopics  BY DEF Circumstances
    <3>5. ASSUME tool.kind = "prune" PROVE Circumstances(b).kept
      <4>1. b = tool.branch
        BY <3>5
      <4>2. PICK r \in github.retained : /\ r.name = b /\ r.sha = github.tip[b]
                                         /\ github.clock - r.at >= GraceTicks
        BY <1>2, <3>5, <4>1
      <4> QED BY <4>2 DEF Circumstances
    <3>6. Circumstances(b).by = tool.kind  BY DEF Circumstances
    <3> QED BY <3>2, <3>3, <3>4, <3>5, <3>6
  <2> QED BY <1>1, <1>2, <2>1 DEF DeleteInv
<1>10. names \subseteq {r.name : r \in retired'} /\ retired \subseteq retired'
  <2>1. \A b \in names : Circumstances(b) \in retired' /\ Circumstances(b).name = b
    BY <1>2 DEF Circumstances
  <2> QED BY <1>2, <2>1
<1>11. IsFiniteSet(names) /\ Cardinality(names) \in Nat
  BY FS_Subset, FS_CardinalityType, ToolsAssumption
<1>12. /\ IsFiniteSet(retired') /\ Cardinality(retired') \in Nat /\ Cardinality(retired) \in Nat
       /\ Cardinality(retired') <= Cardinality(retired) + Cardinality(names)
  <2> DEFINE new == {Circumstances(b) : b \in names}
  <2>1. IsFiniteSet(retired) /\ Cardinality(retired) \in Nat
    BY <1>1, FS_CardinalityType DEF DeleteInv
  <2>2. IsFiniteSet(new) /\ Cardinality(new) \in Nat /\ Cardinality(new) <= Cardinality(names)
    BY <1>11, ImageIsBounded, FS_CardinalityType
  <2> HIDE DEF new
  <2>3. /\ IsFiniteSet(retired \cup new)
        /\ Cardinality(retired \cup new) = Cardinality(retired) + Cardinality(new) - Cardinality(retired \cap new)
    BY <2>1, <2>2, FS_Union
  <2>4. Cardinality(retired \cap new) \in Nat /\ Cardinality(retired \cup new) \in Nat
    <3>1. IsFiniteSet(retired \cap new)  BY <2>1, FS_Subset
    <3> QED BY <2>3, <3>1, FS_CardinalityType
  <2>5. retired' = retired \cup new  BY <1>2 DEF new
  <2> QED BY <1>11, <2>1, <2>2, <2>3, <2>4, <2>5
<1>13. /\ Cardinality(retired') <= MaxDeletes
       /\ tool.kind = "bulk" => Cardinality(retired') + Cardinality(tool.queue \ names) <= MaxDeletes
  <2>1. CASE tool.kind = "bulk"
    <3>1. names \subseteq tool.queue /\ Cardinality(retired) + Cardinality(tool.queue) <= MaxDeletes
      BY <1>1, <2>1 DEF DeleteInv
    <3>2. IsFiniteSet(tool.queue) /\ Cardinality(tool.queue) \in Nat
      BY <1>1, FS_Subset, FS_CardinalityType, ToolsAssumption DEF DeleteInv
    <3>3. /\ IsFiniteSet(tool.queue \ names)
          /\ Cardinality(tool.queue \ names) = Cardinality(tool.queue) - Cardinality(tool.queue \cap names)
      BY <3>2, FS_Difference
    <3>4. tool.queue \cap names = names  BY <3>1
    <3>5. Cardinality(tool.queue \ names) \in Nat  BY <3>3, FS_CardinalityType
    <3>6. MaxDeletes \in Nat  BY ToolsAssumption
    <3>7. Cardinality(tool.queue \ names) = Cardinality(tool.queue) - Cardinality(names)
      BY <3>3, <3>4
    <3> QED BY <1>11, <1>12, <3>1, <3>2, <3>5, <3>6, <3>7
  <2>2. CASE tool.kind # "bulk"
    <3>1. retired = {} /\ names = {tool.branch}  BY <2>2
    <3>2. Cardinality(retired) = 0 /\ Cardinality(names) = 1
      BY <3>1, FS_EmptySet, FS_Singleton
    <3>3. MaxDeletes \in Nat /\ MaxDeletes >= 1  BY ToolsAssumption
    <3> QED BY <1>12, <2>2, <3>2, <3>3
  <2> QED BY <2>1, <2>2
<1>14. DeleteInv'
  <2>1. tool'.deleted \subseteq {r.name : r \in retired'}
    BY <1>1, <1>5, <1>10 DEF DeleteInv
  <2>2. tool'.queue \subseteq Topics /\ tool'.batch \subseteq Topics
    BY <1>1, <1>5 DEF DeleteInv
  <2>3. tool.kind = "prune" => names = {tool.branch}  OBVIOUS
  <2>4. tool'.outcome = "running" =>
          /\ tool'.phase = "after" /\ tool'.batch \subseteq {r.name : r \in retired'}
          /\ tool'.kind = "prune" => tool'.batch = {tool'.branch}
          /\ tool'.kind = "bulk"
                 => Cardinality(retired') + Cardinality(tool'.queue \ tool'.batch) <= MaxDeletes
    BY <1>5, <1>10, <1>13, <2>3
  <2> QED BY <1>1, <1>4, <1>5, <1>6, <1>9, <1>12, <1>13, <2>1, <2>2, <2>4 DEF DeleteInv
<1> QED BY <1>3, <1>7, <1>8, <1>14 DEF ToolsInv

(* A batch of the bulk retirement is deleted.                               *)
LEMMA BatchSteps ==
  ASSUME ToolsInv, NEW names, NEW answered \in BOOLEAN, DeleteBatch(names, answered)
  PROVE  ToolsInv'
<1>1. DeleteInv  BY DEF ToolsInv
<1>2. /\ tool.outcome = "running" /\ tool.kind = "bulk" /\ tool.phase = "check"
      /\ names \subseteq tool.queue /\ names \subseteq Retirable(tool.got)
      /\ DeleteBranches(names, answered)
  BY DEF DeleteBatch, ReadDone, Watching, Batches, kSubset
<1>3. /\ names \subseteq Topics \ ReservedTopics
      /\ \A b \in names : /\ <<b, tool.got.branches.tip[b]>> \in github.sources
                          /\ tool.got.branches.tip[b] \in github.history
  BY <1>1, <1>2 DEF Retirable, DeleteInv
<1> QED BY <1>2, <1>3, DeletionSteps

(* A single branch is pruned.                                               *)
LEMMA PruneSteps ==
  ASSUME ToolsInv, NEW answered \in BOOLEAN, PruneDelete(answered)
  PROVE  ToolsInv'
<1>1. DeleteInv /\ ToolShape /\ HubInv(github)  BY DEF ToolsInv
<1>2. /\ tool.outcome = "running" /\ tool.kind = "prune" /\ tool.phase = "delete"
      /\ DeleteBranches({tool.branch}, answered)
  BY DEF PruneDelete, ReadDone, Watching
<1>3. PruneEligible /\ retired = {}  BY <1>1, <1>2 DEF DeleteInv
<1>4. /\ tool.branch \in Topics \ ReservedTopics
      /\ <<tool.branch, tool.got.branches.tip[tool.branch]>> \in github.sources
      /\ tool.got.branches.tip[tool.branch] \in github.history
  BY <1>1, <1>3 DEF PruneEligible, Prunable, DeleteInv, ToolShape
<1>5. \E r \in github.retained : /\ r.name = tool.branch
                                 /\ r.sha = tool.got.branches.tip[tool.branch]
                                 /\ github.clock - r.at >= GraceTicks
  <2>1. PICK r \in tool.got.record : /\ r.name = tool.branch /\ r.sha = tool.sha
                                     /\ tool.now - r.at >= GraceTicks
    BY <1>3 DEF PruneEligible, RecordHolds
  <2>2. tool.got.branches.tip[tool.branch] = tool.sha  BY <1>3 DEF PruneEligible, Prunable
  <2>3. r \in github.retained  BY <1>1, <2>1 DEF DeleteInv
  <2>4. r.at \in Nat
    <3>1. r \in HubRecords  BY <1>1, <2>3 DEF HubInv, Repositories
    <3> QED BY <3>1 DEF HubRecords
  <2>5. /\ tool.now \in Nat /\ github.clock \in Nat /\ tool.now <= github.clock /\ GraceTicks \in Nat
    BY <1>1, ToolsAssumption DEF DeleteInv, HubInv, Repositories
  <2>6. github.clock - r.at >= GraceTicks  BY <2>1, <2>4, <2>5
  <2> QED BY <2>1, <2>2, <2>3, <2>6
<1> QED BY <1>2, <1>3, <1>4, <1>5, DeletionSteps

(* Every step keeps the invariant.                                          *)
LEMMA ToolsStep == ToolsInv /\ [ToolNext]_toolVars => ToolsInv'
<1>1. SUFFICES ASSUME ToolsInv, [ToolNext]_toolVars PROVE ToolsInv'
  OBVIOUS
<1>2. CASE \E h : HubMoves(h)  BY <1>1, <1>2, HubSteps
<1>3. CASE TimePasses  BY <1>1, <1>3, TimeSteps
<1>4. CASE StartTool  BY <1>1, <1>4, StartSteps
<1>6. CASE \E v : CallGitHub(v)  BY <1>1, <1>6, CallSteps
<1>7. CASE Report  BY <1>1, <1>7, ReportSteps
<1>8. CASE \E queue, apply : PlanRetirement(queue, apply)  BY <1>1, <1>8, PlanSteps
<1>9. CASE \E names : \E answered \in BOOLEAN : DeleteBatch(names, answered)
  BY <1>1, <1>9, BatchSteps
<1>10. CASE BatchDone  BY <1>1, <1>10, BatchDoneSteps
<1>11. CASE \E apply : PruneObserved(apply)  BY <1>1, <1>11, ObservedSteps
<1>12. CASE PruneConfirmed  BY <1>1, <1>12, ConfirmedSteps
<1>13. CASE \E answered \in BOOLEAN : PruneDelete(answered)  BY <1>1, <1>13, PruneSteps
<1>14. CASE PruneDone  BY <1>1, <1>14, PruneDoneSteps
<1>15. CASE UNCHANGED toolVars
  <2>1. github' = github /\ tool' = tool /\ moments' = moments /\ retired' = retired
    BY <1>15 DEF toolVars
  <2>2. ToolShape' /\ HubInv(github)'  BY <1>1, <2>1 DEF ToolsInv, ToolShape, HubInv, Repositories
  <2>3. ReadInv'  BY <1>1, <2>1 DEF ToolsInv, ReadInv, ReportIsTrue
  <2>4. PruneEligible' <=> PruneEligible
    BY <2>1 DEF PruneEligible, Prunable, RecordHolds, OpenNames
  <2>5. DeleteInv'  BY <1>1, <2>1, <2>4 DEF ToolsInv, DeleteInv
  <2> QED BY <2>2, <2>3, <2>5 DEF ToolsInv
<1>5. CASE \/ CallDisagrees \/ CallFails \/ ReportRefused \/ StaleMain \/ WrongOrigin \/ WrongCheckout
            \/ PruneRefused
            \/ \E names \in SUBSET Topics : BatchChanged(names) \/ DeleteRejected(names)
  <2>1. ToolRefuses
    BY <1>5 DEF CallDisagrees, CallFails, ReportRefused, StaleMain, WrongOrigin, WrongCheckout,
                 PruneRefused, BatchChanged, DeleteRejected
  <2> QED BY <1>1, <2>1, RefusalSteps
<1> QED BY <1>1, <1>2, <1>3, <1>4, <1>6, <1>7, <1>8, <1>9, <1>10, <1>11, <1>12, <1>13, <1>14, <1>15,
           <1>5 DEF ToolNext

(* The invariant gives the property.                                        *)
LEMMA ExactByInv == ToolsInv => RepositoryToolsAreExact
BY DEF ToolsInv, DeleteInv, ReadInv, ReportIsTrue, RepositoryToolsAreExact

(* A branch is deleted only as the exact merged source inside main's history,   *)
(* outside the reserved names, with its record of the grace where one is       *)
(* needed, and never more of them than allowed; what a report puts together    *)
(* was seen at one moment: apply_merged_retirement,                            *)
(* prune_verified_merged_branch, build_inventory and the observers.             *)
THEOREM ToolsAlwaysExact == ToolSpec => []RepositoryToolsAreExact
<1>1. ToolSpec => []ToolsInv
  BY ToolsInitially, ToolsStep, PTL DEF ToolSpec
<1> QED BY <1>1, ExactByInv, PTL

-----------------------------------------------------------------------------
(* Sums over the symbols.                                                   *)

\* The symbol MapThenSumSet takes from a set first.
Pick(T) == CHOOSE s \in T : TRUE

DeskNumbers(f) == \A s \in DeskSymbols : f[s] \in Int

(* The sums of f over every set of symbols.                                 *)
SubsetSums(f, g) ==
  /\ g \in [SUBSET DeskSymbols -> Int]
  /\ g[{}] = 0
  /\ \A T \in SUBSET DeskSymbols : T # {} => g[T] = f[Pick(T)] + g[T \ {Pick(T)}]
  /\ SumOver(f) = g[DeskSymbols]

(* The symbols are finitely many.                                           *)
LEMMA DeskIsFinite == IsFiniteSet(DeskSymbols) /\ DeskSymbols \subseteq Int
<1>1. DeskSymbols = 1..Len(DeskTargets) /\ Len(DeskTargets) \in Nat
  BY DeskAssumption
<1> QED BY <1>1, FS_Interval

(* What holds of no symbol, and of a set if it does without its first, holds of *)
(* every set of symbols.                                                    *)
LEMMA SymbolInduction ==
  ASSUME NEW G, {} \in G,
         \A T \in SUBSET DeskSymbols : T # {} /\ T \ {Pick(T)} \in G => T \in G
  PROVE  \A T \in SUBSET DeskSymbols : T \in G
<1> DEFINE Bad == {T \in SUBSET DeskSymbols : T \notin G}
<1>1. SUFFICES ASSUME Bad # {} PROVE FALSE  OBVIOUS
<1>2. Bad \subseteq FiniteSubsetsOf(DeskSymbols)
  BY DeskIsFinite, FS_Subset DEF FiniteSubsetsOf
<1>8. IsWellFoundedOn(StrictSubsetOrdering(DeskSymbols), FiniteSubsetsOf(DeskSymbols))
  BY FS_StrictSubsetOrderingWellFounded
<1>3. PICK T \in Bad : \A U \in Bad : ~(<<U, T>> \in StrictSubsetOrdering(DeskSymbols))
  BY <1>1, <1>2, <1>8, WFMin
<1>4. T # {} /\ T \in SUBSET DeskSymbols /\ T \notin G  OBVIOUS
<1>5. Pick(T) \in T  BY <1>4 DEF Pick
<1>6. <<T \ {Pick(T)}, T>> \in StrictSubsetOrdering(DeskSymbols)
  BY <1>4, <1>5 DEF StrictSubsetOrdering
<1>7. T \ {Pick(T)} \in G  BY <1>3, <1>4, <1>6
<1> QED BY <1>4, <1>7

(* Every set of natural numbers that is not empty has a least member.       *)
LEMMA LeastOfNumbers ==
  ASSUME NEW S, S \subseteq Nat, S # {} PROVE \E x \in S : \A y \in S : x <= y
<1> DEFINE R == OpToRel(<, Nat)
<1>1. IsWellFoundedOn(R, Nat)  BY NatLessThanWellFounded
<1>2. \A pair : pair \in R <=> pair \in Nat \X Nat /\ pair[1] < pair[2]  BY DEF OpToRel
<1> HIDE DEF R
<1>3. PICK x \in S : \A y \in S : ~(<<y, x>> \in R)  BY <1>1, WFMin
<1>4. ASSUME NEW y \in S PROVE x <= y
  <2>1. <<y, x>> \in Nat \X Nat  OBVIOUS
  <2>2. ~(<<y, x>>[1] < <<y, x>>[2])  BY <1>2, <1>3, <2>1
  <2> QED BY <2>2
<1> QED BY <1>4

\* The sets of at most n symbols, and the sums over them.
SmallSets(n) == {T \in SUBSET DeskSymbols : Cardinality(T) <= n}
SumsUpTo(f, n, g) ==
  /\ g \in [SmallSets(n) -> Int]
  /\ \A T \in SmallSets(n) : g[T] = IF T = {} THEN 0 ELSE f[Pick(T)] + g[T \ {Pick(T)}]

(* The sums over the sets of n symbols come from those over smaller sets.   *)
LEMMA NextSums ==
  ASSUME NEW f, DeskNumbers(f), NEW n \in Nat, NEW g, SumsUpTo(f, n, g)
  PROVE  \E h : SumsUpTo(f, n + 1, h)
<1> DEFINE h == [T \in SmallSets(n + 1) |->
                  IF T = {} THEN 0 ELSE f[Pick(T)] + g[T \ {Pick(T)}]]
<1>1. ASSUME NEW T \in SmallSets(n + 1), T # {}
      PROVE  /\ T \ {Pick(T)} \in SmallSets(n) /\ f[Pick(T)] \in Int
             /\ g[T \ {Pick(T)}] \in Int
  <2>1. T \in SUBSET DeskSymbols /\ Cardinality(T) <= n + 1  BY DEF SmallSets
  <2>2. Pick(T) \in T  BY <1>1 DEF Pick
  <2>3. IsFiniteSet(T)  BY <2>1, DeskIsFinite, FS_Subset
  <2>4. Cardinality(T \ {Pick(T)}) = Cardinality(T) - 1 /\ Cardinality(T) \in Nat
    BY <2>2, <2>3, FS_RemoveElement, FS_CardinalityType
  <2>5. T \ {Pick(T)} \in SmallSets(n)  BY <2>1, <2>4 DEF SmallSets
  <2> QED BY <2>1, <2>2, <2>5 DEF SumsUpTo, DeskNumbers
<1>2. h \in [SmallSets(n + 1) -> Int]  BY <1>1
<1>3. ASSUME NEW T \in SmallSets(n) PROVE T \in SmallSets(n + 1) /\ h[T] = g[T]
  <2>1. T \in SmallSets(n + 1)
    <3>1. IsFiniteSet(T)  BY DeskIsFinite, FS_Subset DEF SmallSets
    <3> QED BY <3>1, FS_CardinalityType DEF SmallSets
  <2> QED BY <2>1 DEF SumsUpTo
<1>4. ASSUME NEW T \in SmallSets(n + 1)
      PROVE  h[T] = IF T = {} THEN 0 ELSE f[Pick(T)] + h[T \ {Pick(T)}]
  <2>1. CASE T = {}  BY <2>1
  <2>2. CASE T # {}
    <3>1. h[T] = f[Pick(T)] + g[T \ {Pick(T)}]  BY <2>2
    <3>2. h[T \ {Pick(T)}] = g[T \ {Pick(T)}]  BY <1>1, <1>3, <2>2
    <3> QED BY <2>2, <3>1, <3>2
  <2> QED BY <2>1, <2>2
<1>5. SumsUpTo(f, n + 1, h)  BY <1>2, <1>4 DEF SumsUpTo
<1> QED BY <1>5

(* So there are sums over all sets of symbols.                              *)
LEMMA SumsExist ==
  ASSUME NEW f, DeskNumbers(f)
  PROVE  \E g : SubsetSums(f, g)
<1> DEFINE Missing == {n \in Nat : ~\E g : SumsUpTo(f, n, g)}
<1>1. 0 \notin Missing
  <2>1. SmallSets(0) = {{}}
    <3>1. ASSUME NEW T \in SmallSets(0) PROVE T = {}
      <4>1. IsFiniteSet(T) /\ Cardinality(T) <= 0  BY DeskIsFinite, FS_Subset DEF SmallSets
      <4>2. Cardinality(T) = 0  BY <4>1, FS_CardinalityType
      <4> QED BY <4>1, <4>2, FS_EmptySet
    <3>2. {} \in SmallSets(0)  BY FS_EmptySet DEF SmallSets
    <3> QED BY <3>1, <3>2
  <2>2. SumsUpTo(f, 0, [T \in {{}} |-> 0])  BY <2>1 DEF SumsUpTo
  <2> QED BY <2>2
<1>2. Missing = {}
  <2> SUFFICES ASSUME Missing # {} PROVE FALSE  OBVIOUS
  <2>1. PICK n \in Missing : \A m \in Missing : n <= m  BY LeastOfNumbers
  <2>2. n \in Nat /\ n # 0 /\ n - 1 \in Nat /\ (n - 1) + 1 = n  BY <1>1
  <2>3. n - 1 \notin Missing  BY <2>1, <2>2
  <2>4. PICK g : SumsUpTo(f, n - 1, g)  BY <2>2, <2>3
  <2>5. \E h : SumsUpTo(f, (n - 1) + 1, h)  BY <2>2, <2>4, NextSums
  <2> QED BY <2>1, <2>2, <2>5
<1>3. SmallSets(Cardinality(DeskSymbols)) = SUBSET DeskSymbols
  BY DeskIsFinite, FS_Subset DEF SmallSets
<1>4. Cardinality(DeskSymbols) \in Nat  BY DeskIsFinite, FS_CardinalityType
<1>5. PICK g : SumsUpTo(f, Cardinality(DeskSymbols), g)  BY <1>2, <1>4
<1> DEFINE Sums(x) == x = [T \in SUBSET DeskSymbols |->
                            IF T = {} THEN 0 ELSE f[Pick(T)] + x[T \ {Pick(T)}]]
           sums == CHOOSE x : Sums(x)
<1>6. Sums(g)  BY <1>3, <1>5 DEF SumsUpTo
<1>7. SumOver(f) = sums[DeskSymbols]
  BY DEF SumOver, MapThenSumSet, MapThenFoldSet, Pick
<1>8. Sums(sums)
  <2> HIDE DEF Sums
  <2> QED BY <1>6
<1> HIDE DEF sums
<1>9. /\ sums[{}] = 0
      /\ \A T \in SUBSET DeskSymbols : T # {} => sums[T] = f[Pick(T)] + sums[T \ {Pick(T)}]
  BY <1>8
<1>10. DOMAIN sums = SUBSET DeskSymbols  BY <1>8
<1> DEFINE Whole == {T \in SUBSET DeskSymbols : sums[T] \in Int}
<1>11. {} \in Whole  BY <1>9
<1>12. ASSUME NEW T \in SUBSET DeskSymbols, T # {}, T \ {Pick(T)} \in Whole PROVE T \in Whole
  <2>1. Pick(T) \in DeskSymbols  BY <1>12 DEF Pick
  <2>2. f[Pick(T)] \in Int  BY <2>1 DEF DeskNumbers
  <2> QED BY <1>9, <1>12, <2>2
<1>13. \A T \in SUBSET DeskSymbols : T \in Whole
  <2> HIDE DEF Whole
  <2> QED BY <1>11, <1>12, SymbolInduction
<1>14. sums = [T \in SUBSET DeskSymbols |-> sums[T]]  BY <1>8
<1>15. sums \in [SUBSET DeskSymbols -> Int]  BY <1>13, <1>14
<1>16. SubsetSums(f, sums)  BY <1>7, <1>9, <1>15 DEF SubsetSums
<1> QED BY <1>16

(* Sums of terms that are at most others, and of multiples.                 *)
LEMMA SumsCompare ==
  ASSUME NEW f, NEW h, DeskNumbers(f), DeskNumbers(h), \A s \in DeskSymbols : f[s] <= h[s]
  PROVE  SumOver(f) \in Int /\ SumOver(h) \in Int /\ SumOver(f) <= SumOver(h)
<1>1. PICK g : SubsetSums(f, g)  BY SumsExist
<1>2. PICK k : SubsetSums(h, k)  BY SumsExist
<1> DEFINE G == {T \in SUBSET DeskSymbols : g[T] <= k[T]}
<1>3. {} \in G  BY <1>1, <1>2 DEF SubsetSums
<1>4. ASSUME NEW T \in SUBSET DeskSymbols, T # {} /\ T \ {Pick(T)} \in G PROVE T \in G
  <2>1. Pick(T) \in DeskSymbols /\ T \ {Pick(T)} \in SUBSET DeskSymbols  BY <1>4 DEF Pick
  <2>2. g[T] = f[Pick(T)] + g[T \ {Pick(T)}] /\ k[T] = h[Pick(T)] + k[T \ {Pick(T)}]
    BY <1>1, <1>2, <1>4 DEF SubsetSums
  <2>3. g[T \ {Pick(T)}] \in Int /\ k[T \ {Pick(T)}] \in Int  BY <1>1, <1>2, <2>1 DEF SubsetSums
  <2>4. f[Pick(T)] \in Int /\ h[Pick(T)] \in Int /\ f[Pick(T)] <= h[Pick(T)]
    BY <2>1 DEF DeskNumbers
  <2>5. g[T \ {Pick(T)}] <= k[T \ {Pick(T)}]  BY <1>4
  <2> QED BY <2>2, <2>3, <2>4, <2>5
<1> HIDE DEF G
<1>5. DeskSymbols \in G  BY <1>3, <1>4, SymbolInduction
<1> QED BY <1>1, <1>2, <1>5 DEF G, SubsetSums

(* The sum of a linear combination.                                         *)
LEMMA SumsCombine ==
  ASSUME NEW f, NEW h, NEW e, NEW c \in Int, DeskNumbers(f), DeskNumbers(h), DeskNumbers(e),
         \A s \in DeskSymbols : e[s] = c * f[s] + h[s]
  PROVE  /\ SumOver(f) \in Int /\ SumOver(h) \in Int /\ SumOver(e) \in Int
         /\ SumOver(e) = c * SumOver(f) + SumOver(h)
<1>1. PICK g : SubsetSums(f, g)  BY SumsExist
<1>2. PICK k : SubsetSums(h, k)  BY SumsExist
<1>3. PICK j : SubsetSums(e, j)  BY SumsExist
<1> DEFINE G == {T \in SUBSET DeskSymbols : j[T] = c * g[T] + k[T]}
<1>4. {} \in G  BY <1>1, <1>2, <1>3 DEF SubsetSums
<1>5. ASSUME NEW T \in SUBSET DeskSymbols, T # {} /\ T \ {Pick(T)} \in G PROVE T \in G
  <2> DEFINE p == Pick(T)
             U == T \ {p}
  <2>1. p \in DeskSymbols /\ U \in SUBSET DeskSymbols  BY <1>5 DEF Pick
  <2>2. g[T] = f[p] + g[U] /\ k[T] = h[p] + k[U] /\ j[T] = e[p] + j[U]
    BY <1>1, <1>2, <1>3, <1>5 DEF SubsetSums
  <2>3. g[U] \in Int /\ k[U] \in Int /\ j[U] \in Int  BY <1>1, <1>2, <1>3, <2>1 DEF SubsetSums
  <2>4. f[p] \in Int /\ h[p] \in Int /\ e[p] = c * f[p] + h[p]  BY <2>1 DEF DeskNumbers
  <2>5. j[U] = c * g[U] + k[U]  BY <1>5
  <2> HIDE DEF p, U
  <2>6. c * (f[p] + g[U]) = c * f[p] + c * g[U]  BY <2>3, <2>4
  <2>7. c * f[p] \in Int /\ c * g[U] \in Int  BY <2>3, <2>4
  <2>8. j[T] = (c * f[p] + h[p]) + (c * g[U] + k[U])  BY <2>2, <2>4, <2>5
  <2>9. j[T] = c * g[T] + k[T]  BY <2>2, <2>3, <2>4, <2>6, <2>7, <2>8
  <2> QED BY <2>9
<1> HIDE DEF G
<1>6. DeskSymbols \in G  BY <1>4, <1>5, SymbolInduction
<1> QED BY <1>1, <1>2, <1>3, <1>6 DEF G, SubsetSums

(* A sum of numbers is one.                                                 *)
LEMMA SumIsNumber ==
  ASSUME NEW f, DeskNumbers(f) PROVE SumOver(f) \in Int
<1>1. PICK g : SubsetSums(f, g)  BY SumsExist
<1> QED BY <1>1 DEF SubsetSums

-----------------------------------------------------------------------------
(* Weights and what is left of them.                                        *)

(* A product is compared through a positive factor.                         *)
LEMMA CancelFactor ==
  ASSUME NEW a \in Int, NEW b \in Int, NEW d \in Int, d > 0, a * d <= b * d
  PROVE  a <= b
BY SMT

(* What part of a weight is kept.                                           *)
LEMMA PartIsShare ==
  ASSUME NEW w \in Int, NEW n \in Nat, NEW d \in Int, d > 0
  PROVE  /\ Part(w, n, d) \in Int /\ AbsOf(Part(w, n, d)) \in Nat
         /\ AbsOf(Part(w, n, d)) * d <= AbsOf(w) * n
         /\ w >= 0 => Part(w, n, d) = (w * n) \div d
<1> DEFINE a == AbsOf(w)
           q == (a * n) \div d
<1>1. a \in Nat  BY DEF AbsOf
<1> HIDE DEF a
<1>2. a * n \in Nat  BY <1>1
<1>3. q \in Nat /\ q * d <= a * n
  <2> DEFINE m == a * n
  <2>1. m \in Nat  BY <1>2
  <2> HIDE DEF m
  <2>2. m \div d \in Int /\ d * (m \div d) <= m /\ m \div d >= 0  BY <2>1
  <2>3. d * (m \div d) = (m \div d) * d  BY <2>2
  <2> QED BY <2>2, <2>3 DEF m
<1>4. Part(w, n, d) = SignOf(w) * q  BY DEF Part, a
<1> HIDE DEF q
<1>5. CASE w = 0
  <2>1. SignOf(w) = 0 /\ a = 0  BY <1>5 DEF SignOf, AbsOf, a
  <2>2. Part(w, n, d) = 0  BY <1>3, <1>4, <2>1
  <2>3. AbsOf(Part(w, n, d)) = 0  BY <2>2 DEF AbsOf
  <2>4. (w * n) \div d = 0  BY <1>5
  <2> QED BY <1>1, <1>2, <2>1, <2>2, <2>3, <2>4 DEF a
<1>6. CASE w > 0
  <2>1. SignOf(w) = 1 /\ a = w  BY <1>6 DEF SignOf, AbsOf, a
  <2>2. Part(w, n, d) = q  BY <1>3, <1>4, <2>1
  <2>3. AbsOf(Part(w, n, d)) = q  BY <1>3, <2>2 DEF AbsOf
  <2> QED BY <1>3, <2>1, <2>2, <2>3 DEF a, q
<1>7. CASE w < 0
  <2>1. SignOf(w) = -1  BY <1>7 DEF SignOf
  <2>2. Part(w, n, d) = -q  BY <1>3, <1>4, <2>1
  <2>3. AbsOf(Part(w, n, d)) = q  BY <1>3, <2>2 DEF AbsOf
  <2> QED BY <1>3, <1>7, <2>2, <2>3 DEF a
<1> QED BY <1>5, <1>6, <1>7

(* The smaller of two weights.                                              *)
LEMMA SmallerOf ==
  ASSUME NEW a \in Int, NEW b \in Int
  PROVE  Min({a, b}) \in {a, b} /\ Min({a, b}) <= a /\ Min({a, b}) <= b
<1>1. \E x \in {a, b} : \A y \in {a, b} : x <= y
  <2>1. a <= b \/ b <= a  OBVIOUS
  <2> QED BY <2>1
<1>2. Min({a, b}) \in {a, b} /\ \A y \in {a, b} : Min({a, b}) <= y  BY <1>1 DEF Min
<1> QED BY <1>2

(* Shares of the terms, each cut off, sum up to at most the whole.          *)
LEMMA SharesFit ==
  ASSUME NEW f, NEW q, DeskNumbers(f), DeskNumbers(q), NEW n \in Nat, SumOver(f) > 0,
         \A s \in DeskSymbols : q[s] * SumOver(f) <= f[s] * n
  PROVE  SumOver(q) \in Int /\ SumOver(q) <= n
<1> DEFINE d == SumOver(f)
           dq == [s \in DeskSymbols |-> d * q[s]]
           nf == [s \in DeskSymbols |-> n * f[s]]
           zero == [s \in DeskSymbols |-> 0]
<1>1. d \in Int /\ d > 0 /\ SumOver(q) \in Int  BY SumIsNumber
<1>2. \A s \in DeskSymbols : q[s] * d <= f[s] * n  OBVIOUS
<1>3. \A s \in DeskSymbols : f[s] \in Int /\ q[s] \in Int  BY DEF DeskNumbers
<1>4. DeskNumbers(zero)  BY DEF DeskNumbers
<1>5. SumOver(zero) = 0
  <2> HIDE DEF zero
  <2>1. \A s \in DeskSymbols : zero[s] = (0 - 1) * zero[s] + zero[s]  BY <1>4 DEF zero
  <2>2. SumOver(zero) \in Int /\ SumOver(zero) = (0 - 1) * SumOver(zero) + SumOver(zero)
    BY <1>4, <2>1, SumsCombine
  <2> QED BY <2>2
<1> HIDE DEF d
<1>6. DeskNumbers(dq) /\ DeskNumbers(nf)
  <2>1. ASSUME NEW s \in DeskSymbols PROVE dq[s] \in Int /\ nf[s] \in Int
    <3>1. d * q[s] \in Int /\ n * f[s] \in Int  BY <1>1, <1>3
    <3> QED BY <3>1
  <2> QED BY <2>1 DEF DeskNumbers
<1>7. \A s \in DeskSymbols : dq[s] = d * q[s] + zero[s] /\ nf[s] = n * f[s] + zero[s]
  <2>1. ASSUME NEW s \in DeskSymbols
        PROVE dq[s] = d * q[s] + zero[s] /\ nf[s] = n * f[s] + zero[s]
    <3>1. d * q[s] \in Int /\ n * f[s] \in Int  BY <1>1, <1>3
    <3> QED BY <3>1
  <2> QED BY <2>1
<1>8. \A s \in DeskSymbols : dq[s] <= nf[s]
  <2>1. ASSUME NEW s \in DeskSymbols PROVE dq[s] <= nf[s]
    <3>1. q[s] * d = d * q[s] /\ f[s] * n = n * f[s]  BY <1>1, <1>3
    <3> QED BY <1>2, <3>1
  <2> QED BY <2>1
<1> HIDE DEF dq, nf, zero
<1>9. SumOver(dq) = d * SumOver(q) + 0 /\ SumOver(nf) = n * d + 0
  <2>1. SumOver(dq) = d * SumOver(q) + SumOver(zero)  BY <1>1, <1>4, <1>6, <1>7, SumsCombine
  <2>2. SumOver(nf) = n * SumOver(f) + SumOver(zero)  BY <1>1, <1>4, <1>6, <1>7, SumsCombine
  <2> QED BY <1>5, <2>1, <2>2 DEF d
<1>10. SumOver(dq) <= SumOver(nf)  BY <1>6, <1>8, SumsCompare
<1>11. SumOver(q) * d <= n * d
  <2>1. d * SumOver(q) = SumOver(q) * d /\ d * SumOver(q) \in Int /\ n * d \in Int  BY <1>1
  <2> QED BY <1>9, <1>10, <2>1
<1> QED BY <1>1, <1>11, CancelFactor

-----------------------------------------------------------------------------
(* What the policies propose.                                               *)

DeskWeights == [DeskSymbols -> Int]
DeskOrders == [left : Int, wait : Int, worked : BOOLEAN]
DeskViews == [left : Int, waiting : BOOLEAN]

(* A snapshot of which the weights, the orders and the limits are sound.    *)
SoundView(d) ==
  /\ d.act \in DeskWeights /\ d.order \in [DeskSymbols -> DeskViews]
  /\ d.scale \in 0..100

(* Gross exposure is a sum of numbers that are not negative.                *)
LEMMA GrossIsSum ==
  ASSUME NEW w, DeskNumbers(w)
  PROVE  /\ DeskNumbers([s \in DeskSymbols |-> AbsOf(w[s])])
         /\ GrossOf(w) \in Int
<1>1. DeskNumbers([s \in DeskSymbols |-> AbsOf(w[s])])  BY DEF DeskNumbers, AbsOf
<1> QED BY <1>1, SumIsNumber DEF GrossOf

(* Gross exposure grows with the weights.                                   *)
LEMMA GrossCompares ==
  ASSUME NEW v, NEW w, DeskNumbers(v), DeskNumbers(w),
         \A s \in DeskSymbols : AbsOf(v[s]) <= AbsOf(w[s])
  PROVE  GrossOf(v) \in Int /\ GrossOf(w) \in Int /\ GrossOf(v) <= GrossOf(w)
<1> DEFINE x == [s \in DeskSymbols |-> AbsOf(v[s])]
           y == [s \in DeskSymbols |-> AbsOf(w[s])]
<1>1. DeskNumbers(x) /\ DeskNumbers(y)  BY GrossIsSum
<1>2. \A s \in DeskSymbols : x[s] <= y[s]  OBVIOUS
<1>3. GrossOf(v) = SumOver(x) /\ GrossOf(w) = SumOver(y)  BY DEF GrossOf
<1> HIDE DEF x, y
<1> QED BY <1>1, <1>2, <1>3, SumsCompare

(* The constants of a desk.                                                 *)
LEMMA DeskConstants ==
  /\ \A s \in DeskSymbols : DeskTargets[s] \in Nat
  /\ DeskLimits.gross \in Nat /\ DeskLimits.abs \in Nat /\ DeskLimits.turnover \in Nat
  /\ DustLeft \in Nat /\ DeskScales \subseteq 0..100
  /\ \A setup \in DeskSetups : setup.latency \in Nat
<1>1. DeskTargets \in Seq(Nat) /\ DustLeft \in Nat /\ DeskScales \subseteq 0..100
  BY DeskAssumption
<1>2. \A s \in DeskSymbols : DeskTargets[s] \in Nat
  <2>1. DeskSymbols = DOMAIN DeskTargets  BY DEF DeskSymbols
  <2> QED BY <1>1, <2>1
<1>3. LimitsAreValid(DeskLimits)  BY DeskAssumption
<1>4. DeskLimits.gross \in Nat /\ DeskLimits.abs \in Nat /\ DeskLimits.turnover \in Nat
  <2>1. DeskLimits.gross \in 1..10000 /\ DeskLimits.abs \in 1..DeskLimits.gross
    BY <1>3 DEF LimitsAreValid
  <2>2. DeskLimits.turnover \in 0..(2 * DeskLimits.gross)  BY <1>3 DEF LimitsAreValid
  <2> DEFINE g == DeskLimits.gross
  <2>3. g \in 1..10000 /\ DeskLimits.abs \in 1..g /\ DeskLimits.turnover \in 0..(2 * g)
    BY <2>1, <2>2
  <2> HIDE DEF g
  <2>4. g \in Nat /\ DeskLimits.abs \in Nat /\ DeskLimits.turnover \in Nat  BY <2>3
  <2> QED BY <2>4 DEF g
<1>5. \A setup \in DeskSetups : setup.latency \in Nat  BY DeskAssumption
<1> QED BY <1>1, <1>2, <1>4, <1>5

(* The scaled limits.                                                       *)
LEMMA LimitsAreScaled ==
  ASSUME NEW d, d.scale \in 0..100
  PROVE  /\ ScaledLimits(d).gross = (DeskLimits.gross * d.scale) \div 100
         /\ ScaledLimits(d).abs = (DeskLimits.abs * d.scale) \div 100
         /\ ScaledLimits(d).gross \in Nat /\ ScaledLimits(d).abs \in Nat
<1>1. d.scale \in Nat /\ 100 \in Int /\ 100 > 0  OBVIOUS
<1>2. DeskLimits.gross \in Nat /\ DeskLimits.abs \in Nat  BY DeskConstants
<1>3. \A x \in Nat : Part(x, d.scale, 100) = (x * d.scale) \div 100
  <2> DEFINE k == d.scale
  <2>1. ASSUME NEW x \in Nat PROVE Part(x, k, 100) = (x * k) \div 100
    <3>1. x \in Int /\ x >= 0 /\ k \in Nat  BY <1>1
    <3> HIDE DEF k
    <3> QED BY <3>1, PartIsShare
  <2> QED BY <2>1
<1>4. \A x \in Nat : (x * d.scale) \div 100 \in Nat
  <2>1. \A x \in Nat : x * d.scale \in Nat  BY <1>1
  <2>2. \A y \in Nat : y \div 100 \in Nat  OBVIOUS
  <2> QED BY <2>1, <2>2
<1> QED BY <1>2, <1>3, <1>4 DEF ScaledLimits

(* What one symbol is asked to become is a weight.                          *)
LEMMA GoalIsWeight ==
  ASSUME NEW d, SoundView(d), NEW s \in DeskSymbols, NEW code, NEW cap \in Nat
  PROVE  /\ EffectiveWeight(d, s) \in Int
         /\ GoalV2(d, s, code, cap).goal \in Int /\ GoalV2(d, s, code, cap).hold \in BOOLEAN
<1>1. d.act[s] \in Int /\ d.order[s].left \in Int /\ DeskTargets[s] \in Nat
  BY DeskConstants DEF SoundView, DeskWeights, DeskViews
<1>2. EffectiveWeight(d, s) \in Int  BY <1>1 DEF EffectiveWeight, PendingWeight
<1>3. Min({DeskTargets[s], cap}) \in Int
  <2> DEFINE t == DeskTargets[s]
  <2>1. t \in Int /\ cap \in Int  BY <1>1
  <2> HIDE DEF t
  <2>2. Min({t, cap}) \in {t, cap}  BY <2>1, SmallerOf
  <2> QED BY <2>1, <2>2 DEF t
<1> DEFINE eff == EffectiveWeight(d, s)
           star == CASE code = HoldCode -> SignOf(eff) [] code = FlatCode -> 0
                     [] code = LongCode -> 1 [] OTHER -> -1
           fresh == star * Min({DeskTargets[s], cap})
<1>4. star \in {-1, 0, 1}  BY <1>2 DEF SignOf, HoldCode, FlatCode, LongCode
<1>5. fresh \in Int
  <2> HIDE DEF star
  <2> QED BY <1>3, <1>4
<1>6. GoalV2(d, s, code, cap) \in [goal : Int, hold : BOOLEAN]
  <2>1. GoalV2(d, s, code, cap) =
          IF star = 0
          THEN IF Flattening(d, s) \/ d.act[s] # 0 THEN [goal |-> 0, hold |-> FALSE]
               ELSE [goal |-> d.act[s], hold |-> d.order[s].left = 0]
          ELSE IF star = SignOf(eff) /\ InFlight(d, s) /\ AbsOf(eff) <= cap
          THEN [goal |-> eff, hold |-> FALSE]
          ELSE IF star = SignOf(eff) /\ SignOf(d.act[s]) = star
          THEN [goal |-> d.act[s], hold |-> TRUE]
          ELSE [goal |-> fresh, hold |-> FALSE]
    BY DEF GoalV2
  <2>2. eff \in Int  BY <1>2
  <2> HIDE DEF star, fresh, eff
  <2> QED BY <1>1, <1>5, <2>1, <2>2
<1> QED BY <1>2, <1>6

\* The goals of the second version, before they are made to fit.
GoalsOf(d, a) == [s \in DeskSymbols |-> GoalV2(d, s, a[s], ScaledLimits(d).abs)]
WeightsOf(d, a) == [s \in DeskSymbols |-> GoalsOf(d, a)[s].goal]
HeldOf(d, a) == {s \in DeskSymbols : GoalsOf(d, a)[s].hold}
HeldWeights(d, a) ==
  [s \in DeskSymbols |-> IF s \in HeldOf(d, a) THEN WeightsOf(d, a)[s] ELSE 0]
FreeGross(d, a) == GrossOf(WeightsOf(d, a)) - GrossOf(HeldWeights(d, a))

(* The three ways in which they are.                                        *)
LEMMA ProposalCases ==
  ASSUME NEW d, NEW a
  PROVE  LET w == WeightsOf(d, a)
             held == HeldOf(d, a)
             room == ScaledLimits(d).gross
             heldGross == GrossOf(HeldWeights(d, a))
         IN  ProposalV2(d, a) =
               CASE GrossOf(w) <= room -> ProposalOf(w, held)
                 [] GrossOf(w) > room /\ heldGross <= room /\ FreeGross(d, a) > 0 ->
                      ProposalOf([s \in DeskSymbols |->
                        IF s \in held THEN w[s] ELSE Part(w[s], room - heldGross, FreeGross(d, a))], held)
                 [] OTHER -> ProposalOf(ScaledBy(w, room, GrossOf(w)), {})
BY DEF ProposalV2, WeightsOf, HeldOf, GoalsOf, HeldWeights, FreeGross

(* What the second version asks for is weights, which fit the scaled limit. *)
LEMMA ProposalFits ==
  ASSUME NEW d, SoundView(d), NEW a
  PROVE  /\ DeskNumbers(ProposalV2(d, a).target)
         /\ GrossOf(ProposalV2(d, a).target) <= ScaledLimits(d).gross
<1> DEFINE w == WeightsOf(d, a)
           held == HeldOf(d, a)
           h == HeldWeights(d, a)
           room == ScaledLimits(d).gross
           g == GrossOf(w)
           hg == GrossOf(h)
           free == FreeGross(d, a)
           ws == [s \in DeskSymbols |-> AbsOf(w[s])]
           hs == [s \in DeskSymbols |-> AbsOf(h[s])]
           zero == [s \in DeskSymbols |-> 0]
<1>1. room \in Nat /\ ScaledLimits(d).abs \in Nat  BY LimitsAreScaled DEF SoundView
<1>2. DeskNumbers(w)
  <2>1. ASSUME NEW s \in DeskSymbols PROVE w[s] \in Int
    <3>1. w[s] = GoalV2(d, s, a[s], ScaledLimits(d).abs).goal  BY DEF WeightsOf, GoalsOf
    <3> QED BY <1>1, <3>1, GoalIsWeight
  <2> QED BY <2>1 DEF DeskNumbers
<1>3. h = [s \in DeskSymbols |-> IF s \in held THEN w[s] ELSE 0]  BY DEF HeldWeights
<1>4. free = g - hg  BY DEF FreeGross
<1>5. ProposalV2(d, a) =
        CASE g <= room -> ProposalOf(w, held)
          [] g > room /\ hg <= room /\ free > 0 ->
               ProposalOf([s \in DeskSymbols |->
                 IF s \in held THEN w[s] ELSE Part(w[s], room - hg, free)], held)
          [] OTHER -> ProposalOf(ScaledBy(w, room, g), {})
  BY ProposalCases
<1> HIDE DEF w, held, h, room, free
<1>6. DeskNumbers(h)  BY <1>2, <1>3 DEF DeskNumbers
<1>7. DeskNumbers(ws) /\ DeskNumbers(hs) /\ g \in Int /\ hg \in Int /\ g = SumOver(ws) /\ hg = SumOver(hs)
  BY <1>2, <1>6, GrossIsSum DEF GrossOf
<1>8. CASE g <= room
  <2> HIDE DEF g, hg
  <2>1. ProposalV2(d, a) = ProposalOf(w, held)  BY <1>1, <1>5, <1>7, <1>8
  <2>2. ProposalV2(d, a).target = w  BY <2>1 DEF ProposalOf
  <2> QED BY <1>2, <1>8, <2>2 DEF g, room
<1>9. CASE g > room /\ hg <= room /\ free > 0
  <2> DEFINE t == [s \in DeskSymbols |-> IF s \in held THEN w[s] ELSE Part(w[s], room - hg, free)]
             n == room - hg
             fs == [s \in DeskSymbols |-> ws[s] - hs[s]]
             qs == [s \in DeskSymbols |-> AbsOf(t[s]) - hs[s]]
             ts == [s \in DeskSymbols |-> AbsOf(t[s])]
  <2>1. ProposalV2(d, a).target = t  BY <1>5, <1>9 DEF ProposalOf
  <2>2. n \in Nat /\ free \in Int  BY <1>1, <1>4, <1>7, <1>9
  <2>3. ASSUME NEW s \in DeskSymbols
        PROVE  /\ t[s] \in Int /\ fs[s] \in Int /\ qs[s] \in Int
               /\ qs[s] * free <= fs[s] * n
    <3>1. w[s] \in Int  BY <1>2 DEF DeskNumbers
    <3>2. CASE s \in held
      <4>1. t[s] = w[s] /\ h[s] = w[s]  BY <1>3, <3>2
      <4>2. AbsOf(w[s]) \in Int  BY <3>1 DEF AbsOf
      <4>3. fs[s] = 0 /\ qs[s] = 0  BY <4>1, <4>2
      <4> QED BY <2>2, <3>1, <4>1, <4>3
    <3>3. CASE s \notin held
      <4>1. t[s] = Part(w[s], n, free) /\ h[s] = 0  BY <1>3, <3>3
      <4>2. /\ Part(w[s], n, free) \in Int /\ AbsOf(Part(w[s], n, free)) \in Nat
            /\ AbsOf(Part(w[s], n, free)) * free <= AbsOf(w[s]) * n
        <5> HIDE DEF n
        <5> QED BY <1>9, <2>2, <3>1, PartIsShare
      <4>3. AbsOf(h[s]) = 0 /\ AbsOf(w[s]) \in Int  BY <3>1, <4>1 DEF AbsOf
      <4>4. qs[s] = AbsOf(t[s]) /\ fs[s] = AbsOf(w[s])
        <5> HIDE DEF t
        <5> QED BY <4>1, <4>2, <4>3
      <4> HIDE DEF t, qs, fs, n
      <4> QED BY <4>1, <4>2, <4>3, <4>4
    <3> QED BY <3>2, <3>3
  <2>4. DeskNumbers(t) /\ DeskNumbers(fs) /\ DeskNumbers(qs)  BY <2>3 DEF DeskNumbers
  <2>5. DeskNumbers(ts) /\ GrossOf(t) = SumOver(ts)  BY <2>4, GrossIsSum DEF GrossOf
  <2>6. SumOver(fs) = free
    <3>1. \A s \in DeskSymbols : ws[s] = 1 * fs[s] + hs[s]
      <4>1. ASSUME NEW s \in DeskSymbols PROVE ws[s] = 1 * fs[s] + hs[s]
        <5>1. ws[s] \in Int /\ hs[s] \in Int /\ fs[s] = ws[s] - hs[s]  BY <1>7 DEF DeskNumbers
        <5> HIDE DEF ws, hs, fs
        <5> QED BY <5>1
      <4> QED BY <4>1
    <3>2. SumOver(fs) \in Int /\ SumOver(ws) = 1 * SumOver(fs) + SumOver(hs)
      <4> HIDE DEF ws, hs, fs
      <4> QED BY <1>7, <2>4, <3>1, SumsCombine
    <3> HIDE DEF g, hg
    <3> QED BY <1>4, <1>7, <3>2
  <2>7. SumOver(qs) \in Int /\ SumOver(qs) <= n
    <3>1. \A s \in DeskSymbols : qs[s] * SumOver(fs) <= fs[s] * n  BY <2>3, <2>6
    <3>2. SumOver(fs) > 0  BY <1>9, <2>6
    <3> HIDE DEF qs, fs, n
    <3> QED BY <2>2, <2>4, <3>1, <3>2, SharesFit
  <2>8. SumOver(ts) = SumOver(qs) + hg
    <3>1. \A s \in DeskSymbols : ts[s] = 1 * qs[s] + hs[s]
      <4>1. ASSUME NEW s \in DeskSymbols PROVE ts[s] = 1 * qs[s] + hs[s]
        <5>1. ts[s] \in Int /\ hs[s] \in Int /\ qs[s] = ts[s] - hs[s]
          BY <1>7, <2>5 DEF DeskNumbers
        <5> HIDE DEF ts, hs, qs
        <5> QED BY <5>1
      <4> QED BY <4>1
    <3>2. SumOver(ts) = 1 * SumOver(qs) + SumOver(hs)
      <4> HIDE DEF ts, hs, qs
      <4> QED BY <1>7, <2>4, <2>5, <3>1, SumsCombine
    <3> HIDE DEF g, hg, ts, hs, qs
    <3> QED BY <1>7, <2>7, <3>2
  <2>9. GrossOf(t) <= room
    <3> HIDE DEF g, hg, ts, qs, t
    <3> QED BY <1>1, <1>7, <2>5, <2>7, <2>8
  <2> HIDE DEF t
  <2> QED BY <2>1, <2>4, <2>9 DEF room
<1>10. CASE ~(g <= room) /\ ~(g > room /\ hg <= room /\ free > 0)
  <2> DEFINE t == ScaledBy(w, room, g)
             ts == [s \in DeskSymbols |-> AbsOf(t[s])]
  <2>1. ProposalV2(d, a).target = t  BY <1>5, <1>10 DEF ProposalOf
  <2>2. g > 0  BY <1>1, <1>7, <1>10
  <2>3. ASSUME NEW s \in DeskSymbols
        PROVE  t[s] \in Int /\ AbsOf(t[s]) * g <= ws[s] * room
    <3>1. w[s] \in Int  BY <1>2 DEF DeskNumbers
    <3>2. t[s] = Part(w[s], room, g)  BY DEF ScaledBy
    <3> HIDE DEF g, t
    <3> QED BY <1>1, <1>7, <2>2, <3>1, <3>2, PartIsShare
  <2>4. DeskNumbers(t)  BY <2>3 DEF DeskNumbers
  <2>5. DeskNumbers(ts) /\ GrossOf(t) = SumOver(ts)  BY <2>4, GrossIsSum DEF GrossOf
  <2>6. SumOver(ts) <= room
    <3>1. \A s \in DeskSymbols : ts[s] * SumOver(ws) <= ws[s] * room  BY <1>7, <2>3
    <3>2. SumOver(ws) > 0  BY <1>7, <2>2
    <3> HIDE DEF ts, ws
    <3> QED BY <1>1, <1>7, <2>5, <3>1, <3>2, SharesFit
  <2> HIDE DEF t, ts
  <2> QED BY <2>1, <2>4, <2>5, <2>6 DEF room
<1> HIDE DEF g, hg
<1> QED BY <1>8, <1>9, <1>10

(* The weights of a snapshot, of the first version and of the caps.         *)
LEMMA FirstVersionWeighs ==
  ASSUME NEW d, SoundView(d), NEW a, NEW nonPositive
  PROVE  DeskNumbers(ProposalV1(d, a, nonPositive).target)
<1> DEFINE eff(s)  == d.act[s] + PendingWeight(d, s)
           star(s) == CASE a[s] = LongCode -> 1 [] a[s] = ShortCode -> -1 [] a[s] = FlatCode -> 0
                        [] OTHER -> SignOf(eff(s))
           keeps(s) == IF nonPositive THEN eff(s) = 0
                       ELSE \/ star(s) = 0 /\ d.act[s] = 0 /\ PendingWeight(d, s) = 0
                            \/ star(s) # 0 /\ star(s) = SignOf(eff(s)) /\ PendingWeight(d, s) = 0
           goal(s) == IF keeps(s) THEN d.act[s]
                      ELSE IF nonPositive \/ star(s) = 0 THEN 0
                      ELSE IF star(s) = SignOf(eff(s)) THEN eff(s)
                      ELSE star(s) * DeskTargets[s]
<1>1. ProposalV1(d, a, nonPositive).target = [s \in DeskSymbols |-> goal(s)]
  BY DEF ProposalV1, ProposalOf
<1>2. ASSUME NEW s \in DeskSymbols PROVE goal(s) \in Int
  <2>1. d.act[s] \in Int /\ eff(s) \in Int /\ DeskTargets[s] \in Nat
    BY DeskConstants DEF SoundView, DeskWeights, DeskViews, PendingWeight
  <2>2. star(s) \in {-1, 0, 1}
    <3> HIDE DEF eff
    <3> QED BY <2>1 DEF SignOf, LongCode, ShortCode, FlatCode
  <2>3. star(s) * DeskTargets[s] \in Int
    <3> HIDE DEF star
    <3> QED BY <2>1, <2>2
  <2> HIDE DEF star, eff, keeps
  <2> QED BY <2>1, <2>3
<1> HIDE DEF goal
<1> QED BY <1>1, <1>2 DEF DeskNumbers

\* The policies whose proposals follow the second version.
PostureKinds == ValueArms \cup {"fixed", "ridge"}

\* What a sound answer is: weights, of a kind that keeps the posture if the policy does.
SoundAnswer(d, p, answer) ==
  /\ DeskNumbers(answer.target)
  /\ p.kind \in PostureKinds /\ p.holdRelative =>
       \E a : answer = AskedFor(a, ProposalV2(d, a))
  /\ p.kind = "allocator" /\ answer.hold # DeskSymbols => AllocationFeasible(answer.target, p)

(* An answer that is a proposal of the second or of the first version.      *)
LEMMA VersionsAnswer ==
  ASSUME NEW d, SoundView(d), NEW p, p.kind # "allocator", NEW a
  PROVE  /\ SoundAnswer(d, p, AskedFor(a, ProposalV2(d, a)))
         /\ ~(p.kind \in PostureKinds /\ p.holdRelative) =>
              \A b : SoundAnswer(d, p, AskedFor(a, ProposalV1(d, a, b)))
<1>1. AskedFor(a, ProposalV2(d, a)).target = ProposalV2(d, a).target  BY DEF AskedFor
<1>2. \A b : AskedFor(a, ProposalV1(d, a, b)).target = ProposalV1(d, a, b).target  BY DEF AskedFor
<1>3. SoundAnswer(d, p, AskedFor(a, ProposalV2(d, a)))
  BY <1>1, ProposalFits DEF SoundAnswer
<1>4. ASSUME NEW b, ~(p.kind \in PostureKinds /\ p.holdRelative)
      PROVE  SoundAnswer(d, p, AskedFor(a, ProposalV1(d, a, b)))
  BY <1>2, <1>4, FirstVersionWeighs DEF SoundAnswer
<1> QED BY <1>3, <1>4

(* An answer of a policy that is not about the posture.                     *)
LEMMA PlainAnswers ==
  ASSUME NEW d, SoundView(d), NEW p, p.kind \notin PostureKinds, NEW target, NEW hold, DeskNumbers(target),
         p.kind = "allocator" /\ hold # DeskSymbols => AllocationFeasible(target, p)
  PROVE  SoundAnswer(d, p, Plain(ProposalOf(target, hold)))
BY DEF SoundAnswer, Plain, ProposalOf, AskedFor

(* Holding everything asks for the weights as they are.                     *)
LEMMA HoldingAnswers ==
  ASSUME NEW d, SoundView(d), NEW p, p.kind \notin PostureKinds
  PROVE  SoundAnswer(d, p, HoldAll(d))
<1>1. DeskNumbers(d.act)  BY DEF SoundView, DeskWeights, DeskNumbers
<1> QED BY <1>1, PlainAnswers DEF HoldAll

(* The allocator holds, or answers with a target inside its limits.         *)
LEMMA AllocatorAnswers ==
  ASSUME NEW d, SoundView(d), NEW p, p.kind \notin PostureKinds, NEW mu, NEW solved, NEW vol
  PROVE  SoundAnswer(d, p, AllocatorProposal(d, p, mu, solved, vol))
<1> DEFINE t == SnappedAllocation(d, p, VolatilityTargeted(SolvedAllocation(d, p, mu), vol))
<1>2. \/ AllocatorProposal(d, p, mu, solved, vol) = HoldAll(d)
      \/ AllocationFeasible(t.target, p) /\ AllocatorProposal(d, p, mu, solved, vol) = Plain(t)
  BY DEF AllocatorProposal
<1>3. CASE AllocatorProposal(d, p, mu, solved, vol) = HoldAll(d)
  BY <1>3, HoldingAnswers
<1>4. CASE AllocationFeasible(t.target, p) /\ AllocatorProposal(d, p, mu, solved, vol) = Plain(t)
  <2> HIDE DEF t
  <2>1. DeskNumbers(t.target)
    <3>1. ASSUME NEW s \in DeskSymbols PROVE t.target[s] \in Int
      <4>1. t.target[s] \in (IF p.longOnly THEN 0 ELSE -p.wMax)..p.wMax
        BY <1>4 DEF AllocationFeasible
      <4> QED BY <4>1
    <3> QED BY <3>1 DEF DeskNumbers
  <2>2. /\ Plain(t).target = t.target
    BY DEF Plain, AskedFor
  <2> QED BY <1>4, <2>1, <2>2 DEF SoundAnswer
<1> QED BY <1>2, <1>3, <1>4

(* Whatever a policy answers that is not a refusal is sound.                *)
LEMMA AnswersAreSound ==
  ASSUME NEW d, SoundView(d), NEW p, NEW answer \in Answers(d, p), answer # Refused
  PROVE  SoundAnswer(d, p, answer)
<1>0. /\ p.kind \in ValueArms => p.kind # "allocator" /\ p.kind \in PostureKinds
      /\ p.kind \in {"fixed", "ridge"} => p.kind \in PostureKinds
      /\ p.kind \in {"hold", "adapter", "cash", "buy"} => p.kind \notin PostureKinds
      /\ p.kind \notin ValueArms \cup {"fixed", "ridge"} => p.kind \notin PostureKinds
  BY DEF PostureKinds, ValueArms
<1>1. CASE p.kind \in ValueArms
  <2>1. answer \in IF Scorable(d, p)
                   THEN {ValueProposal(d, p, v) : v \in [DOMAIN DeskActions -> DeskValues]} ELSE {Refused}
    BY <1>1 DEF Answers, ValueArms
  <2>2. PICK v : answer = ValueProposal(d, p, v)  BY <2>1
  <2>3. CASE p.holdRelative
    <3>1. \E i : answer = AskedFor(DeskActions[i], ProposalV2(d, DeskActions[i]))
      BY <2>2, <2>3 DEF ValueProposal
    <3> QED BY <1>0, <1>1, <3>1, VersionsAnswer
  <2>4. CASE ~p.holdRelative
    <3>1. \E i : answer = AskedFor(DeskActions[i], ProposalV1(d, DeskActions[i], i = 1))
      BY <2>2, <2>4 DEF ValueProposal
    <3> QED BY <1>0, <1>1, <2>4, <3>1, VersionsAnswer
  <2> QED BY <2>3, <2>4
<1>2. CASE p.kind \in {"fixed", "hold"}
  <2>1. answer = FixedProposal(d, p)  BY <1>2 DEF Answers, ValueArms
  <2> DEFINE a == IF p.kind = "fixed" /\ ~d.entered THEN p.action ELSE JointHold
  <2>2. answer = AskedFor(a, IF p.kind = "fixed" /\ p.holdRelative THEN ProposalV2(d, a)
                             ELSE ProposalV1(d, a, FALSE))
    BY <2>1 DEF FixedProposal
  <2> HIDE DEF a
  <2>3. p.kind # "allocator"  BY <1>2
  <2>4. CASE p.kind = "fixed" /\ p.holdRelative
    <3>1. answer = AskedFor(a, ProposalV2(d, a))  BY <2>2, <2>4
    <3> QED BY <2>3, <3>1, VersionsAnswer
  <2>5. CASE ~(p.kind = "fixed" /\ p.holdRelative)
    <3>1. answer = AskedFor(a, ProposalV1(d, a, FALSE))  BY <2>2, <2>5
    <3>2. ~(p.kind \in PostureKinds /\ p.holdRelative)  BY <1>0, <1>2, <2>5
    <3> QED BY <2>3, <3>1, <3>2, VersionsAnswer
  <2> QED BY <2>4, <2>5
<1>3. CASE p.kind = "ridge"
  <2>1. answer \in IF d.alive THEN {RidgeProposal(d, p, x) : x \in Intents} ELSE {Refused}
    BY <1>3 DEF Answers, ValueArms
  <2>2. PICK x : answer = RidgeProposal(d, p, x)  BY <2>1
  <2> DEFINE a == [s \in DeskSymbols |-> IntentCode(x[s])]
  <2>3. answer = AskedFor(a, IF p.holdRelative THEN ProposalV2(d, a) ELSE ProposalV1(d, a, FALSE))
    BY <2>2 DEF RidgeProposal
  <2> HIDE DEF a
  <2>4. p.kind # "allocator"  BY <1>3
  <2>5. CASE p.holdRelative
    <3>1. answer = AskedFor(a, ProposalV2(d, a))  BY <2>3, <2>5
    <3> QED BY <2>4, <3>1, VersionsAnswer
  <2>6. CASE ~p.holdRelative
    <3>1. answer = AskedFor(a, ProposalV1(d, a, FALSE))  BY <2>3, <2>6
    <3> QED BY <2>4, <2>6, <3>1, VersionsAnswer
  <2> QED BY <2>5, <2>6
<1>4. CASE p.kind = "adapter"
  <2>1. answer \in IF ~d.alive THEN {Refused}
                   ELSE {AdapterProposal(x) : x \in Intents} \cup {Refused}
    BY <1>4 DEF Answers, ValueArms
  <2>2. PICK x \in Intents : answer = AdapterProposal(x)  BY <2>1
  <2> DEFINE target == [s \in DeskSymbols |-> x[s] * DeskTargets[s]]
  <2>3. answer = Plain(ProposalOf(target, {}))  BY <2>2 DEF AdapterProposal
  <2>4. DeskNumbers(target)
    <3>1. ASSUME NEW s \in DeskSymbols PROVE x[s] * DeskTargets[s] \in Int
      <4> DEFINE t == DeskTargets[s]
                 y == x[s]
      <4>1. t \in Int /\ y \in {-1, 0, 1}  BY DeskConstants DEF Intents
      <4> HIDE DEF t, y
      <4>2. y * t \in Int  BY <4>1
      <4> QED BY <4>2 DEF t, y
    <3> QED BY <3>1 DEF DeskNumbers
  <2> HIDE DEF target
  <2> QED BY <1>0, <1>4, <2>3, <2>4, PlainAnswers
<1>5. CASE p.kind = "cash"
  <2>1. answer = CashProposal(d)  BY <1>5 DEF Answers, ValueArms
  <2> DEFINE target == [s \in DeskSymbols |-> 0]
  <2>2. answer = Plain(ProposalOf(target, {}))  BY <2>1 DEF CashProposal
  <2>3. DeskNumbers(target)  BY DEF DeskNumbers
  <2> HIDE DEF target
  <2> QED BY <1>0, <1>5, <2>2, <2>3, PlainAnswers
<1>6. CASE p.kind = "buy"
  <2>1. answer = BuyAndHoldProposal(d, p)  BY <1>6 DEF Answers, ValueArms
  <2> DEFINE target == [s \in DeskSymbols |-> DeskLimits.gross \div Cardinality(DeskSymbols)]
  <2>2. answer = HoldAll(d) \/ answer = Plain(ProposalOf(target, {}))
    BY <2>1 DEF BuyAndHoldProposal
  <2>3. DeskNumbers(target)
    <3>1. ASSUME NEW s \in DeskSymbols
          PROVE  DeskLimits.gross \div Cardinality(DeskSymbols) \in Int
      <4> DEFINE n == Cardinality(DeskSymbols)
                 g == DeskLimits.gross
      <4>1. n \in Nat /\ g \in Nat  BY DeskIsFinite, DeskConstants, FS_CardinalityType
      <4>2. n # 0  BY DeskIsFinite, FS_EmptySet
      <4> HIDE DEF n, g
      <4>3. g \div n \in Int  BY <4>1, <4>2
      <4> QED BY <4>3 DEF n, g
    <3> QED BY <3>1 DEF DeskNumbers
  <2> HIDE DEF target
  <2> QED BY <1>0, <1>6, <2>2, <2>3, PlainAnswers, HoldingAnswers
<1>7. CASE p.kind \notin ValueArms \cup {"fixed", "hold", "ridge", "adapter", "cash", "buy"}
  <2>1. \/ answer \in {Refused}
        \/ answer \in {AllocatorProposal(d, p, mu, ok, vol) :
                         mu \in [DeskSymbols -> p.forecasts], ok \in BOOLEAN, vol \in p.vols}
    BY <1>7 DEF Answers
  <2>2. \E mu, ok, vol : answer = AllocatorProposal(d, p, mu, ok, vol)  BY <2>1
  <2>3. p.kind \notin PostureKinds  BY <1>0, <1>7
  <2> QED BY <2>2, <2>3, AllocatorAnswers
<1> QED BY <1>1, <1>2, <1>3, <1>4, <1>5, <1>6, <1>7

-----------------------------------------------------------------------------
(* The orders that HOLD keeps.                                              *)

(* Asked to hold a posture inside the cap, a symbol keeps what it has, and its    *)
(* order in flight what it asks for.                                        *)
LEMMA HeldGoal ==
  ASSUME NEW d, SoundView(d), NEW s \in DeskSymbols, NEW cap \in Nat,
         AbsOf(EffectiveWeight(d, s)) <= cap
  PROVE  LET g == GoalV2(d, s, HoldCode, cap)
         IN  /\ AbsOf(g.goal) <= AbsOf(EffectiveWeight(d, s))
             /\ InFlight(d, s) => g.goal = d.act[s] + d.order[s].left /\ g.hold = FALSE
<1> DEFINE eff == EffectiveWeight(d, s)
           act == d.act[s]
           left == d.order[s].left
           g == GoalV2(d, s, HoldCode, cap)
<1>1. act \in Int /\ left \in Int
  BY DEF SoundView, DeskWeights, DeskViews
<1>2. /\ Flattening(d, s) => InFlight(d, s) /\ act + left = 0 /\ eff = 0
      /\ ~Flattening(d, s) => eff = act + (IF InFlight(d, s) THEN left ELSE 0)
      /\ InFlight(d, s) => left # 0
      /\ InFlight(d, s) /\ act + left = 0 => Flattening(d, s)
  BY DEF EffectiveWeight, Flattening, InFlight, PendingWeight
<1>3. eff \in Int /\ AbsOf(eff) <= cap  BY <1>1, <1>2
<1>4. g = IF SignOf(eff) = 0
          THEN IF Flattening(d, s) \/ act # 0 THEN [goal |-> 0, hold |-> FALSE]
               ELSE [goal |-> act, hold |-> left = 0]
          ELSE IF InFlight(d, s) /\ AbsOf(eff) <= cap THEN [goal |-> eff, hold |-> FALSE]
          ELSE IF SignOf(act) = SignOf(eff) THEN [goal |-> act, hold |-> TRUE]
          ELSE [goal |-> SignOf(eff) * Min({DeskTargets[s], cap}), hold |-> FALSE]
  BY DEF GoalV2, HoldCode, FlatCode, LongCode
<1>5. SignOf(eff) = 0 <=> eff = 0  BY <1>3 DEF SignOf
<1>6. AbsOf(eff) \in Nat /\ AbsOf(0) = 0  BY <1>3 DEF AbsOf
<1> HIDE DEF eff, act, left, g
<1>7. CASE eff = 0
  <2>1. CASE Flattening(d, s) \/ act # 0
    <3>1. g.goal = 0 /\ g.hold = FALSE  BY <1>4, <1>5, <1>7, <2>1
    <3>2. InFlight(d, s) => act + left = 0  BY <1>1, <1>2, <1>7
    <3> QED BY <1>6, <3>1, <3>2 DEF g, eff, act, left
  <2>2. CASE ~Flattening(d, s) /\ act = 0
    <3>1. g.goal = 0  BY <1>4, <1>5, <1>7, <2>2
    <3>2. ~InFlight(d, s)  BY <1>1, <1>2, <1>7, <2>2
    <3> QED BY <1>6, <3>1, <3>2 DEF g, eff, act, left
  <2> QED BY <2>1, <2>2
<1>8. CASE eff # 0
  <2>1. CASE InFlight(d, s)
    <3>1. g.goal = eff /\ g.hold = FALSE  BY <1>3, <1>4, <1>5, <1>8, <2>1
    <3>2. eff = act + left  BY <1>2, <1>8, <2>1
    <3> QED BY <1>6, <3>1, <3>2 DEF g, eff, act, left
  <2>2. CASE ~InFlight(d, s)
    <3>1. eff = act  BY <1>1, <1>2, <2>2
    <3>2. g.goal = act  BY <1>4, <1>5, <1>8, <2>2, <3>1
    <3> QED BY <1>6, <2>2, <3>1, <3>2 DEF g, eff, act, left
  <2> QED BY <2>1, <2>2
<1> QED BY <1>7, <1>8

(* Held as a whole, a posture inside the limits asks for every order in flight. *)
LEMMA HoldAsksForOrders ==
  ASSUME NEW d, SoundView(d), NEW posture,
         \A s \in DeskSymbols : posture[s] = EffectiveWeight(d, s)
                                /\ AbsOf(posture[s]) <= ScaledLimits(d).abs,
         GrossOf(posture) <= ScaledLimits(d).gross
  PROVE  \A s \in DeskSymbols : InFlight(d, s) =>
           /\ ProposalV2(d, JointHold).target[s] = d.act[s] + d.order[s].left
           /\ s \notin ProposalV2(d, JointHold).hold
<1> DEFINE w == WeightsOf(d, JointHold)
           held == HeldOf(d, JointHold)
           room == ScaledLimits(d).gross
           cap == ScaledLimits(d).abs
<1>1. room \in Nat /\ cap \in Nat  BY LimitsAreScaled DEF SoundView
<1>2. ASSUME NEW s \in DeskSymbols
      PROVE  /\ w[s] = GoalV2(d, s, HoldCode, cap).goal
             /\ s \in held <=> GoalV2(d, s, HoldCode, cap).hold
  BY DEF WeightsOf, HeldOf, GoalsOf, JointHold
<1>3. ASSUME NEW s \in DeskSymbols
      PROVE  /\ w[s] \in Int /\ posture[s] \in Int /\ AbsOf(w[s]) <= AbsOf(posture[s])
             /\ InFlight(d, s) => w[s] = d.act[s] + d.order[s].left /\ s \notin held
  <2>1. posture[s] = EffectiveWeight(d, s) /\ AbsOf(EffectiveWeight(d, s)) <= cap  OBVIOUS
  <2> HIDE DEF w, held, cap
  <2>2. GoalV2(d, s, HoldCode, cap).goal \in Int /\ EffectiveWeight(d, s) \in Int
    BY <1>1, GoalIsWeight
  <2>3. /\ AbsOf(GoalV2(d, s, HoldCode, cap).goal) <= AbsOf(EffectiveWeight(d, s))
        /\ InFlight(d, s) => /\ GoalV2(d, s, HoldCode, cap).goal = d.act[s] + d.order[s].left
                             /\ GoalV2(d, s, HoldCode, cap).hold = FALSE
    BY <1>1, <2>1, HeldGoal
  <2> QED BY <1>2, <2>1, <2>2, <2>3
<1>4. GrossOf(w) <= room
  <2>1. DeskNumbers(w) /\ DeskNumbers(posture)  BY <1>3 DEF DeskNumbers
  <2>2. \A s \in DeskSymbols : AbsOf(w[s]) <= AbsOf(posture[s])  BY <1>3
  <2>3. GrossOf(posture) <= room  OBVIOUS
  <2> HIDE DEF w, room
  <2>4. GrossOf(w) \in Int /\ GrossOf(posture) \in Int /\ GrossOf(w) <= GrossOf(posture)
    BY <2>1, <2>2, GrossCompares
  <2> QED BY <1>1, <2>3, <2>4
<1>5. ProposalV2(d, JointHold) = ProposalOf(w, held)
  <2>1. DeskNumbers(w)  BY <1>3 DEF DeskNumbers
  <2>2. GrossOf(w) \in Int  BY <2>1, GrossIsSum
  <2>3. ProposalV2(d, JointHold) =
          CASE GrossOf(w) <= room -> ProposalOf(w, held)
            [] GrossOf(w) > room /\ GrossOf(HeldWeights(d, JointHold)) <= room
                 /\ FreeGross(d, JointHold) > 0 ->
                 ProposalOf([s \in DeskSymbols |->
                   IF s \in held THEN w[s]
                   ELSE Part(w[s], room - GrossOf(HeldWeights(d, JointHold)), FreeGross(d, JointHold))], held)
            [] OTHER -> ProposalOf(ScaledBy(w, room, GrossOf(w)), {})
    BY ProposalCases
  <2> HIDE DEF w, held, room
  <2> QED BY <1>1, <1>4, <2>2, <2>3
<1> HIDE DEF w, held
<1>6. ProposalV2(d, JointHold).target = w /\ ProposalV2(d, JointHold).hold = held
  BY <1>5 DEF ProposalOf
<1> QED BY <1>3, <1>6

-----------------------------------------------------------------------------
(* The steps.                                                               *)

DeskFields ==
  {"stage", "policy", "latency", "act", "order", "scale", "worst", "now", "bars", "samples",
   "alive", "features", "entered"}

DeskShape ==
  /\ DOMAIN desk = DeskFields
  /\ desk.act \in DeskWeights /\ desk.order \in [DeskSymbols -> DeskOrders]
  /\ desk.scale \in 0..100 /\ desk.worst \in 0..100 /\ desk.latency \in Nat

(* A policy is built before it decides, and its last decision kept the posture. *)
DeskInv ==
  /\ DeskShape
  /\ desk.stage = "new" => Undecided
  /\ DecisionKeepsItsPosture

(* What the snapshot shows.                                                 *)
LEMMA SnapshotShows ==
  ASSUME DeskShape
  PROVE  /\ SoundView(SnapshotOf(desk))
         /\ SnapshotOf(desk).act = desk.act /\ SnapshotOf(desk).scale = desk.scale
         /\ \A s \in DeskSymbols : SnapshotOf(desk).order[s] = OrderView(desk.order[s])
<1>1. /\ SnapshotOf(desk).order = [s \in DeskSymbols |-> OrderView(desk.order[s])]
      /\ SnapshotOf(desk).act = desk.act /\ SnapshotOf(desk).scale = desk.scale
  BY DEF SnapshotOf, DeskShape, DeskFields
<1>2. ASSUME NEW s \in DeskSymbols PROVE OrderView(desk.order[s]) \in DeskViews
  <2>1. desk.order[s] \in DeskOrders  BY DEF DeskShape
  <2> QED BY <2>1 DEF DeskOrders, DeskViews, OrderView
<1> QED BY <1>1, <1>2 DEF SoundView, DeskShape

(* The risk leaves weights.                                                 *)
LEMMA ConstrainedWeighs ==
  ASSUME DeskShape, NEW w, DeskNumbers(w)
  PROVE  DeskNumbers(Constrained(desk, w))
<1> DEFINE moves == [s \in DeskSymbols |-> w[s] - desk.act[s]]
           turnover == DistanceOf(w, desk.act)
           limit == DeskLimits.turnover
           slowed == IF turnover <= limit THEN w
                     ELSE [s \in DeskSymbols |-> desk.act[s] + Part(w[s] - desk.act[s], limit, turnover)]
           clipped == [s \in DeskSymbols |-> SignOf(slowed[s]) * Min({AbsOf(slowed[s]), DeskLimits.abs})]
           gross == GrossOf(clipped)
           room == DeskLimits.gross
           fitted == IF gross > room THEN ScaledBy(clipped, room, gross) ELSE clipped
           worst == desk.worst
<1>1. Constrained(desk, w) = ScaledBy(fitted, worst, 100)
  BY DEF Constrained, HardLimited
<1>2. /\ limit \in Nat /\ room \in Nat /\ worst \in Nat /\ DeskLimits.abs \in Nat
      /\ \A s \in DeskSymbols : w[s] \in Int /\ desk.act[s] \in Int
  BY DeskConstants DEF DeskShape, DeskWeights, DeskNumbers
<1>3. turnover \in Int
  <2>1. DeskNumbers(moves)  BY <1>2 DEF DeskNumbers
  <2>2. turnover = GrossOf(moves)  BY DEF DistanceOf
  <2> HIDE DEF moves, turnover
  <2> QED BY <2>1, <2>2, GrossIsSum
<1>4. DeskNumbers(slowed)
  <2>1. CASE turnover <= limit  BY <2>1
  <2>2. CASE ~(turnover <= limit)
    <3>1. ASSUME NEW s \in DeskSymbols
          PROVE  desk.act[s] + Part(w[s] - desk.act[s], limit, turnover) \in Int
      <4> DEFINE x == w[s] - desk.act[s]
      <4>1. x \in Int /\ turnover > 0 /\ desk.act[s] \in Int  BY <1>2, <1>3, <2>2
      <4> HIDE DEF x, limit, turnover
      <4>2. Part(x, limit, turnover) \in Int  BY <1>2, <1>3, <4>1, PartIsShare
      <4> QED BY <4>1, <4>2 DEF x
    <3> HIDE DEF turnover, limit
    <3> QED BY <2>2, <3>1 DEF DeskNumbers
  <2> QED BY <2>1, <2>2
<1> HIDE DEF slowed
<1>5. DeskNumbers(clipped)
  <2>1. ASSUME NEW s \in DeskSymbols
        PROVE  SignOf(slowed[s]) * Min({AbsOf(slowed[s]), DeskLimits.abs}) \in Int
    <3> DEFINE a == AbsOf(slowed[s])
               b == DeskLimits.abs
               m == Min({a, b})
               sign == SignOf(slowed[s])
    <3>1. slowed[s] \in Int  BY <1>4 DEF DeskNumbers
    <3>2. a \in Int /\ b \in Int /\ sign \in Int  BY <1>2, <3>1 DEF AbsOf, SignOf
    <3>3. m \in Int
      <4> HIDE DEF a, b
      <4> QED BY <3>2, SmallerOf
    <3> HIDE DEF a, b, m, sign
    <3>4. sign * m \in Int  BY <3>2, <3>3
    <3> QED BY <3>4 DEF a, b, m, sign
  <2> QED BY <2>1 DEF DeskNumbers
<1> HIDE DEF clipped
<1>6. gross \in Int  BY <1>5, GrossIsSum
<1>7. DeskNumbers(fitted)
  <2>1. CASE ~(gross > room)  BY <1>5, <2>1
  <2>2. CASE gross > room
    <3>1. gross > 0  BY <1>2, <1>6, <2>2
    <3>2. ASSUME NEW s \in DeskSymbols PROVE Part(clipped[s], room, gross) \in Int
      <4>1. clipped[s] \in Int  BY <1>5 DEF DeskNumbers
      <4> HIDE DEF room, gross
      <4> QED BY <1>2, <1>6, <3>1, <4>1, PartIsShare
    <3> QED BY <2>2, <3>2 DEF DeskNumbers, ScaledBy
  <2> QED BY <2>1, <2>2
<1> HIDE DEF fitted
<1>8. ASSUME NEW s \in DeskSymbols PROVE Part(fitted[s], worst, 100) \in Int
  <2>1. fitted[s] \in Int /\ 100 \in Int /\ 100 > 0  BY <1>7 DEF DeskNumbers
  <2> HIDE DEF worst
  <2> QED BY <1>2, <2>1, PartIsShare
<1> QED BY <1>1, <1>8 DEF DeskNumbers, ScaledBy

(* Orders stay orders while they are reconciled and filled.                 *)
LEMMA OrdersAreReconciled ==
  ASSUME DeskShape, NEW w, DeskNumbers(w), NEW hold
  PROVE  Reconciled(desk, w, hold) \in [DeskSymbols -> DeskOrders]
<1>1. ASSUME NEW s \in DeskSymbols PROVE Reconciled(desk, w, hold)[s] \in DeskOrders
  <2>1. /\ desk.order[s] \in DeskOrders /\ desk.act[s] \in Int /\ w[s] \in Int
        /\ desk.latency \in Int
    BY DEF DeskShape, DeskWeights, DeskNumbers
  <2>2. [left |-> IF s \in hold THEN 0 ELSE w[s] - desk.act[s], wait |-> desk.latency, worked |-> FALSE]
          \in DeskOrders
    BY <2>1 DEF DeskOrders
  <2> QED BY <2>1, <2>2 DEF Reconciled
<1>2. Reconciled(desk, w, hold) = [s \in DeskSymbols |-> Reconciled(desk, w, hold)[s]]
  BY DEF Reconciled
<1> QED BY <1>1, <1>2

(* What a fill leaves is an order.                                          *)
LEMMA FillsLeaveOrders ==
  ASSUME NEW order \in DeskOrders, NEW f \in Fills(order)
  PROVE  f.fill \in Int /\ f.order \in DeskOrders
<1> DEFINE after(left) == [fill |-> order.left - left,
                           order |-> [left |-> left, wait |-> 0, worked |-> left # 0]]
<1>1. order.left \in Int /\ order.wait \in Int  BY DEF DeskOrders
<1>2. CASE order.wait > 0
  <2>1. f = [fill |-> 0, order |-> [order EXCEPT !.wait = @ - 1]]  BY <1>2 DEF Fills
  <2>2. [order EXCEPT !.wait = @ - 1] \in DeskOrders  BY <1>1 DEF DeskOrders
  <2> QED BY <2>1, <2>2
<1>3. CASE ~(order.wait > 0)
  <2> DEFINE dust == SignOf(order.left) * Min({AbsOf(order.left), DustLeft})
  <2>1. f \in {after(0), after(order.left), after(dust)}  BY <1>3 DEF Fills
  <2>2. dust \in Int
    <3> DEFINE a == AbsOf(order.left)
               sign == SignOf(order.left)
               m == Min({a, DustLeft})
    <3>1. a \in Int /\ DustLeft \in Int /\ sign \in Int
      BY <1>1, DeskConstants DEF AbsOf, SignOf
    <3>2. m \in Int
      <4> HIDE DEF a
      <4> QED BY <3>1, SmallerOf
    <3> HIDE DEF a, sign, m
    <3>3. sign * m \in Int  BY <3>1, <3>2
    <3> QED BY <3>3 DEF a, sign, m
  <2> HIDE DEF dust
  <2>3. \A left \in Int : after(left).fill \in Int /\ after(left).order \in DeskOrders
    BY <1>1 DEF DeskOrders
  <2> HIDE DEF after
  <2> QED BY <1>1, <2>1, <2>2, <2>3
<1> QED BY <1>2, <1>3

(* The desk after a bar.                                                    *)
LEMMA BarKeepsShape ==
  ASSUME DeskShape, NEW proposal, NEW fills, DecideBar(proposal, fills), DeskNumbers(proposal.target)
  PROVE  /\ DeskShape' /\ desk'.policy = desk.policy /\ desk'.stage = "ready"
<1> DEFINE w == Constrained(desk, proposal.target)
           hold == EffectiveHolds(proposal, w)
           orders == Reconciled(desk, w, hold)
           act == [s \in DeskSymbols |-> desk.act[s] + fills[s].fill]
           order == [s \in DeskSymbols |-> fills[s].order]
<1>1. desk.stage = "ready" /\ \A s \in DeskSymbols : fills[s] \in Fills(orders[s])
  BY DEF DecideBar
<1>2. /\ DOMAIN desk' = DeskFields
      /\ desk'.act = act /\ desk'.order = order
      /\ desk'.scale = desk.scale /\ desk'.worst = desk.worst /\ desk'.latency = desk.latency
      /\ desk'.policy = desk.policy /\ desk'.stage = desk.stage
  BY DEF DecideBar, DeskShape, DeskFields
<1>3. orders \in [DeskSymbols -> DeskOrders]
  <2>1. DeskNumbers(w)  BY ConstrainedWeighs
  <2> HIDE DEF w, hold
  <2> QED BY <2>1, OrdersAreReconciled
<1> HIDE DEF orders
<1>4. ASSUME NEW s \in DeskSymbols
      PROVE  desk.act[s] + fills[s].fill \in Int /\ fills[s].order \in DeskOrders
  <2>1. orders[s] \in DeskOrders /\ fills[s] \in Fills(orders[s])  BY <1>1, <1>3
  <2>2. fills[s].fill \in Int /\ fills[s].order \in DeskOrders  BY <2>1, FillsLeaveOrders
  <2>3. desk.act[s] \in Int  BY DEF DeskShape, DeskWeights
  <2> QED BY <2>2, <2>3
<1>5. act \in DeskWeights /\ order \in [DeskSymbols -> DeskOrders]  BY <1>4 DEF DeskWeights
<1> HIDE DEF act, order
<1> QED BY <1>1, <1>2, <1>5 DEF DeskShape

(* The view of one order.                                                   *)
LEMMA ViewOfOrder ==
  ASSUME NEW o, NEW view, view = OrderView(o)
  PROVE  /\ view.left = o.left
         /\ view.waiting <=> o.left # 0 /\ ~o.worked
<1> DEFINE free == o.left # 0 /\ ~o.worked
<1>1. free \in BOOLEAN  OBVIOUS
<1>2. view = [left |-> o.left, waiting |-> free]  BY DEF OrderView
<1> HIDE DEF free
<1>3. view.left = o.left /\ view.waiting = free  BY <1>1, <1>2
<1> QED BY <1>3 DEF free

(* A decision that is taken keeps the posture.                              *)
LEMMA BarKeepsPosture ==
  ASSUME DeskShape, NEW proposal \in Answers(SnapshotOf(desk), desk.policy) \ {Refused},
         NEW fills, DecideBar(proposal, fills)
  PROVE  DeskShape' /\ desk'.stage = "ready" /\ DecisionKeepsItsPosture'
<1> DEFINE d == SnapshotOf(desk)
           p == desk.policy
           w == Constrained(desk, proposal.target)
           hold == EffectiveHolds(proposal, w)
           orders == Reconciled(desk, w, hold)
           limit(x) == (x * desk.scale) \div 100
           left(s) == desk.order[s].left
           moving(s) ==
             left(s) # 0 /\ (~desk.order[s].worked \/ AbsOf(left(s)) > (2 * DeskTargets[s]) \div 100)
           posture == [s \in DeskSymbols |-> desk.act[s] + IF moving(s) THEN left(s) ELSE 0]
<1>1. /\ SoundView(d) /\ d.act = desk.act /\ d.scale = desk.scale
      /\ \A s \in DeskSymbols : d.order[s] = OrderView(desk.order[s])
  BY SnapshotShows
<1>2. SoundAnswer(d, p, proposal)
  <2> HIDE DEF d, p
  <2>1. proposal \in Answers(d, p) /\ proposal # Refused  BY DEF d, p
  <2> QED BY <1>1, <2>1, AnswersAreSound
<1>3. DeskNumbers(proposal.target)  BY <1>2 DEF SoundAnswer
<1>4. DeskShape' /\ desk'.policy = p /\ desk'.stage = "ready"  BY <1>3, BarKeepsShape
<1>5. decision' = [proposal |-> proposal, untouched |-> w = proposal.target, orders |-> orders,
                   act |-> desk.act, order |-> desk.order, scale |-> desk.scale]
  BY DEF DecideBar
<1>6. /\ limit(DeskLimits.gross) = ScaledLimits(d).gross
      /\ limit(DeskLimits.abs) = ScaledLimits(d).abs
  <2>1. d.scale \in 0..100  BY <1>1 DEF SoundView
  <2> HIDE DEF d
  <2>2. /\ ScaledLimits(d).gross = (DeskLimits.gross * d.scale) \div 100
        /\ ScaledLimits(d).abs = (DeskLimits.abs * d.scale) \div 100
    BY <2>1, LimitsAreScaled
  <2> QED BY <1>1, <2>2
<1>7. ASSUME NEW s \in DeskSymbols
      PROVE  /\ moving(s) <=> InFlight(d, s)
             /\ posture[s] = EffectiveWeight(d, s)
             /\ d.order[s].left = left(s) /\ d.act[s] = desk.act[s]
             /\ left(s) \in Int /\ desk.act[s] \in Int
  <2> HIDE DEF d
  <2>1. /\ d.order[s].left = left(s)
        /\ d.order[s].waiting <=> left(s) # 0 /\ ~desk.order[s].worked
    <3>1. d.order[s] = OrderView(desk.order[s])  BY <1>1
    <3> HIDE DEF left
    <3>2. /\ d.order[s].left = desk.order[s].left
          /\ d.order[s].waiting <=> desk.order[s].left # 0 /\ ~desk.order[s].worked
      BY <3>1, ViewOfOrder
    <3> QED BY <3>2 DEF left
  <2>2. left(s) \in Int /\ desk.act[s] \in Int  BY DEF DeskShape, DeskOrders, DeskWeights
  <2>3. moving(s) <=> InFlight(d, s)  BY <2>1 DEF InFlight, PendingWeight
  <2>4. EffectiveWeight(d, s) = desk.act[s] + IF InFlight(d, s) THEN left(s) ELSE 0
    BY <1>1, <2>1, <2>2 DEF EffectiveWeight, Flattening, PendingWeight
  <2> QED BY <1>1, <2>1, <2>2, <2>3, <2>4
<1> HIDE DEF d, p, w, hold, orders, limit, left, moving, posture
<1>8. ASSUME p.kind \in PostureKinds, p.holdRelative
      PROVE  /\ GrossOf(proposal.target) <= limit(DeskLimits.gross)
             /\ (/\ proposal.action = JointHold /\ w = proposal.target
                 /\ \A s \in DeskSymbols : AbsOf(posture[s]) <= limit(DeskLimits.abs)
                 /\ GrossOf(posture) <= limit(DeskLimits.gross))
                => \A s \in DeskSymbols : moving(s) => orders[s] = desk.order[s]
  <2>1. PICK a : proposal = AskedFor(a, ProposalV2(d, a))  BY <1>2, <1>8 DEF SoundAnswer
  <2>2. /\ proposal.action = a /\ proposal.target = ProposalV2(d, a).target
        /\ proposal.hold = ProposalV2(d, a).hold
    BY <2>1 DEF AskedFor
  <2>3. GrossOf(proposal.target) <= limit(DeskLimits.gross)  BY <1>1, <1>6, <2>2, ProposalFits
  <2>4. ASSUME proposal.action = JointHold, w = proposal.target,
               \A s \in DeskSymbols : AbsOf(posture[s]) <= limit(DeskLimits.abs),
               GrossOf(posture) <= limit(DeskLimits.gross),
               NEW s \in DeskSymbols, moving(s)
        PROVE  orders[s] = desk.order[s]
    <3>1. a = JointHold  BY <2>2, <2>4
    <3>2. \A r \in DeskSymbols : posture[r] = EffectiveWeight(d, r)
                                 /\ AbsOf(posture[r]) <= ScaledLimits(d).abs
      BY <1>6, <1>7, <2>4
    <3>3. GrossOf(posture) <= ScaledLimits(d).gross  BY <1>6, <2>4
    <3>4. /\ ProposalV2(d, JointHold).target[s] = d.act[s] + d.order[s].left
          /\ s \notin ProposalV2(d, JointHold).hold
      BY <1>1, <1>7, <2>4, <3>2, <3>3, HoldAsksForOrders
    <3>5. w[s] = desk.act[s] + left(s) /\ s \notin proposal.hold
      BY <1>7, <2>2, <2>4, <3>1, <3>4
    <3>6. s \notin hold  BY <3>5 DEF hold, EffectiveHolds
    <3>7. w[s] - desk.act[s] = desk.order[s].left  BY <1>7, <3>5 DEF left
    <3> QED BY <3>6, <3>7 DEF orders, Reconciled
  <2> QED BY <2>3, <2>4
<1>9. p.kind = "allocator" /\ proposal.hold # DeskSymbols => AllocationFeasible(proposal.target, p)
  BY <1>2 DEF SoundAnswer
<1>10. /\ decision'.proposal = proposal /\ decision'.untouched = (w = proposal.target)
       /\ decision'.orders = orders /\ decision'.act = desk.act /\ decision'.order = desk.order
       /\ decision'.scale = desk.scale
  BY <1>5
<1>11. DecisionKeepsItsPosture'
  <2> DEFINE dec == decision'
             lim(x) == (x * dec.scale) \div 100
             lf(s) == dec.order[s].left
             mv(s) == lf(s) # 0 /\ (~dec.order[s].worked \/ AbsOf(lf(s)) > (2 * DeskTargets[s]) \div 100)
             ps == [s \in DeskSymbols |-> dec.act[s] + IF mv(s) THEN lf(s) ELSE 0]
  <2>1. \A s \in DeskSymbols : mv(s) <=> moving(s)  BY <1>10 DEF moving, left
  <2>2. ps = posture  BY <1>10 DEF posture, moving, left
  <2>3. lim(DeskLimits.gross) = limit(DeskLimits.gross) /\ lim(DeskLimits.abs) = limit(DeskLimits.abs)
    BY <1>10 DEF limit
  <2>4. desk'.policy = p  BY <1>4
  <2>5. DecisionKeepsItsPosture' <=>
          (~Undecided' =>
            /\ (desk'.policy.kind \in PostureKinds /\ desk'.policy.holdRelative) =>
                 /\ GrossOf(dec.proposal.target) <= lim(DeskLimits.gross)
                 /\ (/\ dec.proposal.action = JointHold /\ dec.untouched
                     /\ \A s \in DeskSymbols : AbsOf(ps[s]) <= lim(DeskLimits.abs)
                     /\ GrossOf(ps) <= lim(DeskLimits.gross))
                    => \A s \in DeskSymbols : mv(s) => dec.orders[s] = dec.order[s]
            /\ (desk'.policy.kind = "allocator" /\ dec.proposal.hold # DeskSymbols)
                 => AllocationFeasible(dec.proposal.target, desk'.policy))
    BY Zenon DEF DecisionKeepsItsPosture, PostureKinds
  <2>6. /\ dec.proposal = proposal /\ dec.untouched = (w = proposal.target)
        /\ dec.orders = orders /\ dec.order = desk.order
    BY <1>10
  <2> HIDE DEF dec, lim, mv, ps
  <2>7. (desk'.policy.kind \in PostureKinds /\ desk'.policy.holdRelative) =>
          /\ GrossOf(dec.proposal.target) <= lim(DeskLimits.gross)
          /\ (/\ dec.proposal.action = JointHold /\ dec.untouched
              /\ \A s \in DeskSymbols : AbsOf(ps[s]) <= lim(DeskLimits.abs)
              /\ GrossOf(ps) <= lim(DeskLimits.gross))
             => \A s \in DeskSymbols : mv(s) => dec.orders[s] = dec.order[s]
    BY <1>8, <2>1, <2>2, <2>3, <2>4, <2>6
  <2>8. (desk'.policy.kind = "allocator" /\ dec.proposal.hold # DeskSymbols)
          => AllocationFeasible(dec.proposal.target, desk'.policy)
    BY <1>9, <2>4, <2>6
  <2> QED BY <2>5, <2>7, <2>8, Zenon
<1> QED BY <1>4, <1>11

(* At the start nothing has been decided.                                   *)
LEMMA DeskInitially == DeskInit => DeskInv
<1>1. SUFFICES ASSUME DeskInit PROVE DeskInv  OBVIOUS
<1>2. desk = [stage |-> "new", policy |-> NoDecision, latency |-> 0,
              act |-> [s \in DeskSymbols |-> 0],
              order |-> [s \in DeskSymbols |-> [left |-> 0, wait |-> 0, worked |-> FALSE]],
              scale |-> 100, worst |-> 100, now |-> 0, bars |-> 0, samples |-> 0,
              alive |-> TRUE, features |-> TRUE, entered |-> FALSE]
  BY <1>1 DEF DeskInit
<1>3. Undecided  BY <1>1 DEF DeskInit, Undecided
<1>4. [left |-> 0, wait |-> 0, worked |-> FALSE] \in DeskOrders  BY DEF DeskOrders
<1>5. /\ DOMAIN desk = DeskFields
      /\ desk.act = [s \in DeskSymbols |-> 0]
      /\ desk.order = [s \in DeskSymbols |-> [left |-> 0, wait |-> 0, worked |-> FALSE]]
      /\ desk.scale = 100 /\ desk.worst = 100 /\ desk.latency = 0
  BY <1>2 DEF DeskFields
<1>6. DeskShape  BY <1>4, <1>5 DEF DeskShape, DeskWeights
<1> QED BY <1>3, <1>6 DEF DeskInv, DecisionKeepsItsPosture

(* Every step keeps the invariant.                                          *)
LEMMA DeskStep == DeskInv /\ [DeskNext]_deskVars => DeskInv'
<1>1. SUFFICES ASSUME DeskInv, [DeskNext]_deskVars PROVE DeskInv'  OBVIOUS
<1>2. CASE \E setup \in DeskSetups : BuildPolicy(setup)
  <2>1. PICK setup \in DeskSetups : BuildPolicy(setup)  BY <1>2
  <2>2. setup.latency \in Nat  BY DeskConstants
  <2>3. desk.stage = "new" /\ decision' = decision  BY <2>1 DEF BuildPolicy
  <2>4. Undecided'  BY <1>1, <2>3 DEF DeskInv, Undecided
  <2>5. DeskShape'
    <3>1. \/ desk' = [desk EXCEPT !.stage = "refused"]
          \/ desk' = [desk EXCEPT !.stage = "ready", !.policy = setup, !.latency = setup.latency,
                        !.samples = IF setup.kind = "allocator" THEN Len(setup.warm) ELSE 0]
      BY <2>1 DEF BuildPolicy
    <3> QED BY <1>1, <2>2, <3>1 DEF DeskInv, DeskShape, DeskFields
  <2> QED BY <2>4, <2>5 DEF DeskInv, DecisionKeepsItsPosture
<1>3. CASE /\ desk.stage = "ready"
           /\ \E proposal \in Answers(SnapshotOf(desk), desk.policy) \ {Refused} :
                \E fills : DecideBar(proposal, fills)
  <2>1. PICK proposal \in Answers(SnapshotOf(desk), desk.policy) \ {Refused} :
          \E fills : DecideBar(proposal, fills)
    BY <1>3
  <2>2. PICK fills : DecideBar(proposal, fills)  BY <2>1
  <2>3. DeskShape' /\ desk'.stage = "ready" /\ DecisionKeepsItsPosture'
    BY <1>1, <2>1, <2>2, BarKeepsPosture DEF DeskInv
  <2> QED BY <2>3 DEF DeskInv
<1>4. CASE PolicyRaises
  <2>1. desk' = [desk EXCEPT !.stage = "raised"] /\ decision' = decision  BY <1>4 DEF PolicyRaises
  <2>2. DeskShape' /\ desk'.stage = "raised" /\ desk'.policy = desk.policy
    BY <1>1, <2>1 DEF DeskInv, DeskShape, DeskFields
  <2>3. DecisionKeepsItsPosture'
    BY <1>1, <2>1, <2>2 DEF DeskInv, DecisionKeepsItsPosture, Undecided
  <2> QED BY <2>2, <2>3 DEF DeskInv
<1>5. ASSUME NEW scale \in 0..100, NEW features, NEW alive, MarketMoves(scale, features, alive)
      PROVE  DeskInv'
  <2>1. /\ desk' = [desk EXCEPT !.scale = scale, !.worst = Min({@, scale}), !.features = features,
                                !.alive = alive]
        /\ decision' = NoDecision
    BY <1>5 DEF MarketMoves
  <2>2. Undecided'  BY <2>1 DEF Undecided
  <2>3. Min({desk.worst, scale}) \in 0..100
    <3> DEFINE x == desk.worst
    <3>1. x \in 0..100  BY <1>1 DEF DeskInv, DeskShape
    <3>2. x \in Int /\ scale \in Int  BY <3>1
    <3> HIDE DEF x
    <3>3. Min({x, scale}) \in {x, scale}  BY <3>2, SmallerOf
    <3> QED BY <3>1, <3>3 DEF x
  <2>4. DeskShape'
    BY <1>1, <2>1, <2>3 DEF DeskInv, DeskShape, DeskFields
  <2> QED BY <2>2, <2>4 DEF DeskInv, DecisionKeepsItsPosture
<1>6. CASE \/ \E scale \in DeskScales : MarketMoves(scale, TRUE, TRUE)
           \/ MarketMoves(desk.scale, FALSE, TRUE)
           \/ MarketMoves(desk.scale, TRUE, FALSE)
  <2>1. DeskScales \subseteq 0..100 /\ desk.scale \in 0..100
    BY <1>1, DeskConstants DEF DeskInv, DeskShape
  <2> QED BY <1>5, <1>6, <2>1
<1>7. CASE UNCHANGED deskVars
  <2>1. desk' = desk /\ decision' = decision  BY <1>7 DEF deskVars
  <2>2. DeskShape'  BY <1>1, <2>1 DEF DeskInv, DeskShape
  <2>3. DecisionKeepsItsPosture'
    BY <1>1, <2>1 DEF DeskInv, DecisionKeepsItsPosture, Undecided
  <2> QED BY <1>1, <2>1, <2>2, <2>3 DEF DeskInv, Undecided
<1> QED BY <1>1, <1>2, <1>3, <1>4, <1>6, <1>7 DEF DeskNext

(* A policy that keeps the posture asks for no more than the scaled limit, keeps the  *)
(* orders on their way while it holds, and an allocator that trades stays inside its  *)
(* own limits: preserve_posture_aware_proposal, decide_portfolio, reconcile_target.  *)
THEOREM DecisionAlwaysKeepsPosture == DeskSpec => []DecisionKeepsItsPosture
<1>1. DeskSpec => []DeskInv  BY DeskInitially, DeskStep, PTL DEF DeskSpec
<1>2. DeskInv => DecisionKeepsItsPosture  BY DEF DeskInv
<1> QED BY <1>1, <1>2, PTL
============
