--------------------------- MODULE PaperCollector ---------------------------
(***************************************************************************)
(* The paper collector (evaluation/paper/supervisor.py) run by `cli run`:  *)
(* its exclusive lock (lock.py), the permanent failure marker (failure.py),*)
(* the durable cycle acknowledgements (control.py), its cadence loop       *)
(* (operations.py) and its exit guard (watchdog.py).                       *)
(*                                                                         *)
(* Several collector processes may be launched on one root.  A process can *)
(* be killed between any two steps, be terminated by a signal, see its     *)
(* source or protocol change under it, and be declared failed from outside *)
(* by the watchdog, which creates the marker without holding the lock.     *)
(*                                                                         *)
(* The journal appears through what the collector reads of it: the time of *)
(* the last command, whether a decision is pending, whether the account is *)
(* flat and whether it has recorded a quality failure.  An append is one   *)
(* durable step (PaperJournal shows why: only the lock's holder appends).  *)
(***************************************************************************)
EXTENDS Naturals, Sequences, FiniteSetsExt

CONSTANTS
  Procs,        \* collector processes
  StartAt,      \* settings.start_at
  CloseAt,      \* settings.close_at
  Grace,        \* terminal_grace_seconds (180 s)
  MaxGap,       \* settings.maximum_gap_seconds (180 s)
  Fresh,        \* the age at which a decision expires (10 s)
  Interval,     \* interval_seconds (60 s)
  MaxClock,     \* bound on the wall clock
  MaxBack,      \* bound on how often the wall clock is stepped back
  MaxLaunches   \* bound on the number of launches

ASSUME TimingAssumption ==
  /\ StartAt \in Nat /\ CloseAt \in Nat /\ StartAt < CloseAt
  /\ Grace \in Nat /\ MaxGap \in Nat /\ Fresh \in Nat /\ Interval \in Nat \ {0}

ASSUME BoundsAssumption == MaxClock \in Nat /\ MaxBack \in Nat /\ MaxLaunches \in Nat

VARIABLES
  clock,      \* the UTC wall clock
  backs,      \* how often it was stepped back
  drift,      \* source, runtime or protocol no longer match the seal
  failure,    \* collection-failure.json: its reporter, or "none"
  lock,       \* collector.sqlite: the processes inside BEGIN EXCLUSIVE
  control,    \* collection-control.sqlite: absent | clean | open (incomplete)
  lastAt,     \* last_command_at of the journal
  pending,    \* the account has a pending decision
  flat,       \* the account holds no quantity
  quality,    \* quality_failures is not empty
  terminal,   \* the terminal heartbeat: none | finished | rejected
  pc,         \* where each process is
  at,         \* the local `at` of cycle and of _execute_pending
  seen,       \* the cadence loop's `previous`
  due,        \* the cadence loop's `due`
  ruled,      \* the process holds captured rules
  launches,   \* number of launches so far
  began,      \* history: the process that began the open cycle, as a set
  shape,      \* history: kinds of the commands since the last begin
  shapes,     \* history: the shapes of the acknowledged cycles
  late        \* history: commands committed after the marker or the drift

disk == <<failure, lock, control, terminal>>
account == <<lastAt, pending, flat, quality>>
local == <<at, seen, due, ruled>>
history == <<began, shape, shapes, late>>
env == <<clock, backs, drift, launches>>
vars == <<disk, account, local, history, env, pc>>

EndAt == CloseAt + Grace

(* Program points inside `with PaperCollector`, where the signal handlers  *)
(* and the exit guard are installed: in a begun cycle, between cycles, or  *)
(* in _halt.                                                               *)
InCycle ==
  {"begun", "ruling", "ruled", "snapping", "deciding", "executing", "matching",
   "filling", "expiring", "cancelling", "completing", "concluding"}

Looping ==
  {"sleeping", "guarded", "timely", "reporting", "concluded", "finishing"}

Halting == {"halting", "recovering"}

Opened == InCycle \union Looping \union Halting

ProgramPoints ==
  Opened \union {"off", "locking", "locked", "opening", "unopened", "reviving",
                 "refusing", "ending", "leaving", "exiting"}

-----------------------------------------------------------------------------

(* What _guard requires of the disk.                                       *)
Healthy == failure = "none" /\ ~drift

Goto(p, label) == pc' = [pc EXCEPT ![p] = label]

(* The local variables of a process are gone.                              *)
Unwind(p) ==
  /\ at' = [at EXCEPT ![p] = 0]
  /\ seen' = [seen EXCEPT ![p] = 0]
  /\ due' = [due EXCEPT ![p] = 0]
  /\ ruled' = [ruled EXCEPT ![p] = FALSE]

(* A raised exception unwinds to _halt, in cycle or in __exit__.           *)
Raise(p) ==
  /\ Goto(p, "halting")
  /\ Unwind(p)
  /\ UNCHANGED <<disk, account, history>>

(* One command appended to the journal: commands follow each other in time *)
(* (PaperAccount._clock).                                                  *)
Commit(kind, t) ==
  /\ t > lastAt
  /\ lastAt' = t
  /\ late' = IF Healthy THEN late ELSE late + 1
  /\ shape' = Append(shape, kind)

(* PaperAccount.gap: a permanent quality failure; the pending decision is  *)
(* dropped.                                                                *)
Gap(t) ==
  /\ Commit("gap", t)
  /\ quality' = TRUE
  /\ pending' = FALSE
  /\ UNCHANGED flat

(* The terminal deadline.                                                  *)
Overdue(t) == t >= EndAt

(* Mutation: the deadline leaves a pending decision behind.                *)
FinishLeavingPending(t) ==
  /\ Overdue(t)
  /\ UNCHANGED <<account, late, shape>>

(* _finish_if_due: at the deadline a pending decision becomes a gap.       *)
FinishIfDue(t) ==
  /\ Overdue(t)
  /\ \/ pending /\ Gap(t)
     \/ ~pending /\ UNCHANGED <<account, late, shape>>

-----------------------------------------------------------------------------

Init ==
  /\ clock = 0 /\ backs = 0 /\ drift = FALSE /\ launches = 0
  /\ failure = "none" /\ lock = {} /\ control = "absent" /\ terminal = "none"
  /\ lastAt = StartAt /\ pending = FALSE /\ flat = TRUE /\ quality = FALSE
  /\ pc = [p \in Procs |-> "off"]
  /\ at = [p \in Procs |-> 0]
  /\ seen = [p \in Procs |-> 0]
  /\ due = [p \in Procs |-> 0]
  /\ ruled = [p \in Procs |-> FALSE]
  /\ began = {} /\ shape = << >> /\ shapes = {} /\ late = 0

(* A collector process is started on the root.                             *)
Launch(p) ==
  /\ pc[p] = "off"
  /\ launches < MaxLaunches
  /\ launches' = launches + 1
  /\ Goto(p, "locking")
  /\ UNCHANGED <<disk, account, local, history, clock, backs, drift>>

(* acquire_collector_lock: BEGIN EXCLUSIVE succeeds.                       *)
LockAcquire(p) ==
  /\ pc[p] = "locking"
  /\ lock = {}
  /\ lock' = {p}
  /\ Goto(p, "locked")
  /\ UNCHANGED <<failure, control, terminal, account, local, history, env>>

(* CollectorLockHeld after the patience ran out: nothing was written.      *)
LockHeld(p) ==
  /\ pc[p] = "locking"
  /\ lock # {}
  /\ Goto(p, "off")
  /\ UNCHANGED <<disk, account, local, history, env>>

(* The guard of __enter__; its refusal halts before an engine exists.      *)
EnterGuard(p) ==
  /\ pc[p] = "locked"
  /\ Goto(p, IF Healthy THEN "opening" ELSE "refusing")
  /\ UNCHANGED <<disk, account, local, history, env>>

(* _halt without an engine: the marker is written unless one exists.       *)
Refuse(p) ==
  /\ pc[p] = "refusing"
  /\ failure' = IF failure = "none" THEN "collector" ELSE failure
  /\ Goto(p, "ending")
  /\ UNCHANGED <<lock, control, terminal, account, local, history, env>>

(* __enter__ releases the lock and the process ends (exit code 2).         *)
RefuseEnd(p) ==
  /\ pc[p] = "ending"
  /\ lock' = lock \ {p}
  /\ Goto(p, "off")
  /\ UNCHANGED <<failure, control, terminal, account, local, history, env>>

(* Mutation: the table is not looked at when it is opened.                 *)
OpenUnchecked(p) ==
  /\ pc[p] = "opening"
  /\ Goto(p, "sleeping")
  /\ control' = IF control = "absent" THEN "clean" ELSE control
  /\ UNCHANGED <<failure, lock, terminal, account, local, history, env>>

(* The engine replays the journal and CollectionControl opens: a new file  *)
(* is created, an incomplete cycle of an earlier process is refused.       *)
Open(p) ==
  /\ pc[p] = "opening"
  /\ IF control = "open"
     THEN Goto(p, "unopened") /\ UNCHANGED control
     ELSE Goto(p, "sleeping") /\ control' = "clean"
  /\ UNCHANGED <<failure, lock, terminal, account, local, history, env>>

(* The cadence loop reads its clock: a clock behind the last reading, or a *)
(* failed guard, halts; else cycle takes its `at`.                         *)
CycleGuard(p) ==
  /\ pc[p] = "sleeping"
  /\ \/ clock < seen[p] /\ Raise(p)
     \/ clock >= seen[p] /\ clock >= due[p] /\ ~Healthy /\ Raise(p)
     \/ /\ clock >= seen[p] /\ clock >= due[p] /\ Healthy
        /\ seen' = [seen EXCEPT ![p] = clock]
        /\ at' = [at EXCEPT ![p] = clock]
        /\ Goto(p, "guarded")
        /\ UNCHANGED <<disk, account, due, ruled, history>>
  /\ UNCHANGED env

(* "collector clock moved backwards".                                      *)
CycleBackwards(p) ==
  /\ pc[p] = "guarded"
  /\ lastAt > StartAt /\ at[p] <= lastAt
  /\ Raise(p)
  /\ UNCHANGED env

ClockAhead(p) == lastAt = StartAt \/ at[p] > lastAt

(* Before the start a cycle only waits.                                    *)
CycleWaiting(p) ==
  /\ pc[p] = "guarded"
  /\ ClockAhead(p)
  /\ at[p] < StartAt
  /\ Goto(p, "reporting")
  /\ UNCHANGED <<disk, account, local, history, env>>

(* The observation gap is recorded before anything else is done.           *)
CycleGap(p) ==
  /\ pc[p] = "guarded"
  /\ ClockAhead(p)
  /\ at[p] >= StartAt
  /\ IF at[p] > lastAt + MaxGap
     THEN Gap(at[p]) /\ UNCHANGED <<began, shapes>>
     ELSE UNCHANGED <<account, history>>
  /\ Goto(p, "timely")
  /\ UNCHANGED <<disk, local, env>>

(* The deadline has passed before the cycle began.                         *)
CycleFinish(p) ==
  /\ pc[p] = "timely"
  /\ FinishIfDue(at[p])
  /\ Goto(p, "concluded")
  /\ UNCHANGED <<disk, local, began, shapes, env>>

(* CollectionControl.begin: the cycle is durable and unacknowledged.       *)
CycleBegin(p) ==
  /\ pc[p] = "timely"
  /\ ~Overdue(at[p])
  /\ IF control = "open"
     THEN Raise(p)
     ELSE /\ control' = "open"
          /\ began' = {p}
          /\ shape' = << >>
          /\ Goto(p, "begun")
          /\ UNCHANGED <<failure, lock, terminal, account, local, shapes, late>>
  /\ UNCHANGED env

(* A decision left pending goes to execution; else the rules are captured  *)
(* when the process has none or, after 55 minutes, when they are too old.  *)
CycleBranch(p) ==
  /\ pc[p] = "begun"
  /\ IF pending
     THEN Goto(p, "executing")
     ELSE \/ Goto(p, "ruling")
          \/ ruled[p] /\ Goto(p, "ruled")
  /\ UNCHANGED <<disk, account, local, history, env>>

(* Capturing the rules: _capture's guard, the requests, and the deadline   *)
(* looked at again.                                                        *)
CaptureRules(p) ==
  /\ pc[p] = "ruling"
  /\ \/ Raise(p)
     \/ /\ Healthy
        /\ ruled' = [ruled EXCEPT ![p] = TRUE]
        /\ \/ ~Overdue(clock) /\ Goto(p, "ruled") /\ UNCHANGED <<account, late, shape>>
           \/ FinishIfDue(clock) /\ Goto(p, "concluding")
        /\ UNCHANGED <<disk, at, seen, due, began, shapes>>
  /\ UNCHANGED env

(* The market snapshot of a decision starts behind _capture's guard ...    *)
CaptureMarket(p) ==
  /\ pc[p] = "ruled"
  /\ IF Healthy
     THEN Goto(p, "snapping") /\ UNCHANGED <<disk, account, local, history>>
     ELSE Raise(p)
  /\ UNCHANGED env

(* ... and when it ends, cycle guards again and reads the clock.           *)
CaptureMarketEnd(p) ==
  /\ pc[p] = "snapping"
  /\ \/ Raise(p)
     \/ /\ Healthy
        /\ at' = [at EXCEPT ![p] = clock]
        /\ Goto(p, "deciding")
        /\ UNCHANGED <<disk, account, seen, due, ruled, history>>
  /\ UNCHANGED env

(* Mutation: the silence before an observation is not measured.            *)
ObserveUntimed(t) ==
  \E breach \in BOOLEAN : quality' = (quality \/ breach)

(* PaperAccount._observe: silence beyond the limit, a risk breach or late  *)
(* funding is a permanent quality failure.                                 *)
Observe(t) ==
  \E breach \in BOOLEAN : quality' = (quality \/ breach \/ t > lastAt + MaxGap)

(* A stopped bot (a quality failure, or the close) only closes positions.  *)
BotStopped(t) == quality' \/ t >= CloseAt

(* PaperEngine.decide, committed.                                          *)
Decide(p) ==
  /\ pc[p] = "deciding"
  /\ ~Overdue(at[p])
  /\ ~pending
  /\ Commit("decision", at[p])
  /\ Observe(at[p])
  /\ \E orders \in BOOLEAN :
       /\ BotStopped(at[p]) /\ orders => ~flat
       /\ pending' = orders
  /\ Goto(p, IF pending' THEN "executing" ELSE "completing")
  /\ UNCHANGED <<flat, disk, local, began, shapes, env>>

(* decide raises: a command time that does not advance, rules that cannot  *)
(* express the residual, an unreadable snapshot.                           *)
DecideFails(p) ==
  /\ pc[p] = "deciding"
  /\ ~Overdue(at[p])
  /\ Raise(p)
  /\ UNCHANGED env

DecideFinish(p) ==
  /\ pc[p] = "deciding"
  /\ FinishIfDue(at[p])
  /\ Goto(p, "concluding")
  /\ UNCHANGED <<disk, local, began, shapes, env>>

(* _execute_pending: a fresh decision is matched against a new snapshot    *)
(* behind _capture's guard, an old one is cancelled.                       *)
ExecuteBegin(p) ==
  /\ pc[p] = "executing"
  /\ IF clock > lastAt + Fresh
     THEN Goto(p, "expiring") /\ UNCHANGED <<disk, account, local, history>>
     ELSE IF Healthy
          THEN Goto(p, "matching") /\ UNCHANGED <<disk, account, local, history>>
          ELSE Raise(p)
  /\ UNCHANGED env

ExecuteCaptureEnd(p) ==
  /\ pc[p] = "matching"
  /\ \/ Raise(p)
     \/ /\ Healthy
        /\ at' = [at EXCEPT ![p] = clock]
        /\ Goto(p, "filling")
        /\ UNCHANGED <<disk, account, seen, due, ruled, history>>
  /\ UNCHANGED env

(* PaperEngine.execute, committed: the pending decision is gone, and its   *)
(* orders were cancelled or filled, in part or in full.                    *)
Execute(p) ==
  /\ pc[p] = "filling"
  /\ ~Overdue(at[p]) /\ at[p] <= lastAt + Fresh
  /\ Commit("execution", at[p])
  /\ Observe(at[p])
  /\ pending' = FALSE
  /\ flat' \in BOOLEAN
  /\ Goto(p, "completing")
  /\ UNCHANGED <<disk, local, began, shapes, env>>

ExecuteFails(p) ==
  /\ pc[p] = "filling"
  /\ ~Overdue(at[p]) /\ at[p] <= lastAt + Fresh
  /\ Raise(p)
  /\ UNCHANGED env

ExecuteFinish(p) ==
  /\ pc[p] = "filling"
  /\ FinishIfDue(at[p])
  /\ Goto(p, "concluding")
  /\ UNCHANGED <<disk, local, began, shapes, env>>

ExecuteTooLate(p) ==
  /\ pc[p] = "filling"
  /\ ~Overdue(at[p]) /\ at[p] > lastAt + Fresh
  /\ Goto(p, "expiring")
  /\ UNCHANGED <<disk, account, local, history, env>>

(* The guard before the cancelling gap, and the gap itself.                *)
ExpireGuard(p) ==
  /\ pc[p] = "expiring"
  /\ IF Healthy
     THEN Goto(p, "cancelling") /\ UNCHANGED <<disk, account, local, history>>
     ELSE Raise(p)
  /\ UNCHANGED env

(* Mutation: cancelling an expired decision is not held against the screen. *)
ExpireForgiven(p) ==
  /\ pc[p] = "cancelling"
  /\ Commit("gap", clock)
  /\ pending' = FALSE
  /\ Goto(p, "completing")
  /\ UNCHANGED <<flat, quality, disk, local, began, shapes, env>>

ExpireGap(p) ==
  /\ pc[p] = "cancelling"
  /\ \/ clock <= lastAt /\ Raise(p)
     \/ /\ Gap(clock)
        /\ Goto(p, "completing")
        /\ UNCHANGED <<disk, local, began, shapes>>
  /\ UNCHANGED env

(* CollectionControl.finish acknowledges the cycle.                        *)
CompleteCycle(p) ==
  /\ pc[p] \in {"completing", "concluding"}
  /\ control' = "clean"
  /\ began' = {}
  /\ shapes' = shapes \union {shape}
  /\ shape' = << >>
  /\ Goto(p, IF pc[p] = "completing" THEN "reporting" ELSE "concluded")
  /\ UNCHANGED <<failure, lock, terminal, account, local, late, env>>

-----------------------------------------------------------------------------

Rejected == quality /\ flat /\ ~pending

(* Mutation: the phase of the cycle is reported as the heartbeat state.    *)
ReportPhase(p) ==
  /\ pc[p] = "concluded" \/ (pc[p] = "reporting" /\ Rejected)
  /\ terminal' = IF pc[p] = "concluded" THEN "finished" ELSE "observed"
  /\ Goto(p, "finishing")
  /\ UNCHANGED <<failure, lock, control, account, local, history, env>>

(* Mutation: the loop leaves only a rejected screen.                       *)
ReportRejectedOnly(p) ==
  /\ pc[p] = "concluded" \/ (pc[p] = "reporting" /\ Rejected)
  /\ terminal' = IF Rejected THEN "rejected" ELSE terminal
  /\ Goto(p, IF Rejected THEN "finishing" ELSE "sleeping")
  /\ UNCHANGED <<failure, lock, control, account, local, history, env>>

(* collect_until_finished ends with the terminal heartbeat when the screen *)
(* is finished, or rejected and flat.                                      *)
ReportTerminal(p) ==
  /\ pc[p] = "concluded" \/ (pc[p] = "reporting" /\ Rejected)
  /\ terminal' = IF Rejected THEN "rejected" ELSE "finished"
  /\ Goto(p, "finishing")
  /\ UNCHANGED <<failure, lock, control, account, local, history, env>>

Slot(now) == IF now < StartAt THEN 0 ELSE ((now - StartAt) \div Interval) + 1

(* Otherwise it sleeps until the next slot, or halts when its clock went   *)
(* back.                                                                   *)
ReportSleep(p) ==
  /\ pc[p] = "reporting" /\ ~Rejected
  /\ \/ clock < seen[p] /\ Raise(p)
     \/ /\ clock >= seen[p]
        /\ seen' = [seen EXCEPT ![p] = clock]
        /\ due' = [due EXCEPT ![p] = Min({EndAt, StartAt + Slot(clock) * Interval})]
        /\ Goto(p, "sleeping")
        /\ UNCHANGED <<disk, account, at, ruled, history>>
  /\ UNCHANGED env

(* A clean return disarms the exit guard and releases the lock.            *)
Finish(p) ==
  /\ pc[p] = "finishing"
  /\ lock' = lock \ {p}
  /\ Goto(p, "off")
  /\ Unwind(p)
  /\ UNCHANGED <<failure, control, terminal, account, history, env>>

(* Where _halt continues once the marker exists: in __exit__ or, when the  *)
(* opening was refused, in __enter__.                                      *)
AfterMarker(p, marking) ==
  IF pc[p] = "halting"
  THEN IF marking THEN "recovering" ELSE "leaving"
  ELSE IF marking THEN "reviving" ELSE "ending"

(* Mutation: the marker is replaced by the latest cause.                   *)
HaltReplacing(p) ==
  /\ pc[p] \in {"halting", "unopened"}
  /\ failure' = "collector"
  /\ Goto(p, AfterMarker(p, Healthy))
  /\ UNCHANGED <<lock, control, terminal, account, local, history, env>>

(* Mutation: a process that finds a marker marks the journal as well.      *)
HaltAlwaysMarking(p) ==
  /\ pc[p] \in {"halting", "unopened"}
  /\ failure' = IF failure = "none" THEN "collector" ELSE failure
  /\ Goto(p, AfterMarker(p, ~drift))
  /\ UNCHANGED <<lock, control, terminal, account, local, history, env>>

(* _halt with an engine, from a cycle or from a refused opening: it writes *)
(* the marker or finds one; only its writer goes on to mark the journal,   *)
(* and never with changed source.                                          *)
Halt(p) ==
  /\ pc[p] \in {"halting", "unopened"}
  /\ failure' = IF failure = "none" THEN "collector" ELSE failure
  /\ Goto(p, AfterMarker(p, Healthy))
  /\ UNCHANGED <<lock, control, terminal, account, local, history, env>>

(* The journal is reopened and the failure recorded as a gap, if the clock *)
(* allows it and nothing goes wrong.                                       *)
Recover(p) ==
  /\ pc[p] \in {"recovering", "reviving"}
  /\ \/ Gap(clock)
     \/ UNCHANGED <<account, late, shape>>
  /\ Goto(p, IF pc[p] = "recovering" THEN "leaving" ELSE "ending")
  /\ UNCHANGED <<disk, local, began, shapes, env>>

(* __exit__ releases the lock.                                             *)
Leave(p) ==
  /\ pc[p] = "leaving"
  /\ lock' = lock \ {p}
  /\ Goto(p, "exiting")
  /\ UNCHANGED <<failure, control, terminal, account, local, history, env>>

(* The exit guard is still armed: it writes the marker if none is there.   *)
ExitGuard(p) ==
  /\ pc[p] = "exiting"
  /\ failure' = IF failure = "none" THEN "atexit" ELSE failure
  /\ Goto(p, "off")
  /\ UNCHANGED <<lock, control, terminal, account, local, history, env>>

(* SIGTERM raises CollectorTerminated wherever the main thread is; inside  *)
(* _halt it abandons what _halt had left to do.                            *)
Terminate(p) ==
  /\ pc[p] \in Opened
  /\ Goto(p, IF pc[p] \in Halting THEN "leaving" ELSE "halting")
  /\ Unwind(p)
  /\ UNCHANGED <<disk, account, history, env>>

(* The process is killed: the operating system releases its lock.          *)
Crash(p) ==
  /\ pc[p] # "off"
  /\ lock' = lock \ {p}
  /\ Goto(p, "off")
  /\ Unwind(p)
  /\ UNCHANGED <<failure, control, terminal, account, history, env>>

(* The watchdog or the scheduled check declares the collection failed.     *)
WatchdogFailure ==
  /\ failure = "none"
  /\ failure' = "watchdog"
  /\ UNCHANGED <<lock, control, terminal, account, local, history, env, pc>>

(* The installed source, runtime or protocol file changes.                 *)
Drift ==
  /\ ~drift
  /\ drift' = TRUE
  /\ UNCHANGED <<disk, account, local, history, clock, backs, launches, pc>>

Tick ==
  /\ clock < MaxClock
  /\ clock' = clock + 1
  /\ UNCHANGED <<disk, account, local, history, backs, drift, launches, pc>>

(* The wall clock is stepped back.                                         *)
ClockBack ==
  /\ backs < MaxBack
  /\ clock > 0
  /\ backs' = backs + 1
  /\ clock' = clock - 1
  /\ UNCHANGED <<disk, account, local, history, drift, launches, pc>>

Step(p) ==
  \/ LockAcquire(p) \/ LockHeld(p) \/ EnterGuard(p) \/ Refuse(p) \/ RefuseEnd(p)
  \/ Open(p) \/ CycleGuard(p) \/ CycleBackwards(p) \/ CycleWaiting(p)
  \/ CycleGap(p) \/ CycleFinish(p) \/ CycleBegin(p) \/ CycleBranch(p)
  \/ CaptureRules(p) \/ CaptureMarket(p) \/ CaptureMarketEnd(p)
  \/ Decide(p) \/ DecideFails(p) \/ DecideFinish(p)
  \/ ExecuteBegin(p) \/ ExecuteCaptureEnd(p) \/ Execute(p) \/ ExecuteFails(p)
  \/ ExecuteFinish(p) \/ ExecuteTooLate(p) \/ ExpireGuard(p) \/ ExpireGap(p)
  \/ CompleteCycle(p) \/ ReportTerminal(p) \/ ReportSleep(p) \/ Finish(p)
  \/ Halt(p) \/ Recover(p) \/ Leave(p) \/ ExitGuard(p)

Environment == WatchdogFailure \/ Drift \/ Tick \/ ClockBack

Next ==
  \/ \E p \in Procs : Launch(p) \/ Step(p) \/ Terminate(p) \/ Crash(p)
  \/ Environment

Spec == Init /\ [][Next]_vars

(* A live process keeps running and the clock keeps advancing.             *)
Fairness == WF_vars(Tick) /\ \A p \in Procs : WF_vars(Step(p))

FairSpec == Spec /\ Fairness

-----------------------------------------------------------------------------

(* The state stays well formed.                                            *)
TypeOK ==
  /\ clock \in Nat /\ backs \in Nat /\ drift \in BOOLEAN /\ launches \in Nat
  /\ failure \in {"none", "collector", "watchdog", "atexit"}
  /\ lock \subseteq Procs
  /\ control \in {"absent", "clean", "open"}
  /\ terminal \in {"none", "finished", "rejected"}
  /\ lastAt \in Nat /\ pending \in BOOLEAN /\ flat \in BOOLEAN /\ quality \in BOOLEAN
  /\ pc \in [Procs -> ProgramPoints]
  /\ at \in [Procs -> Nat] /\ seen \in [Procs -> Nat] /\ due \in [Procs -> Nat]
  /\ ruled \in [Procs -> BOOLEAN]
  /\ began \subseteq Procs
  /\ shape \in Seq({"decision", "execution", "gap"})
  /\ shapes \subseteq Seq({"decision", "execution", "gap"})
  /\ late \in Nat

(* "Any collection failure permanently halts I/O": once the marker exists  *)
(* or the source has changed, the journal takes at most one more command   *)
(* in all, over every process that is running or is launched later: the    *)
(* one whose guard had already passed, or the failure gap of the process   *)
(* that wrote the marker.                                                  *)
OneCommandAfterStop == late <= 1

(* A pending decision never outlives its cycle: whenever one is pending,   *)
(* in memory or in the journal of a dead process, its cycle is still       *)
(* unacknowledged.                                                         *)
PendingInsideOpenCycle == pending => control = "open"

(* A cycle that was begun is continued only by the process that began it:  *)
(* while it is unacknowledged no other process is in a cycle or ready for  *)
(* one, however often the collector is relaunched.                         *)
InterruptedCycleNeverResumed ==
  control = "open" =>
     \A p \in Procs : pc[p] \in InCycle \union Looping =>
                        p \in began /\ pc[p] \in InCycle

(* Without a quality failure every acknowledged cycle is one the           *)
(* assessment's audit accepts, a decision with at most one execution, or   *)
(* is the empty cycle that met the deadline.                               *)
CleanCycles ==
  ~quality => shapes \subseteq {<< >>, <<"decision">>, <<"decision", "execution">>}

(* A silence longer than the frozen limit is never bridged quietly:        *)
(* whichever command ends it, the account then has a quality failure.      *)
SilenceRecorded == [][ lastAt' > lastAt + MaxGap => quality' ]_vars

(* The first recorded cause of a failure is kept, whoever races to write.  *)
FirstCauseKept == [][ failure # "none" => failure' = failure ]_vars

(* A collector never outlives its deadline and never waits for ever: every *)
(* launched process ends.                                                  *)
CollectorEnds == \A p \in Procs : pc[p] # "off" ~> pc[p] = "off"

(* A cycle belongs to the process that began it, contains its own pending  *)
(* decision and, without a quality failure, is one the audit accepts.      *)
CyclesAreWhole == PendingInsideOpenCycle /\ InterruptedCycleNeverResumed /\ CleanCycles
=============================================================================
