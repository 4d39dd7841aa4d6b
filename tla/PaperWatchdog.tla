---------------------------- MODULE PaperWatchdog ----------------------------
(***************************************************************************)
(* Liveness supervision of the paper collector (evaluation/paper/          *)
(* watchdog.py): the collector's heartbeat, the supervisor that launches,  *)
(* watches and relaunches it, the supervisor's own heartbeat, and the      *)
(* independent scheduled check that turns a stale heartbeat into the       *)
(* permanent failure marker.                                               *)
(*                                                                         *)
(* Several supervisors may be started on one root, each may be killed      *)
(* while its child lives on, and a collector may be killed, may hang and   *)
(* may fail to write its heartbeat.  The collector is the one of           *)
(* PaperCollector with its cycle cut down to the four durable steps that   *)
(* supervision reads: begin, command, acknowledgement, heartbeat.          *)
(***************************************************************************)
EXTENDS Integers, FiniteSets

CONSTANTS
  Supervisors,   \* supervise_collector processes
  Collectors,    \* collector processes (children)
  StartAt,       \* settings.start_at
  EndAt,         \* close_at plus the terminal grace
  MaxGap,        \* maximum_gap_seconds (180 s)
  Stale,         \* stale_seconds (150 s)
  GiveUp,        \* HEARTBEAT_WRITE_GIVE_UP_SECONDS (120 s)
  StartupGrace,  \* startup_grace_seconds (300 s)
  AliveFor,      \* how long a supervisor's heartbeat counts as fresh (30 s)
  Margin,        \* restart_margin_seconds (60 s)
  MaxRestarts,   \* max_restarts
  MaxClock,      \* bound on the wall clock
  MaxFaults      \* bound on kills, hangs and failures of processes

ASSUME WatchdogAssumption ==
  /\ StartAt \in Nat /\ EndAt \in Nat /\ MaxGap \in Nat /\ Margin \in Nat
  /\ Stale \in Nat \ {0} /\ Stale <= MaxGap /\ GiveUp \in Nat \ {0}
  /\ StartupGrace \in Nat \ {0} /\ AliveFor \in Nat /\ MaxRestarts \in Nat
  /\ MaxClock \in Nat /\ MaxFaults \in Nat

VARIABLES
  clock,      \* the UTC wall clock
  failure,    \* collection-failure.json: who reported it, or "none"
  lock,       \* the collectors holding collector.sqlite
  control,    \* a begun cycle is unacknowledged
  lastAt,     \* last_command_at of the journal
  heartbeat,  \* collector-heartbeat.json, or NoBeat
  status,     \* supervisor-heartbeat.json, or NoStatus
  child,      \* child[c]: what collector c is doing
  known,      \* the last command and the last successful beat c remembers
  sup,        \* sup[s]: where supervisor s is
  watching,   \* watching[s]: the children s has launched and not reaped
  launched,   \* launched[s]: launched_at, or Never
  restarts,   \* restarts[s]
  outcome,    \* outcome[s] of a supervisor that returned
  check,      \* the scheduled check: idle, or about to write this failure
  faults      \* number of faults so far

vars == <<clock, failure, lock, control, lastAt, heartbeat, status, child, known,
          sup, watching, launched, restarts, outcome, check, faults>>

collecting == <<lock, control, lastAt, heartbeat, child, known>>
supervising == <<status, sup, watching, launched, restarts, outcome>>
checking == <<check, faults>>

Never == -1
NotKnown == [last |-> Never, success |-> Never]
NoBeat == [state |-> "absent", at |-> Never, last |-> Never]
NoStatus == [state |-> "absent", at |-> Never, launched |-> Never]

(* TERMINAL_STATES against the others: finished and rejected are not told  *)
(* apart here, nor the states of a running collector.                      *)
BeatTerminal == heartbeat.state = "terminal"

(* A collector process exists: starting, in its loop, in a cycle, or hung. *)
Alive(c) == child[c] \in {"starting", "idle", "begun", "acked", "hung"}

Dead == {"none", "exit0", "exit1", "exit2", "exit4", "killed"}

-----------------------------------------------------------------------------

Init ==
  /\ clock = 0 /\ failure = "none" /\ lock = {} /\ control = FALSE
  /\ lastAt = StartAt /\ heartbeat = NoBeat /\ status = NoStatus
  /\ child = [c \in Collectors |-> "none"]
  /\ known = [c \in Collectors |-> NotKnown]
  /\ sup = [s \in Supervisors |-> "off"]
  /\ watching = [s \in Supervisors |-> {}]
  /\ launched = [s \in Supervisors |-> Never]
  /\ restarts = [s \in Supervisors |-> 0]
  /\ outcome = [s \in Supervisors |-> "none"]
  /\ check = "idle" /\ faults = 0

(* write_collection_failure: created once, never replaced.                 *)
RecordFailure(reporter) == failure' = IF failure = "none" THEN reporter ELSE failure

-----------------------------------------------------------------------------
(* The collector process.                                                  *)

Become(c, state) == child' = [child EXCEPT ![c] = state]

(* HeartbeatWriter: the file is replaced, or the write fails and is        *)
(* tolerated.                                                              *)
Beat(c, last) ==
  \/ /\ heartbeat' = [state |-> "running", at |-> clock, last |-> last]
     /\ known' = [known EXCEPT ![c] = [last |-> last, success |-> clock]]
  \/ /\ clock <= known[c].success + GiveUp
     /\ known' = [known EXCEPT ![c].last = last]
     /\ UNCHANGED heartbeat

(* The process ends and its lock with it; the exit code waits for the      *)
(* supervisor that launched it, if that still runs.                        *)
Exit(c, code) ==
  /\ Become(c, IF \E s \in Supervisors : c \in watching[s] THEN code ELSE "none")
  /\ lock' = lock \ {c}
  /\ known' = [known EXCEPT ![c] = NotKnown]

(* A collector that cannot go on: _halt leaves the marker, unless there is *)
(* one, and the process exits with code 2.                                 *)
HaltAndExit(c) ==
  /\ RecordFailure("collector")
  /\ Exit(c, "exit2")
  /\ UNCHANGED <<clock, control, lastAt, heartbeat, supervising, check>>

(* CollectorLockHeld.                                                      *)
StartContended(c) ==
  /\ child[c] = "starting"
  /\ lock \ {c} # {}
  /\ Exit(c, "exit4")
  /\ UNCHANGED <<clock, failure, control, lastAt, heartbeat, supervising, checking>>

(* __enter__ takes the lock and replays the journal; a marker or an        *)
(* incomplete cycle ends the process, else it beats for the first time.    *)
StartLock(c) ==
  /\ child[c] = "starting"
  /\ lock = {}
  /\ lock' = {c}
  /\ UNCHANGED <<clock, failure, control, lastAt, heartbeat, child, known,
                 supervising, checking>>

StartRefused(c) ==
  /\ child[c] = "starting" /\ lock = {c}
  /\ failure # "none" \/ control
  /\ HaltAndExit(c)
  /\ UNCHANGED faults

StartOpened(c) ==
  /\ child[c] = "starting" /\ lock = {c}
  /\ failure = "none" /\ ~control
  /\ Become(c, "idle")
  /\ \/ heartbeat' = [state |-> "running", at |-> clock, last |-> Never]
     \/ UNCHANGED heartbeat
  /\ known' = [known EXCEPT ![c] = [last |-> Never, success |-> clock]]
  /\ UNCHANGED <<clock, failure, lock, control, lastAt, supervising, checking>>

(* Between cycles the loop beats while it sleeps.                          *)
SleepBeat(c) ==
  /\ child[c] = "idle"
  /\ Beat(c, known[c].last)
  /\ UNCHANGED <<clock, failure, lock, control, lastAt, child, supervising, checking>>

(* Heartbeats could not be written for longer than the give-up window.     *)
BeatGivesUp(c) ==
  /\ child[c] \in {"idle", "acked"}
  /\ clock > known[c].success + GiveUp
  /\ HaltAndExit(c)
  /\ UNCHANGED faults

(* The guard of a cycle finds a marker.                                    *)
CycleRefused(c) ==
  /\ child[c] \in {"idle", "begun"}
  /\ failure # "none"
  /\ HaltAndExit(c)
  /\ UNCHANGED faults

CycleBegin(c) ==
  /\ child[c] = "idle"
  /\ failure = "none" /\ StartAt <= clock /\ clock < EndAt
  /\ Beat(c, known[c].last)
  /\ control' = TRUE
  /\ Become(c, "begun")
  /\ UNCHANGED <<clock, failure, lock, lastAt, supervising, checking>>

(* The cycle's command is committed and the cycle acknowledged.  (A        *)
(* process that dies between the two leaves the cycle open, as one that    *)
(* dies before the command does.)                                          *)
CycleCommit(c) ==
  /\ child[c] = "begun"
  /\ clock > lastAt
  /\ lastAt' = clock
  /\ control' = FALSE
  /\ Become(c, "acked")
  /\ UNCHANGED <<clock, failure, lock, heartbeat, known, supervising, checking>>

(* beat("cycle_completed") carries the committed command's time.           *)
CycleCompleted(c) ==
  /\ child[c] = "acked"
  /\ Beat(c, lastAt)
  /\ Become(c, "idle")
  /\ UNCHANGED <<clock, failure, lock, control, lastAt, supervising, checking>>

(* At the deadline the terminal heartbeat is written, or its write fails   *)
(* and is tolerated like any other, and the process ends.                  *)
CycleTerminal(c) ==
  /\ child[c] = "idle"
  /\ failure = "none" /\ clock >= EndAt
  /\ \/ heartbeat' = [state |-> "terminal", at |-> clock, last |-> lastAt]
     \/ clock <= known[c].success + GiveUp /\ UNCHANGED heartbeat
  /\ \E code \in {"exit0", "exit1"} : Exit(c, code)
  /\ UNCHANGED <<clock, failure, control, lastAt, supervising, checking>>

Fault == faults < MaxFaults /\ faults' = faults + 1

(* A request fails, a replay differs, a signal arrives: the collector      *)
(* halts itself.                                                           *)
CollectorFails(c) ==
  /\ child[c] \in {"idle", "begun", "acked"}
  /\ HaltAndExit(c)
  /\ Fault

(* The process is killed without a chance to write anything.               *)
CollectorKilled(c) ==
  /\ Alive(c)
  /\ Exit(c, "killed")
  /\ Fault
  /\ UNCHANGED <<clock, failure, control, lastAt, heartbeat, supervising, check>>

(* The process stops making progress but keeps its lock.                   *)
CollectorHangs(c) ==
  /\ child[c] \in {"starting", "idle", "begun", "acked"}
  /\ Become(c, "hung")
  /\ Fault
  /\ UNCHANGED <<clock, failure, lock, control, lastAt, heartbeat, known,
                 supervising, check>>

CollectorStep(c) ==
  \/ StartContended(c) \/ StartLock(c) \/ StartRefused(c) \/ StartOpened(c)
  \/ SleepBeat(c) \/ BeatGivesUp(c) \/ CycleRefused(c) \/ CycleBegin(c)
  \/ CycleCommit(c) \/ CycleCompleted(c) \/ CycleTerminal(c)

-----------------------------------------------------------------------------
(* The supervisor.                                                         *)

(* status_beat: best effort, a failed write is ignored.                    *)
StatusBeat(state, launch) ==
  status' \in {status, [state |-> state, at |-> clock, launched |-> launch]}

(* finish(): the result is fixed; unless told otherwise a supervisor that  *)
(* has launched a child leaves the status "stopped".                       *)
Return(s, result, recordStop) ==
  /\ outcome' = [outcome EXCEPT ![s] = result]
  /\ IF recordStop /\ launched[s] # Never
     THEN StatusBeat("stopped", launched[s])
     ELSE UNCHANGED status

(* Mutation: the supervision ends without the marker.                      *)
FailUnrecorded(s) ==
  /\ UNCHANGED failure
  /\ Return(s, "failed", TRUE)

(* fail(): the marker, then finish().                                      *)
Fail(s) ==
  /\ RecordFailure("supervisor")
  /\ Return(s, "failed", TRUE)

SupAt(s, label) == sup' = [sup EXCEPT ![s] = label]

(* The supervisor process is over and its local variables with it.         *)
SupOver(s, label) ==
  /\ SupAt(s, label)
  /\ launched' = [launched EXCEPT ![s] = Never]
  /\ restarts' = [restarts EXCEPT ![s] = 0]

(* The child is forgotten, and with it the exit code nobody else reads.    *)
Reap(s) ==
  /\ watching' = [watching EXCEPT ![s] = {}]
  /\ child' = [c \in Collectors |->
                IF c \in watching[s] /\ ~Alive(c) THEN "none" ELSE child[c]]

SupStart(s) ==
  /\ sup[s] = "off"
  /\ SupAt(s, "top")
  /\ UNCHANGED <<clock, failure, collecting, status, watching, launched, restarts,
                 outcome, checking>>

(* The head of the loop: a marker, a terminal heartbeat and a live         *)
(* collector each end the supervision.                                     *)
SupEndsAtTop(s) ==
  /\ sup[s] = "top"
  /\ \/ failure # "none" /\ Return(s, "halted", TRUE)
     \/ failure = "none" /\ BeatTerminal /\ Return(s, "already_terminal", TRUE)
     \/ /\ failure = "none" /\ ~BeatTerminal /\ lock # {}
        /\ Return(s, "lock_contention", TRUE)
  /\ SupOver(s, "done")
  /\ UNCHANGED <<clock, failure, collecting, watching, checking>>

SupPassesTop(s) ==
  /\ sup[s] = "top"
  /\ failure = "none" /\ ~BeatTerminal /\ lock = {}
  /\ SupAt(s, "launching")
  /\ UNCHANGED <<clock, failure, collecting, status, watching, launched, restarts,
                 outcome, checking>>

(* launched_at, the status "launching", and the new child.                 *)
SupLaunch(s) ==
  /\ sup[s] = "launching"
  /\ \E c \in Collectors :
       /\ ~Alive(c) /\ \A t \in Supervisors : c \notin watching[t]
       /\ Become(c, "starting")
       /\ watching' = [watching EXCEPT ![s] = {c}]
  /\ launched' = [launched EXCEPT ![s] = clock]
  /\ StatusBeat("launching", clock)
  /\ SupAt(s, "monitor")
  /\ UNCHANGED <<clock, failure, lock, control, lastAt, heartbeat, known, restarts,
                 outcome, checking>>

(* No beat of this child within the startup grace, or a stale one later.   *)
LooksHung(s) ==
  IF heartbeat.at < launched[s]
  THEN clock > launched[s] + StartupGrace
  ELSE clock > heartbeat.at + Stale

SupMonitor(s) ==
  /\ sup[s] = "monitor"
  /\ \E c \in watching[s] : Alive(c)
  /\ ~LooksHung(s)
  /\ StatusBeat("monitoring", launched[s])
  /\ UNCHANGED <<clock, failure, collecting, sup, watching, launched, restarts,
                 outcome, checking>>

(* A hung child: the marker is durable before the child is stopped.        *)
SupHung(s) ==
  /\ sup[s] = "monitor"
  /\ \E c \in watching[s] : Alive(c)
  /\ LooksHung(s)
  /\ Fail(s) \* CollectorHung
  /\ SupAt(s, "stopping")
  /\ UNCHANGED <<clock, collecting, watching, launched, restarts, checking>>

SupStop(s) ==
  /\ sup[s] = "stopping"
  /\ child' = [c \in Collectors |-> IF c \in watching[s] THEN "none" ELSE child[c]]
  /\ lock' = lock \ watching[s]
  /\ known' = [c \in Collectors |-> IF c \in watching[s] THEN NotKnown ELSE known[c]]
  /\ watching' = [watching EXCEPT ![s] = {}]
  /\ SupOver(s, "done")
  /\ UNCHANGED <<clock, failure, control, lastAt, heartbeat, status, outcome,
                 checking>>

Code(s) == CHOOSE code \in Dead : \E c \in watching[s] : child[c] = code

Exited(s) == sup[s] = "monitor" /\ \E c \in watching[s] : ~Alive(c)

(* Mutation: the time of the heartbeat, not of the command it reports.     *)
ReferenceWritten == IF heartbeat.at > StartAt THEN heartbeat.at ELSE StartAt

(* The last command the heartbeat knows of, never before the start.        *)
Reference ==
  IF heartbeat.last # Never /\ heartbeat.last > StartAt THEN heartbeat.last ELSE StartAt

Projected == clock - Reference + Margin

(* A child that neither refused, nor finished, nor lost the lock, and left *)
(* no cycle open, may be relaunched inside the gap limit and the budget.   *)
Relaunchable(s) == Code(s) \in {"exit1", "killed"} /\ ~control

(* Mutation: one restart too many.                                         *)
WithinBudgetInclusive(s) == restarts[s] <= MaxRestarts

WithinBudget(s) == restarts[s] < MaxRestarts

(* The child exited and the supervision ends with it.                      *)
SupEndsAfterExit(s) ==
  /\ Exited(s)
  /\ \/ failure # "none" /\ Return(s, "halted", TRUE) /\ UNCHANGED failure
     \/ /\ failure = "none" /\ BeatTerminal
        /\ Return(s, "finished", TRUE) /\ UNCHANGED failure
     \/ /\ failure = "none" /\ ~BeatTerminal
        /\ \/ Code(s) = "exit0" /\ Fail(s) \* CollectorExitedEarly
           \/ /\ Code(s) = "exit4"
              /\ Return(s, "lock_contention", FALSE) /\ UNCHANGED failure
           \/ Code(s) = "exit2" /\ Fail(s) \* CollectorRefused
           \/ /\ Code(s) \in {"exit1", "killed"}
              /\ Fail(s) \* CollectorControlUnreadable
           \/ /\ Code(s) \in {"exit1", "killed"} /\ control
              /\ Fail(s) \* CollectorDiedMidCycle
           \/ /\ Relaunchable(s) /\ Projected > MaxGap
              /\ Fail(s) \* CollectorGapUnrecoverable
           \/ /\ Relaunchable(s) /\ Projected <= MaxGap /\ ~WithinBudget(s)
              /\ Fail(s) \* CollectorRestartLimit
  /\ Reap(s)
  /\ SupOver(s, "done")
  /\ UNCHANGED <<clock, lock, control, lastAt, heartbeat, known, checking>>

(* The child exited and is relaunched.                                     *)
SupRestart(s) ==
  /\ Exited(s)
  /\ failure = "none" /\ ~BeatTerminal
  /\ Relaunchable(s) /\ Projected <= MaxGap /\ WithinBudget(s)
  /\ restarts' = [restarts EXCEPT ![s] = @ + 1]
  /\ Reap(s)
  /\ SupAt(s, "top")
  /\ UNCHANGED <<clock, failure, lock, control, lastAt, heartbeat, known, status,
                 launched, outcome, checking>>

(* The supervisor itself is killed; its child lives on.                    *)
SupKilled(s) ==
  /\ sup[s] \notin {"off", "done", "killed"}
  /\ SupOver(s, "killed")
  /\ Reap(s)
  /\ Fault
  /\ UNCHANGED <<clock, failure, lock, control, lastAt, heartbeat, known, status,
                 outcome, check>>

SupStep(s) ==
  \/ SupEndsAtTop(s) \/ SupPassesTop(s) \/ SupLaunch(s) \/ SupMonitor(s)
  \/ SupHung(s) \/ SupStop(s) \/ SupEndsAfterExit(s) \/ SupRestart(s)

-----------------------------------------------------------------------------
(* The scheduled check.                                                    *)

(* Mutation: the deferral has no limit of its own.                         *)
RelaunchUnbounded ==
  /\ status.state \notin {"absent", "stopped"}
  /\ heartbeat.at < status.launched

(* A live supervisor is inside the startup grace of a child that has not   *)
(* beaten yet.                                                             *)
RelaunchInProgress ==
  /\ status.state \notin {"absent", "stopped"}
  /\ clock <= status.at + AliveFor
  /\ heartbeat.at < status.launched
  /\ clock <= status.launched + StartupGrace

(* check_collection reads the root and decides to write ...                *)
CheckRead ==
  /\ check = "idle"
  /\ failure = "none"
  /\ \/ /\ heartbeat = NoBeat
        /\ clock > StartAt + MaxGap
        /\ check' = "never_started"
     \/ /\ heartbeat # NoBeat /\ ~BeatTerminal
        /\ clock > heartbeat.at + Stale
        /\ clock >= StartAt
        /\ ~RelaunchInProgress
        /\ check' = "stale"
  /\ UNCHANGED <<clock, failure, collecting, supervising, faults>>

(* ... and writes, whatever has happened in between.                       *)
CheckWrite ==
  /\ check # "idle"
  /\ RecordFailure("check")
  /\ check' = "idle"
  /\ UNCHANGED <<clock, collecting, supervising, faults>>

Tick ==
  /\ clock < MaxClock
  /\ clock' = clock + 1
  /\ UNCHANGED <<failure, collecting, supervising, checking>>

Next ==
  \/ \E c \in Collectors : \/ CollectorStep(c) \/ CollectorFails(c)
                           \/ CollectorKilled(c) \/ CollectorHangs(c)
  \/ \E s \in Supervisors : SupStart(s) \/ SupStep(s) \/ SupKilled(s)
  \/ CheckRead \/ CheckWrite \/ Tick

Spec == Init /\ [][Next]_vars

(* The scheduled check keeps being run and the clock keeps advancing; no   *)
(* supervisor and no collector is assumed to make progress.                *)
CheckFairness == WF_vars(Tick) /\ WF_vars(CheckRead) /\ WF_vars(CheckWrite)

FairSpec == Spec /\ CheckFairness

-----------------------------------------------------------------------------

(* The state stays well formed.                                            *)
TypeOK ==
  /\ clock \in Nat /\ control \in BOOLEAN /\ lastAt \in Nat
  /\ failure \in {"none", "collector", "supervisor", "check"}
  /\ lock \subseteq Collectors
  /\ heartbeat \in [state : {"absent", "running", "terminal"}, at : Int, last : Int]
  /\ status \in [state : {"absent", "launching", "monitoring", "stopped"},
                 at : Int, launched : Int]
  /\ DOMAIN child = Collectors /\ \A c \in Collectors : Alive(c) \/ child[c] \in Dead
  /\ known \in [Collectors -> [last : Int, success : Int]]
  /\ faults \in Nat
  /\ sup \in [Supervisors -> {"off", "killed", "top", "launching", "monitor",
                             "stopping", "done"}]
  /\ watching \in [Supervisors -> SUBSET Collectors]
  /\ launched \in [Supervisors -> Int]
  /\ restarts \in [Supervisors -> 0..MaxRestarts]
  /\ outcome \in [Supervisors -> {"none", "halted", "already_terminal", "finished",
                                 "lock_contention", "failed"}]
  /\ check \in {"idle", "never_started", "stale"}

(* A supervisor relaunches only if the journal itself, not just the copy   *)
(* of its last command in the heartbeat, can still be continued inside the *)
(* frozen gap limit with the restart margin to spare.                      *)
RestartInsideGap ==
  [][ \A s \in Supervisors :
        restarts'[s] > restarts[s] => clock + Margin <= lastAt + MaxGap ]_vars

(* "A stopped supervisor can never leave an unexplained silent screen":    *)
(* once every supervisor that was started has returned by itself, the      *)
(* marker or a terminal heartbeat exists, also when they raced each other  *)
(* for the lock and some only gave way.                                    *)
EndIsExplained ==
  /\ \E s \in Supervisors : sup[s] = "done"
  /\ \A s \in Supervisors : sup[s] \in {"off", "done"}
  => failure # "none" \/ BeatTerminal

(* Once a collection is silent (no heartbeat was ever written, or no       *)
(* process is left that could beat) it does not stay so: the check writes  *)
(* the marker, whatever became of the supervisors, unless a new process is *)
(* launched.  The clock's bound must leave the check time to see it.       *)
Silent ==
  /\ failure = "none" /\ ~BeatTerminal
  /\ \A c \in Collectors : ~Alive(c) \/ child[c] = "hung"

SilenceIsNoticed ==
  Silent /\ clock + MaxGap + StartupGrace < MaxClock ~> ~Silent

(* "A transient Windows sharing violation therefore cannot end a 90-day    *)
(* screen": a collector that ended cleanly is never declared failed.       *)
CleanEndNotCondemned ==
  [][ \A s \in Supervisors :
        Exited(s) /\ Code(s) = "exit0" /\ sup'[s] = "done" => failure' = failure ]_vars

(* "A contention exit must leave the live owner's supervisor status        *)
(* untouched."                                                             *)
OwnerStatusUntouched ==
  [][ \A s \in Supervisors :
        outcome'[s] = "lock_contention" /\ sup'[s] = "done" /\ sup[s] # "done"
           => status' = status ]_vars
=============================================================================
