---------------------------- MODULE Attempts_proofs -------------------------
(***************************************************************************)
(* Proofs about the attempts that run for long and may die on the way: the *)
(* paper study, which is collected under supervision, and the training of  *)
(* the shared portfolio policy, whose result is loaded and decided with.   *)
(*                                                                         *)
(* A paper process collects in a root only under the sealed protocol, a    *)
(* collection whose supervisors have all returned is explained, and a      *)
(* relaunch always finds a journal that can still be continued inside the  *)
(* frozen gap limit.  The policy that decides is the one an attempt        *)
(* trained, and every transition it was trained with is traced to the      *)
(* sample, the step and the checkpoint it came from.                       *)
(***************************************************************************)
EXTENDS PaperWatchdog, PaperAttempt, PortfolioInference, FiniteSetTheorems, SequenceTheorems,
        WellFoundedInduction, TLAPS

-----------------------------------------------------------------------------
(* The invariant.                                                          *)

(* What the copies of the last command time may say.                       *)
CopiesLag ==
  /\ StartAt <= lastAt
  /\ heartbeat.last <= lastAt
  /\ \A c \in Collectors : known[c].last <= lastAt

(* A supervisor watches the one child it launched, no two watch the same,  *)
(* the lock is held by live collectors, and unless a supervisor was killed *)
(* every live collector is watched.                                        *)
Employed ==
  /\ \A s \in Supervisors : sup[s] \notin {"monitor", "stopping"} => watching[s] = {}
  /\ \A s \in Supervisors : \A c, d \in watching[s] : c = d
  /\ \A s, t \in Supervisors : \A c \in watching[s] : c \in watching[t] => s = t
  /\ \A c \in lock : Alive(c)
  /\ (\A s \in Supervisors : sup[s] # "killed") =>
       \A c \in Collectors : Alive(c) => \E s \in Supervisors : c \in watching[s]
  /\ \A s \in Supervisors : sup[s] = "stopping" => failure # "none"

(* The child of this supervisor found the lock held.                       *)
GaveWay(s) == sup[s] = "monitor" /\ \E c \in watching[s] : child[c] = "exit4"

(* This supervisor still answers for the collection.                       *)
Carrying(s) == sup[s] \in {"top", "launching", "monitor", "stopping"} /\ ~GaveWay(s)

(* Whoever returned, or is about to because it only gave way, leaves the   *)
(* collection ended or in the hands of another.                            *)
Explained ==
  (\E s \in Supervisors : sup[s] = "done" \/ GaveWay(s)) =>
     \/ failure # "none" \/ BeatTerminal
     \/ \E s \in Supervisors : sup[s] = "killed"
     \/ \E s \in Supervisors : Carrying(s)

WatchInv == TypeOK /\ CopiesLag /\ Employed /\ Explained

-----------------------------------------------------------------------------
(* The initial states satisfy the invariant.                               *)
LEMMA WatchInit == Init => WatchInv
<1> SUFFICES ASSUME Init PROVE WatchInv OBVIOUS
<1> USE WatchdogAssumption DEF Init, NoBeat, NoStatus, NotKnown, Never
<1>1. TypeOK
  <2>1. DOMAIN child = Collectors /\ \A c \in Collectors : Alive(c) \/ child[c] \in Dead
    BY DEF Dead
  <2>2. restarts \in [Supervisors -> 0..MaxRestarts] OBVIOUS
  <2>3. known \in [Collectors -> [last : Int, success : Int]] OBVIOUS
  <2>4. heartbeat \in [state : {"absent", "running", "terminal"}, at : Int, last : Int]
    OBVIOUS
  <2>5. status \in [state : {"absent", "launching", "monitoring", "stopped"},
                    at : Int, launched : Int]
    OBVIOUS
  <2>6. watching \in [Supervisors -> SUBSET Collectors] /\ launched \in [Supervisors -> Int]
    OBVIOUS
  <2> QED BY <2>1, <2>2, <2>3, <2>4, <2>5, <2>6 DEF TypeOK
<1>2. CopiesLag BY DEF CopiesLag
<1>3. Employed BY DEF Employed, Alive
<1>4. Explained BY DEF Explained, GaveWay
<1> QED BY <1>1, <1>2, <1>3, <1>4 DEF WatchInv

(* A beat writes well-formed values, and no last command but the given one *)
(* and those it finds.                                                     *)
LEMMA BeatWrites ==
  ASSUME TypeOK, NEW c \in Collectors, NEW last \in Int, Beat(c, last)
  PROVE  /\ heartbeat' \in [state : {"absent", "running", "terminal"}, at : Int, last : Int]
         /\ known' \in [Collectors -> [last : Int, success : Int]]
         /\ heartbeat'.last \in {heartbeat.last, last}
         /\ \A d \in Collectors : known'[d].last \in {known[d].last, last}
<1>1. /\ known \in [Collectors -> [last : Int, success : Int]] /\ clock \in Int
      /\ heartbeat \in [state : {"absent", "running", "terminal"}, at : Int, last : Int]
  BY DEF TypeOK
<1>2. CASE /\ heartbeat' = [state |-> "running", at |-> clock, last |-> last]
           /\ known' = [known EXCEPT ![c] = [last |-> last, success |-> clock]]
  BY <1>1, <1>2
<1>3. CASE known' = [known EXCEPT ![c].last = last] /\ heartbeat' = heartbeat
  <2>1. known' \in [Collectors -> [last : Int, success : Int]]  BY <1>1, <1>3
  <2>2. \A d \in Collectors : known'[d].last \in {known[d].last, last}  BY <1>1, <1>3
  <2> QED BY <1>1, <1>3, <2>1, <2>2
<1> QED BY <1>2, <1>3 DEF Beat

(* Every step of a collector keeps the types.                              *)
LEMMA CollectorTypes ==
  ASSUME TypeOK, NEW c \in Collectors,
         CollectorStep(c) \/ CollectorFails(c) \/ CollectorKilled(c) \/ CollectorHangs(c)
  PROVE  TypeOK'
<1> USE WatchdogAssumption DEF TypeOK, Alive, Dead, collecting, supervising, checking, Never
<1>1. CASE StartContended(c) BY <1>1 DEF StartContended, Exit, Become, NotKnown
<1>2. CASE StartLock(c) BY <1>2 DEF StartLock
<1>3. CASE StartRefused(c)
  BY <1>3 DEF StartRefused, HaltAndExit, RecordFailure, Exit, Become, NotKnown
<1>4. CASE StartOpened(c) BY <1>4 DEF StartOpened, Become
<1>5. CASE SleepBeat(c) BY <1>5, BeatWrites DEF SleepBeat
<1>6. CASE BeatGivesUp(c)
  BY <1>6 DEF BeatGivesUp, HaltAndExit, RecordFailure, Exit, Become, NotKnown
<1>7. CASE CycleRefused(c)
  BY <1>7 DEF CycleRefused, HaltAndExit, RecordFailure, Exit, Become, NotKnown
<1>8. CASE CycleBegin(c) BY <1>8, BeatWrites DEF CycleBegin, Become
<1>9. CASE CycleCommit(c)
  <2>1. UNCHANGED <<clock, failure, lock, heartbeat, known, status, sup, watching, launched,
                    restarts, outcome, check, faults>>
    BY <1>9 DEF CycleCommit
  <2>2. control' = FALSE /\ lastAt' = clock BY <1>9 DEF CycleCommit
  <2>3. DOMAIN child' = Collectors /\ \A d \in Collectors : child'[d] \in {child[d], "acked"}
    <3>1. child' = [child EXCEPT ![c] = "acked"] BY <1>9 DEF CycleCommit, Become
    <3> QED BY <3>1
  <2>4. \A d \in Collectors : Alive(d)' \/ child'[d] \in Dead BY <2>3
  <2>5. lastAt' \in Nat /\ control' \in BOOLEAN BY <2>2
  <2> QED BY <2>1, <2>3, <2>4, <2>5
<1>10. CASE CycleCompleted(c) BY <1>10, BeatWrites DEF CycleCompleted, Become
<1>11. CASE CycleTerminal(c) BY <1>11 DEF CycleTerminal, Exit, Become, NotKnown
<1>12. CASE CollectorFails(c)
  BY <1>12 DEF CollectorFails, HaltAndExit, RecordFailure, Exit, Become, NotKnown, Fault
<1>13. CASE CollectorKilled(c) BY <1>13 DEF CollectorKilled, Exit, Become, NotKnown, Fault
<1>14. CASE CollectorHangs(c) BY <1>14 DEF CollectorHangs, Become, Fault
<1> QED
  BY <1>1, <1>2, <1>3, <1>4, <1>5, <1>6, <1>7, <1>8, <1>9, <1>10, <1>11, <1>12, <1>13, <1>14
  DEF CollectorStep

(* Every step of a supervisor keeps the types.                             *)
LEMMA SupervisorTypes ==
  ASSUME TypeOK, NEW s \in Supervisors, SupStart(s) \/ SupStep(s) \/ SupKilled(s)
  PROVE  TypeOK'
<1> USE WatchdogAssumption
  DEF TypeOK, Alive, Dead, collecting, supervising, checking, Never, SupAt, SupOver, Reap,
      StatusBeat, Return, RecordFailure, Fail
<1>1. CASE SupStart(s) BY <1>1 DEF SupStart
<1>2. CASE SupEndsAtTop(s) BY <1>2 DEF SupEndsAtTop
<1>3. CASE SupPassesTop(s) BY <1>3 DEF SupPassesTop
<1>4. CASE SupLaunch(s) BY <1>4 DEF SupLaunch, Become
<1>5. CASE SupMonitor(s) BY <1>5 DEF SupMonitor
<1>6. CASE SupHung(s) BY <1>6 DEF SupHung
<1>7. CASE SupStop(s) BY <1>7 DEF SupStop, NotKnown
<1>8. CASE SupEndsAfterExit(s) BY <1>8 DEF SupEndsAfterExit
<1>9. CASE SupRestart(s) BY <1>9 DEF SupRestart, WithinBudget
<1>10. CASE SupKilled(s) BY <1>10 DEF SupKilled, Fault
<1> QED
  BY <1>1, <1>2, <1>3, <1>4, <1>5, <1>6, <1>7, <1>8, <1>9, <1>10 DEF SupStep

(* The scheduled check and the clock keep the types.                       *)
LEMMA OtherTypes ==
  ASSUME TypeOK, CheckRead \/ CheckWrite \/ Tick PROVE TypeOK'
  BY DEF TypeOK, CheckRead, CheckWrite, Tick, RecordFailure, collecting, supervising, checking,
     Alive, Dead
-----------------------------------------------------------------------------
(* The journal's last command and its copies.                              *)

(* A beat carries no later command than the journal's.                     *)
LEMMA BeatCopies ==
  ASSUME TypeOK, CopiesLag, NEW c \in Collectors, NEW last \in Int, last <= lastAt,
         Beat(c, last), lastAt' = lastAt
  PROVE  CopiesLag'
<1>1. heartbeat'.last <= lastAt BY BeatWrites DEF CopiesLag
<1>2. \A d \in Collectors : known'[d].last <= lastAt BY BeatWrites DEF CopiesLag
<1> QED BY <1>1, <1>2 DEF CopiesLag

(* What the collector does to them.                                        *)
LEMMA CollectorCopies ==
  ASSUME TypeOK, CopiesLag, NEW c \in Collectors,
         CollectorStep(c) \/ CollectorFails(c) \/ CollectorKilled(c) \/ CollectorHangs(c)
  PROVE  CopiesLag'
<1>0. known[c].last \in Int /\ known[c].last <= lastAt BY DEF TypeOK, CopiesLag
<1> USE WatchdogAssumption DEF TypeOK, CopiesLag, collecting, supervising, checking, Never
<1>1. CASE StartContended(c) BY <1>1 DEF StartContended, Exit, NotKnown
<1>2. CASE StartLock(c) BY <1>2 DEF StartLock
<1>3. CASE StartRefused(c) BY <1>3 DEF StartRefused, HaltAndExit, Exit, NotKnown
<1>4. CASE StartOpened(c) BY <1>4 DEF StartOpened
<1>5. CASE SleepBeat(c) BY <1>0, <1>5, BeatCopies DEF SleepBeat
<1>6. CASE BeatGivesUp(c) BY <1>6 DEF BeatGivesUp, HaltAndExit, Exit, NotKnown
<1>7. CASE CycleRefused(c) BY <1>7 DEF CycleRefused, HaltAndExit, Exit, NotKnown
<1>8. CASE CycleBegin(c) BY <1>0, <1>8, BeatCopies DEF CycleBegin
<1>9. CASE CycleCommit(c) BY <1>9 DEF CycleCommit
<1>10. CASE CycleCompleted(c) BY <1>10, BeatCopies DEF CycleCompleted
<1>11. CASE CycleTerminal(c) BY <1>11 DEF CycleTerminal, Exit, NotKnown
<1>12. CASE CollectorFails(c) BY <1>12 DEF CollectorFails, HaltAndExit, Exit, NotKnown
<1>13. CASE CollectorKilled(c) BY <1>13 DEF CollectorKilled, Exit, NotKnown
<1>14. CASE CollectorHangs(c) BY <1>14 DEF CollectorHangs
<1> QED
  BY <1>1, <1>2, <1>3, <1>4, <1>5, <1>6, <1>7, <1>8, <1>9, <1>10, <1>11, <1>12, <1>13, <1>14
  DEF CollectorStep

(* A supervisor only forgets what the child it stops knew.                 *)
LEMMA SupervisorCopies ==
  ASSUME TypeOK, CopiesLag, NEW s \in Supervisors,
         SupStart(s) \/ SupStep(s) \/ SupKilled(s)
  PROVE  CopiesLag'
<1> USE WatchdogAssumption DEF TypeOK, CopiesLag, collecting, supervising, checking, Never
<1>1. CASE SupStop(s) BY <1>1 DEF SupStop, NotKnown
<1>2. CASE ~SupStop(s)
  <2>1. UNCHANGED <<lastAt, heartbeat, known>>
    BY <1>2 DEF SupStart, SupStep, SupKilled, SupEndsAtTop, SupPassesTop, SupLaunch, SupMonitor,
       SupHung, SupEndsAfterExit, SupRestart
  <2> QED BY <2>1
<1> QED BY <1>1, <1>2

-----------------------------------------------------------------------------
(* Who answers for the collection.                                         *)

(* A step of collector c takes the lock only for a live c, gives up what   *)
(* died, leaves with code 4 only while another holds the lock, keeps the   *)
(* marker, and removes a terminal heartbeat only if it lives on.           *)
Moves(c) ==
  /\ UNCHANGED <<sup, watching, restarts>>
  /\ Alive(c)
  /\ \A d \in Collectors \ {c} : child'[d] = child[d]
  /\ lock' \subseteq lock \cup {c}
  /\ c \in lock' => Alive(c)'
  /\ child'[c] = "exit4" => lock \ {c} # {} /\ lock' = lock \ {c}
  /\ failure # "none" => failure' # "none"
  /\ BeatTerminal => BeatTerminal' \/ Alive(c)'

(* Every step of a collector is such a step.                               *)
LEMMA CollectorMoves ==
  ASSUME TypeOK, NEW c \in Collectors,
         CollectorStep(c) \/ CollectorFails(c) \/ CollectorKilled(c) \/ CollectorHangs(c)
  PROVE  Moves(c)
<1> USE DEF TypeOK, Moves, Alive, collecting, supervising, checking, BeatTerminal, Become, Dead
<1>1. CASE StartContended(c) BY <1>1 DEF StartContended, Exit
<1>2. CASE StartLock(c) BY <1>2 DEF StartLock
<1>3. CASE StartRefused(c) BY <1>3 DEF StartRefused, HaltAndExit, RecordFailure, Exit
<1>4. CASE StartOpened(c) BY <1>4 DEF StartOpened
<1>5. CASE SleepBeat(c) BY <1>5 DEF SleepBeat, Beat
<1>6. CASE BeatGivesUp(c) BY <1>6 DEF BeatGivesUp, HaltAndExit, RecordFailure, Exit
<1>7. CASE CycleRefused(c) BY <1>7 DEF CycleRefused, HaltAndExit, RecordFailure, Exit
<1>8. CASE CycleBegin(c) BY <1>8 DEF CycleBegin, Beat
<1>9. CASE CycleCommit(c) BY <1>9 DEF CycleCommit
<1>10. CASE CycleCompleted(c) BY <1>10 DEF CycleCompleted, Beat
<1>11. CASE CycleTerminal(c) BY <1>11 DEF CycleTerminal, Exit
<1>12. CASE CollectorFails(c) BY <1>12 DEF CollectorFails, HaltAndExit, RecordFailure, Exit
<1>13. CASE CollectorKilled(c) BY <1>13 DEF CollectorKilled, Exit
<1>14. CASE CollectorHangs(c) BY <1>14 DEF CollectorHangs
<1> QED
  BY <1>1, <1>2, <1>3, <1>4, <1>5, <1>6, <1>7, <1>8, <1>9, <1>10, <1>11, <1>12, <1>13, <1>14
  DEF CollectorStep

(* Whoever holds the lock or lives is watched by a supervisor that still   *)
(* answers for it, unless one was killed.                                  *)
LEMMA LiveIsCarried ==
  ASSUME TypeOK, Employed, NEW c \in Collectors, Alive(c),
         \A s \in Supervisors : sup[s] # "killed"
  PROVE  \E s \in Supervisors : c \in watching[s] /\ Carrying(s)
<1>1. PICK s \in Supervisors : c \in watching[s] BY DEF Employed
<1>2. sup[s] \in {"monitor", "stopping"} BY <1>1 DEF Employed
<1>3. \A d \in watching[s] : d = c BY <1>1 DEF Employed
<1>4. ~GaveWay(s) BY <1>3 DEF GaveWay, Alive
<1> QED BY <1>1, <1>2, <1>4 DEF Carrying

(* A step of a collector keeps the employment.                             *)
LEMMA CollectorEmployed ==
  ASSUME TypeOK, Employed, NEW c \in Collectors, Moves(c)
  PROVE  Employed'
  BY DEF TypeOK, Employed, Moves, Alive

(* A step of a collector keeps the collection explained: who gave way to   *)
(* a lock holder leaves the collection to the holder's supervisor.         *)
LEMMA CollectorExplained ==
  ASSUME TypeOK, Employed, Employed', TypeOK', Explained, NEW c \in Collectors, Moves(c)
  PROVE  Explained'
<1> SUFFICES ASSUME \A s \in Supervisors : sup[s] # "killed",
                    failure' = "none", ~BeatTerminal',
                    \E s \in Supervisors : sup[s] = "done" \/ GaveWay(s)'
             PROVE  \E s \in Supervisors : Carrying(s)'
  BY DEF Explained, Moves
<1>1. failure = "none" BY DEF Moves
<1>2. CASE Alive(c)'
  <2>1. PICK s \in Supervisors : c \in watching[s] /\ Carrying(s)
    BY LiveIsCarried DEF Moves
  <2>2. \A d \in watching[s] : d = c BY <2>1 DEF Employed
  <2> QED BY <1>2, <2>1, <2>2 DEF Carrying, GaveWay, Moves, Alive
<1>3. CASE ~Alive(c)' /\ child'[c] = "exit4"
  <2>1. PICK d \in lock : d # c BY <1>3 DEF Moves
  <2>2. d \in Collectors /\ Alive(d) BY DEF TypeOK, Employed
  <2>3. PICK s \in Supervisors : d \in watching[s] /\ Carrying(s) BY <2>2, LiveIsCarried
  <2>4. \A e \in watching[s] : e = d BY <2>3 DEF Employed
  <2>5. child'[d] = child[d] BY <2>1, <2>2 DEF Moves
  <2> QED BY <2>2, <2>3, <2>4, <2>5 DEF Carrying, GaveWay, Moves, Alive
<1>4. CASE ~Alive(c)' /\ child'[c] # "exit4"
  <2>1. \A s \in Supervisors : GaveWay(s)' => GaveWay(s)
    BY <1>4 DEF GaveWay, Moves, TypeOK
  <2>2. ~BeatTerminal BY <1>4 DEF Moves
  <2>3. \E s \in Supervisors : sup[s] = "done" \/ GaveWay(s) BY <2>1
  <2>4. PICK s \in Supervisors : Carrying(s) BY <1>1, <2>2, <2>3 DEF Explained
  <2> QED BY <1>4, <2>4 DEF Carrying, GaveWay, Moves, TypeOK
<1> QED BY <1>2, <1>3, <1>4

(* A step of a supervisor keeps the employment: a child is launched to one *)
(* supervisor, let go only when dead or when the supervisor was killed,    *)
(* and stopped only after the marker.                                      *)
LEMMA SupervisorEmployed ==
  ASSUME TypeOK, Employed, NEW s \in Supervisors,
         SupStart(s) \/ SupStep(s) \/ SupKilled(s)
  PROVE  Employed'
<1> USE DEF TypeOK, Employed, Alive, collecting, supervising, checking, SupAt, SupOver, Reap
<1>1. CASE SupStart(s) BY <1>1 DEF SupStart
<1>2. CASE SupEndsAtTop(s) BY <1>2 DEF SupEndsAtTop
<1>3. CASE SupPassesTop(s) BY <1>3 DEF SupPassesTop
<1>4. CASE SupLaunch(s) BY <1>4 DEF SupLaunch, Become
<1>5. CASE SupMonitor(s) BY <1>5 DEF SupMonitor
<1>6. CASE SupHung(s) BY <1>6 DEF SupHung, Fail, RecordFailure
<1>7. CASE SupStop(s) BY <1>7 DEF SupStop
<1>8. CASE SupEndsAfterExit(s)
  <2>1. failure # "none" => failure' # "none"
    BY <1>8 DEF SupEndsAfterExit, Fail, RecordFailure
  <2>2. /\ \E c \in watching[s] : ~Alive(c)
        /\ watching' = [watching EXCEPT ![s] = {}] /\ sup' = [sup EXCEPT ![s] = "done"]
        /\ lock' = lock
    BY <1>8 DEF SupEndsAfterExit, Exited
  <2>3. \A c \in Collectors : Alive(c) <=> Alive(c)'
    BY <1>8 DEF SupEndsAfterExit
  <2> QED BY <2>1, <2>2, <2>3
<1>9. CASE SupRestart(s) BY <1>9 DEF SupRestart, Exited
<1>10. CASE SupKilled(s) BY <1>10 DEF SupKilled
<1> QED
  BY <1>1, <1>2, <1>3, <1>4, <1>5, <1>6, <1>7, <1>8, <1>9, <1>10 DEF SupStep

(* A step of a supervisor keeps the collection explained: it returns with  *)
(* the marker or a terminal heartbeat on the disk, or gives way to a       *)
(* collector that another supervisor answers for.                          *)
LEMMA SupervisorExplained ==
  ASSUME TypeOK, Employed, TypeOK', Employed', Explained, NEW s \in Supervisors,
         SupStart(s) \/ SupStep(s) \/ SupKilled(s)
  PROVE  Explained'
<1> USE DEF Explained, BeatTerminal, collecting, supervising, checking, SupAt, SupOver
<1>1. CASE SupStart(s) BY <1>1 DEF SupStart, Carrying, GaveWay, TypeOK
<1>2. CASE SupEndsAtTop(s)
  <2>1. CASE failure # "none" \/ heartbeat.state = "terminal" BY <1>2, <2>1 DEF SupEndsAtTop
  <2>2. CASE lock # {} /\ \A t \in Supervisors : sup[t] # "killed"
    <3>1. PICK c \in lock : c \in Collectors /\ Alive(c) BY <2>2 DEF TypeOK, Employed
    <3>2. PICK t \in Supervisors : c \in watching[t] /\ Carrying(t) BY <2>2, <3>1, LiveIsCarried
    <3>3. t # s BY <1>2, <3>2 DEF SupEndsAtTop, Employed
    <3> QED BY <1>2, <3>2, <3>3 DEF SupEndsAtTop, Carrying, GaveWay, TypeOK
  <2>3. CASE \E t \in Supervisors : sup[t] = "killed"
    BY <1>2, <2>3 DEF SupEndsAtTop, TypeOK
  <2> QED BY <1>2, <2>1, <2>2, <2>3 DEF SupEndsAtTop
<1>3. CASE SupPassesTop(s) BY <1>3 DEF SupPassesTop, Carrying, GaveWay, TypeOK
<1>4. CASE SupLaunch(s)
  <2>1. PICK c \in Collectors : /\ child' = [child EXCEPT ![c] = "starting"]
                                /\ watching' = [watching EXCEPT ![s] = {c}]
    BY <1>4 DEF SupLaunch, Become
  <2>2. child'[c] = "starting" BY <2>1 DEF TypeOK
  <2>3. sup'[s] = "monitor" /\ watching'[s] = {c} BY <1>4, <2>1 DEF SupLaunch, TypeOK
  <2> QED BY <2>2, <2>3 DEF Carrying, GaveWay
<1>5. CASE SupMonitor(s) BY <1>5 DEF SupMonitor, Carrying, GaveWay
<1>6. CASE SupHung(s) BY <1>6 DEF SupHung, Fail, RecordFailure
<1>7. CASE SupStop(s) BY <1>7 DEF SupStop, Employed
<1>8. CASE SupEndsAfterExit(s)
  <2>1. CASE failure' # "none" \/ heartbeat.state = "terminal"
    BY <1>8, <2>1 DEF SupEndsAfterExit
  <2>2. CASE failure' = "none" /\ heartbeat.state # "terminal"
    <3>1. Code(s) = "exit4" /\ failure = "none"
      BY <1>8, <2>2 DEF SupEndsAfterExit, Fail, RecordFailure
    <3>2. PICK c \in watching[s] : ~Alive(c) BY <1>8 DEF SupEndsAfterExit, Exited
    <3>3. child[c] \in Dead BY <3>2 DEF TypeOK
    <3>4. \E code \in Dead : \E d \in watching[s] : child[d] = code BY <3>2, <3>3
    <3>5. \E d \in watching[s] : child[d] = Code(s) BY <3>4 DEF Code
    <3>6. GaveWay(s) BY <1>8, <3>1, <3>5 DEF GaveWay, SupEndsAfterExit, Exited
    <3>7. CASE \E t \in Supervisors : sup[t] = "killed"
      BY <1>8, <3>7 DEF SupEndsAfterExit, Exited, TypeOK
    <3>8. CASE \E t \in Supervisors : Carrying(t)
      <4>1. PICK t \in Supervisors : Carrying(t) BY <3>8
      <4>2. t # s BY <3>6, <4>1 DEF Carrying
      <4>3. \A d \in watching[t] : child'[d] = child[d]
        BY <1>8, <4>2 DEF SupEndsAfterExit, Reap, Employed, TypeOK
      <4>4. sup'[t] = sup[t] /\ watching'[t] = watching[t]
        BY <1>8, <4>2 DEF SupEndsAfterExit, Reap, TypeOK
      <4> QED BY <4>1, <4>3, <4>4 DEF Carrying, GaveWay
    <3> QED BY <2>2, <3>1, <3>6, <3>7, <3>8
  <2> QED BY <2>1, <2>2
<1>9. CASE SupRestart(s) BY <1>9 DEF SupRestart, Exited, Carrying, GaveWay, TypeOK
<1>10. CASE SupKilled(s) BY <1>10 DEF SupKilled, TypeOK
<1> QED
  BY <1>1, <1>2, <1>3, <1>4, <1>5, <1>6, <1>7, <1>8, <1>9, <1>10 DEF SupStep

-----------------------------------------------------------------------------
(* Every reachable state satisfies the invariant.                          *)
THEOREM WatchInvariant == Spec => []WatchInv
<1>1. ASSUME WatchInv, [Next]_vars PROVE WatchInv'
  <2> USE <1>1 DEF WatchInv
  <2>1. ASSUME NEW c \in Collectors,
               CollectorStep(c) \/ CollectorFails(c) \/ CollectorKilled(c) \/ CollectorHangs(c)
        PROVE  WatchInv'
    <3>1. Moves(c) BY <2>1, CollectorMoves
    <3>2. TypeOK' BY <2>1, CollectorTypes
    <3>3. CopiesLag' BY <2>1, CollectorCopies
    <3>4. Employed' BY <3>1, CollectorEmployed
    <3> QED BY <3>1, <3>2, <3>3, <3>4, CollectorExplained
  <2>2. ASSUME NEW s \in Supervisors, SupStart(s) \/ SupStep(s) \/ SupKilled(s)
        PROVE  WatchInv'
    <3>1. TypeOK' BY <2>2, SupervisorTypes
    <3>2. CopiesLag' BY <2>2, SupervisorCopies
    <3>3. Employed' BY <2>2, SupervisorEmployed
    <3> QED BY <2>2, <3>1, <3>2, <3>3, SupervisorExplained
  <2>3. CASE CheckRead \/ CheckWrite \/ Tick
    <3>1. TypeOK' BY <2>3, OtherTypes
    <3>2. UNCHANGED <<collecting, supervising>> /\ (failure # "none" => failure' # "none")
      BY <2>3 DEF CheckRead, CheckWrite, Tick, RecordFailure
    <3> QED
      BY <3>1, <3>2 DEF CopiesLag, Employed, Explained, Carrying, GaveWay, BeatTerminal, Alive,
         collecting, supervising
  <2>4. CASE UNCHANGED vars
    <3>1. TypeOK' BY <2>4 DEF vars, collecting, supervising, checking, TypeOK, Alive, Dead
    <3> QED
      BY <2>4, <3>1 DEF vars, CopiesLag, Employed, Explained, Carrying, GaveWay, BeatTerminal,
         Alive
  <2> QED BY <2>1, <2>2, <2>3, <2>4 DEF Next
<1> QED BY <1>1, WatchInit, PTL DEF Spec

(* "A stopped supervisor can never leave an unexplained silent screen"     *)
(* (watchdog.py supervise_collector): once every supervisor that was       *)
(* started has returned by itself, the marker or a terminal heartbeat      *)
(* exists, however many raced for the lock.                                *)
THEOREM EndAlwaysExplained == Spec => []EndIsExplained
<1>1. WatchInv => EndIsExplained
  BY DEF WatchInv, Explained, EndIsExplained, Carrying, GaveWay, Employed
<1> QED BY <1>1, WatchInvariant, PTL

(* A relaunch (watchdog.py supervise_collector) always finds a journal     *)
(* that can be continued inside the frozen gap limit with the margin to    *)
(* spare, although the supervisor only reads a copy of its last command.   *)
THEOREM RestartsAlwaysInsideGap == Spec => RestartInsideGap
<1>1. ASSUME WatchInv, [Next]_vars
      PROVE  [ \A s \in Supervisors :
                 restarts'[s] > restarts[s] => clock + Margin <= lastAt + MaxGap ]_vars
  <2> USE <1>1, WatchdogAssumption DEF WatchInv
  <2>1. ASSUME NEW s \in Supervisors, NEW t \in Supervisors, SupRestart(s),
               restarts'[t] > restarts[t]
        PROVE  clock + Margin <= lastAt + MaxGap
    <3>1. clock - Reference + Margin <= MaxGap BY <2>1 DEF SupRestart, Projected
    <3>2. Reference \in Int /\ Reference <= lastAt BY DEF Reference, CopiesLag, TypeOK
    <3> QED BY <3>1, <3>2 DEF TypeOK
  <2>2. ASSUME NEW s \in Supervisors, SupStart(s) \/ SupStep(s) \/ SupKilled(s), ~SupRestart(s),
               NEW t \in Supervisors
        PROVE  ~(restarts'[t] > restarts[t])
    <3>1. restarts' = restarts \/ restarts' = [restarts EXCEPT ![s] = 0]
      BY <2>2 DEF SupStart, SupStep, SupKilled, SupEndsAtTop, SupPassesTop, SupLaunch,
         SupMonitor, SupHung, SupStop, SupEndsAfterExit, SupOver
    <3> QED BY <3>1 DEF TypeOK
  <2>3. ASSUME NEW c \in Collectors,
               CollectorStep(c) \/ CollectorFails(c) \/ CollectorKilled(c) \/ CollectorHangs(c)
        PROVE  restarts' = restarts
    BY <2>3, CollectorMoves DEF Moves
  <2>4. CASE CheckRead \/ CheckWrite \/ Tick \/ UNCHANGED vars
    BY <2>4 DEF CheckRead, CheckWrite, Tick, vars, supervising, TypeOK
  <2> QED BY <2>1, <2>2, <2>3, <2>4 DEF Next, TypeOK
<1> QED BY <1>1, WatchInvariant, PTL DEF Spec, RestartInsideGap
-----------------------------------------------------------------------------
(* The lineage of an attempt and the entry into a root (PaperAttempt).                       *)

(* The inductive invariant of the lineage: whoever is in a root is in a sealed root; once it   *)
(* is past the protocol it is in a root it may enter and has read an available predecessor; an *)
(* assessment belongs to a screen. A sealed study never changes, which keeps all three.         *)
Past(e) == entrant[e].at \in {"verified", "owns"}

EntryIsJustified ==
  \A e \in Entrants :
    /\ entrant[e].at # "out" => entrant[e].root \in Roots /\ Sealed(entrant[e].root)
    /\ Past(e) =>
         /\ ScreenRoot(e)
         /\ study[entrant[e].root].lineage = "available" => entrant[e].read = "intact"

AssessedAreScreens == \A r \in evaluated : Sealed(r) /\ study[r].plan = "screen"

AttemptInv == AttemptTypeOK /\ EntryIsJustified /\ AssessedAreScreens

(* Nothing is sealed, entered or assessed at first. *)
LEMMA AttemptInitially == AttemptInit => AttemptInv
  BY AttemptAssumption DEF AttemptInit, AttemptInv, AttemptTypeOK, EntryIsJustified, AssessedAreScreens, Past, Out,
        Unsealed

(* A root that is sealed keeps its protocol, and a sealing enters nobody. *)
SealsOne(r) ==
  /\ ~Sealed(r)
  /\ \E p \in Protocol : study' = [study EXCEPT ![r] = p]
  /\ UNCHANGED <<checkout, predecessor, beaten, halted, evaluated, attemptClock>>

(* Every way of sealing a collection seals one root. *)
LEMMA SealingSealsOne ==
  ASSUME AttemptTypeOK, NEW r \in Roots, NEW plan \in Plans, NEW lineage \in Lineages,
         NEW start \in Nat, NEW token \in BOOLEAN,
         SealCollection(r, plan, lineage, start, token)
  PROVE  SealsOne(r)
  BY DEF SealCollection, SealsOne, Protocol, AttemptTypeOK

(* Which keeps the invariant, nobody being in a root that was not sealed. *)
LEMMA SealingKeepsAttemptInv ==
  ASSUME AttemptInv, NEW r \in Roots, SealsOne(r), UNCHANGED entrant
  PROVE  AttemptInv'
<1>1. PICK p \in Protocol : study' = [study EXCEPT ![r] = p] BY DEF SealsOne
<1>2. study' \in [Roots -> Protocol \cup {Unsealed}] /\ \A x \in Roots : Sealed(x) => study'[x] = study[x]
  BY <1>1 DEF AttemptInv, AttemptTypeOK, SealsOne
<1>3. AttemptTypeOK' BY <1>2 DEF AttemptInv, AttemptTypeOK, SealsOne
<1>4. \A x \in Roots : Sealed(x) => Sealed(x)' BY <1>2 DEF Sealed
<1>5. EntryIsJustified'
  BY <1>2, <1>4 DEF AttemptInv, EntryIsJustified, Past, ScreenRoot
<1>6. AssessedAreScreens'
  BY <1>2, <1>4 DEF AttemptInv, AssessedAreScreens, AttemptTypeOK, SealsOne
<1> QED BY <1>3, <1>5, <1>6 DEF AttemptInv

(* One process moves and nothing else that the invariant reads changes. *)
LEMMA EntrantMoves ==
  ASSUME AttemptInv, NEW e \in Entrants, NEW x \in Entering \cup {Out},
         entrant' = [entrant EXCEPT ![e] = x], UNCHANGED <<study, evaluated>>,
         halted' \in [Roots -> {"no", "provenance", "collection"}], beaten' \subseteq Roots,
         UNCHANGED <<attemptClock, checkout, predecessor>>,
         x.at # "out" => Sealed(x.root),
         x.at \in {"verified", "owns"} =>
           /\ x.via = "probe" \/ study[x.root].plan # "probe"
           /\ study[x.root].lineage = "available" => x.read = "intact"
  PROVE  AttemptInv'
<1>1. AttemptTypeOK' BY DEF AttemptInv, AttemptTypeOK
<1>2. EntryIsJustified'
  <2> SUFFICES ASSUME NEW d \in Entrants
               PROVE  /\ entrant'[d].at # "out" =>
                           entrant'[d].root \in Roots /\ Sealed(entrant'[d].root)
                      /\ entrant'[d].at \in {"verified", "owns"} =>
                           /\ entrant'[d].via = "probe" \/ study[entrant'[d].root].plan # "probe"
                           /\ study[entrant'[d].root].lineage = "available"
                                => entrant'[d].read = "intact"
    BY DEF EntryIsJustified, Past, ScreenRoot, Sealed
  <2>1. CASE d = e BY <2>1 DEF AttemptInv, AttemptTypeOK, Entering, Out
  <2>2. CASE d # e
    <3>1. entrant'[d] = entrant[d] BY <2>2 DEF AttemptInv, AttemptTypeOK
    <3> QED BY <3>1 DEF AttemptInv, EntryIsJustified, Past, ScreenRoot
  <2> QED BY <2>1, <2>2
<1>3. AssessedAreScreens' BY DEF AttemptInv, AssessedAreScreens, Sealed
<1> QED BY <1>1, <1>2, <1>3 DEF AttemptInv

(* What a step may not change holds whenever the processes and the studies stay. *)
LEMMA WorldKeepsAttemptInv ==
  ASSUME AttemptInv, UNCHANGED <<study, entrant>>, AttemptTypeOK', AssessedAreScreens'
  PROVE  AttemptInv'
  BY DEF AttemptInv, EntryIsJustified, Past, ScreenRoot, Sealed

(* A process begins in a sealed root. *)
LEMMA BeginMoves ==
  ASSUME NEW e, NEW r \in Roots, NEW via \in {"launch", "run", "probe"}, Begin(e, r, via)
  PROVE  \E x \in Entering :
           /\ entrant' = [entrant EXCEPT ![e] = x]
           /\ x.at = "started" /\ x.root = r
<1> DEFINE x == [at |-> "started", root |-> r, via |-> via, read |-> "unread"]
<1>1. x \in Entering BY DEF Entering
<1> QED BY <1>1 DEF Begin

(* Every step of sealing, entering and assessing keeps the invariant. *)
LEMMA AttemptStep == AttemptInv /\ [AttemptNext]_attemptVars => AttemptInv'
<1> SUFFICES ASSUME AttemptInv, [AttemptNext]_attemptVars PROVE AttemptInv'
  OBVIOUS
<1> USE AttemptAssumption
<1>1. CASE UNCHANGED attemptVars
  BY <1>1 DEF attemptVars, AttemptInv, AttemptTypeOK, EntryIsJustified, AssessedAreScreens, Past,
        ScreenRoot, Sealed
<1>2. CASE TimePasses \/ EditCheckout \/ PredecessorChanges
  <2>1. UNCHANGED <<study, entrant, evaluated, beaten, halted>>
    BY <1>2 DEF TimePasses, EditCheckout, PredecessorChanges
  <2>2. /\ attemptClock' \in 0..MaxTime /\ predecessor' \in {"intact", "changed", "gone"}
        /\ checkout' \in [code : 1..MaxCode, clean : BOOLEAN]
    <3>1. CASE TimePasses BY <3>1 DEF TimePasses, AttemptInv, AttemptTypeOK
    <3>2. CASE EditCheckout
      <4>1. checkout.code \in 1..MaxCode /\ checkout.clean \in BOOLEAN
        BY DEF AttemptInv, AttemptTypeOK
      <4>2. checkout.code < MaxCode => checkout.code + 1 \in 1..MaxCode BY <4>1
      <4>3. checkout' \in [code : 1..MaxCode, clean : BOOLEAN]
        <5>1. CASE checkout.code < MaxCode /\ checkout' = [code |-> checkout.code + 1, clean |-> FALSE]
          <6> DEFINE n == checkout.code + 1
          <6>1. n \in 1..MaxCode BY <4>2, <5>1
          <6> HIDE DEF n
          <6>2. checkout' = [code |-> n, clean |-> FALSE] BY <5>1 DEF n
          <6> QED BY <6>1, <6>2
        <5>2. CASE checkout' = [checkout EXCEPT !.clean = TRUE]
          BY <5>2 DEF AttemptInv, AttemptTypeOK
        <5> QED BY <3>2, <5>1, <5>2 DEF EditCheckout
      <4> QED BY <3>2, <4>3 DEF EditCheckout, AttemptInv, AttemptTypeOK
    <3>3. CASE PredecessorChanges BY <3>3 DEF PredecessorChanges, AttemptInv, AttemptTypeOK
    <3> QED BY <1>2, <3>1, <3>2, <3>3
  <2>3. AttemptTypeOK' /\ AssessedAreScreens'
    BY <2>1, <2>2 DEF AttemptInv, AttemptTypeOK,
          AssessedAreScreens, Sealed
  <2> QED BY <2>1, <2>3, WorldKeepsAttemptInv
<1>3. ASSUME NEW r \in Roots, Evaluate(r) PROVE AttemptInv'
  <2>1. UNCHANGED <<study, entrant>> /\ AttemptTypeOK' /\ AssessedAreScreens'
    BY <1>3 DEF Evaluate, Evaluable, AttemptInv, AttemptTypeOK, AssessedAreScreens, Sealed
  <2> QED BY <2>1, WorldKeepsAttemptInv
<1>4. ASSUME NEW r \in Roots, NEW start \in 1..MaxTime, NEW s \in {"available", "unavailable"},
             SealAttempt2(r, s, start)
      PROVE  AttemptInv'
  <2>1. SealsOne(r)
    <3>1. SealCollection(r, "screen", s, start, TRUE) BY <1>4 DEF SealAttempt2
    <3>2. "screen" \in Plans /\ s \in Lineages /\ start \in Nat /\ AttemptTypeOK
      BY DEF Plans, Lineages, AttemptInv
    <3> QED BY <3>1, <3>2, SealingSealsOne
  <2> QED BY <1>4, <2>1, SealingKeepsAttemptInv DEF SealAttempt2
<1>5. ASSUME NEW r \in Roots, NEW start \in 1..MaxTime, SealPaperStudy(r, "first", start)
      PROVE  AttemptInv'
  <2>1. SealsOne(r)
    <3>1. SealCollection(r, "screen", "first", start, FALSE) BY <1>5 DEF SealPaperStudy
    <3>2. "screen" \in Plans /\ "first" \in Lineages /\ start \in Nat /\ AttemptTypeOK
      BY DEF Plans, Lineages, AttemptInv
    <3> QED BY <3>1, <3>2, SealingSealsOne
  <2> QED BY <1>5, <2>1, SealingKeepsAttemptInv DEF SealPaperStudy
<1>6. ASSUME NEW r \in Roots, NEW e \in Entrants, ProbeStarts(e, r) PROVE AttemptInv'
  <2>1. SealsOne(r)
    <3>1. SealCollection(r, "probe", "none", attemptClock + 1, FALSE) BY <1>6 DEF ProbeStarts
    <3>2. "probe" \in Plans /\ "none" \in Lineages /\ AttemptTypeOK
      BY DEF Plans, Lineages, AttemptInv
    <3>3. attemptClock + 1 \in Nat BY DEF AttemptInv, AttemptTypeOK
    <3> QED BY <3>1, <3>2, <3>3, SealingSealsOne
  <2>2. PICK x \in Entering : /\ entrant' = [entrant EXCEPT ![e] = x]
                              /\ x.at = "started" /\ x.root = r
    BY <1>6, BeginMoves DEF ProbeStarts
  <2>3. PICK p \in Protocol : study' = [study EXCEPT ![r] = p] BY <2>1 DEF SealsOne
  <2>4. \A y \in Roots : Sealed(y) => study'[y] = study[y]
    BY <2>1, <2>3 DEF AttemptInv, AttemptTypeOK, SealsOne
  <2>5. study'[r] = p BY <2>3 DEF AttemptInv, AttemptTypeOK
  <2>6. study'[r].plan # "none" BY <2>5 DEF Protocol, Plans
  <2>7. AttemptTypeOK' BY <2>1, <2>2, <2>3 DEF AttemptInv, AttemptTypeOK, SealsOne
  <2>8. EntryIsJustified'
    <3> SUFFICES ASSUME NEW d \in Entrants
                 PROVE  /\ entrant'[d].at # "out" =>
                             entrant'[d].root \in Roots /\ study'[entrant'[d].root].plan # "none"
                        /\ entrant'[d].at \in {"verified", "owns"} =>
                             /\ entrant'[d].via = "probe" \/ study'[entrant'[d].root].plan # "probe"
                             /\ study'[entrant'[d].root].lineage = "available"
                                  => entrant'[d].read = "intact"
      BY DEF EntryIsJustified, Past, ScreenRoot, Sealed
    <3>1. CASE d = e
      <4>1. entrant'[d] = x BY <3>1, <2>2 DEF AttemptInv, AttemptTypeOK
      <4> QED BY <4>1, <2>2, <2>6
    <3>2. CASE d # e
      <4>1. entrant'[d] = entrant[d] BY <3>2, <2>2 DEF AttemptInv, AttemptTypeOK
      <4> QED BY <4>1, <2>4 DEF AttemptInv, EntryIsJustified, Past, ScreenRoot, Sealed
    <3> QED BY <3>1, <3>2
  <2>9. AssessedAreScreens'
    BY <2>1, <2>4 DEF AttemptInv, AssessedAreScreens, AttemptTypeOK, SealsOne, Sealed
  <2> QED BY <2>7, <2>8, <2>9 DEF AttemptInv
<1>7. ASSUME NEW r \in Roots, NEW e \in Entrants, LaunchAttempt2(e, r) \/ RunByHand(e, r)
      PROVE  AttemptInv'
  <2>1. PICK x \in Entering : /\ entrant' = [entrant EXCEPT ![e] = x]
                              /\ x.at = "started" /\ x.root = r
    BY <1>7, BeginMoves DEF LaunchAttempt2, RunByHand
  <2>2. Sealed(r) BY <1>7 DEF LaunchAttempt2, RunByHand
  <2>3. UNCHANGED <<attemptClock, checkout, predecessor, study, beaten, halted, evaluated>>
    BY <1>7 DEF LaunchAttempt2, RunByHand
  <2>4. halted' \in [Roots -> {"no", "provenance", "collection"}] /\ beaten' \subseteq Roots
    BY <2>3 DEF AttemptInv, AttemptTypeOK
  <2> QED BY <2>1, <2>2, <2>3, <2>4, EntrantMoves
<1>8. ASSUME NEW e \in Entrants, ReadProtocol(e) PROVE AttemptInv'
  <2> DEFINE r == entrant[e].root
  <2>1. entrant[e] \in Entering /\ r \in Roots /\ Sealed(r)
    BY <1>8 DEF ReadProtocol, AttemptInv, AttemptTypeOK, EntryIsJustified, Out
  <2>2. halted' \in [Roots -> {"no", "provenance", "collection"}] /\ beaten' \subseteq Roots
    BY <1>8 DEF ReadProtocol, AttemptInv, AttemptTypeOK
  <2>3. UNCHANGED <<attemptClock, checkout, predecessor, study, evaluated>>
    BY <1>8 DEF ReadProtocol
  <2>4. CASE ScreenRoot(e) /\ LineageHolds(r)
    <3> DEFINE x == [entrant[e] EXCEPT !.at = "verified", !.read =
                       IF predecessor = "intact" THEN "intact" ELSE "unread"]
    <3>1. entrant' = [entrant EXCEPT ![e] = x] BY <1>8, <2>4 DEF ReadProtocol
    <3>2. /\ x \in Entering /\ x.root = r /\ x.via = entrant[e].via
          /\ x.read = IF predecessor = "intact" THEN "intact" ELSE "unread"
      BY <2>1 DEF Entering
    <3>3. /\ x.via = "probe" \/ study[x.root].plan # "probe"
          /\ study[x.root].lineage = "available" => x.read = "intact"
      BY <2>4, <3>2 DEF ScreenRoot, LineageHolds, VerifyPredecessorRoot
    <3> HIDE DEF x
    <3> QED BY <2>1, <2>2, <2>3, <3>1, <3>2, <3>3, EntrantMoves
  <2>5. CASE ~(ScreenRoot(e) /\ LineageHolds(r))
    <3>1. entrant' = [entrant EXCEPT ![e] = Out] BY <1>8, <2>5 DEF ReadProtocol
    <3>2. Out.at = "out" BY DEF Out
    <3> QED BY <2>2, <2>3, <3>1, <3>2, EntrantMoves
  <2> QED BY <2>4, <2>5
<1>9. ASSUME NEW e \in Entrants, TakeLock(e) \/ OwnerEnds(e) PROVE AttemptInv'
  <2> DEFINE r == entrant[e].root
  <2>1. entrant[e] \in Entering /\ r \in Roots /\ Sealed(r)
    BY <1>9 DEF TakeLock, OwnerEnds, AttemptInv, AttemptTypeOK, EntryIsJustified, Out
  <2>2. halted' \in [Roots -> {"no", "provenance", "collection"}] /\ beaten' \subseteq Roots
    BY <1>9, <2>1 DEF TakeLock, OwnerEnds, AttemptInv, AttemptTypeOK
  <2>3. UNCHANGED <<attemptClock, checkout, predecessor, study, evaluated>>
    BY <1>9 DEF TakeLock, OwnerEnds
  <2>4. CASE entrant' = [entrant EXCEPT ![e] = Out]
    <3>1. Out.at = "out" BY DEF Out
    <3> QED BY <2>2, <2>3, <2>4, <3>1, EntrantMoves
  <2>5. CASE TakeLock(e) /\ entrant' = [entrant EXCEPT ![e] = [@ EXCEPT !.at = "owns"]]
    <3> DEFINE x == [entrant[e] EXCEPT !.at = "owns"]
    <3>1. /\ x \in Entering /\ x.root = r /\ x.via = entrant[e].via /\ x.read = entrant[e].read
      BY <2>1 DEF Entering
    <3>2. /\ x.via = "probe" \/ study[x.root].plan # "probe"
          /\ study[x.root].lineage = "available" => x.read = "intact"
      BY <2>5, <3>1 DEF TakeLock, AttemptInv, EntryIsJustified, Past, ScreenRoot
    <3>3. entrant' = [entrant EXCEPT ![e] = x] BY <2>5
    <3> HIDE DEF x
    <3> QED BY <2>1, <2>2, <2>3, <3>1, <3>2, <3>3, EntrantMoves
  <2> QED BY <1>9, <2>4, <2>5 DEF TakeLock, OwnerEnds
<1> QED
  BY <1>1, <1>2, <1>3, <1>4, <1>5, <1>6, <1>7, <1>8, <1>9 DEF AttemptNext

(* No step but taking the lock makes an owner, and taking it passes the guard. *)
LEMMA AttemptStepStartsUnderSeal ==
  ASSUME AttemptInv, [AttemptNext]_attemptVars PROVE StartsUnderSealedSource
<1> SUFFICES ASSUME NEW e \in Entrants, entrant[e].at # "owns", entrant'[e].at = "owns"
             PROVE  /\ study[entrant'[e].root].code = checkout.code
                    /\ halted[entrant'[e].root] = "no"
                    /\ Owners(entrant'[e].root) = {}
  BY DEF StartsUnderSealedSource
<1>0. entrant \in [Entrants -> Entering \cup {Out}] BY DEF AttemptInv, AttemptTypeOK
<1>1. \A d \in Entrants, r \in Roots, via \in {"launch", "run", "probe"} : ~Begin(d, r, via)
  BY <1>0 DEF Begin, Out
<1>2. entrant' # entrant OBVIOUS
<1>3. PICK d \in Entrants : ReadProtocol(d) \/ TakeLock(d) \/ OwnerEnds(d)
  BY <1>1, <1>2 DEF AttemptNext, attemptVars, TimePasses, EditCheckout, PredecessorChanges,
        Evaluate, SealAttempt2, SealPaperStudy, ProbeStarts, LaunchAttempt2, RunByHand
<1>4. TakeLock(d) /\ d = e
  <2>1. ~ReadProtocol(d)
    <3>1. ASSUME ReadProtocol(d)
          PROVE  \E x : entrant' = [entrant EXCEPT ![d] = x] /\ x.at \in {"verified", "out"}
      <4>1. entrant[d] \in Entering BY <1>0, <3>1 DEF ReadProtocol, Out
      <4> QED BY <3>1, <4>1 DEF ReadProtocol, Entering, Out
    <3> QED BY <1>0, <3>1
  <2>2. ~OwnerEnds(d) BY <1>0 DEF OwnerEnds, Out
  <2>3. TakeLock(d) BY <1>3, <2>1, <2>2
  <2>4. \A c \in Entrants : c # d => entrant'[c] = entrant[c] BY <1>0, <2>3 DEF TakeLock
  <2> QED BY <2>3, <2>4
<1>5. entrant[e] \in Entering BY <1>0, <1>4 DEF TakeLock, Out
<1>6. entrant' # [entrant EXCEPT ![e] = Out] BY <1>0 DEF Out
<1>7. /\ Owners(entrant[e].root) = {} /\ Guard(entrant[e].root)
      /\ entrant' = [entrant EXCEPT ![e] = [@ EXCEPT !.at = "owns"]]
  BY <1>4, <1>6 DEF TakeLock
<1>8. entrant'[e].root = entrant[e].root BY <1>0, <1>5, <1>7 DEF Entering
<1> QED BY <1>7, <1>8 DEF Guard

(* The invariant says what the two state properties ask of owners and assessments. *)
LEMMA AttemptInvImplies ==
  ASSUME AttemptInv PROVE OwnerHasReadPredecessor /\ ProbeIsNeverAScreen
  BY DEF AttemptInv, EntryIsJustified, AssessedAreScreens, OwnerHasReadPredecessor,
        ProbeIsNeverAScreen, Owners, Past, ScreenRoot

(* The invariant of the lineage: a process past the protocol is in a sealed    *)
(* root that it may enter and has read the predecessor the seal calls          *)
(* available; an assessment belongs to a sealed screen.                        *)
THEOREM AttemptLineageInvariant == AttemptSpec => []AttemptInv
<1>1. AttemptInit => AttemptInv BY AttemptInitially
<1>2. AttemptInv /\ [AttemptNext]_attemptVars => AttemptInv' BY AttemptStep
<1> QED BY <1>1, <1>2, PTL DEF AttemptSpec

(* Whatever processes race for a root and however checkout, clock and          *)
(* predecessor change meanwhile: who collects for a second attempt has read    *)
(* the intact predecessor, no probe's root is assessed, and collection starts  *)
(* under the sealed source, in a root that has not halted and has no owner     *)
(* (read_protocol, collector lock and guard).                                  *)
THEOREM CollectionAlwaysTheSealedOne == AttemptSpec => CollectionIsTheSealedOne
<1>1. AttemptInv /\ AttemptInv' /\ [AttemptNext]_attemptVars
        => [OwnerHasReadPredecessor' /\ ProbeIsNeverAScreen' /\ StartsUnderSealedSource]_attemptVars
  <2> SUFFICES ASSUME AttemptInv, AttemptInv', [AttemptNext]_attemptVars
               PROVE  OwnerHasReadPredecessor' /\ ProbeIsNeverAScreen' /\ StartsUnderSealedSource
    OBVIOUS
  <2>1. (OwnerHasReadPredecessor /\ ProbeIsNeverAScreen)' BY AttemptInvImplies, PTL
  <2> QED BY <2>1, AttemptStepStartsUnderSeal
<1>2. AttemptSpec => []AttemptInv BY AttemptLineageInvariant
<1> QED BY <1>1, <1>2, PTL DEF AttemptSpec, CollectionIsTheSealedOne

-----------------------------------------------------------------------------
(***************************************************************************)
(* The shared portfolio policy, from its training to its decisions, for    *)
(* every number of rollouts, steps, codes, environments, scenarios and     *)
(* edits.                                                                  *)
(*                                                                         *)
(* The argument: the records of an attempt stay attributed, versioned,     *)
(* ordered and dense whatever step of the training comes next, because a   *)
(* live training knows how far its records go: the rollout under way has   *)
(* drawn its samples from the checkpoint before it, its join wrapper has   *)
(* joined a prefix of them, and the rollouts after it have none.  A        *)
(* training that returned takes no further step, so everything that        *)
(* publishes, loads, decides or edits comes after it and meets records     *)
(* that no longer move except by an edit.                                  *)
(***************************************************************************)

(* Program points of a training that runs, inside and between its rollouts, and the others. *)
LivePoints ==
  {"created", "start", "reset", "forward", "step", "stepped", "end", "train", "finish"}
InRollout == {"reset", "forward", "step", "stepped", "end"}
BetweenRollouts == {"created", "start", "finish"}
EndPoints == {"idle", "refused", "raised", "failed", "dead", "done"}

JoinRecords == [rollout : 1..Rollouts, sample : Nat, native : Nat, action : Codes]
EventNames == {"episode_interrupted", "episode_started", "episode_reset", "step_started",
               "step_result", "step_failed"}
NativeEvents == [event : EventNames, action : Codes \cup {NoFile}]
SampleRecords == [version : Nat, action : Codes]

JoinsIn(a, r) == {i \in DOMAIN a.joins : a.joins[i].rollout = r}
Drawn(a, r) == {a.joins[i].sample : i \in JoinsIn(a, r)}
Results(native) == {i \in DOMAIN native : native[i].event = "step_result"}

(* The files of an attempt. *)
AttemptShape(a) ==
  /\ DOMAIN a = {"root", "manifest", "context", "checkpoints", "started", "completed",
                 "samples", "native", "joins", "completion", "failure"}
  /\ DOMAIN a.checkpoints = 0..Rollouts
  /\ DOMAIN a.started = 1..Rollouts
  /\ DOMAIN a.completed = 1..Rollouts
  /\ a.samples \in [1..Rollouts -> Seq(SampleRecords)]
  /\ a.native \in Seq(NativeEvents)
  /\ a.joins \in Seq(JoinRecords)

\* Every join names a sample and a native result of its action.
Attributed(a) ==
  \A i \in DOMAIN a.joins :
    LET j == a.joins[i]
    IN /\ j.sample \in DOMAIN a.samples[j.rollout]
       /\ a.samples[j.rollout][j.sample].action = j.action
       /\ j.native + 1 \in DOMAIN a.native
       /\ a.native[j.native + 1] = Event("step_result", j.action)

\* The samples of a rollout were drawn from the checkpoint before it.
Versioned(a) ==
  \A r \in 1..Rollouts : \A k \in DOMAIN a.samples[r] :
    /\ a.samples[r][k].version = r - 1
    /\ a.started[r].version = r - 1
    /\ a.checkpoints[r - 1] = r - 1

Ordered(a) ==
  \A i, k \in DOMAIN a.joins : i < k =>
    /\ a.joins[i].native < a.joins[k].native
    /\ a.joins[i].rollout = a.joins[k].rollout => a.joins[i].sample < a.joins[k].sample

\* No sample of a rollout is skipped.
Dense(a) ==
  \A r \in 1..Rollouts : Drawn(a, r) = 1..Cardinality(JoinsIn(a, r))

RecordsInv(a) == AttemptShape(a) /\ Attributed(a) /\ Versioned(a) /\ Ordered(a) /\ Dense(a)

(* How far the records of a running training go, and what its process remembers of them. *)
LiveInv ==
  /\ trainer.rollout \in 0..Rollouts
  /\ trainer.weights \in Nat
  /\ trainer.weights = IF trainer.pc \in BetweenRollouts THEN trainer.rollout
                       ELSE trainer.rollout - 1
  /\ trainer.pc \in {"created", "start"} => trainer.rollout < Rollouts
  /\ trainer.checkpoint = trainer.weights
  /\ \A k \in 0..trainer.weights : attempt.checkpoints[k] = k
  /\ \A r \in 1..trainer.rollout :
       attempt.started[r].version = r - 1 /\ attempt.started[r].checkpoint = r - 1
  /\ \A r \in 1..Rollouts :
       /\ r > trainer.rollout => attempt.samples[r] = <<>> /\ JoinsIn(attempt, r) = {}
       /\ attempt.completed[r] # NoFile =>
            /\ r <= trainer.weights
            /\ attempt.completed[r].checkpoint = r
            /\ Cardinality(JoinsIn(attempt, r)) = NSteps
            /\ Len(attempt.samples[r]) = NSteps
  /\ Cardinality(Results(attempt.native)) = Len(attempt.joins)
  /\ trainer.pc \in InRollout =>
       /\ sampler.count = Len(attempt.samples[trainer.rollout])
       /\ joiner.rollout = trainer.rollout
       /\ joiner.lastSample = Cardinality(JoinsIn(attempt, trainer.rollout))
  /\ trainer.pc = "step" =>
       /\ sampler.count >= 1
       /\ sampler.latest.action = attempt.samples[trainer.rollout][sampler.count].action
  /\ trainer.pc = "train" =>
       /\ Cardinality(JoinsIn(attempt, trainer.rollout)) = NSteps
       /\ Len(attempt.samples[trainer.rollout]) = NSteps

(* The fields of the process, its journal and its wrapper. *)
TrainingShapes ==
  /\ DOMAIN trainer = {"pc", "weights", "steps", "rollout", "closed", "rootOpen", "checkpoint",
                       "optimizer", "submitted", "config", "extra"}
  /\ DOMAIN sampler = {"state", "count", "latest", "version", "hooks"}
  /\ DOMAIN joiner = {"poisoned", "rollout", "lastSample", "joined", "lastNative"}
  /\ trainer.pc \in LivePoints \cup EndPoints

(* Only the creation of an attempt makes its root, and only its end completes it. *)
RootInv ==
  /\ attempt.root \in BOOLEAN
  /\ trainer.pc \notin {"idle", "refused"} => attempt.root = TRUE
  /\ attempt.root = FALSE => attempt = NoAttempt
  /\ trainer.pc = "idle" => trainer = IdleTrainer
  /\ trainer.pc # "done" => attempt.completion = NoFile

(* The inductive invariant of the training. *)
TrainingInv ==
  /\ TrainingShapes
  /\ RecordsInv(attempt)
  /\ RootInv
  /\ trainer.pc \in LivePoints => LiveInv
  /\ trainer.pc = "done" => trainer.checkpoint = Rollouts /\ CompletionIsWhole

(* What a loader holds is the fitted context and the last checkpoint. *)
LoaderInv ==
  /\ DOMAIN loader = {"pc", "kind", "scenario", "context", "binding", "policy", "poisoned"}
  /\ loader.pc \in {"idle", "verified", "loaded", "refused"}
  /\ loader.kind \in {"plain", "scenario"}
  /\ loader.policy \in {NoFile, Rollouts}
  /\ loader.pc = "loaded" => loader.policy = Rollouts
  /\ loader.pc \in {"verified", "loaded"} =>
       /\ trainer.pc = "done"
       /\ loader.context.transform = FittedTransform
       /\ loader.context.cost = TrainCost
       /\ loader.binding.start \in Int

(* The inductive invariant of everything: before the first edit the records are sound, and  *)
(* whatever publishes, loads, decides or edits comes after a training that returned.        *)
PolicyInv ==
  /\ edits \in Nat
  /\ edits # 0 => trainer.pc = "done"
  /\ edits = 0 => TrainingInv
  /\ trainer.pc = "done" => trainer.checkpoint = Rollouts
  /\ DOMAIN publisher = {"pc"}
  /\ publisher.pc # "idle" => trainer.pc = "done"
  /\ LoaderInv
  /\ DecidesWithTheTrainedPolicy

-----------------------------------------------------------------------------
(* Lemmas.                                                                  *)

(* The joins of a rollout can be counted. *)
LEMMA JoinsFinite ==
  ASSUME NEW a, NEW r, AttemptShape(a)
  PROVE  IsFiniteSet(JoinsIn(a, r)) /\ Cardinality(JoinsIn(a, r)) \in Nat
<1>1. Len(a.joins) \in Nat /\ DOMAIN a.joins = 1..Len(a.joins)
  BY DEF AttemptShape
<1>2. IsFiniteSet(1..Len(a.joins))
  BY <1>1, FS_Interval
<1>3. JoinsIn(a, r) \subseteq 1..Len(a.joins)
  BY <1>1 DEF JoinsIn
<1> QED
  BY <1>2, <1>3, FS_Subset, FS_CardinalityType

(* The fields of a join. *)
LEMMA JoinTypes ==
  ASSUME NEW a, AttemptShape(a), NEW i \in DOMAIN a.joins
  PROVE  /\ a.joins[i].rollout \in 1..Rollouts /\ a.joins[i].sample \in Nat
         /\ a.joins[i].native \in Nat /\ a.joins[i].action \in Codes
<1>1. a.joins \in Seq(JoinRecords)
  BY DEF AttemptShape
<1>2. a.joins[i] \in JoinRecords
  BY <1>1
<1> QED
  BY <1>2 DEF JoinRecords

(* An event of the native journal. *)
LEMMA EventTypes ==
  ASSUME NEW name \in EventNames, NEW code \in Codes \cup {NoFile}
  PROVE  Event(name, code) \in NativeEvents /\ Event(name, code).event = name
BY DEF NativeEvents, Event

(* Nothing but the events of the journal grows: the records stay as good as they were. *)
LEMMA RecordsExtend ==
  ASSUME NEW a, NEW b, NEW es \in Seq(NativeEvents), RecordsInv(a),
         DOMAIN b = DOMAIN a, b.native = a.native \o es,
         b.joins = a.joins, b.samples = a.samples,
         DOMAIN b.checkpoints = 0..Rollouts, DOMAIN b.started = 1..Rollouts,
         DOMAIN b.completed = 1..Rollouts,
         \A r \in 1..Rollouts : a.samples[r] # <<>> =>
           /\ b.started[r].version = a.started[r].version
           /\ b.checkpoints[r - 1] = a.checkpoints[r - 1]
  PROVE  RecordsInv(b)
<1>1. AttemptShape(b)
  <2>1. a.native \o es \in Seq(NativeEvents)
    BY DEF RecordsInv, AttemptShape
  <2> QED
    BY <2>1 DEF RecordsInv, AttemptShape
<1>2. Attributed(b)
  <2> SUFFICES ASSUME NEW i \in DOMAIN b.joins
               PROVE  LET j == b.joins[i]
                      IN /\ j.sample \in DOMAIN b.samples[j.rollout]
                         /\ b.samples[j.rollout][j.sample].action = j.action
                         /\ j.native + 1 \in DOMAIN b.native
                         /\ b.native[j.native + 1] = Event("step_result", j.action)
    BY DEF Attributed
  <2> DEFINE j == a.joins[i]
  <2>1. j = b.joins[i] /\ i \in DOMAIN a.joins
    OBVIOUS
  <2>2. /\ j.sample \in DOMAIN a.samples[j.rollout]
        /\ a.samples[j.rollout][j.sample].action = j.action
        /\ j.native + 1 \in DOMAIN a.native
        /\ a.native[j.native + 1] = Event("step_result", j.action)
    BY <2>1 DEF RecordsInv, Attributed
  <2>3. j.native + 1 \in DOMAIN b.native /\ b.native[j.native + 1] = a.native[j.native + 1]
    <3> HIDE DEF j
    <3>1. a.native \in Seq(NativeEvents)
      BY DEF RecordsInv, AttemptShape
    <3> QED
      BY <3>1, <2>2
  <2> QED
    BY <2>1, <2>2, <2>3
<1>3. Versioned(b)
  <2> SUFFICES ASSUME NEW r \in 1..Rollouts, NEW k \in DOMAIN b.samples[r]
               PROVE  /\ b.samples[r][k].version = r - 1
                      /\ b.started[r].version = r - 1
                      /\ b.checkpoints[r - 1] = r - 1
    BY DEF Versioned
  <2>1. a.samples[r] # <<>>
    BY DEF RecordsInv, AttemptShape
  <2>2. /\ a.samples[r][k].version = r - 1
        /\ a.started[r].version = r - 1
        /\ a.checkpoints[r - 1] = r - 1
    BY DEF RecordsInv, Versioned
  <2> QED
    BY <2>1, <2>2
<1>4. Ordered(b)
  BY DEF RecordsInv, Ordered
<1>5. Dense(b)
  BY DEF RecordsInv, Dense, Drawn, JoinsIn
<1> QED
  BY <1>1, <1>2, <1>3, <1>4, <1>5 DEF RecordsInv

(* b is a with new samples of rollout r. *)
SampledOnto(a, b, r, new) ==
  /\ r \in 1..Rollouts /\ new \in Seq(SampleRecords) /\ RecordsInv(a)
  /\ DOMAIN b = DOMAIN a /\ b.joins = a.joins /\ b.native = a.native /\ b.started = a.started
  /\ b.checkpoints = a.checkpoints /\ b.completed = a.completed
  /\ b.samples = [a.samples EXCEPT ![r] = a.samples[r] \o new]
  /\ \A k \in DOMAIN new : new[k].version = r - 1
  /\ a.started[r].version = r - 1 /\ a.checkpoints[r - 1] = r - 1

(* A forward adds samples of its checkpoint to the rollout under way.        *)
LEMMA RecordsSampled ==
  ASSUME NEW a, NEW b, NEW r, NEW new, SampledOnto(a, b, r, new)
  PROVE  /\ RecordsInv(b)
         /\ b.samples[r] = a.samples[r] \o new
         /\ \A q \in 1..Rollouts : q # r => b.samples[q] = a.samples[q]
<1> USE DEF SampledOnto
<1>0. a.samples \in [1..Rollouts -> Seq(SampleRecords)] /\ a.samples[r] \in Seq(SampleRecords)
  BY DEF RecordsInv, AttemptShape
<1> DEFINE more == a.samples[r] \o new
<1>1. more \in Seq(SampleRecords) /\ b.samples = [a.samples EXCEPT ![r] = more]
  BY <1>0
<1>2. /\ \A k \in DOMAIN a.samples[r] : k \in DOMAIN more /\ more[k] = a.samples[r][k]
      /\ \A k \in DOMAIN more :
           k \notin DOMAIN a.samples[r] =>
             k - Len(a.samples[r]) \in DOMAIN new /\ more[k] = new[k - Len(a.samples[r])]
  <2> DEFINE s == a.samples[r]
  <2>1. s \in Seq(SampleRecords)
    BY <1>0
  <2> HIDE DEF s
  <2>2. /\ \A k \in DOMAIN s : k \in DOMAIN (s \o new) /\ (s \o new)[k] = s[k]
        /\ \A k \in DOMAIN (s \o new) :
             k \notin DOMAIN s => k - Len(s) \in DOMAIN new /\ (s \o new)[k] = new[k - Len(s)]
    BY <2>1
  <2> QED
    BY <2>2 DEF s
<1>3. more = a.samples[r] \o new
  OBVIOUS
<1> HIDE DEF more
<1>4. /\ b.samples \in [1..Rollouts -> Seq(SampleRecords)]
      /\ b.samples[r] = more
      /\ \A q \in 1..Rollouts : q # r => b.samples[q] = a.samples[q]
  BY <1>0, <1>1
<1>5. ASSUME NEW q \in 1..Rollouts, NEW k \in DOMAIN a.samples[q]
      PROVE  k \in DOMAIN b.samples[q] /\ b.samples[q][k] = a.samples[q][k]
  <2>1. CASE q = r
    BY <2>1, <1>4, <1>2
  <2>2. CASE q # r
    BY <2>2, <1>4
  <2> QED
    BY <2>1, <2>2
<1>6. AttemptShape(b)
  BY <1>4 DEF RecordsInv, AttemptShape
<1>7. Attributed(b)
  <2> SUFFICES ASSUME NEW i \in DOMAIN b.joins
               PROVE  LET j == b.joins[i]
                      IN /\ j.sample \in DOMAIN b.samples[j.rollout]
                         /\ b.samples[j.rollout][j.sample].action = j.action
                         /\ j.native + 1 \in DOMAIN b.native
                         /\ b.native[j.native + 1] = Event("step_result", j.action)
    BY DEF Attributed
  <2> DEFINE j == a.joins[i]
  <2>1. j = b.joins[i] /\ i \in DOMAIN a.joins
    OBVIOUS
  <2>2. /\ j.sample \in DOMAIN a.samples[j.rollout]
        /\ a.samples[j.rollout][j.sample].action = j.action
        /\ j.native + 1 \in DOMAIN a.native
        /\ a.native[j.native + 1] = Event("step_result", j.action)
    BY <2>1 DEF RecordsInv, Attributed
  <2>3. j.rollout \in 1..Rollouts
    BY <2>1, JoinTypes DEF RecordsInv
  <2>4. /\ j.sample \in DOMAIN b.samples[j.rollout]
        /\ b.samples[j.rollout][j.sample] = a.samples[j.rollout][j.sample]
    <3> HIDE DEF j
    <3> QED
      BY <2>2, <2>3, <1>5
  <2> QED
    BY <2>1, <2>2, <2>4
<1>8. Versioned(b)
  <2> SUFFICES ASSUME NEW q \in 1..Rollouts, NEW k \in DOMAIN b.samples[q]
               PROVE  /\ b.samples[q][k].version = q - 1
                      /\ b.started[q].version = q - 1
                      /\ b.checkpoints[q - 1] = q - 1
    BY DEF Versioned
  <2>1. CASE q # r
    BY <2>1, <1>4 DEF RecordsInv, Versioned
  <2>2. CASE q = r
    <3>1. CASE k \in DOMAIN a.samples[r]
      BY <3>1, <1>5, <2>2 DEF RecordsInv, Versioned
    <3>2. CASE k \notin DOMAIN a.samples[r]
      <4>1. k \in DOMAIN more /\ b.samples[q][k] = more[k]
        BY <1>4, <2>2
      <4>2. k - Len(a.samples[r]) \in DOMAIN new /\ more[k] = new[k - Len(a.samples[r])]
        BY <4>1, <3>2, <1>2
      <4>3. more[k].version = r - 1
        BY <4>2
      <4> QED
        BY <4>1, <4>3, <2>2
    <3> QED
      BY <3>1, <3>2
  <2> QED
    BY <2>1, <2>2
<1>9. Ordered(b) /\ Dense(b)
  BY DEF RecordsInv, Ordered, Dense, Drawn, JoinsIn
<1> QED
  BY <1>3, <1>4, <1>6, <1>7, <1>8, <1>9 DEF RecordsInv

(* b is a with one more native step of rollout r and its join. *)
JoinedOnto(a, b, r, n, code) ==
  /\ r \in 1..Rollouts /\ n \in Nat /\ code \in Codes /\ RecordsInv(a)
  /\ DOMAIN b = DOMAIN a /\ b.started = a.started /\ b.checkpoints = a.checkpoints
  /\ b.completed = a.completed /\ b.samples = a.samples
  /\ b.native = a.native \o <<Event("step_started", code), Event("step_result", code)>>
  /\ b.joins = Append(a.joins, [rollout |-> r, sample |-> n + 1,
                               native |-> Len(a.native) + 1, action |-> code])
  /\ n = Cardinality(JoinsIn(a, r))
  /\ n + 1 \in DOMAIN a.samples[r] /\ a.samples[r][n + 1].action = code

(* A join adds the next sample of the rollout under way and the native step just written. *)
LEMMA RecordsJoined ==
  ASSUME NEW a, NEW b, NEW r, NEW n, NEW code, JoinedOnto(a, b, r, n, code)
  PROVE  /\ RecordsInv(b)
         /\ Cardinality(JoinsIn(b, r)) = n + 1
         /\ \A q \in 1..Rollouts : q # r => JoinsIn(b, q) = JoinsIn(a, q)
         /\ Len(b.joins) = Len(a.joins) + 1
<1> USE DEF JoinedOnto
<1> DEFINE new == [rollout |-> r, sample |-> n + 1, native |-> Len(a.native) + 1, action |-> code]
           m == Len(a.joins) + 1
           e1 == Event("step_started", code)
           e2 == Event("step_result", code)
<1>0. /\ a.joins \in Seq(JoinRecords) /\ a.native \in Seq(NativeEvents)
      /\ Len(a.joins) \in Nat /\ Len(a.native) \in Nat
  BY DEF RecordsInv, AttemptShape
<1>1. new \in JoinRecords /\ e1 \in NativeEvents /\ e2 \in NativeEvents
  <2>1. new \in JoinRecords
    <3>1. n + 1 \in Nat /\ Len(a.native) + 1 \in Nat
      BY <1>0
    <3> DEFINE s == n + 1
               e == Len(a.native) + 1
    <3> HIDE DEF s, e
    <3>2. \A s0, e0 \in Nat :
            [rollout |-> r, sample |-> s0, native |-> e0, action |-> code] \in JoinRecords
      BY DEF JoinRecords
    <3> QED
      BY <3>1, <3>2
  <2>2. {"step_started", "step_result"} \subseteq EventNames
    BY DEF EventNames
  <2> QED
    BY <2>1, <2>2, EventTypes
<1>2. new.rollout = r /\ new.sample = n + 1 /\ new.native = Len(a.native) + 1 /\ new.action = code
  OBVIOUS
<1>3. b.joins = Append(a.joins, new) /\ b.native = a.native \o <<e1, e2>>
  OBVIOUS
<1>4. e2 = Event("step_result", code)
  OBVIOUS
<1>5. m = Len(a.joins) + 1 /\ m \in Nat
  BY <1>0
<1> HIDE DEF new, m, e1, e2
<1>6. /\ b.joins \in Seq(JoinRecords) /\ Len(b.joins) = m /\ DOMAIN b.joins = 1..m
      /\ b.joins[m] = new
      /\ \A i \in DOMAIN a.joins : i \in 1..m /\ i # m /\ b.joins[i] = a.joins[i]
      /\ \A i \in 1..m : i # m => i \in DOMAIN a.joins
  <2> DEFINE s == a.joins
  <2>1. s \in Seq(JoinRecords) /\ m = Len(s) + 1 /\ Len(s) \in Nat
    BY <1>0, <1>5
  <2>2. b.joins = Append(s, new)
    BY <1>3
  <2> HIDE DEF s
  <2>3. /\ Append(s, new) \in Seq(JoinRecords) /\ Len(Append(s, new)) = m
        /\ Append(s, new)[m] = new
        /\ \A i \in 1..Len(s) : Append(s, new)[i] = s[i]
    BY <2>1, <1>1
  <2>4. DOMAIN s = 1..Len(s) /\ DOMAIN Append(s, new) = 1..m
    BY <2>1, <2>3
  <2>5. \A i \in 1..Len(s) : i \in 1..m /\ i # m
    BY <2>1
  <2>6. \A i \in 1..m : i # m => i \in 1..Len(s)
    BY <2>1
  <2> QED
    BY <2>2, <2>3, <2>4, <2>5, <2>6 DEF s
<1>7. /\ b.native \in Seq(NativeEvents) /\ Len(b.native) = Len(a.native) + 2
      /\ b.native[Len(a.native) + 2] = e2
      /\ \A i \in DOMAIN a.native : i \in DOMAIN b.native /\ b.native[i] = a.native[i]
  BY <1>0, <1>1, <1>3
<1>8. AttemptShape(b)
  BY <1>6, <1>7 DEF RecordsInv, AttemptShape
<1>9. Attributed(b)
  <2> SUFFICES ASSUME NEW i \in DOMAIN b.joins
               PROVE  LET j == b.joins[i]
                      IN /\ j.sample \in DOMAIN b.samples[j.rollout]
                         /\ b.samples[j.rollout][j.sample].action = j.action
                         /\ j.native + 1 \in DOMAIN b.native
                         /\ b.native[j.native + 1] = Event("step_result", j.action)
    BY DEF Attributed
  <2>1. CASE i = m
    <3>1. b.joins[i] = new
      BY <2>1, <1>6
    <3>2. Len(a.native) + 2 \in DOMAIN b.native /\ Len(a.native) + 1 + 1 = Len(a.native) + 2
      BY <1>0, <1>7
    <3> QED
      BY <3>1, <3>2, <1>2, <1>4, <1>7
  <2>2. CASE i # m
    <3>1. i \in DOMAIN a.joins /\ b.joins[i] = a.joins[i]
      BY <2>2, <1>6
    <3> QED
      BY <3>1, <1>7 DEF RecordsInv, Attributed
  <2> QED
    BY <2>1, <2>2
<1>10. Versioned(b)
  BY DEF RecordsInv, Versioned
<1>11. /\ JoinsIn(b, r) = JoinsIn(a, r) \cup {m} /\ m \notin JoinsIn(a, r)
       /\ \A q \in 1..Rollouts : q # r => JoinsIn(b, q) = JoinsIn(a, q)
  <2>1. \A q : q # r => JoinsIn(b, q) = JoinsIn(a, q)
    BY <1>2, <1>6 DEF JoinsIn
  <2>2. JoinsIn(b, r) = JoinsIn(a, r) \cup {m} /\ m \notin JoinsIn(a, r)
    BY <1>2, <1>5, <1>6 DEF JoinsIn
  <2> QED
    BY <2>1, <2>2
<1>12. Cardinality(JoinsIn(b, r)) = n + 1
  <2>1. IsFiniteSet(JoinsIn(a, r))
    BY JoinsFinite DEF RecordsInv
  <2> QED
    BY <2>1, <1>11, FS_AddElement
<1>13. \A i \in JoinsIn(a, r) : a.joins[i].sample \in 1..n
  BY DEF RecordsInv, Dense, Drawn
<1>14. Ordered(b)
  <2> SUFFICES ASSUME NEW i \in DOMAIN b.joins, NEW k \in DOMAIN b.joins, i < k
               PROVE  /\ b.joins[i].native < b.joins[k].native
                      /\ b.joins[i].rollout = b.joins[k].rollout =>
                           b.joins[i].sample < b.joins[k].sample
    BY DEF Ordered
  <2>1. i # m /\ i \in DOMAIN a.joins /\ b.joins[i] = a.joins[i]
    BY <1>5, <1>6
  <2>2. CASE k = m
    <3>1. b.joins[k] = new
      BY <2>2, <1>6
    <3>2. a.joins[i].native < new.native
      <4> DEFINE x == a.joins[i].native
                 l == Len(a.native)
      <4>1. x + 1 \in DOMAIN a.native
        BY <2>1 DEF RecordsInv, Attributed
      <4>2. x \in Nat
        BY <2>1, JoinTypes DEF RecordsInv
      <4>3. DOMAIN a.native = 1..l /\ l \in Nat /\ new.native = l + 1
        BY <1>0, <1>2
      <4> HIDE DEF x, l
      <4>4. x < new.native
        BY <4>1, <4>2, <4>3
      <4> QED
        BY <4>4 DEF x
    <3>3. a.joins[i].rollout = r => a.joins[i].sample < n + 1
      <4>1. a.joins[i].rollout = r => a.joins[i].sample \in 1..n
        BY <2>1, <1>13 DEF JoinsIn
      <4> QED
        BY <4>1
    <3> QED
      BY <2>1, <3>1, <3>2, <3>3, <1>2
  <2>3. CASE k # m
    BY <2>1, <2>3, <1>6 DEF RecordsInv, Ordered
  <2> QED
    BY <2>2, <2>3
<1>15. Dense(b)
  <2> SUFFICES ASSUME NEW q \in 1..Rollouts
               PROVE  Drawn(b, q) = 1..Cardinality(JoinsIn(b, q))
    BY DEF Dense
  <2>1. Drawn(a, q) = 1..Cardinality(JoinsIn(a, q))
    BY DEF RecordsInv, Dense
  <2>2. CASE q # r
    <3>1. JoinsIn(b, q) = JoinsIn(a, q)
      BY <2>2, <1>11
    <3>2. \A i \in JoinsIn(a, q) : b.joins[i] = a.joins[i]
      BY <1>6 DEF JoinsIn
    <3>3. Drawn(b, q) = Drawn(a, q)
      BY <3>1, <3>2 DEF Drawn
    <3> QED
      BY <3>1, <3>3, <2>1
  <2>3. CASE q = r
    <3>1. Drawn(b, r) = Drawn(a, r) \cup {n + 1}
      <4>1. \A i \in JoinsIn(a, r) : b.joins[i] = a.joins[i]
        BY <1>6 DEF JoinsIn
      <4>2. b.joins[m].sample = n + 1
        BY <1>2, <1>6
      <4>3. Drawn(b, r) = {b.joins[i].sample : i \in JoinsIn(a, r)} \cup {b.joins[m].sample}
        BY <1>11 DEF Drawn
      <4>4. {b.joins[i].sample : i \in JoinsIn(a, r)} = Drawn(a, r)
        BY <4>1 DEF Drawn
      <4> QED
        BY <4>2, <4>3, <4>4
    <3>2. (1..n) \cup {n + 1} = 1..(n + 1)
      OBVIOUS
    <3> QED
      BY <2>1, <2>3, <3>1, <3>2, <1>12
  <2> QED
    BY <2>2, <2>3
<1> QED
  BY <1>5, <1>6, <1>8, <1>9, <1>10, <1>11, <1>12, <1>14, <1>15 DEF RecordsInv

(* Events that are no step results leave the results as they were.           *)
LEMMA ResultsKept ==
  ASSUME NEW native \in Seq(NativeEvents), NEW es \in Seq(NativeEvents),
         \A i \in DOMAIN es : es[i].event # "step_result"
  PROVE  Results(native \o es) = Results(native)
<1>1. /\ Len(native) \in Nat /\ Len(es) \in Nat
      /\ DOMAIN (native \o es) = 1..(Len(native) + Len(es))
      /\ DOMAIN native = 1..Len(native) /\ DOMAIN es = 1..Len(es)
  OBVIOUS
<1>2. \A i \in DOMAIN native : (native \o es)[i] = native[i]
  OBVIOUS
<1>3. \A i \in DOMAIN (native \o es) : i \notin DOMAIN native =>
        i - Len(native) \in DOMAIN es /\ (native \o es)[i] = es[i - Len(native)]
  OBVIOUS
<1> QED
  BY <1>1, <1>2, <1>3 DEF Results

(* A finished step adds one result.                                          *)
LEMMA ResultsGrow ==
  ASSUME NEW native \in Seq(NativeEvents), NEW code \in Codes
  PROVE  Cardinality(Results(native \o <<Event("step_started", code), Event("step_result", code)>>))
           = Cardinality(Results(native)) + 1
<1> DEFINE e1 == Event("step_started", code)
           e2 == Event("step_result", code)
           n == Len(native)
           grown == native \o <<e1, e2>>
<1>1. e1 \in NativeEvents /\ e2 \in NativeEvents /\ e1.event # "step_result" /\ e2.event = "step_result"
  <2>1. {"step_started", "step_result"} \subseteq EventNames
    BY DEF EventNames
  <2> QED
    BY <2>1, EventTypes
<1>2. n \in Nat /\ DOMAIN native = 1..n
  OBVIOUS
<1> HIDE DEF e1, e2
<1>3. DOMAIN grown = 1..(n + 2) /\ grown[n + 1] = e1 /\ grown[n + 2] = e2
  BY <1>1, <1>2
<1>4. \A i \in 1..n : grown[i] = native[i]
  BY <1>1, <1>2
<1> HIDE DEF grown, n
<1>5. Results(grown) = Results(native) \cup {n + 2} /\ n + 2 \notin Results(native)
  <2>1. \A i : i \in 1..(n + 2) <=> i \in 1..n \/ i = n + 1 \/ i = n + 2
    BY <1>2
  <2>2. n + 2 \notin 1..n
    BY <1>2
  <2> QED
    BY <1>1, <1>2, <1>3, <1>4, <2>1, <2>2 DEF Results
<1>6. IsFiniteSet(Results(native))
  <2>1. IsFiniteSet(1..n) /\ Results(native) \subseteq 1..n
    BY <1>2, FS_Interval DEF Results
  <2> QED
    BY <2>1, FS_Subset
<1>7. Cardinality(Results(grown)) = Cardinality(Results(native)) + 1
  BY <1>5, <1>6, FS_AddElement
<1> QED
  BY <1>7 DEF grown, e1, e2

(* Fewer steps than the last rollout ends at are fewer rollouts.              *)
LEMMA FewerRollouts ==
  ASSUME NEW n \in Nat \ {0}, NEW r \in Nat, NEW m \in Nat, r * n < n * m
  PROVE  r < m
<1> SUFFICES ASSUME r >= m PROVE FALSE
  OBVIOUS
<1>1. PICK d \in Nat : r = m + d
  <2>1. r - m \in Nat /\ r = m + (r - m)
    OBVIOUS
  <2> QED
    BY <2>1
<1>2. r * n = m * n + d * n /\ d * n >= 0
  BY <1>1
<1>3. m * n = n * m
  OBVIOUS
<1> QED
  BY <1>2, <1>3

(* A change of other files leaves the records as good as they were. *)
LEMMA RecordsSame ==
  ASSUME NEW a, NEW b, RecordsInv(a), DOMAIN b = DOMAIN a,
         b.native = a.native, b.joins = a.joins, b.samples = a.samples,
         b.checkpoints = a.checkpoints, b.started = a.started, b.completed = a.completed
  PROVE  RecordsInv(b)
<1>1. a.native = a.native \o <<>> /\ <<>> \in Seq(NativeEvents)
  BY DEF RecordsInv, AttemptShape
<1> QED
  BY <1>1, RecordsExtend DEF RecordsInv, AttemptShape

(* _append_event touches nothing but the native journal. *)
LEMMA AppendedFields ==
  ASSUME NEW a, NEW es, AttemptShape(a)
  PROVE  /\ DOMAIN Appended(a, es) = DOMAIN a
         /\ Appended(a, es).native = a.native \o es
         /\ Appended(a, es).joins = a.joins
         /\ Appended(a, es).samples = a.samples
         /\ Appended(a, es).checkpoints = a.checkpoints
         /\ Appended(a, es).started = a.started
         /\ Appended(a, es).completed = a.completed
         /\ Appended(a, es).completion = a.completion
         /\ Appended(a, es).failure = a.failure
         /\ Appended(a, es).root = a.root
BY DEF Appended, AttemptShape

(* Neither does it harm the records. *)
LEMMA RecordsAppended ==
  ASSUME NEW a, NEW es \in Seq(NativeEvents), RecordsInv(a)
  PROVE  RecordsInv(Appended(a, es))
<1> DEFINE b == Appended(a, es)
<1>1. /\ DOMAIN b = DOMAIN a /\ b.native = a.native \o es
      /\ b.joins = a.joins /\ b.samples = a.samples /\ b.checkpoints = a.checkpoints
      /\ b.started = a.started /\ b.completed = a.completed
  BY AppendedFields DEF RecordsInv
<1> HIDE DEF b
<1>2. RecordsInv(b)
  BY <1>1, RecordsExtend DEF RecordsInv, AttemptShape
<1> QED
  BY <1>2 DEF b

(* The events written when an episode ends or starts are no step results.     *)
LEMMA CutoffEvents ==
  ASSUME NEW e
  PROVE  /\ Cutoff(e) \in Seq(NativeEvents)
         /\ \A i \in DOMAIN Cutoff(e) : Cutoff(e)[i].event # "step_result"
         /\ EpisodesClosed(e) \in Seq(NativeEvents)
         /\ \A i \in DOMAIN EpisodesClosed(e) : EpisodesClosed(e)[i].event # "step_result"
<1> DEFINE x == Event("episode_interrupted", NoFile)
<1>1. x \in NativeEvents /\ x.event = "episode_interrupted"
  BY EventTypes DEF EventNames
<1>2. Cutoff(e) = <<x>> \/ Cutoff(e) = << >>
  BY DEF Cutoff
<1> HIDE DEF x
<1>3. /\ <<x>> \in Seq(NativeEvents) /\ << >> \in Seq(NativeEvents)
      /\ \A i \in DOMAIN <<x>> : <<x>>[i].event # "step_result"
      /\ DOMAIN << >> = {}
  BY <1>1
<1>4. Cutoff(e) \in Seq(NativeEvents) /\ \A i \in DOMAIN Cutoff(e) : Cutoff(e)[i].event # "step_result"
  BY <1>2, <1>3
<1>5. EpisodesClosed(e) = << >> \/ EpisodesClosed(e) = Cutoff(e)
  BY DEF EpisodesClosed
<1> QED
  BY <1>3, <1>4, <1>5

(* What a reset appends is no result. *)
LEMMA ResetEvents ==
  ASSUME NEW e
  PROVE  LET both == Cutoff(e) \o <<Event("episode_started", NoFile), Event("episode_reset", NoFile)>>
             one == Cutoff(e) \o <<Event("episode_started", NoFile)>>
         IN /\ both \in Seq(NativeEvents)
            /\ \A i \in DOMAIN both : both[i].event # "step_result"
            /\ one \in Seq(NativeEvents)
<1> DEFINE x == Event("episode_started", NoFile)
           y == Event("episode_reset", NoFile)
           c == Cutoff(e)
<1>1. x \in NativeEvents /\ x.event = "episode_started" /\ y \in NativeEvents /\ y.event = "episode_reset"
  BY EventTypes DEF EventNames
<1>2. c \in Seq(NativeEvents) /\ \A i \in DOMAIN c : c[i].event # "step_result"
  BY CutoffEvents
<1>3. SUFFICES /\ c \o <<x, y>> \in Seq(NativeEvents)
               /\ \A i \in DOMAIN (c \o <<x, y>>) : (c \o <<x, y>>)[i].event # "step_result"
               /\ c \o <<x>> \in Seq(NativeEvents)
  OBVIOUS
<1> HIDE DEF x, y, c
<1>4. c \o <<x, y>> \in Seq(NativeEvents) /\ c \o <<x>> \in Seq(NativeEvents)
  BY <1>1, <1>2
<1>5. ASSUME NEW i \in DOMAIN (c \o <<x, y>>)
      PROVE  (c \o <<x, y>>)[i].event # "step_result"
  <2>1. CASE i \in DOMAIN c
    <3>1. (c \o <<x, y>>)[i] = c[i]
      BY <2>1, <1>2
    <3> QED
      BY <3>1, <2>1, <1>2
  <2>2. CASE i \notin DOMAIN c
    <3>1. (c \o <<x, y>>)[i] = x \/ (c \o <<x, y>>)[i] = y
      <4>1. Len(c) \in Nat /\ DOMAIN c = 1..Len(c) /\ DOMAIN (c \o <<x, y>>) = 1..(Len(c) + 2)
        BY <1>2
      <4>2. i = Len(c) + 1 \/ i = Len(c) + 2
        BY <4>1, <2>2, <1>5
      <4> QED
        BY <4>1, <4>2, <1>1, <1>2
    <3> QED
      BY <3>1, <1>1
  <2> QED
    BY <2>1, <2>2
<1> QED
  BY <1>4, <1>5

-----------------------------------------------------------------------------
(* The steps of a training.                                                 *)

(* A step that ends the attempt keeps what was recorded.                     *)
LEMMA StepStops ==
  ASSUME TrainingInv, NEW p \in {"refused", "raised", "failed", "dead"}, trainer.pc # "done",
         p = "refused" \/ trainer.pc \notin {"idle", "refused"},
         trainer'.pc = p, DOMAIN trainer' = DOMAIN trainer, DOMAIN sampler' = DOMAIN sampler,
         DOMAIN joiner' = DOMAIN joiner,
         attempt' = attempt \/ trainer.pc \notin {"idle", "refused"},
         RecordsInv(attempt'), attempt'.root = attempt.root, attempt'.completion = attempt.completion
  PROVE  TrainingInv'
<1>1. TrainingShapes'
  BY DEF TrainingInv, TrainingShapes, EndPoints
<1>2. RootInv'
  BY DEF TrainingInv, RootInv
<1>3. trainer'.pc \notin LivePoints /\ trainer'.pc # "done"
  BY DEF LivePoints
<1> QED
  BY <1>1, <1>2, <1>3 DEF TrainingInv

(* Between two steps of a rollout, and around a reset, nothing is recorded but events. *)
LEMMA LiveKept ==
  ASSUME TrainingInv, LiveInv, NEW es \in Seq(NativeEvents),
         \A i \in DOMAIN es : es[i].event # "step_result",
         trainer'.rollout = trainer.rollout, trainer'.weights = trainer.weights,
         trainer'.checkpoint = trainer.checkpoint,
         trainer'.pc \in {"start", "forward", "stepped", "end"},
         trainer'.pc = "start" => trainer.pc = "created",
         trainer'.pc \in InRollout => trainer.pc \in InRollout,
         attempt'.native = attempt.native \o es, attempt'.joins = attempt.joins,
         attempt'.samples = attempt.samples, attempt'.checkpoints = attempt.checkpoints,
         attempt'.started = attempt.started, attempt'.completed = attempt.completed,
         sampler'.count = sampler.count, joiner'.rollout = joiner.rollout,
         joiner'.lastSample = joiner.lastSample
  PROVE  LiveInv'
<1>1. Results(attempt'.native) = Results(attempt.native)
  BY ResultsKept DEF TrainingInv, RecordsInv, AttemptShape
<1>2. \A r : JoinsIn(attempt', r) = JoinsIn(attempt, r)
  BY DEF JoinsIn
<1>3. (trainer'.pc \in BetweenRollouts) <=> (trainer.pc \in BetweenRollouts)
  BY DEF BetweenRollouts, InRollout
<1>4. trainer'.pc \notin {"step", "train", "created"}
  OBVIOUS
<1> QED
  BY <1>1, <1>2, <1>3, <1>4 DEF LiveInv

(* An attempt is created on a fresh root, or refused. *)
LEMMA CreateAttemptKeeps ==
  ASSUME TrainingInv, NEW c \in Configs, CreateAttempt(c)
  PROVE  TrainingInv'
<1>1. trainer = IdleTrainer /\ trainer.pc = "idle"
  BY DEF CreateAttempt, TrainingInv, RootInv
<1>2. CASE trainer' = [trainer EXCEPT !.pc = "refused"] /\ UNCHANGED attempt
  BY <1>1, <1>2, StepStops DEF CreateAttempt, TrainingInv, TrainingShapes
<1>3. CASE /\ ~attempt.root
           /\ trainer' = [trainer EXCEPT !.pc = "created", !.config = c, !.checkpoint = 0]
           /\ attempt' = [attempt EXCEPT !.root = TRUE,
                !.manifest = [config |-> c, status |-> "started"],
                !.context = TrainingContext(c), !.checkpoints[0] = 0]
  <2>1. attempt = NoAttempt
    BY <1>3 DEF TrainingInv, RootInv
  <2>2. Rollouts \in Nat \ {0} /\ 0 \in 0..Rollouts
    BY TrainingAssumption
  <2>3. /\ attempt'.root = TRUE /\ DOMAIN attempt' = DOMAIN attempt
        /\ attempt'.checkpoints = [attempt.checkpoints EXCEPT ![0] = 0]
        /\ attempt'.started = [i \in 1..Rollouts |-> NoFile]
        /\ attempt'.completed = [i \in 1..Rollouts |-> NoFile]
        /\ attempt'.samples = [i \in 1..Rollouts |-> <<>>]
        /\ attempt'.native = <<>> /\ attempt'.joins = <<>>
        /\ attempt'.completion = NoFile
    BY <1>3, <2>1 DEF NoAttempt
  <2>4. attempt.checkpoints = [i \in 0..Rollouts |-> NoFile]
    BY <2>1 DEF NoAttempt
  <2>5. DOMAIN attempt'.checkpoints = 0..Rollouts /\ attempt'.checkpoints[0] = 0
    BY <2>2, <2>3, <2>4
  <2>6. /\ trainer'.pc = "created" /\ trainer'.checkpoint = 0 /\ trainer'.rollout = 0
        /\ trainer'.weights = 0 /\ DOMAIN trainer' = DOMAIN trainer
    BY <1>1, <1>3 DEF IdleTrainer
  <2>7. RecordsInv(attempt')
    <3>1. RecordsInv(attempt)
      BY DEF TrainingInv
    <3>2. \A r \in 1..Rollouts : attempt.samples[r] = <<>>
      BY <2>1 DEF NoAttempt
    <3>3. /\ attempt.native = <<>> /\ attempt.joins = <<>> /\ <<>> \in Seq(NativeEvents)
          /\ attempt.samples = [i \in 1..Rollouts |-> <<>>]
      BY <2>1 DEF NoAttempt
    <3>4. attempt'.native = attempt.native \o <<>>
      BY <2>3, <3>3
    <3> QED
      BY <3>1, <3>2, <3>3, <3>4, <2>3, <2>5, RecordsExtend
  <2>8. LiveInv'
    <3>1. \A r : JoinsIn(attempt', r) = {}
      BY <2>3 DEF JoinsIn
    <3>2. Cardinality(Results(attempt'.native)) = Len(attempt'.joins)
      <4>1. Results(attempt'.native) = {}
        BY <2>3 DEF Results
      <4> QED
        BY <4>1, <2>3, FS_EmptySet
    <3>3. /\ trainer'.pc \in BetweenRollouts /\ trainer'.pc \notin InRollout
          /\ trainer'.pc \notin {"step", "train"}
      BY <2>6 DEF BetweenRollouts, InRollout
    <3>4. \A k \in 0..trainer'.weights : attempt'.checkpoints[k] = k
      BY <2>5, <2>6
    <3>5. \A r \in 1..Rollouts : attempt'.samples[r] = <<>> /\ attempt'.completed[r] = NoFile
      BY <2>3
    <3>6. 1..trainer'.rollout = {} /\ trainer'.rollout \in 0..Rollouts /\ trainer'.rollout < Rollouts
      BY <2>2, <2>6
    <3> QED
      BY <3>1, <3>2, <3>3, <3>4, <3>5, <3>6, <2>6 DEF LiveInv
  <2>9. TrainingShapes' /\ RootInv'
    BY <1>3, <2>3, <2>6 DEF CreateAttempt, TrainingInv, TrainingShapes, RootInv, LivePoints
  <2> QED
    BY <2>6, <2>7, <2>8, <2>9 DEF TrainingInv
<1> QED
  BY <1>2, <1>3 DEF CreateAttempt

(* A reset, of the first episode or of a later one, written or not. *)
LEMMA ResetKeeps ==
  ASSUME TrainingInv, LiveInv, NEW point \in {"start", "stepped"}, ResetWith(point),
         trainer.pc = (IF point = "start" THEN "created" ELSE "reset")
  PROVE  TrainingInv'
<1>1. trainer.pc \notin {"idle", "refused", "done"} /\ DOMAIN trainer = DOMAIN IdleTrainer
  BY DEF TrainingInv, TrainingShapes, IdleTrainer
<1>2. RecordsInv(attempt) /\ AttemptShape(attempt)
  BY DEF TrainingInv, RecordsInv
<1>3. UNCHANGED <<sampler, joiner>>
  BY DEF ResetWith
<1> DEFINE both == Cutoff(episodes) \o
             <<Event("episode_started", NoFile), Event("episode_reset", NoFile)>>
           one == Cutoff(episodes) \o <<Event("episode_started", NoFile)>>
<1>4. /\ both \in Seq(NativeEvents) /\ \A i \in DOMAIN both : both[i].event # "step_result"
      /\ one \in Seq(NativeEvents)
  BY ResetEvents
<1>5. \/ trainer' = [trainer EXCEPT !.pc = point] /\ attempt' = Appended(attempt, both)
      \/ trainer' = [trainer EXCEPT !.pc = "raised"] /\ attempt' = Appended(attempt, one)
  BY DEF ResetWith, Raises
<1> HIDE DEF both, one
<1>6. CASE trainer' = [trainer EXCEPT !.pc = "raised"] /\ attempt' = Appended(attempt, one)
  <2>1. RecordsInv(attempt')
    BY <1>2, <1>4, <1>6, RecordsAppended
  <2>2. attempt'.root = attempt.root /\ attempt'.completion = attempt.completion
    BY <1>2, <1>6, AppendedFields
  <2>3. trainer'.pc = "raised" /\ DOMAIN trainer' = DOMAIN trainer
    BY <1>1, <1>6 DEF IdleTrainer
  <2> QED
    BY <1>1, <1>3, <2>1, <2>2, <2>3, StepStops
<1>7. CASE trainer' = [trainer EXCEPT !.pc = point] /\ attempt' = Appended(attempt, both)
  <2>1. RecordsInv(attempt')
    BY <1>2, <1>4, <1>7, RecordsAppended
  <2>2. /\ attempt'.native = attempt.native \o both
        /\ attempt'.joins = attempt.joins /\ attempt'.samples = attempt.samples
        /\ attempt'.checkpoints = attempt.checkpoints /\ attempt'.started = attempt.started
        /\ attempt'.completed = attempt.completed /\ attempt'.root = attempt.root
        /\ attempt'.completion = attempt.completion
    BY <1>2, <1>7, AppendedFields
  <2>3. /\ trainer'.pc = point /\ DOMAIN trainer' = DOMAIN trainer
        /\ trainer'.rollout = trainer.rollout /\ trainer'.weights = trainer.weights
        /\ trainer'.checkpoint = trainer.checkpoint
    BY <1>1, <1>7 DEF IdleTrainer
  <2>4. LiveInv'
    BY <1>3, <1>4, <2>2, <2>3, LiveKept DEF InRollout
  <2>5. TrainingShapes' /\ RootInv'
    BY <1>1, <1>3, <2>2, <2>3 DEF TrainingInv, TrainingShapes, RootInv, LivePoints
  <2> QED
    BY <2>1, <2>3, <2>4, <2>5 DEF TrainingInv
<1> QED
  BY <1>5, <1>6, <1>7

(* A rollout starts on the checkpoint of its predecessor. *)
LEMMA StartRolloutKeeps ==
  ASSUME TrainingInv, LiveInv, StartRollout
  PROVE  TrainingInv'
<1> DEFINE index == trainer.rollout + 1
<1>1. trainer.pc = "start" /\ DOMAIN trainer = DOMAIN IdleTrainer
  BY DEF StartRollout, TrainingInv, TrainingShapes, IdleTrainer
<1>2. RecordsInv(attempt) /\ AttemptShape(attempt)
  BY DEF TrainingInv, RecordsInv
<1>3. CASE Raises /\ UNCHANGED <<sampler, attempt>> /\ DOMAIN joiner' = DOMAIN joiner
  BY <1>1, <1>2, <1>3, StepStops DEF Raises, IdleTrainer
<1>4. CASE /\ trainer' = [trainer EXCEPT !.pc = "forward", !.rollout = index, !.rootOpen = TRUE]
           /\ sampler' = OpenedSampler(attempt.checkpoints[index - 1])
           /\ joiner' = BeginRollout(joiner, index)
           /\ attempt' = [attempt EXCEPT !.started[index] =
                [index |-> index, steps |-> trainer.steps, checkpoint |-> index - 1,
                 version |-> trainer.checkpoint, optimizer |-> trainer.optimizer]]
  <2>1. /\ trainer.rollout \in Nat /\ trainer.rollout < Rollouts
        /\ trainer.weights = trainer.rollout /\ trainer.checkpoint = trainer.rollout
        /\ Rollouts \in Nat
    BY <1>1, TrainingAssumption DEF LiveInv, BetweenRollouts
  <2>2. index \in 1..Rollouts /\ index - 1 = trainer.rollout
    BY <2>1
  <2>3. /\ trainer'.pc = "forward" /\ trainer'.rollout = index
        /\ trainer'.weights = trainer.weights /\ trainer'.checkpoint = trainer.checkpoint
        /\ DOMAIN trainer' = DOMAIN trainer
    BY <1>1, <1>4 DEF IdleTrainer
  <2>4. /\ sampler'.count = 0 /\ DOMAIN sampler' = DOMAIN sampler
        /\ joiner'.rollout = index /\ joiner'.lastSample = 0 /\ DOMAIN joiner' = DOMAIN joiner
    BY <1>4 DEF OpenedSampler, BeginRollout, TrainingInv, TrainingShapes
  <2> HIDE DEF index
  <2>5. /\ DOMAIN attempt' = DOMAIN attempt /\ attempt'.native = attempt.native
        /\ attempt'.joins = attempt.joins /\ attempt'.samples = attempt.samples
        /\ attempt'.checkpoints = attempt.checkpoints /\ attempt'.completed = attempt.completed
        /\ attempt'.root = attempt.root /\ attempt'.completion = attempt.completion
        /\ attempt'.started = [attempt.started EXCEPT ![index] =
             [index |-> index, steps |-> trainer.steps, checkpoint |-> index - 1,
              version |-> trainer.checkpoint, optimizer |-> trainer.optimizer]]
    BY <1>2, <1>4 DEF AttemptShape
  <2>6. /\ DOMAIN attempt'.started = 1..Rollouts
        /\ attempt'.started[index].checkpoint = index - 1
        /\ attempt'.started[index].version = index - 1
        /\ \A r \in 1..Rollouts : r # index => attempt'.started[r] = attempt.started[r]
    BY <1>2, <2>1, <2>2, <2>5 DEF AttemptShape
  <2>7. attempt.samples[index] = <<>> /\ JoinsIn(attempt, index) = {}
    BY <2>1, <2>2 DEF LiveInv
  <2>8. RecordsInv(attempt')
    <3>1. attempt.native \o <<>> = attempt.native /\ <<>> \in Seq(NativeEvents)
      BY <1>2 DEF AttemptShape
    <3> QED
      BY <1>2, <2>5, <2>6, <2>7, <3>1, RecordsExtend DEF AttemptShape
  <2>9. LiveInv'
    <3>1. \A r : JoinsIn(attempt', r) = JoinsIn(attempt, r)
      BY <2>5 DEF JoinsIn
    <3>2. Cardinality(JoinsIn(attempt', index)) = 0
      BY <2>7, <3>1, FS_EmptySet
    <3>3. \A r \in 1..index :
            attempt'.started[r].version = r - 1 /\ attempt'.started[r].checkpoint = r - 1
      <4> TAKE r \in 1..index
      <4>1. CASE r = index
        BY <4>1, <2>6
      <4>2. CASE r # index
        <5>1. r \in 1..trainer.rollout /\ r \in 1..Rollouts
          BY <4>2, <2>1, <2>2
        <5> QED
          BY <5>1, <4>2, <2>6 DEF LiveInv
      <4> QED
        BY <4>1, <4>2
    <3>4. \A r \in 1..Rollouts : r > index => r > trainer.rollout
      BY <2>1, <2>2
    <3>5. /\ trainer'.pc \in InRollout /\ trainer'.pc \notin BetweenRollouts
          /\ trainer'.pc \notin {"step", "train", "created", "start"}
      BY <2>3 DEF InRollout, BetweenRollouts
    <3>6. sampler'.count = Len(attempt'.samples[index])
      BY <2>4, <2>5, <2>7
    <3>7. trainer'.weights = trainer'.rollout - 1 /\ trainer'.rollout \in 0..Rollouts
      BY <2>1, <2>2, <2>3
    <3>8. \A r \in 1..Rollouts :
           /\ r > trainer'.rollout => attempt'.samples[r] = <<>> /\ JoinsIn(attempt', r) = {}
           /\ attempt'.completed[r] # NoFile =>
                /\ r <= trainer'.weights
                /\ attempt'.completed[r].checkpoint = r
                /\ Cardinality(JoinsIn(attempt', r)) = NSteps
                /\ Len(attempt'.samples[r]) = NSteps
      BY <2>3, <2>5, <3>1, <3>4 DEF LiveInv
    <3> QED
      BY <2>3, <2>4, <2>5, <3>1, <3>2, <3>3, <3>5, <3>6, <3>7, <3>8 DEF LiveInv
  <2>10. TrainingShapes' /\ RootInv'
    BY <1>1, <2>3, <2>4, <2>5 DEF TrainingInv, TrainingShapes, RootInv, LivePoints
  <2> QED
    BY <2>3, <2>8, <2>9, <2>10 DEF TrainingInv
<1> QED
  <2>1. DOMAIN AbortedRollout(joiner) = DOMAIN joiner
    BY DEF AbortedRollout
  <2> QED
    BY <1>3, <1>4, <2>1 DEF StartRollout

(* A forward is journaled before its action is returned, or the journal is poisoned. *)
LEMMA ForwardKeeps ==
  ASSUME TrainingInv, LiveInv, NEW code \in Codes, NEW batch \in 1..2, Forward(code, batch)
  PROVE  TrainingInv'
<1> DEFINE id == sampler.count + batch
           r == trainer.rollout
           new == RecordsForForward(code, batch)
<1>1. trainer.pc = "forward" /\ DOMAIN trainer = DOMAIN IdleTrainer /\ UNCHANGED joiner
  BY DEF Forward, TrainingInv, TrainingShapes, IdleTrainer
<1>2. RecordsInv(attempt) /\ AttemptShape(attempt)
  BY DEF TrainingInv, RecordsInv
<1>3. ASSUME /\ Raises
             /\ sampler' = [sampler EXCEPT !.state = IF @ = "open" THEN "poisoned" ELSE @]
             /\ UNCHANGED attempt
      PROVE  TrainingInv'
  BY <1>1, <1>2, <1>3, StepStops DEF Raises, IdleTrainer
<1>4. ASSUME /\ sampler' = [sampler EXCEPT !.count = id,
                  !.latest = [id |-> id, action |-> code, batch |-> batch]]
             /\ attempt' = [attempt EXCEPT !.samples[trainer.rollout] = @ \o new]
             /\ \/ batch = 1 /\ trainer' = [trainer EXCEPT !.pc = "step", !.submitted = code]
                \/ trainer' = [trainer EXCEPT !.extra = @ + 1]
      PROVE  TrainingInv'
  <2>1. /\ r \in Nat /\ r \in 0..Rollouts /\ trainer.weights = r - 1 /\ trainer.weights \in Nat
        /\ trainer.checkpoint = trainer.weights
    BY <1>1 DEF LiveInv, BetweenRollouts
  <2>2. r \in 1..Rollouts /\ trainer.weights = r - 1 /\ r - 1 \in 0..trainer.weights /\ r \in 1..r
    BY <2>1
  <2>3. /\ attempt.started[r].version = r - 1 /\ attempt.started[r].checkpoint = r - 1
        /\ attempt.checkpoints[r - 1] = r - 1
    BY <2>2 DEF LiveInv
  <2>4. /\ DOMAIN trainer' = DOMAIN trainer /\ trainer'.rollout = r
        /\ trainer'.weights = trainer.weights /\ trainer'.checkpoint = trainer.checkpoint
        /\ \/ trainer'.pc = "step" /\ batch = 1
           \/ trainer'.pc = "forward"
    BY <1>1, <1>4 DEF IdleTrainer
  <2>5. /\ DOMAIN sampler' = DOMAIN sampler /\ sampler'.count = id /\ sampler'.latest.action = code
    BY <1>4 DEF TrainingInv, TrainingShapes
  <2>6. /\ new = [i \in 1..batch |-> [version |-> r - 1, action |-> code]]
        /\ DOMAIN new = 1..batch /\ \A k \in DOMAIN new : new[k].version = r - 1 /\ new[k].action = code
    BY <2>1 DEF RecordsForForward
  <2>7. new \in Seq(SampleRecords) /\ Len(new) = batch
    <3>1. [version |-> r - 1, action |-> code] \in SampleRecords
      BY <2>1, <2>2 DEF SampleRecords
    <3> DEFINE rec == [version |-> r - 1, action |-> code]
    <3> HIDE DEF rec
    <3>2. [i \in 1..batch |-> rec] \in Seq(SampleRecords) /\ Len([i \in 1..batch |-> rec]) = batch
      BY <3>1 DEF rec
    <3> QED
      BY <3>2, <2>6 DEF rec
  <2> HIDE DEF new
  <2>8. /\ DOMAIN attempt' = DOMAIN attempt /\ attempt'.native = attempt.native
        /\ attempt'.joins = attempt.joins /\ attempt'.started = attempt.started
        /\ attempt'.checkpoints = attempt.checkpoints /\ attempt'.completed = attempt.completed
        /\ attempt'.root = attempt.root /\ attempt'.completion = attempt.completion
        /\ attempt'.samples = [attempt.samples EXCEPT ![r] = attempt.samples[r] \o new]
    BY <1>2, <1>4 DEF AttemptShape
  <2>9. /\ RecordsInv(attempt')
        /\ attempt'.samples[r] = attempt.samples[r] \o new
        /\ \A q \in 1..Rollouts : q # r => attempt'.samples[q] = attempt.samples[q]
    <3>1. SampledOnto(attempt, attempt', r, new)
      BY <1>2, <2>2, <2>3, <2>6, <2>7, <2>8 DEF SampledOnto
    <3> HIDE DEF r
    <3>2. RecordsInv(attempt')
      BY <3>1, RecordsSampled
    <3>3. attempt'.samples[r] = attempt.samples[r] \o new
      BY <3>1, RecordsSampled
    <3>4. \A q \in 1..Rollouts : q # r => attempt'.samples[q] = attempt.samples[q]
      BY <3>1, RecordsSampled
    <3> QED
      BY <3>2, <3>3, <3>4
  <2>10. /\ attempt.samples[r] \in Seq(SampleRecords)
         /\ Len(attempt.samples[r]) \in Nat
         /\ sampler.count = Len(attempt.samples[r])
    <3>1. sampler.count = Len(attempt.samples[r])
      BY <1>1 DEF LiveInv, InRollout
    <3>2. attempt.samples[r] \in Seq(SampleRecords)
      BY <1>2, <2>2 DEF AttemptShape
    <3> HIDE DEF r
    <3> QED
      BY <3>1, <3>2
  <2>11. sampler'.count = Len(attempt'.samples[r]) /\ sampler'.count >= 1
    BY <2>5, <2>7, <2>9, <2>10
  <2>12. batch = 1 => attempt'.samples[r][sampler'.count].action = code
    <3> SUFFICES ASSUME batch = 1
                 PROVE  attempt'.samples[r][sampler'.count].action = code
      OBVIOUS
    <3> DEFINE s == attempt.samples[r]
    <3>1. s \in Seq(SampleRecords) /\ sampler'.count = Len(s) + 1 /\ attempt'.samples[r] = s \o new
      BY <2>5, <2>9, <2>10
    <3> HIDE DEF s
    <3>2. (s \o new)[Len(s) + 1] = new[1] /\ new[1].action = code
      BY <2>6, <2>7, <3>1
    <3> QED
      BY <3>1, <3>2
  <2>13. \A q : JoinsIn(attempt', q) = JoinsIn(attempt, q)
    BY <2>8 DEF JoinsIn
  <2>14. \A q \in 1..Rollouts :
           /\ q > r => q # r
           /\ attempt.completed[q] # NoFile => q # r
    BY <2>1 DEF LiveInv
  <2>15. \A q \in 1..Rollouts :
           /\ q > r => attempt'.samples[q] = <<>> /\ JoinsIn(attempt', q) = {}
           /\ attempt'.completed[q] # NoFile =>
                /\ q <= trainer'.weights
                /\ attempt'.completed[q].checkpoint = q
                /\ Cardinality(JoinsIn(attempt', q)) = NSteps
                /\ Len(attempt'.samples[q]) = NSteps
    BY <2>4, <2>8, <2>9, <2>13, <2>14 DEF LiveInv
  <2>16. /\ trainer'.pc \in InRollout /\ trainer'.pc \notin BetweenRollouts
         /\ trainer'.pc \notin {"train", "created", "start"} /\ trainer.pc \in InRollout
    BY <1>1, <2>4 DEF InRollout, BetweenRollouts
  <2>17. LiveInv'
    <3>1. /\ joiner'.rollout = r
          /\ joiner'.lastSample = Cardinality(JoinsIn(attempt', r))
      BY <1>1, <2>13, <2>16 DEF LiveInv
    <3>2. trainer'.pc = "step" => attempt'.samples[r][sampler'.count].action = sampler'.latest.action
      BY <2>4, <2>5, <2>12
    <3>3. /\ \A k \in 0..trainer'.weights : attempt'.checkpoints[k] = k
          /\ \A q \in 1..r :
               attempt'.started[q].version = q - 1 /\ attempt'.started[q].checkpoint = q - 1
          /\ Cardinality(Results(attempt'.native)) = Len(attempt'.joins)
      BY <2>4, <2>8 DEF LiveInv
    <3> HIDE DEF r, id
    <3> QED
      BY <2>1, <2>4, <2>11, <2>15, <2>16, <3>1, <3>2, <3>3 DEF LiveInv
  <2>18. TrainingShapes' /\ RootInv'
    BY <1>1, <2>4, <2>5, <2>8 DEF TrainingInv, TrainingShapes, RootInv, LivePoints
  <2> QED
    BY <2>4, <2>9, <2>17, <2>18 DEF TrainingInv
<1> QED
  BY <1>3, <1>4 DEF Forward

(* A foreign hook and the loop between two steps change no record. *)
LEMMA QuietKeeps ==
  ASSUME TrainingInv, LiveInv, ForeignHook \/ NextStep
  PROVE  TrainingInv'
<1>1. /\ UNCHANGED <<joiner, attempt>> /\ DOMAIN trainer = DOMAIN IdleTrainer
      /\ trainer.pc \in {"forward", "stepped"}
  BY DEF ForeignHook, NextStep, TrainingInv, TrainingShapes, IdleTrainer
<1>2. sampler'.count = sampler.count /\ DOMAIN sampler' = DOMAIN sampler
  BY DEF ForeignHook, NextStep, TrainingInv, TrainingShapes
<1>3. /\ DOMAIN trainer' = DOMAIN trainer /\ trainer'.rollout = trainer.rollout
      /\ trainer'.weights = trainer.weights /\ trainer'.checkpoint = trainer.checkpoint
      /\ trainer'.pc \in {"forward", "end"}
  BY <1>1 DEF ForeignHook, NextStep, IdleTrainer
<1>4. RecordsInv(attempt) /\ attempt.native = attempt.native \o <<>> /\ <<>> \in Seq(NativeEvents)
  BY DEF TrainingInv, RecordsInv, AttemptShape
<1>5. LiveInv'
  <2>1. trainer.pc \in InRollout /\ trainer'.pc \in {"start", "forward", "stepped", "end"}
    BY <1>1, <1>3 DEF InRollout
  <2>2. attempt'.native = attempt.native \o <<>>
    BY <1>1, <1>4
  <2> DEFINE none == <<>>
  <2>3. none \in Seq(NativeEvents) /\ \A i \in DOMAIN none : none[i].event # "step_result"
    OBVIOUS
  <2>4. attempt'.native = attempt.native \o none /\ trainer'.pc # "start"
    BY <2>2, <1>3
  <2> HIDE DEF none
  <2> QED
    BY <1>1, <1>2, <1>3, <2>1, <2>3, <2>4, LiveKept
<1>6. TrainingShapes' /\ RootInv'
  BY <1>1, <1>2, <1>3 DEF TrainingInv, TrainingShapes, RootInv, LivePoints
<1> QED
  BY <1>1, <1>3, <1>4, <1>5, <1>6 DEF TrainingInv

(* What a step of the environment appends. *)
LEMMA StepEvents ==
  ASSUME NEW code \in Codes
  PROVE  /\ <<Event("step_started", code)>> \in Seq(NativeEvents)
         /\ <<Event("step_started", code), Event("step_failed", NoFile)>> \in Seq(NativeEvents)
         /\ <<Event("step_started", code), Event("step_result", code)>> \in Seq(NativeEvents)
<1>1. /\ Event("step_started", code) \in NativeEvents /\ Event("step_result", code) \in NativeEvents
      /\ Event("step_failed", NoFile) \in NativeEvents
  <2>1. {"step_started", "step_result", "step_failed"} \subseteq EventNames
    BY DEF EventNames
  <2> QED
    BY <2>1, EventTypes
<1> QED
  BY <1>1

(* A step joins the one fresh sample, or ends the training. *)
LEMMA JoinStepKeeps ==
  ASSUME TrainingInv, LiveInv, NEW effect \in StepOutcomes, JoinStep(effect)
  PROVE  TrainingInv'
<1> DEFINE code == trainer.submitted
           sequence == Len(attempt.native) + 1
           r == trainer.rollout
           n == Cardinality(JoinsIn(attempt, r))
           result == <<Event("step_started", code), Event("step_result", code)>>
<1>1. /\ trainer.pc = "step" /\ DOMAIN trainer = DOMAIN IdleTrainer /\ DOMAIN sampler' = DOMAIN sampler
      /\ trainer.pc \in InRollout /\ trainer.pc \notin BetweenRollouts
  BY DEF JoinStep, TrainingInv, TrainingShapes, IdleTrainer, InRollout, BetweenRollouts
<1>2. RecordsInv(attempt) /\ AttemptShape(attempt)
  BY DEF TrainingInv, RecordsInv
<1>3. ASSUME Raises, DOMAIN joiner' = DOMAIN joiner, RecordsInv(attempt'),
             attempt'.root = attempt.root, attempt'.completion = attempt.completion
      PROVE  TrainingInv'
  BY <1>1, <1>3, StepStops DEF Raises, IdleTrainer
<1>4. DOMAIN [joiner EXCEPT !.poisoned = TRUE] = DOMAIN joiner
  OBVIOUS
<1>5. CASE Raises /\ joiner' = [joiner EXCEPT !.poisoned = TRUE] /\ UNCHANGED attempt
  BY <1>2, <1>3, <1>4, <1>5
<1>6. r \in 1..Rollouts /\ trainer.weights = r - 1 /\ trainer.weights \in Nat /\ r \in Nat
  BY <1>1 DEF LiveInv
<1>7. /\ sampler.count = Len(attempt.samples[r]) /\ joiner.rollout = r /\ joiner.lastSample = n
      /\ sampler.count >= 1
      /\ sampler.latest.action = attempt.samples[r][sampler.count].action
  BY <1>1 DEF LiveInv
<1>8. n \in Nat
  BY <1>2, JoinsFinite
<1>9. /\ attempt.samples[r] \in Seq(SampleRecords) /\ Len(attempt.samples[r]) \in Nat
      /\ sampler.count \in DOMAIN attempt.samples[r]
      /\ attempt.samples[r][sampler.count].action \in Codes
  <2> DEFINE s == attempt.samples[r]
  <2>1. s \in Seq(SampleRecords)
    BY <1>2, <1>6 DEF AttemptShape
  <2>2. sampler.count = Len(s) /\ sampler.count >= 1
    BY <1>7
  <2> HIDE DEF s
  <2>3. Len(s) \in Nat /\ sampler.count \in DOMAIN s /\ s[sampler.count] \in SampleRecords
    BY <2>1, <2>2
  <2>4. s[sampler.count].action \in Codes
    BY <2>3 DEF SampleRecords
  <2> QED
    BY <2>1, <2>3, <2>4 DEF s
<1>10. ASSUME FreshSample, code = sampler.latest.action, NEW es \in Seq(NativeEvents),
              Raises, joiner' = [joiner EXCEPT !.poisoned = TRUE],
              attempt' = Appended(attempt, es)
       PROVE  TrainingInv'
  <2>1. RecordsInv(attempt')
    BY <1>2, <1>10, RecordsAppended
  <2>2. attempt'.root = attempt.root /\ attempt'.completion = attempt.completion
    BY <1>2, <1>10, AppendedFields
  <2> QED
    BY <1>3, <1>4, <1>10, <2>1, <2>2
<1>11. ASSUME FreshSample, code = sampler.latest.action,
              attempt' = [Appended(attempt, result) EXCEPT
                   !.joins = Append(@, [rollout |-> joiner.rollout, sample |-> sampler.latest.id,
                     native |-> sequence, action |-> code])],
              joiner' = [joiner EXCEPT !.joined = @ + 1, !.lastSample = sampler.latest.id,
                   !.lastNative = sequence],
              UNCHANGED sampler, NEW point \in {"reset", "stepped"},
              trainer' = [trainer EXCEPT !.steps = @ + 1, !.pc = point]
       PROVE  TrainingInv'
  <2>1. sampler.latest.id = n + 1 /\ sampler.count = n + 1
    BY <1>7, <1>11 DEF FreshSample
  <2>2. /\ trainer'.pc = point /\ DOMAIN trainer' = DOMAIN trainer
        /\ trainer'.rollout = r /\ trainer'.weights = trainer.weights
        /\ trainer'.checkpoint = trainer.checkpoint
    BY <1>1, <1>11 DEF IdleTrainer
  <2>3. /\ DOMAIN joiner' = DOMAIN joiner /\ joiner'.rollout = r /\ joiner'.lastSample = n + 1
    BY <1>7, <1>11, <2>1 DEF TrainingInv, TrainingShapes
  <2> DEFINE j == [rollout |-> r, sample |-> n + 1, native |-> Len(attempt.native) + 1, action |-> code]
             a == Appended(attempt, result)
  <2>4. attempt' = [a EXCEPT !.joins = Append(a.joins, j)]
    BY <1>7, <1>11, <2>1
  <2>5. /\ DOMAIN a = DOMAIN attempt /\ a.native = attempt.native \o result
        /\ a.joins = attempt.joins /\ a.samples = attempt.samples
        /\ a.checkpoints = attempt.checkpoints /\ a.started = attempt.started
        /\ a.completed = attempt.completed /\ a.root = attempt.root
        /\ a.completion = attempt.completion
    BY <1>2, AppendedFields
  <2>6. /\ DOMAIN attempt' = DOMAIN attempt /\ attempt'.native = attempt.native \o result
        /\ attempt'.joins = Append(attempt.joins, j) /\ attempt'.samples = attempt.samples
        /\ attempt'.checkpoints = attempt.checkpoints /\ attempt'.started = attempt.started
        /\ attempt'.completed = attempt.completed /\ attempt'.root = attempt.root
        /\ attempt'.completion = attempt.completion
    <3> HIDE DEF a, j
    <3> QED
      BY <1>2, <2>4, <2>5 DEF AttemptShape
  <2>7. code \in Codes /\ n + 1 \in DOMAIN attempt.samples[r] /\ attempt.samples[r][n + 1].action = code
    BY <1>7, <1>9, <1>11, <2>1
  <2>8. JoinedOnto(attempt, attempt', r, n, code)
    <3> HIDE DEF r, code, a
    <3> QED
      BY <1>2, <1>6, <1>8, <2>6, <2>7 DEF JoinedOnto
  <2> HIDE DEF j, a, code
  <2>9. /\ RecordsInv(attempt')
        /\ Cardinality(JoinsIn(attempt', r)) = n + 1
        /\ \A q \in 1..Rollouts : q # r => JoinsIn(attempt', q) = JoinsIn(attempt, q)
        /\ Len(attempt'.joins) = Len(attempt.joins) + 1
    <3> HIDE DEF r, n
    <3>1. RecordsInv(attempt')
      BY <2>8, RecordsJoined
    <3>2. Cardinality(JoinsIn(attempt', r)) = n + 1 /\ Len(attempt'.joins) = Len(attempt.joins) + 1
      BY <2>8, RecordsJoined
    <3>3. \A q \in 1..Rollouts : q # r => JoinsIn(attempt', q) = JoinsIn(attempt, q)
      BY <2>8, RecordsJoined
    <3> QED
      BY <3>1, <3>2, <3>3
  <2>10. Cardinality(Results(attempt'.native)) = Len(attempt'.joins)
    <3>1. Cardinality(Results(attempt.native)) = Len(attempt.joins)
      BY DEF LiveInv
    <3>2. attempt.native \in Seq(NativeEvents)
      BY <1>2 DEF AttemptShape
    <3>3. Cardinality(Results(attempt.native \o result)) = Cardinality(Results(attempt.native)) + 1
      BY <2>7, <3>2, ResultsGrow
    <3> QED
      BY <2>6, <2>9, <3>1, <3>3
  <2>11. \A q \in 1..Rollouts :
           /\ q > r => attempt'.samples[q] = <<>> /\ JoinsIn(attempt', q) = {}
           /\ attempt'.completed[q] # NoFile =>
                /\ q <= trainer'.weights
                /\ attempt'.completed[q].checkpoint = q
                /\ Cardinality(JoinsIn(attempt', q)) = NSteps
                /\ Len(attempt'.samples[q]) = NSteps
    <3> TAKE q \in 1..Rollouts
    <3>1. CASE q = r
      <4>1. attempt.completed[q] = NoFile
        BY <1>6, <3>1 DEF LiveInv
      <4> QED
        BY <3>1, <4>1, <2>6, <1>6
    <3>2. CASE q # r
      BY <3>2, <2>2, <2>6, <2>9 DEF LiveInv
    <3> QED
      BY <3>1, <3>2
  <2>12. /\ trainer'.pc \in InRollout /\ trainer'.pc \notin BetweenRollouts
         /\ trainer'.pc \notin {"step", "train", "created", "start"}
    BY <2>2 DEF InRollout, BetweenRollouts
  <2>13. LiveInv'
    <3>1. sampler'.count = Len(attempt'.samples[r])
      BY <1>7, <1>11, <2>6
    <3>2. /\ \A k \in 0..trainer'.weights : attempt'.checkpoints[k] = k
          /\ \A q \in 1..r :
               attempt'.started[q].version = q - 1 /\ attempt'.started[q].checkpoint = q - 1
      BY <2>2, <2>6 DEF LiveInv
    <3>3. trainer'.checkpoint = trainer'.weights /\ trainer'.rollout \in 0..Rollouts
      BY <2>2, <1>6 DEF LiveInv
    <3> HIDE DEF r, n
    <3> QED
      BY <1>6, <2>2, <2>3, <2>9, <2>10, <2>11, <2>12, <3>1, <3>2, <3>3 DEF LiveInv
  <2>14. TrainingShapes' /\ RootInv'
    BY <1>1, <2>2, <2>3, <2>6 DEF TrainingInv, TrainingShapes, RootInv, LivePoints
  <2> QED
    BY <2>2, <2>9, <2>13, <2>14 DEF TrainingInv
<1>12. CASE joiner.poisoned \/ joiner.rollout = 0 \/ ~FreshSample \/ code # sampler.latest.action
  BY <1>5, <1>12 DEF JoinStep
<1>13. CASE ~(joiner.poisoned \/ joiner.rollout = 0 \/ ~FreshSample \/ code # sampler.latest.action)
  <2>1. code \in Codes
    BY <1>7, <1>9, <1>13
  <2>2. /\ <<Event("step_started", code)>> \in Seq(NativeEvents)
        /\ <<Event("step_started", code), Event("step_failed", NoFile)>> \in Seq(NativeEvents)
        /\ result \in Seq(NativeEvents)
    BY <2>1, StepEvents
  <2>3. \/ /\ attempt' = [Appended(attempt, result) EXCEPT
                !.joins = Append(@, [rollout |-> joiner.rollout, sample |-> sampler.latest.id,
                  native |-> sequence, action |-> code])]
           /\ joiner' = [joiner EXCEPT !.joined = @ + 1, !.lastSample = sampler.latest.id,
                !.lastNative = sequence]
           /\ \E point \in {"reset", "stepped"} : trainer' = [trainer EXCEPT !.steps = @ + 1, !.pc = point]
        \/ /\ Raises /\ joiner' = [joiner EXCEPT !.poisoned = TRUE]
           /\ \E es \in Seq(NativeEvents) : attempt' = Appended(attempt, es)
    BY <1>13, <2>2 DEF JoinStep
  <2>4. FreshSample /\ code = sampler.latest.action /\ UNCHANGED sampler
    BY <1>13 DEF JoinStep
  <2> QED
    BY <1>10, <1>11, <2>3, <2>4
<1> QED
  BY <1>12, <1>13

(* A rollout ends with n_steps samples, all of them joined. *)
LEMMA EndRolloutKeeps ==
  ASSUME TrainingInv, LiveInv, EndRollout
  PROVE  TrainingInv'
<1> DEFINE r == trainer.rollout
<1>1. /\ trainer.pc = "end" /\ DOMAIN trainer = DOMAIN IdleTrainer /\ UNCHANGED attempt
      /\ trainer.pc \in InRollout /\ trainer.pc \notin BetweenRollouts
  BY DEF EndRollout, TrainingInv, TrainingShapes, IdleTrainer, InRollout, BetweenRollouts
<1>2. DOMAIN sampler' = DOMAIN sampler /\ DOMAIN joiner' = DOMAIN joiner
  BY DEF EndRollout, ClosedSampler, EndedRollout
<1>3. RecordsInv(attempt) /\ RecordsInv(attempt')
  BY <1>1 DEF TrainingInv
<1>4. CASE Raises
  BY <1>1, <1>2, <1>3, <1>4, StepStops DEF Raises, IdleTrainer
<1>5. CASE CountsMatch /\ trainer' = [trainer EXCEPT !.pc = "train", !.closed = TRUE]
  <2>1. /\ trainer'.pc = "train" /\ DOMAIN trainer' = DOMAIN trainer /\ trainer'.rollout = r
        /\ trainer'.weights = trainer.weights /\ trainer'.checkpoint = trainer.checkpoint
    BY <1>1, <1>5 DEF IdleTrainer
  <2>2. Cardinality(JoinsIn(attempt, r)) = NSteps /\ Len(attempt.samples[r]) = NSteps
    BY <1>1, <1>5 DEF LiveInv, CountsMatch
  <2>3. /\ trainer'.pc \notin InRollout /\ trainer'.pc \notin BetweenRollouts
        /\ trainer'.pc \notin {"created", "start", "step"}
    BY <2>1 DEF InRollout, BetweenRollouts
  <2>4. \A q : JoinsIn(attempt', q) = JoinsIn(attempt, q)
    BY <1>1
  <2>5. LiveInv'
    BY <1>1, <2>1, <2>2, <2>3, <2>4 DEF LiveInv
  <2>6. TrainingShapes' /\ RootInv'
    BY <1>1, <1>2, <2>1 DEF TrainingInv, TrainingShapes, RootInv, LivePoints
  <2> QED
    BY <1>3, <2>1, <2>5, <2>6 DEF TrainingInv
<1> QED
  BY <1>4, <1>5 DEF EndRollout

(* An update is saved as the next checkpoint, with or without its receipt. *)
LEMMA AfterTrainKeeps ==
  ASSUME TrainingInv, LiveInv, AfterTrain
  PROVE  TrainingInv'
<1> DEFINE r == trainer.rollout
           w == trainer.weights + 1
           record == [index |-> r, steps |-> trainer.steps, joined |-> joiner.joined,
                      optimizer |-> 1, checkpoint |-> w]
           saved == [attempt EXCEPT !.checkpoints[r] = w]
           p == IF trainer.steps < Requested THEN "start" ELSE "finish"
<1>1. /\ trainer.pc = "train" /\ DOMAIN trainer = DOMAIN IdleTrainer
      /\ trainer.pc \notin BetweenRollouts /\ trainer.pc \notin InRollout
      /\ UNCHANGED <<sampler, joiner>>
  BY DEF AfterTrain, TrainingInv, TrainingShapes, IdleTrainer, BetweenRollouts, InRollout
<1>2. RecordsInv(attempt) /\ AttemptShape(attempt)
  BY DEF TrainingInv, RecordsInv
<1>3. /\ r \in 1..Rollouts /\ r \in Nat /\ r - 1 \in Nat /\ trainer.weights = r - 1 /\ w = r
      /\ Rollouts \in Nat /\ NSteps \in Nat \ {0}
  BY <1>1, TrainingAssumption DEF LiveInv
<1>4. /\ Cardinality(JoinsIn(attempt, r)) = NSteps /\ Len(attempt.samples[r]) = NSteps
  BY <1>1 DEF LiveInv
<1>5. \/ /\ trainer.steps = r * NSteps
         /\ attempt' = [saved EXCEPT !.completed[r] = record]
         /\ trainer' = [trainer EXCEPT !.weights = w, !.optimizer = @ + 1, !.closed = FALSE,
              !.rootOpen = FALSE, !.checkpoint = w, !.pc = p]
      \/ trainer' = [trainer EXCEPT !.pc = "raised", !.weights = w] /\ attempt' \in {attempt, saved}
  BY DEF AfterTrain
<1>6. record.checkpoint = r
  BY <1>3
<1> HIDE DEF record, p
<1>7. /\ DOMAIN saved = DOMAIN attempt /\ saved.native = attempt.native
      /\ saved.joins = attempt.joins /\ saved.samples = attempt.samples
      /\ saved.started = attempt.started /\ saved.completed = attempt.completed
      /\ saved.root = attempt.root /\ saved.completion = attempt.completion
      /\ saved.checkpoints = [attempt.checkpoints EXCEPT ![r] = w]
  BY <1>2 DEF AttemptShape
<1>8. /\ DOMAIN saved.checkpoints = 0..Rollouts /\ saved.checkpoints[r] = r
      /\ \A k \in 0..Rollouts : k # r => saved.checkpoints[k] = attempt.checkpoints[k]
  BY <1>2, <1>3, <1>7 DEF AttemptShape
<1>9. \A q \in 1..Rollouts : attempt.samples[q] # <<>> =>
        saved.checkpoints[q - 1] = attempt.checkpoints[q - 1]
  <2> TAKE q \in 1..Rollouts
  <2>1. attempt.samples[q] # <<>> => q <= r
    BY <1>3 DEF LiveInv
  <2>2. q - 1 \in 0..Rollouts /\ (q <= r => q - 1 # r)
    BY <1>3
  <2> QED
    BY <2>1, <2>2, <1>8
<1>10. attempt.native = attempt.native \o <<>> /\ <<>> \in Seq(NativeEvents)
  BY <1>2 DEF AttemptShape
<1> HIDE DEF saved
<1>11. RecordsInv(saved)
  BY <1>2, <1>7, <1>8, <1>9, <1>10, RecordsExtend DEF AttemptShape
<1>12. CASE trainer' = [trainer EXCEPT !.pc = "raised", !.weights = w] /\ attempt' \in {attempt, saved}
  <2>1. /\ RecordsInv(attempt') /\ attempt'.root = attempt.root
        /\ attempt'.completion = attempt.completion
    BY <1>2, <1>7, <1>11, <1>12
  <2>2. trainer'.pc = "raised" /\ DOMAIN trainer' = DOMAIN trainer
    BY <1>1, <1>12 DEF IdleTrainer
  <2> QED
    BY <1>1, <2>1, <2>2, StepStops
<1>13. CASE /\ trainer.steps = r * NSteps
            /\ attempt' = [saved EXCEPT !.completed[r] = record]
            /\ trainer' = [trainer EXCEPT !.weights = w, !.optimizer = @ + 1, !.closed = FALSE,
                 !.rootOpen = FALSE, !.checkpoint = w, !.pc = p]
  <2>1. /\ DOMAIN trainer' = DOMAIN trainer /\ trainer'.pc = p /\ trainer'.rollout = r
        /\ trainer'.weights = r /\ trainer'.checkpoint = r
    BY <1>1, <1>3, <1>13 DEF IdleTrainer
  <2>2. /\ DOMAIN attempt' = DOMAIN attempt /\ attempt'.native = attempt.native
        /\ attempt'.joins = attempt.joins /\ attempt'.samples = attempt.samples
        /\ attempt'.started = attempt.started /\ attempt'.checkpoints = saved.checkpoints
        /\ attempt'.root = attempt.root /\ attempt'.completion = attempt.completion
        /\ attempt'.completed = [attempt.completed EXCEPT ![r] = record]
    BY <1>2, <1>7, <1>13 DEF AttemptShape
  <2>3. /\ DOMAIN attempt'.completed = 1..Rollouts /\ attempt'.completed[r] = record
        /\ \A q \in 1..Rollouts : q # r => attempt'.completed[q] = attempt.completed[q]
    BY <1>2, <1>3, <2>2 DEF AttemptShape
  <2>4. RecordsInv(attempt')
    BY <1>2, <1>8, <1>9, <1>10, <2>2, <2>3, RecordsExtend DEF AttemptShape
  <2>5. p = "start" => r < Rollouts
    <3>1. p = "start" => r * NSteps < NSteps * Rollouts
      BY <1>13 DEF p, Requested
    <3> HIDE DEF r
    <3> QED
      BY <3>1, <1>3, FewerRollouts
  <2>6. p \in BetweenRollouts /\ p \notin InRollout /\ p \notin {"created", "step", "train"}
    BY DEF p, BetweenRollouts, InRollout
  <2>7. \A q : JoinsIn(attempt', q) = JoinsIn(attempt, q)
    BY <2>2 DEF JoinsIn
  <2>8. \A k \in 0..r : attempt'.checkpoints[k] = k
    <3> TAKE k \in 0..r
    <3>1. CASE k = r
      BY <3>1, <1>8, <2>2
    <3>2. CASE k # r
      <4>1. k \in 0..trainer.weights /\ k \in 0..Rollouts
        BY <3>2, <1>3
      <4> QED
        BY <4>1, <3>2, <1>8, <2>2 DEF LiveInv
    <3> QED
      BY <3>1, <3>2
  <2>9. \A q \in 1..Rollouts :
          /\ q > r => attempt'.samples[q] = <<>> /\ JoinsIn(attempt', q) = {}
          /\ attempt'.completed[q] # NoFile =>
               /\ q <= r
               /\ attempt'.completed[q].checkpoint = q
               /\ Cardinality(JoinsIn(attempt', q)) = NSteps
               /\ Len(attempt'.samples[q]) = NSteps
    <3> TAKE q \in 1..Rollouts
    <3>1. q > r => attempt'.samples[q] = <<>> /\ JoinsIn(attempt', q) = {}
      BY <2>2, <2>7 DEF LiveInv
    <3>2. CASE q = r
      BY <3>1, <3>2, <1>3, <1>4, <1>6, <2>2, <2>3, <2>7
    <3>3. CASE q # r
      <4>1. attempt.completed[q] # NoFile =>
              /\ q <= trainer.weights
              /\ attempt.completed[q].checkpoint = q
              /\ Cardinality(JoinsIn(attempt, q)) = NSteps
              /\ Len(attempt.samples[q]) = NSteps
        BY DEF LiveInv
      <4>2. q <= trainer.weights => q <= r
        BY <1>3
      <4> QED
        BY <3>1, <3>3, <4>1, <4>2, <2>2, <2>3, <2>7
    <3> QED
      BY <3>2, <3>3
  <2>10. LiveInv'
    <3>1. \A q \in 1..r :
            attempt'.started[q].version = q - 1 /\ attempt'.started[q].checkpoint = q - 1
      BY <2>2 DEF LiveInv
    <3>2. Cardinality(Results(attempt'.native)) = Len(attempt'.joins)
      BY <2>2 DEF LiveInv
    <3>3. r \in 0..Rollouts
      BY <1>3
    <3> HIDE DEF r
    <3> QED
      BY <1>3, <2>1, <2>5, <2>6, <2>8, <2>9, <3>1, <3>2, <3>3 DEF LiveInv
  <2>11. TrainingShapes' /\ RootInv'
    <3>1. p \in LivePoints /\ p \notin {"idle", "refused", "done"}
      BY DEF p, LivePoints
    <3> QED
      BY <1>1, <2>1, <2>2, <3>1 DEF TrainingInv, TrainingShapes, RootInv
  <2>12. trainer'.pc # "done"
    BY <2>1 DEF p
  <2> QED
    BY <2>4, <2>10, <2>11, <2>12 DEF TrainingInv
<1> QED
  BY <1>5, <1>12, <1>13

(* The end of a training: completion.json is written over records that are all in place. *)
LEMMA FinishKeeps ==
  ASSUME TrainingInv, LiveInv, Finish
  PROVE  TrainingInv'
<1> DEFINE es == EpisodesClosed(episodes)
           a == Appended(attempt, es)
           c == [rollouts |-> attempt.completed, steps |-> trainer.steps,
                 joined |-> joiner.joined, optimizer |-> trainer.optimizer,
                 final |-> trainer.checkpoint]
<1>1. /\ trainer.pc = "finish" /\ DOMAIN trainer = DOMAIN IdleTrainer
      /\ trainer.pc \in BetweenRollouts /\ UNCHANGED <<sampler, joiner>>
  BY DEF Finish, TrainingInv, TrainingShapes, IdleTrainer, BetweenRollouts
<1>2. RecordsInv(attempt) /\ AttemptShape(attempt)
  BY DEF TrainingInv, RecordsInv
<1>3. CASE Raises /\ UNCHANGED attempt
  BY <1>1, <1>2, <1>3, StepStops DEF Raises, IdleTrainer
<1>4. CASE /\ TrainingEndValid
           /\ trainer' = [trainer EXCEPT !.pc = "done"]
           /\ attempt' = [a EXCEPT !.completion = c]
  <2>1. es \in Seq(NativeEvents) /\ \A i \in DOMAIN es : es[i].event # "step_result"
    BY CutoffEvents
  <2>2. c.final = trainer.checkpoint
    OBVIOUS
  <2> HIDE DEF es, c
  <2>3. /\ DOMAIN a = DOMAIN attempt /\ a.native = attempt.native \o es
        /\ a.joins = attempt.joins /\ a.samples = attempt.samples
        /\ a.checkpoints = attempt.checkpoints /\ a.started = attempt.started
        /\ a.completed = attempt.completed /\ a.root = attempt.root
    BY <1>2, AppendedFields
  <2>4. RecordsInv(a)
    BY <1>2, <2>1, RecordsAppended
  <2> HIDE DEF a
  <2>5. /\ DOMAIN attempt' = DOMAIN attempt /\ attempt'.native = attempt.native \o es
        /\ attempt'.joins = attempt.joins /\ attempt'.samples = attempt.samples
        /\ attempt'.checkpoints = attempt.checkpoints /\ attempt'.started = attempt.started
        /\ attempt'.completed = attempt.completed /\ attempt'.root = attempt.root
        /\ attempt'.completion = c
    BY <1>2, <1>4, <2>3 DEF AttemptShape
  <2>6. RecordsInv(attempt')
    BY <2>3, <2>4, <2>5, RecordsSame
  <2>7. /\ Rollouts \in Nat \ {0} /\ trainer.weights = trainer.rollout
        /\ trainer.rollout \in 0..Rollouts /\ trainer.checkpoint = trainer.weights
    BY <1>1, TrainingAssumption DEF LiveInv
  <2>8. \A r \in 1..Rollouts :
          /\ r <= trainer.weights /\ attempt.completed[r].checkpoint = r
          /\ Cardinality(JoinsIn(attempt, r)) = NSteps /\ Len(attempt.samples[r]) = NSteps
    BY <1>4 DEF LiveInv, TrainingEndValid
  <2>9. trainer.weights = Rollouts
    BY <2>7, <2>8
  <2>10. \A r \in 1..Rollouts :
           attempt.started[r].checkpoint = r - 1 /\ attempt.checkpoints[r] = r
    BY <2>7, <2>9 DEF LiveInv
  <2>11. attempt.checkpoints[Rollouts] = Rollouts
    BY <2>7, <2>10
  <2>12. Cardinality(Results(attempt'.native)) = Len(attempt'.joins)
    <3>1. attempt.native \in Seq(NativeEvents)
      BY <1>2 DEF AttemptShape
    <3>2. Results(attempt'.native) = Results(attempt.native)
      BY <3>1, <2>1, <2>5, ResultsKept
    <3> QED
      BY <3>2, <2>5 DEF LiveInv
  <2>13. /\ trainer'.pc = "done" /\ DOMAIN trainer' = DOMAIN trainer
         /\ trainer'.checkpoint = trainer.checkpoint
    BY <1>1, <1>4 DEF IdleTrainer
  <2>14. CompletionIsWhole'
    <3>1. \A r \in 1..Rollouts : JoinsOf(r)' = JoinsIn(attempt, r)
      BY <2>5 DEF JoinsOf, JoinsIn
    <3>2. \A r \in 1..Rollouts :
            /\ attempt'.started[r].checkpoint = r - 1
            /\ attempt'.completed[r].checkpoint = attempt'.checkpoints[r]
            /\ Cardinality(JoinsOf(r)') = NSteps
            /\ Len(attempt'.samples[r]) = NSteps
      BY <3>1, <2>5, <2>8, <2>10
    <3>3. attempt'.completion.final = attempt'.checkpoints[Rollouts]
      BY <2>2, <2>5, <2>7, <2>9, <2>11
    <3> QED
      BY <3>2, <3>3, <2>12 DEF CompletionIsWhole, Results
  <2>15. TrainingShapes' /\ RootInv'
    BY <1>1, <2>5, <2>13 DEF TrainingInv, TrainingShapes, RootInv, EndPoints
  <2> QED
    BY <2>6, <2>7, <2>9, <2>13, <2>14, <2>15 DEF TrainingInv, LivePoints
<1> QED
  BY <1>3, <1>4 DEF Finish

(* The handler of a failed training leaves the records as they are, closed or not. *)
LEMMA RetainFailureKeeps ==
  ASSUME TrainingInv, RetainFailure
  PROVE  TrainingInv'
<1> DEFINE es == EpisodesClosed(episodes)
           a == Appended(attempt, es)
           f == [sample |-> sampler.latest, native |-> episodes.latest]
<1>1. /\ trainer.pc = "raised" /\ DOMAIN trainer = DOMAIN IdleTrainer
      /\ DOMAIN sampler' = DOMAIN sampler /\ DOMAIN joiner' = DOMAIN joiner
      /\ trainer' = [trainer EXCEPT !.pc = "failed"]
  BY DEF RetainFailure, ClosedSampler, AbortedRollout, TrainingInv, TrainingShapes, IdleTrainer
<1>2. RecordsInv(attempt) /\ AttemptShape(attempt)
  BY DEF TrainingInv, RecordsInv
<1>3. es \in Seq(NativeEvents)
  BY CutoffEvents
<1>4. attempt' = a \/ attempt' = [a EXCEPT !.failure = f]
  BY DEF RetainFailure
<1> HIDE DEF es, f
<1>5. /\ DOMAIN a = DOMAIN attempt /\ a.root = attempt.root /\ a.completion = attempt.completion
      /\ RecordsInv(a)
  BY <1>2, <1>3, AppendedFields, RecordsAppended
<1> HIDE DEF a
<1>6. /\ DOMAIN attempt' = DOMAIN a /\ attempt'.native = a.native /\ attempt'.joins = a.joins
      /\ attempt'.samples = a.samples /\ attempt'.checkpoints = a.checkpoints
      /\ attempt'.started = a.started /\ attempt'.completed = a.completed
      /\ attempt'.root = a.root /\ attempt'.completion = a.completion
  BY <1>2, <1>4, <1>5 DEF AttemptShape
<1>7. RecordsInv(attempt')
  BY <1>5, <1>6, RecordsSame
<1>8. trainer'.pc = "failed" /\ DOMAIN trainer' = DOMAIN trainer
  BY <1>1 DEF IdleTrainer
<1> QED
  BY <1>1, <1>5, <1>6, <1>7, <1>8, StepStops

(* A killed training leaves everything it wrote. *)
LEMMA TrainerDiesKeeps ==
  ASSUME TrainingInv, TrainerDies
  PROVE  TrainingInv'
<1>1. /\ trainer'.pc = "dead" /\ DOMAIN trainer' = DOMAIN trainer
      /\ UNCHANGED <<sampler, joiner, attempt>> /\ trainer.pc \notin {"idle", "refused", "done"}
  BY DEF TrainerDies, TrainingInv, TrainingShapes
<1>2. RecordsInv(attempt')
  BY <1>1 DEF TrainingInv
<1> QED
  BY <1>1, <1>2, StepStops

(* A second call starts from nothing but the files of the first. *)
LEMMA RetryKeeps ==
  ASSUME TrainingInv, RetrySameRoot
  PROVE  TrainingInv'
<1>1. /\ trainer' = IdleTrainer /\ trainer'.pc = "idle" /\ attempt' = attempt
      /\ trainer.pc # "done"
      /\ DOMAIN sampler' = {"state", "count", "latest", "version", "hooks"}
      /\ DOMAIN joiner' = {"poisoned", "rollout", "lastSample", "joined", "lastNative"}
  BY DEF RetrySameRoot, IdleTrainer, NewJoiner
<1>2. TrainingShapes'
  BY <1>1 DEF TrainingShapes, IdleTrainer, EndPoints
<1>3. RootInv'
  BY <1>1 DEF TrainingInv, RootInv
<1> QED
  BY <1>1, <1>2, <1>3 DEF TrainingInv, LivePoints

-----------------------------------------------------------------------------
(* A training attempt, from the first call on.                              *)

(* Nothing is recorded before the first call. *)
LEMMA TrainingStarts ==
  ASSUME TrainingInit
  PROVE  TrainingInv
<1>1. /\ trainer = IdleTrainer /\ attempt = NoAttempt /\ joiner = NewJoiner
      /\ sampler = [state |-> "closed", count |-> 0, latest |-> NoFile, version |-> 0, hooks |-> 0]
  BY DEF TrainingInit
<1>2. TrainingShapes /\ RootInv
  BY <1>1 DEF TrainingShapes, RootInv, IdleTrainer, EndPoints, NewJoiner, NoAttempt
<1>3. AttemptShape(attempt)
  BY <1>1 DEF AttemptShape, NoAttempt
<1>4. /\ attempt.joins = <<>> /\ \A r \in 1..Rollouts : attempt.samples[r] = <<>>
      /\ \A r : JoinsIn(attempt, r) = {}
  BY <1>1 DEF NoAttempt, JoinsIn
<1>5. Dense(attempt)
  <2>1. Cardinality({}) = 0
    BY FS_EmptySet
  <2>2. \A r : Drawn(attempt, r) = {}
    BY <1>4 DEF Drawn
  <2>3. 1..0 = {}
    OBVIOUS
  <2>4. \A r \in 1..Rollouts : JoinsIn(attempt, r) = {} /\ Drawn(attempt, r) = {}
    BY <1>4, <2>2
  <2> QED
    BY <2>1, <2>3, <2>4 DEF Dense
<1>6. Attributed(attempt) /\ Versioned(attempt) /\ Ordered(attempt)
  BY <1>4 DEF Attributed, Versioned, Ordered
<1> QED
  BY <1>1, <1>2, <1>3, <1>5, <1>6 DEF TrainingInv, RecordsInv, IdleTrainer, LivePoints

(* Every step of a training keeps its records sound. *)
LEMMA TrainingStepKeeps ==
  ASSUME TrainingInv, TrainingStep
  PROVE  TrainingInv'
<1>1. trainer.pc \in LivePoints => LiveInv
  BY DEF TrainingInv
<1>2. ASSUME NEW c \in Configs, CreateAttempt(c)
      PROVE  TrainingInv'
  BY <1>2, CreateAttemptKeeps
<1>3. CASE BeginLearn
  <2>1. LiveInv /\ trainer.pc = "created" /\ ResetWith("start")
    BY <1>1, <1>3 DEF BeginLearn, LivePoints
  <2> QED
    BY <2>1, ResetKeeps
<1>4. CASE EpisodeEnds
  <2>1. LiveInv /\ trainer.pc = "reset" /\ ResetWith("stepped")
    BY <1>1, <1>4 DEF EpisodeEnds, LivePoints
  <2> QED
    BY <2>1, ResetKeeps
<1>5. CASE StartRollout
  BY <1>1, <1>5, StartRolloutKeeps DEF StartRollout, LivePoints
<1>6. ASSUME NEW code \in Codes, NEW batch \in 1..2, Forward(code, batch)
      PROVE  TrainingInv'
  <2>1. LiveInv
    BY <1>1, <1>6 DEF Forward, LivePoints
  <2> QED
    BY <2>1, <1>6, ForwardKeeps
<1>7. CASE ForeignHook \/ NextStep
  <2>1. LiveInv
    BY <1>1, <1>7 DEF ForeignHook, NextStep, LivePoints
  <2> QED
    BY <2>1, <1>7, QuietKeeps
<1>8. ASSUME NEW effect \in StepOutcomes, JoinStep(effect)
      PROVE  TrainingInv'
  <2>1. LiveInv
    BY <1>1, <1>8 DEF JoinStep, LivePoints
  <2> QED
    BY <2>1, <1>8, JoinStepKeeps
<1>9. CASE EndRollout
  BY <1>1, <1>9, EndRolloutKeeps DEF EndRollout, LivePoints
<1>10. CASE AfterTrain
  BY <1>1, <1>10, AfterTrainKeeps DEF AfterTrain, LivePoints
<1>11. CASE Finish
  BY <1>1, <1>11, FinishKeeps DEF Finish, LivePoints
<1>12. CASE RetainFailure \/ TrainerDies \/ RetrySameRoot
  BY <1>12, RetainFailureKeeps, TrainerDiesKeeps, RetryKeeps
<1> QED
  BY <1>2, <1>3, <1>4, <1>5, <1>6, <1>7, <1>8, <1>9, <1>10, <1>11, <1>12 DEF TrainingStep

(* Once a training returned, none of its steps is left. *)
LEMMA DoneIsLast ==
  ASSUME TrainingStep, trainer.pc = "done"
  PROVE  FALSE
BY DEF TrainingStep, CreateAttempt, BeginLearn, EpisodeEnds, StartRollout, Forward, ForeignHook,
       JoinStep, NextStep, EndRollout, AfterTrain, Finish, RetainFailure, TrainerDies, RetrySameRoot

(* The records of a sound training are the lineage the run checks. *)
LEMMA SoundIsTraceable ==
  ASSUME TrainingInv
  PROVE  TrainingLineageHolds
<1>1. /\ RecordsInv(attempt) /\ AttemptShape(attempt)
      /\ \A r : JoinsOf(r) = JoinsIn(attempt, r)
  BY DEF TrainingInv, RecordsInv, JoinsOf, JoinsIn
<1>2. ASSUME NEW i \in DOMAIN attempt.joins
      PROVE  LET j == attempt.joins[i]
                 s == attempt.samples[j.rollout]
             IN /\ j.sample \in DOMAIN s
                /\ s[j.sample].action = j.action
                /\ s[j.sample].version = attempt.started[j.rollout].version
                /\ s[j.sample].version = attempt.checkpoints[j.rollout - 1]
                /\ attempt.native[j.native + 1] = Event("step_result", j.action)
  <2> DEFINE j == attempt.joins[i]
             s == attempt.samples[j.rollout]
  <2>1. j.rollout \in 1..Rollouts
    BY <1>1, JoinTypes
  <2>2. /\ j.sample \in DOMAIN s /\ s[j.sample].action = j.action
        /\ attempt.native[j.native + 1] = Event("step_result", j.action)
    BY <1>1 DEF RecordsInv, Attributed
  <2>3. /\ s[j.sample].version = j.rollout - 1
        /\ attempt.started[j.rollout].version = j.rollout - 1
        /\ attempt.checkpoints[j.rollout - 1] = j.rollout - 1
    BY <1>1, <2>1, <2>2 DEF RecordsInv, Versioned
  <2> QED
    BY <2>2, <2>3
<1>3. \A i, k \in DOMAIN attempt.joins : i < k =>
        /\ attempt.joins[i].native < attempt.joins[k].native
        /\ attempt.joins[i].rollout = attempt.joins[k].rollout =>
             attempt.joins[i].sample < attempt.joins[k].sample
  BY <1>1 DEF RecordsInv, Ordered
<1>4. \A r \in 1..Rollouts :
        {attempt.joins[i].sample : i \in JoinsOf(r)} = 1..Cardinality(JoinsOf(r))
  BY <1>1 DEF RecordsInv, Dense, Drawn
<1>5. TransitionsAreAttributed
  BY <1>2, <1>3, <1>4 DEF TransitionsAreAttributed
<1>6. CompletionIsWhole
  BY DEF TrainingInv, RootInv, CompletionIsWhole
<1> QED
  BY <1>5, <1>6 DEF TrainingLineageHolds

-----------------------------------------------------------------------------
(* From the training that returned to the decisions taken with its policy.  *)

(* A training nobody steps stays as sound as it was. *)
LEMMA TrainingFrozen ==
  ASSUME TrainingInv, UNCHANGED trainingVars
  PROVE  TrainingInv'
<1>1. trainer' = trainer /\ sampler' = sampler /\ joiner' = joiner /\ attempt' = attempt
  BY DEF trainingVars
<1>2. TrainingShapes' /\ RootInv' /\ RecordsInv(attempt')
  BY <1>1 DEF TrainingInv, TrainingShapes, RootInv
<1>3. LiveInv => LiveInv'
  BY <1>1 DEF LiveInv
<1>4. CompletionIsWhole => CompletionIsWhole'
  BY <1>1 DEF CompletionIsWhole, JoinsOf
<1> QED
  BY <1>1, <1>2, <1>3, <1>4 DEF TrainingInv

(* A verified bundle carries the context of the training that returned. *)
LEMMA VerifiedContext ==
  ASSUME BundleVerified
  PROVE  bundle.context.transform = FittedTransform /\ bundle.context.cost = TrainCost
BY DEF BundleVerified, Pinned, Receipt, TrainingContext

(* What the loader holds survives every step that leaves the loader and the training alone. *)
LEMMA LoaderKept ==
  ASSUME PolicyInv, UNCHANGED <<trainer, loader, decided>>,
         edits' \in Nat, edits' = 0 => TrainingInv',
         edits' # 0 => trainer.pc = "done",
         DOMAIN publisher' = {"pc"}, publisher'.pc # "idle" => trainer.pc = "done"
  PROVE  PolicyInv'
<1>1. LoaderInv' /\ DecidesWithTheTrainedPolicy'
  BY DEF PolicyInv, LoaderInv, DecidesWithTheTrainedPolicy
<1> QED
  BY <1>1 DEF PolicyInv

(* Training steps come before every publication, load and edit. *)
LEMMA TrainingNextKeeps ==
  ASSUME PolicyInv, TrainingNext, UNCHANGED inferenceVars
  PROVE  PolicyInv'
<1>1. TrainingStep /\ trainer.pc # "done"
  BY DoneIsLast DEF TrainingNext
<1>2. edits = 0 /\ TrainingInv
  BY <1>1 DEF PolicyInv
<1>3. TrainingInv'
  BY <1>1, <1>2, TrainingStepKeeps
<1>4. /\ UNCHANGED <<publisher, loader, decided, edits>>
      /\ publisher.pc = "idle" /\ loader.pc \notin {"verified", "loaded"}
  BY <1>1 DEF PolicyInv, LoaderInv, inferenceVars
<1>5. LoaderInv' /\ DecidesWithTheTrainedPolicy'
  BY <1>4 DEF PolicyInv, LoaderInv, DecidesWithTheTrainedPolicy
<1>6. trainer'.pc = "done" => trainer'.checkpoint = Rollouts
  BY <1>3 DEF TrainingInv
<1> QED
  BY <1>2, <1>3, <1>4, <1>5, <1>6 DEF PolicyInv

(* The publisher never touches the records it verifies. *)
LEMMA PublisherKeeps ==
  ASSUME PolicyInv, PublishStart \/ CopyPolicy \/ WriteBundleManifest \/ PublisherDies \/ PublishAgain
  PROVE  PolicyInv'
<1>1. UNCHANGED trainingVars /\ UNCHANGED <<loader, decided, edits>>
  BY DEF PublishStart, CopyPolicy, WriteBundleManifest, PublisherDies, PublishAgain
<1>2. \E point : publisher' = [publisher EXCEPT !.pc = point]
  BY DEF PublishStart, CopyPolicy, WriteBundleManifest, PublisherDies, PublishAgain, PublishFails
<1>3. trainer.pc = "done"
  BY DEF PublishStart, CopyPolicy, WriteBundleManifest, PublisherDies, PublishAgain, PolicyInv
<1>4. TrainingInv => TrainingInv'
  BY <1>1, TrainingFrozen
<1> QED
  BY <1>1, <1>2, <1>3, <1>4, LoaderKept DEF PolicyInv, trainingVars

(* A loader keeps the fitted context of the bundle it verified. *)
LEMMA LoadVerifyKeeps ==
  ASSUME PolicyInv, NEW kind \in {"plain", "scenario"}, NEW env \in RuntimeEnvs, NEW s,
         LoadVerify(kind, env, s)
  PROVE  PolicyInv'
<1>1. /\ UNCHANGED trainingVars /\ UNCHANGED <<publisher, decided, edits>>
      /\ trainer.pc = "done"
  BY DEF LoadVerify, PolicyInv
<1>2. TrainingInv => TrainingInv'
  BY <1>1, TrainingFrozen
<1>3. LoaderInv'
  <2>1. CASE loader' = [loader EXCEPT !.pc = "refused"]
    BY <1>1, <2>1 DEF PolicyInv, LoaderInv, trainingVars
  <2>2. CASE /\ BundleVerified
             /\ loader' = [pc |-> "verified", kind |-> kind, scenario |-> s, context |-> bundle.context,
                  binding |-> BindingOf(env), policy |-> NoFile, poisoned |-> FALSE]
    <3>1. env.start \in Int
      BY InferenceAssumption
    <3>2. bundle.context.transform = FittedTransform /\ bundle.context.cost = TrainCost
      BY <2>2, VerifiedContext
    <3>3. BindingOf(env).start \in Int
      BY <3>1 DEF BindingOf
    <3> QED
      BY <1>1, <2>2, <3>2, <3>3 DEF LoaderInv, trainingVars
  <2> QED
    BY <2>1, <2>2 DEF LoadVerify
<1>4. DecidesWithTheTrainedPolicy'
  BY <1>1, <1>3 DEF PolicyInv, LoaderInv, DecidesWithTheTrainedPolicy
<1> QED
  BY <1>1, <1>2, <1>3, <1>4 DEF PolicyInv, trainingVars

(* What is loaded is the checkpoint the receipt names, or nothing. *)
LEMMA LoadStepsKeep ==
  ASSUME PolicyInv, LoadPolicy \/ LoadAgain \/ ScenarioReset
  PROVE  PolicyInv'
<1>1. UNCHANGED trainingVars /\ UNCHANGED <<publisher, decided, edits>>
  BY DEF LoadPolicy, LoadAgain, ScenarioReset
<1>2. TrainingInv => TrainingInv'
  BY <1>1, TrainingFrozen
<1>3. LoaderInv'
  <2>1. CASE LoadPolicy
    <3>1. trainer.pc = "done" /\ Receipt.checkpoint = Rollouts
      BY <2>1 DEF LoadPolicy, PolicyInv, LoaderInv, Receipt
    <3>2. \/ loader' = [loader EXCEPT !.pc = "loaded", !.policy = Rollouts]
          \/ loader' = [loader EXCEPT !.pc = "refused"]
      BY <2>1, <3>1 DEF LoadPolicy
    <3>3. loader.pc = "verified"
      BY <2>1 DEF LoadPolicy
    <3> QED
      BY <1>1, <3>2, <3>3 DEF PolicyInv, LoaderInv, trainingVars
  <2>2. CASE LoadAgain
    BY <1>1, <2>2 DEF LoadAgain, PolicyInv, LoaderInv, trainingVars
  <2>3. CASE ScenarioReset
    <3>1. \E ok : loader' = [loader EXCEPT !.poisoned = ok]
      BY <2>3 DEF ScenarioReset
    <3> QED
      BY <1>1, <3>1 DEF PolicyInv, LoaderInv, trainingVars
  <2> QED
    BY <2>1, <2>2, <2>3
<1>4. DecidesWithTheTrainedPolicy'
  BY <1>1, <1>3 DEF PolicyInv, LoaderInv, DecidesWithTheTrainedPolicy
<1> QED
  BY <1>1, <1>2, <1>3, <1>4 DEF PolicyInv, trainingVars

(* A decision is taken with what was loaded, inside the bound window and its costs. *)
LEMMA DecideKeeps ==
  ASSUME PolicyInv, NEW snap \in Snapshots, DecideTarget(snap)
  PROVE  PolicyInv'
<1>1. /\ UNCHANGED trainingVars /\ UNCHANGED <<publisher, loader, edits>>
      /\ loader.pc = "loaded"
  BY DEF DecideTarget
<1>2. TrainingInv => TrainingInv'
  BY <1>1, TrainingFrozen
<1>3. /\ loader.policy = Rollouts /\ loader.context.transform = FittedTransform
      /\ loader.context.cost = TrainCost /\ loader.binding.start \in Int
      /\ loader.kind \in {"plain", "scenario"}
  BY <1>1 DEF PolicyInv, LoaderInv
<1>4. /\ decided'.policy = loader.policy /\ decided'.kind = loader.kind
      /\ decided'.scenario = loader.scenario /\ decided'.snap = snap
      /\ decided'.context = loader.context /\ decided'.env = runtime
  BY DEF DecideTarget
<1>5. StopIndex \in Nat /\ PolicyAgentStop \in Nat /\ PolicyAgentStop <= StopIndex
  BY TrainingAssumption DEF StopIndex, PolicyAgentStop
<1>6. snap.index >= StopIndex
  <2>1. loader.binding.start <= snap.index /\ loader.binding.start >= loader.context.transform.stop
    BY DEF DecideTarget, RawValid, SnapshotInWindow, BindingBelongs
  <2>2. loader.context.transform.stop = StopIndex
    BY <1>3 DEF FittedTransform
  <2>3. snap.index \in Int
    BY InferenceAssumption
  <2> QED
    BY <1>3, <1>5, <2>1, <2>2, <2>3
<1>7. \A row \in loader.context.transform.rows : row < snap.index
  <2>1. loader.context.transform.rows = 0..PolicyAgentStop - 1
    BY <1>3 DEF FittedTransform
  <2>2. snap.index \in Int
    BY InferenceAssumption
  <2> HIDE DEF PolicyAgentStop, StopIndex
  <2> QED
    BY <1>5, <1>6, <2>1, <2>2
<1>8. loader.kind = "scenario" =>
        /\ runtime.cost = loader.scenario.cost
        /\ loader.scenario.base = TrainCost
        /\ loader.scenario.changed \subseteq AllowedChanges
  BY <1>3 DEF DecideTarget, Bindable, ScenarioBindable, ScenarioValid
<1>9. LoaderInv' /\ DecidesWithTheTrainedPolicy'
  <2>1. LoaderInv'
    BY <1>1 DEF PolicyInv, LoaderInv, trainingVars
  <2> QED
    BY <1>1, <1>3, <1>4, <1>6, <1>7, <1>8, <2>1 DEF DecidesWithTheTrainedPolicy
<1> QED
  BY <1>1, <1>2, <1>9 DEF PolicyInv, trainingVars

(* Edits come after the training: nothing decided or loaded depends on them any more. *)
LEMMA EditsKeep ==
  ASSUME PolicyInv, EditFiles \/ Upgrade \/ EditEnvironment
  PROVE  PolicyInv'
<1>1. /\ UNCHANGED <<trainer, publisher, loader, decided>> /\ trainer.pc = "done"
      /\ edits' = edits + 1
  BY DEF EditFiles, Upgrade, EditEnvironment, Edit, trainingVars, PolicyInv, LoaderInv
<1>2. edits' \in Nat /\ edits' # 0
  BY <1>1 DEF PolicyInv
<1> QED
  BY <1>1, <1>2, LoaderKept DEF PolicyInv

(* From a decision back to the samples its policy was trained on: the records of the     *)
(* training (fit_shared_portfolio_ppo and its journals) are attributed and whole until   *)
(* someone edits them, and what decide_portfolio decides with is the checkpoint they     *)
(* end in, for every number of rollouts, steps, codes, environments and edits.           *)
THEOREM PolicyTraceable == InferenceSpec => []PolicyIsTraceable
<1>1. InferenceInit => PolicyInv
  <2> SUFFICES ASSUME InferenceInit
               PROVE  PolicyInv
    OBVIOUS
  <2>1. TrainingInv
    BY TrainingStarts DEF InferenceInit
  <2>2. LoaderInv /\ DecidesWithTheTrainedPolicy
    BY DEF InferenceInit, LoaderInv, DecidesWithTheTrainedPolicy
  <2>3. trainer.pc = "idle"
    BY DEF InferenceInit, TrainingInit, IdleTrainer
  <2> QED
    BY <2>1, <2>2, <2>3 DEF InferenceInit, PolicyInv
<1>2. PolicyInv /\ [InferenceNext]_policyVars => PolicyInv'
  <2> SUFFICES ASSUME PolicyInv, [InferenceNext]_policyVars
               PROVE  PolicyInv'
    OBVIOUS
  <2>1. CASE TrainingNext /\ UNCHANGED inferenceVars
    BY <2>1, TrainingNextKeeps
  <2>2. CASE PublishStart \/ CopyPolicy \/ WriteBundleManifest \/ PublisherDies \/ PublishAgain
    BY <2>2, PublisherKeeps
  <2>3. ASSUME NEW env \in RuntimeEnvs, LoadVerify("plain", env, NoFile)
        PROVE  PolicyInv'
    BY <2>3, LoadVerifyKeeps
  <2>4. ASSUME NEW env \in RuntimeEnvs, NEW s \in Scenarios, LoadVerify("scenario", env, s)
        PROVE  PolicyInv'
    BY <2>4, LoadVerifyKeeps
  <2>5. CASE LoadPolicy \/ LoadAgain \/ ScenarioReset
    BY <2>5, LoadStepsKeep
  <2>6. ASSUME NEW snap \in Snapshots, DecideTarget(snap)
        PROVE  PolicyInv'
    BY <2>6, DecideKeeps
  <2>7. CASE EditFiles \/ Upgrade \/ EditEnvironment
    BY <2>7, EditsKeep
  <2>8. CASE UNCHANGED policyVars
    <3>1. UNCHANGED trainingVars /\ UNCHANGED <<publisher, loader, decided, edits>>
      BY <2>8 DEF policyVars, inferenceVars
    <3>2. TrainingInv => TrainingInv'
      BY <3>1, TrainingFrozen
    <3> QED
      BY <3>1, <3>2, LoaderKept DEF PolicyInv, trainingVars
  <2> QED
    BY <2>1, <2>2, <2>3, <2>4, <2>5, <2>6, <2>7, <2>8 DEF InferenceNext
<1>3. PolicyInv => PolicyIsTraceable
  BY SoundIsTraceable DEF PolicyInv, PolicyIsTraceable
<1> QED
  BY <1>1, <1>2, <1>3, PTL DEF InferenceSpec
=============================================================================
