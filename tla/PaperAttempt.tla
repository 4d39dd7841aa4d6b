---------------------------- MODULE PaperAttempt ----------------------------
(***************************************************************************)
(* How a paper study comes to collect: a second attempt is sealed over the  *)
(* preserved root of the first one (attempt2.py, predecessor.py,            *)
(* operations.py), a storage probe seals and runs its own scratch root      *)
(* (storage_probe.py), and a collector process enters a sealed root through *)
(* `attempt2 launch`, `cli run` or the probe (cli.py, supervisor.py).       *)
(*                                                                          *)
(* The predecessor's root, the checkout and the clock change between any    *)
(* two steps of a process, and processes race for one root's lock.          *)
(***************************************************************************)
EXTENDS Naturals

CONSTANTS Roots,        \* the directories a study may be sealed in
          Entrants,     \* the processes that try to enter a root
          SealNotice,   \* MINIMUM_SEAL_NOTICE, in clock ticks
          ScreenTicks,  \* from the start to the terminal deadline
          MaxTime,      \* bound: the clock stops here
          MaxCode       \* bound: the versions of the source

ASSUME AttemptAssumption == MaxTime \in Nat /\ MaxCode \in Nat \ {0}

Unsealed == [plan |-> "none"]
Out      == [at |-> "out"]

VARIABLES
  attemptClock,  \* the wall clock
  checkout,      \* [code, clean]: the source tree and whether it is committed
  predecessor,   \* attempt 1's root as the v1 reader finds it
  study,         \* root -> Unsealed or the sealed protocol
  beaten,        \* the roots holding a readable heartbeat
  halted,        \* root -> "no" or what made a process write its failure marker
  entrant,       \* process -> how far it has entered which root
  evaluated      \* the roots an assessment was published for

attemptVars == <<attemptClock, checkout, predecessor, study, beaten, halted,
                 entrant, evaluated>>

Plans    == {"screen", "probe"}
Lineages == {"none", "first", "available", "unavailable"}
Protocol == [plan : Plans, lineage : Lineages, start : Nat, code : 1..MaxCode]
Entering == [at : {"started", "verified", "owns"}, root : Roots,
             via : {"launch", "run", "probe"}, read : {"unread", "intact"}]

\* Types of the variables above; a study is Unsealed or a Protocol.
AttemptTypeOK ==
  /\ attemptClock \in 0..MaxTime
  /\ checkout \in [code : 1..MaxCode, clean : BOOLEAN]
  /\ predecessor \in {"intact", "changed", "gone"}
  /\ study \in [Roots -> Protocol \cup {Unsealed}]
  /\ beaten \subseteq Roots
  /\ halted \in [Roots -> {"no", "provenance", "collection"}]
  /\ entrant \in [Entrants -> Entering \cup {Out}]
  /\ evaluated \subseteq Roots

AttemptInit ==
  /\ attemptClock = 0
  /\ checkout = [code |-> 1, clean |-> TRUE]
  /\ predecessor = "intact"
  /\ study = [r \in Roots |-> Unsealed]
  /\ beaten = {}
  /\ halted = [r \in Roots |-> "no"]
  /\ entrant = [e \in Entrants |-> Out]
  /\ evaluated = {}

-----------------------------------------------------------------------------
(* The world around the processes.                                          *)

Sealed(r) == study[r].plan # "none"
Owners(r) == {e \in Entrants : entrant[e].at = "owns" /\ entrant[e].root = r}

TimePasses ==
  /\ attemptClock < MaxTime
  /\ attemptClock' = attemptClock + 1
  /\ UNCHANGED <<checkout, predecessor, study, beaten, halted, entrant, evaluated>>

EditCheckout ==
  /\ \/ /\ checkout.code < MaxCode
        /\ checkout' = [code |-> checkout.code + 1, clean |-> FALSE]
     \/ checkout' = [checkout EXCEPT !.clean = TRUE]
  /\ UNCHANGED <<attemptClock, predecessor, study, beaten, halted, entrant, evaluated>>

PredecessorChanges ==
  /\ \E p \in {"intact", "changed", "gone"} : predecessor' = p
  /\ UNCHANGED <<attemptClock, checkout, study, beaten, halted, entrant, evaluated>>

-----------------------------------------------------------------------------
(* Sealing.                                                                 *)

\* verify_predecessor_root: the v1 reader finds the recorded event count, tip
\* and last observation.
VerifyPredecessorRoot == predecessor = "intact"

\* resolve_lineage: `available` needs a root the reader verifies, `unavailable`
\* names none.
ResolveLineage(status) ==
  \/ status = "unavailable"
  \/ status = "available" /\ VerifyPredecessorRoot

\* lineage_structure_problems and validate_attempt_lineage: v2 belongs to the
\* first attempt, v3 is one of the two canonical records.
LineageAccepted(lineage) == lineage \in {"first", "available", "unavailable"}

\* seal_collection: v3 needs the token only attempt2 holds, the root is new, the
\* start is in the future, and the provenance of the moment is recorded.
SealCollection(r, plan, lineage, start, token) ==
  /\ lineage \in {"available", "unavailable"} => token
  /\ plan = "screen" => LineageAccepted(lineage)
  /\ ~Sealed(r)
  /\ attemptClock < start
  /\ study' = [study EXCEPT ![r] = [plan |-> plan, lineage |-> lineage,
                                    start |-> start, code |-> checkout.code]]
  /\ UNCHANGED <<attemptClock, checkout, predecessor, beaten, halted, evaluated>>

\* seal_attempt2: authorization and capacity are the operator's inputs; every
\* failed precondition refuses.
SealAttempt2(r, status, start) ==
  /\ start >= attemptClock + SealNotice
  /\ ResolveLineage(status)
  /\ checkout.clean
  /\ SealCollection(r, "screen", status, start, TRUE)
  /\ UNCHANGED entrant

\* seal_paper_study through `cli seal`: the operator's lineage file, no token.
SealPaperStudy(r, lineage, start) ==
  /\ start >= attemptClock + SealNotice
  /\ SealCollection(r, "screen", lineage, start, FALSE)
  /\ UNCHANGED entrant

-----------------------------------------------------------------------------
(* Entering a sealed root.                                                  *)

Begin(e, r, via) ==
  entrant' = [entrant EXCEPT ![e] = [at |-> "started", root |-> r, via |-> via,
                                     read |-> "unread"]]

\* measure_storage: seals its own root one lead ahead, outside any other root,
\* and enters it in the same process.
ProbeStarts(e, r) ==
  /\ entrant[e] = Out
  /\ SealCollection(r, "probe", "none", attemptClock + 1, FALSE)
  /\ Begin(e, r, "probe")

\* _protocol_reasons: not a probe, a canonical lineage whose available
\* predecessor verifies now, the sealed provenance.
ProtocolReasons(r) ==
  \/ study[r].plan = "probe"
  \/ study[r].lineage = "first"
  \/ study[r].lineage = "available" /\ ~VerifyPredecessorRoot
  \/ study[r].code # checkout.code

\* launch_attempt2 up to supervise(): a first launch precedes the start, a
\* relaunch needs a heartbeat, and a held lock refuses.
LaunchAttempt2(e, r) ==
  /\ entrant[e] = Out
  /\ Sealed(r)
  /\ checkout.clean
  /\ ~ProtocolReasons(r)
  /\ attemptClock < study[r].start \/ r \in beaten
  /\ Owners(r) = {}
  /\ Begin(e, r, "launch")
  /\ UNCHANGED <<attemptClock, checkout, predecessor, study, beaten, halted, evaluated>>

\* `cli run` or `cli supervise` by hand.
RunByHand(e, r) ==
  /\ entrant[e] = Out
  /\ Sealed(r)
  /\ Begin(e, r, "run")
  /\ UNCHANGED <<attemptClock, checkout, predecessor, study, beaten, halted, evaluated>>

\* _refuse_non_screen_root: the probe runs itself; every other way in refuses it.
ScreenRoot(e) ==
  entrant[e].via = "probe" \/ study[entrant[e].root].plan # "probe"

\* Mutation: a heartbeat is taken as proof that the predecessor was read before.
LineageHoldsUnlessBeaten(r) ==
  study[r].lineage = "available" => VerifyPredecessorRoot \/ r \in beaten

\* collection_lineage_problems is empty: an available predecessor is read again,
\* whatever the clock, the journal or the heartbeat say.
LineageHolds(r) ==
  study[r].lineage = "available" => VerifyPredecessorRoot

\* PaperCollector.__enter__ before the lock: a refusal leaves nothing behind.
ReadProtocol(e) ==
  /\ entrant[e].at = "started"
  /\ LET r == entrant[e].root
     IN  entrant' = [entrant EXCEPT ![e] =
           IF ScreenRoot(e) /\ LineageHolds(r)
             THEN [@ EXCEPT !.at = "verified", !.read =
                     IF predecessor = "intact" THEN "intact" ELSE "unread"]
             ELSE Out]
  /\ UNCHANGED <<attemptClock, checkout, predecessor, study, beaten, halted, evaluated>>

\* Mutation: the guard that runs under the lock forgets the provenance.
GuardMarkerOnly(r) == halted[r] = "no"

\* PaperCollector._guard: no failure marker and the sealed provenance.
Guard(r) == halted[r] = "no" /\ study[r].code = checkout.code

\* PaperCollector.__enter__ from the lock on: a held lock leaves the owner
\* alone; a failed guard writes the marker unless one is there.
TakeLock(e) ==
  /\ entrant[e].at = "verified"
  /\ LET r == entrant[e].root
     IN  \/ /\ Owners(r) # {}
            /\ entrant' = [entrant EXCEPT ![e] = Out]
            /\ UNCHANGED <<halted, beaten>>
         \/ /\ Owners(r) = {} /\ ~Guard(r)
            /\ entrant' = [entrant EXCEPT ![e] = Out]
            /\ halted' = [halted EXCEPT ![r] =
                            IF @ = "no" THEN "provenance" ELSE @]
            /\ UNCHANGED beaten
         \/ /\ Owners(r) = {} /\ Guard(r)
            /\ entrant' = [entrant EXCEPT ![e] = [@ EXCEPT !.at = "owns"]]
            /\ beaten' = beaten \cup {r}
            /\ UNCHANGED halted
  /\ UNCHANGED <<attemptClock, checkout, predecessor, study, evaluated>>

\* The owner's process ends, with or without a failure marker.
OwnerEnds(e) ==
  /\ entrant[e].at = "owns"
  /\ \/ UNCHANGED halted
     \/ halted' = [halted EXCEPT ![entrant[e].root] = "collection"]
  /\ entrant' = [entrant EXCEPT ![e] = Out]
  /\ UNCHANGED <<attemptClock, checkout, predecessor, study, beaten, evaluated>>

\* Mutation: the collection is accepted whatever plan it was sealed with.
EvaluableAnyPlan(r) == Sealed(r)

\* evaluate_paper_study accepts only a screen plan with an attempt lineage.
Evaluable(r) == Sealed(r) /\ study[r].plan = "screen" /\ study[r].lineage # "none"

\* evaluate_paper_study: after the terminal deadline, under the sealed source,
\* holding the lock a collector has created and no longer owns.
Evaluate(r) ==
  /\ Evaluable(r)
  /\ attemptClock >= study[r].start + ScreenTicks
  /\ checkout.code = study[r].code
  /\ r \in beaten /\ Owners(r) = {}
  /\ evaluated' = evaluated \cup {r}
  /\ UNCHANGED <<attemptClock, checkout, predecessor, study, beaten, halted, entrant>>

-----------------------------------------------------------------------------
AttemptNext ==
  \/ TimePasses \/ EditCheckout \/ PredecessorChanges
  \/ \E r \in Roots :
       \/ Evaluate(r)
       \/ \E start \in 1..MaxTime :
            \/ \E s \in {"available", "unavailable"} : SealAttempt2(r, s, start)
            \/ SealPaperStudy(r, "first", start)
       \/ \E e \in Entrants :
            ProbeStarts(e, r) \/ LaunchAttempt2(e, r) \/ RunByHand(e, r)
  \/ \E e \in Entrants : ReadProtocol(e) \/ TakeLock(e) \/ OwnerEnds(e)

AttemptSpec == AttemptInit /\ [][AttemptNext]_attemptVars

-----------------------------------------------------------------------------
\* Whoever owns the lock of a root sealed over an available predecessor has
\* itself read that predecessor and found it intact, restarts included; it runs
\* the sealed source, and no other process owns the root.
OwnerHasReadPredecessor ==
  \A r \in Roots : \A e \in Owners(r) :
    study[r].lineage = "available" => entrant[e].read = "intact"

\* A probe's root carries no evidence for a screen: nobody but the probe ever
\* collects into it and no assessment of it is published.
ProbeIsNeverAScreen ==
  \A r \in Roots : study[r].plan = "probe" =>
    /\ r \notin evaluated
    /\ \A e \in Owners(r) : entrant[e].via = "probe"

\* Collection starts under the sealed source and ends for good once it is
\* halted: the marker and an owner never meet but in the step that ends it.
StartsUnderSealedSource ==
  \A e \in Entrants : entrant[e].at # "owns" /\ entrant'[e].at = "owns" =>
    LET r == entrant'[e].root
    IN  study[r].code = checkout.code /\ halted[r] = "no" /\ Owners(r) = {}

\* A screen's collection is what was sealed: an owner has read the predecessor,
\* a probe's root never becomes a screen, and collection starts under the
\* sealed source.
CollectionIsTheSealedOne ==
  [][OwnerHasReadPredecessor' /\ ProbeIsNeverAScreen' /\ StartsUnderSealedSource]_attemptVars
=============================================================================
