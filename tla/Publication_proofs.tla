-------------------------- MODULE Publication_proofs --------------------------
(***************************************************************************)
(* Proofs about five publication protocols, for every value of their       *)
(* constants: the artifact store, the one-shot normalization replication,  *)
(* the one-shot comparison attempts, the directory of the decision-value   *)
(* study, and the store of a Study.                                        *)
(*                                                                         *)
(* Each is an inductive invariant that names who owns what.  A run between *)
(* its rename and the replacement of latest.json belongs to one publisher  *)
(* and no pointer names it, so its rollback breaks no promise.  The        *)
(* activation tag belongs to one workflow run for ever, and that run       *)
(* claims a slot in its own tree before it fits it.  A caller past mkdir   *)
(* owns the root, and the versions its arms ran under lie between its      *)
(* first look at the source and the present.  At most one process of a     *)
(* study stands behind its directory, and what the protocol and the checks *)
(* of the training let through has read nothing that arrived later.        *)
(***************************************************************************)
EXTENDS ArtifactStore, NormalizationReplication, ComparisonAttempt, DecisionValueStudy,
        StudyStore,
        FiniteSetTheorems, SequenceTheorems, WellFoundedInduction, TLAPS

PublisherPoints == {"idle", "move", "sync", "pointer", "settle"}

PublisherTyped ==
  publisher \in [Publishers -> [pc : PublisherPoints, run : RunIds \cup {NoRunId}]]

(* Between the rename and the replacement of the pointer a run belongs to  *)
(* one publisher and no pointer names it, so its rollback takes nothing    *)
(* away that latest.json promises; from the directory fsync on it is       *)
(* durable; and what a pointer names is durable.                           *)
Moved(p) == publisher[p].pc \in {"sync", "pointer", "settle"}

Unnamed(id) == id # NoRunId => latest # id /\ safeLatest # id

PointerInv ==
  /\ latest \in (runDirs \ unsynced) \cup {NoRunId}
  /\ safeLatest \in (runDirs \ unsynced) \cup {NoRunId}
  /\ \A p \in Publishers :
       /\ Moved(p) => publisher[p].run \in runDirs
       /\ publisher[p].pc \in {"pointer", "settle"} => publisher[p].run \notin unsynced
       /\ publisher[p].pc \in {"sync", "pointer"} => Unnamed(publisher[p].run)
       /\ \A q \in Publishers :
            Moved(p) /\ Moved(q) /\ p # q => publisher[p].run # publisher[q].run

ArtifactInv == PublisherTyped /\ (~torn => PointerInv)

(* A step of a publisher.                                                   *)
LEMMA ArtifactStep ==
  ASSUME ArtifactInv, NEW p \in Publishers,
         \/ \E id \in RunIds : StageRun(p, id) \/ MarkFailed(p, id) \/ CheckStage(p, id)
         \/ MoveRun(p) \/ SyncRuns(p) \/ SyncRunsFails(p) \/ ReplacePointer(p)
         \/ SettlePointer(p) \/ SettleFails(p) \/ PointerFails(p)
         \/ InterruptAfterReplace(p) \/ KillPublisher(p)
  PROVE  ArtifactInv'
  <1> USE DEF ArtifactInv, PublisherTyped, PublisherPoints, PointerInv, Moved, Unnamed,
              Advance, Finish, AtRest, Spend
  <1>1. ASSUME NEW id \in RunIds, StageRun(p, id)  PROVE ArtifactInv'
    BY <1>1 DEF StageRun
  <1>2. ASSUME NEW id \in RunIds, MarkFailed(p, id)  PROVE ArtifactInv'
    BY <1>2 DEF MarkFailed
  <1>3. ASSUME NEW id \in RunIds, CheckStage(p, id)  PROVE ArtifactInv'
    BY <1>3 DEF CheckStage
  <1>4. CASE MoveRun(p)  BY <1>4 DEF MoveRun
  <1>5. CASE SyncRuns(p)  BY <1>5 DEF SyncRuns
  <1>6. CASE SyncRunsFails(p)  BY <1>6 DEF SyncRunsFails
  <1>7. CASE ReplacePointer(p)  BY <1>7 DEF ReplacePointer
  <1>8. CASE SettlePointer(p)  BY <1>8 DEF SettlePointer
  <1>9. CASE SettleFails(p)  BY <1>9 DEF SettleFails
  <1>10. CASE PointerFails(p)  BY <1>10 DEF PointerFails, Rollback
  <1>11. CASE InterruptAfterReplace(p)  BY <1>11 DEF InterruptAfterReplace
  <1>12. CASE KillPublisher(p)  BY <1>12 DEF KillPublisher
  <1> QED BY <1>1, <1>2, <1>3, <1>4, <1>5, <1>6, <1>7, <1>8, <1>9, <1>10, <1>11, <1>12

(* A power failure loses only renames that no pointer names.               *)
LEMMA PowerStep ==
  ASSUME ArtifactInv, NEW lost \in SUBSET unsynced, PowerFails(lost)
  PROVE  ArtifactInv'
  BY DEF ArtifactInv, PublisherTyped, PublisherPoints, PointerInv, Moved, Unnamed,
         PowerFails, AtRest

(* The invariant of the artifact store is inductive.                       *)
THEOREM ArtifactInvariant == ArtifactSpec => []ArtifactInv
  <1>1. ArtifactInit => ArtifactInv
    BY DEF ArtifactInit, ArtifactInv, PublisherTyped, PublisherPoints, PointerInv, Moved,
           Unnamed, AtRest
  <1>2. ArtifactInv /\ [ArtifactNext]_storeVars => ArtifactInv'
    <2> SUFFICES ASSUME ArtifactInv, [ArtifactNext]_storeVars
                 PROVE  ArtifactInv'
      OBVIOUS
    <2>1. CASE UNCHANGED storeVars
      BY <2>1 DEF storeVars, ArtifactInv, PublisherTyped, PointerInv, Moved, Unnamed
    <2> QED BY <2>1, ArtifactStep, PowerStep DEF ArtifactNext
  <1> QED BY <1>1, <1>2, PTL DEF ArtifactSpec

(* latest.json names a published run, in memory and on the disk: whatever  *)
(* the number of publishers, errors, kills and power failures, unless an   *)
(* interrupt hit publish_run after the replacement of the pointer.         *)
THEOREM LatestAlwaysPublished == ArtifactSpec => []LatestNamesPublishedRun
  <1>1. ArtifactInv => LatestNamesPublishedRun
    BY DEF ArtifactInv, PointerInv, LatestNamesPublishedRun
  <1> QED BY <1>1, ArtifactInvariant, PTL

-----------------------------------------------------------------------------
(* The normalization replication.                                          *)

Fitting == {"slot", "fitted", "digested"}
Activated == Fitting \cup {"source", "complete", "uploaded", "verifying", "verified"}
Verifying == {"verifying", "verified"}

SlotFiles ==
  [consumed : BOOLEAN, failed : BOOLEAN, digest : FitOutcomes \cup {Nothing},
   result : FitOutcomes \cup {Nothing}, verified : FitOutcomes \cup {Nothing}]

Receipts ==
  [created : {"yes", "no", "unknown"}, slot : SlotNames \cup {Nothing},
   consumed : {"yes", "no", "unknown"}]

(* Well formed, and a run has started before anything happens in it.       *)
RunTyped ==
  /\ oneShot \in [run : 0..MaxRuns, phase : RunPhases, at : DOMAIN SlotRoster,
                  created : BOOLEAN, failedIn : RunPhases, verifies : Nat]
  /\ oneShot.phase # "idle" => oneShot.run \in 1..MaxRuns
  /\ evidence \in [SlotNames -> SlotFiles]
  /\ failReceipt \in [1..MaxRuns -> {NoReceipt} \cup Receipts]
  /\ fits \in [SlotNames -> Nat]
  /\ replays \in [SlotNames -> FitOutcomes \cup {Nothing}]

(* The activation tag belongs to one run for ever: only that run fits, it  *)
(* claims a slot in its own tree before it fits it, and after it no run    *)
(* does.                                                                   *)
ClaimInv ==
  /\ tag \in 0..oneShot.run
  /\ oneShot.phase \in Activated => tag = oneShot.run
  /\ oneShot.phase \in {"raised", "killed"} /\ oneShot.failedIn \in Fitting
       => tag = oneShot.run
  /\ \A s \in SlotNames :
       /\ fits[s] <= 1
       /\ tag = 0 => fits[s] = 0
       /\ tag = oneShot.run /\ fits[s] = 1 => evidence[s].consumed

(* A receipt that calls its slot unconsumed comes from the activated run,  *)
(* which has stopped.                                                      *)
ReceiptInv ==
  \A r \in 1..MaxRuns :
    /\ r > oneShot.run => failReceipt[r] = NoReceipt
    /\ r = oneShot.run /\ failReceipt[r] # NoReceipt => oneShot.phase \in {"killed",
      "ended"}
    /\ failReceipt[r].consumed = "no"
         => r = tag /\ failReceipt[r].slot \in SlotNames /\ fits[failReceipt[r].slot] = 0

(* What is verified is what the latest replay gave.                        *)
VerifiedInv ==
  /\ oneShot.phase \in Verifying =>
       \A s \in SlotNames : evidence[s].verified # Nothing =>
         evidence[s].verified = evidence[s].result /\ replays[s] = evidence[s].result
  /\ DecisionUsesReplayedResults

ReplicationInv == RunTyped /\ ClaimInv /\ ReceiptInv /\ VerifiedInv

(* The slot at hand is one of the roster, and the next one as well.        *)
LEMMA RosterSlots ==
  ASSUME RunTyped
  PROVE  /\ SlotNow \in SlotNames
         /\ oneShot.at # Len(SlotRoster) => oneShot.at + 1 \in DOMAIN SlotRoster
         /\ 1 \in DOMAIN SlotRoster
  <1>1. /\ SlotRoster \in Seq(SlotNames) /\ SlotRoster # <<>>
        /\ DOMAIN SlotRoster = 1 .. Len(SlotRoster) /\ Len(SlotRoster) \in Nat
    BY ReplicationAssumption
  <1>2. Len(SlotRoster) # 0  BY <1>1
  <1> QED BY <1>1, <1>2 DEF RunTyped, SlotNow, SlotNames

LEMMA ReplicationStart == ReplicationInit => ReplicationInv
  <1>1. 1 \in DOMAIN SlotRoster
    <2>1. SlotRoster \in Seq(SlotNames) /\ SlotRoster # <<>>  BY ReplicationAssumption
    <2> QED BY <2>1
  <1> QED
    BY <1>1, ReplicationAssumption
       DEF ReplicationInit, ReplicationInv, RunTyped, SlotFiles, ClaimInv, ReceiptInv,
           VerifiedInv,
           DecisionUsesReplayedResults, NoOutcomes, EmptySlot, NoReceipt, RunPhases,
           Activated, Fitting, Verifying, RunAt

(* One file of a slot's directory.                                         *)
LEMMA FileWritten ==
  ASSUME NEW e \in SlotFiles, NEW v \in FitOutcomes \cup {Nothing}
  PROVE  /\ [e EXCEPT !.consumed = TRUE] \in SlotFiles
         /\ [e EXCEPT !.consumed = TRUE].consumed
         /\ [e EXCEPT !.failed = TRUE] \in SlotFiles
         /\ [e EXCEPT !.failed = TRUE].consumed = e.consumed
         /\ [e EXCEPT !.digest = v] \in SlotFiles
         /\ [e EXCEPT !.digest = v].consumed = e.consumed
         /\ [e EXCEPT !.result = v] \in SlotFiles
         /\ [e EXCEPT !.result = v].consumed = e.consumed
         /\ [e EXCEPT !.verified = v] \in SlotFiles
         /\ [e EXCEPT !.verified = v].consumed = e.consumed
         /\ [e EXCEPT !.verified = v].verified = v
         /\ [e EXCEPT !.verified = v].result = e.result
  BY DEF SlotFiles

(* A slot's directory after one of its files was written.                  *)
LEMMA SlotWritten ==
  ASSUME RunTyped, NEW s \in SlotNames, NEW e \in SlotFiles,
         evidence' = [evidence EXCEPT ![s] = e]
  PROVE  /\ evidence' \in [SlotNames -> SlotFiles]
         /\ evidence'[s] = e
         /\ \A t \in SlotNames : t # s => evidence'[t] = evidence[t]
  BY DEF RunTyped

(* A receipt is written for the run at hand.                               *)
LEMMA ReceiptWritten ==
  ASSUME RunTyped, oneShot.run \in 1..MaxRuns, NEW x \in Receipts,
         failReceipt' = [failReceipt EXCEPT ![oneShot.run] = x]
  PROVE  /\ failReceipt' \in [1..MaxRuns -> {NoReceipt} \cup Receipts]
         /\ failReceipt'[oneShot.run] = x
         /\ \A r \in 1..MaxRuns : r # oneShot.run => failReceipt'[r] = failReceipt[r]
  BY DEF RunTyped

(* A step of the workflow keeps the invariant.                             *)
LEMMA ReplicationStep ==
  ASSUME ReplicationInv, ReplicationNext
  PROVE  ReplicationInv'
  <1>0. /\ SlotNow \in SlotNames
        /\ oneShot.at # Len(SlotRoster) => oneShot.at + 1 \in DOMAIN SlotRoster
        /\ 1 \in DOMAIN SlotRoster
        /\ MaxRuns \in Nat
    BY RosterSlots, ReplicationAssumption DEF ReplicationInv
  <1> USE <1>0 DEF ReplicationInv, RunAt, RunPhases, Activated, Fitting, Verifying
  <1>1. CASE RequestRun
    <2>1. RunTyped'  BY <1>1 DEF RequestRun, RunOver, NoOutcomes, EmptySlot, SlotFiles,
                                 RunTyped
    <2>2. ClaimInv'  BY <1>1 DEF RequestRun, RunOver, NoOutcomes, EmptySlot, SlotFiles,
                                 RunTyped, ClaimInv
    <2>3. ReceiptInv'  BY <1>1 DEF RequestRun, RunOver, NoOutcomes, EmptySlot, SlotFiles,
                                   RunTyped, ClaimInv, ReceiptInv
    <2>4. VerifiedInv'
      BY <1>1 DEF RequestRun, RunOver, NoOutcomes, EmptySlot, SlotFiles, RunTyped,
                  VerifiedInv, DecisionUsesReplayedResults
    <2> QED BY <2>1, <2>2, <2>3, <2>4
  <1>2. CASE Preflight
    <2>1. RunTyped'  BY <1>2 DEF Preflight, RunTyped
    <2>2. ClaimInv'  BY <1>2 DEF Preflight, RunTyped, ClaimInv
    <2>3. ReceiptInv'  BY <1>2 DEF Preflight, RunTyped, ClaimInv, ReceiptInv
    <2>4. VerifiedInv'
      BY <1>2 DEF Preflight, RunTyped, VerifiedInv, DecisionUsesReplayedResults
    <2> QED BY <2>1, <2>2, <2>3, <2>4
  <1>3. CASE CreateActivationTag
    <2>1. RunTyped'  BY <1>3 DEF CreateActivationTag, TagFree, RunTyped
    <2>2. CASE tag = 0
      <3>1. /\ tag' = oneShot.run
            /\ UNCHANGED <<evidence, failReceipt, fits, replays, ruling>>
            /\ oneShot.phase = "activation" /\ oneShot'.run = oneShot.run
            /\ oneShot'.phase \in {"source", "raised"}
            /\ oneShot.run \in 1..MaxRuns
        BY <1>3, <2>2 DEF CreateActivationTag, TagFree, RunTyped
      <3>2. ClaimInv'  BY <2>2, <3>1 DEF ClaimInv, RunTyped
      <3>3. ReceiptInv'  BY <2>2, <3>1 DEF ReceiptInv, ClaimInv, RunTyped
      <3>4. VerifiedInv'  BY <3>1 DEF VerifiedInv, DecisionUsesReplayedResults
      <3> QED BY <2>1, <3>2, <3>3, <3>4
    <2>3. CASE tag # 0
      <3>1. /\ UNCHANGED <<tag, evidence, failReceipt, fits, replays, ruling>>
            /\ oneShot.phase = "activation" /\ oneShot'.run = oneShot.run
            /\ oneShot'.phase = "raised" /\ oneShot'.failedIn = "activation"
        BY <1>3, <2>3 DEF CreateActivationTag, TagFree, RunTyped
      <3>2. ClaimInv'  BY <3>1 DEF ClaimInv, RunTyped
      <3>3. ReceiptInv'  BY <3>1 DEF ReceiptInv, RunTyped
      <3>4. VerifiedInv'  BY <3>1 DEF VerifiedInv, DecisionUsesReplayedResults
      <3> QED BY <2>1, <3>2, <3>3, <3>4
    <2> QED BY <2>2, <2>3
  <1>4. CASE PrepareReplicationExecution
    <2>1. RunTyped'  BY <1>4 DEF PrepareReplicationExecution, RunTyped
    <2>2. ClaimInv'  BY <1>4 DEF PrepareReplicationExecution, RunTyped, ClaimInv
    <2>3. ReceiptInv'  BY <1>4 DEF PrepareReplicationExecution, RunTyped, ClaimInv,
                                   ReceiptInv
    <2>4. VerifiedInv'
      BY <1>4 DEF PrepareReplicationExecution, RunTyped, VerifiedInv,
                  DecisionUsesReplayedResults
    <2> QED BY <2>1, <2>2, <2>3, <2>4
  <1>5. CASE ClaimAndFit
    <2>1. PICK e \in SlotFiles : evidence' = [evidence EXCEPT ![SlotNow] = e] /\ e.consumed
      <3> DEFINE e == [evidence[SlotNow] EXCEPT !.consumed = TRUE]
      <3>1. e \in SlotFiles /\ e.consumed  BY DEF RunTyped, SlotFiles
      <3> QED BY <1>5, <3>1 DEF ClaimAndFit, ClaimReplicationSlot
    <2>2. /\ oneShot.phase = "slot" /\ ~evidence[SlotNow].consumed
          /\ fits' = [fits EXCEPT ![SlotNow] = @ + 1]
          /\ oneShot' = [oneShot EXCEPT !.phase = "fitted"]
          /\ UNCHANGED <<tag, failReceipt, replays, ruling>>
      BY <1>5 DEF ClaimAndFit, ClaimReplicationSlot
    <2>3. RunTyped'
      <3>1. evidence' \in [SlotNames -> SlotFiles]  BY <2>1, SlotWritten
      <3>2. fits' \in [SlotNames -> Nat]  BY <2>2 DEF RunTyped
      <3> QED BY <2>2, <3>1, <3>2 DEF RunTyped
    <2>4. tag = oneShot.run /\ fits[SlotNow] = 0 /\ fits'[SlotNow] = 1
      BY <2>2 DEF ClaimInv, RunTyped
    <2>5. \A s \in SlotNames : s # SlotNow => fits'[s] = fits[s]  BY <2>2 DEF RunTyped
    <2>6. oneShot'.phase = "fitted" /\ oneShot'.run = oneShot.run
      BY <2>2 DEF RunTyped
    <2>7. ClaimInv'
      <3>1. oneShot.run # 0 /\ oneShot.run \in Nat  BY <2>2 DEF RunTyped
      <3>2. /\ evidence'[SlotNow].consumed
            /\ \A s \in SlotNames : s # SlotNow => evidence'[s] = evidence[s]
        BY <2>1, SlotWritten
      <3>3. ASSUME NEW s \in SlotNames
            PROVE  fits'[s] <= 1 /\ (fits'[s] = 1 => evidence'[s].consumed)
        BY <2>4, <2>5, <3>2 DEF ClaimInv
      <3> QED BY <2>2, <2>4, <2>6, <3>1, <3>3 DEF ClaimInv
    <2>8. ReceiptInv'
      <3>1. \A r \in 1..MaxRuns : failReceipt[r].consumed # "no"
        BY <2>2, <2>4 DEF ReceiptInv, NoReceipt
      <3> QED BY <2>2, <2>6, <3>1 DEF ReceiptInv
    <2>9. VerifiedInv'  BY <2>2, <2>6 DEF VerifiedInv, DecisionUsesReplayedResults
    <2> QED BY <2>3, <2>7, <2>8, <2>9
  <1>6. CASE PublishResultDigest
    <2>1. PICK e \in SlotFiles : /\ evidence' = [evidence EXCEPT ![SlotNow] = e]
                              /\ e.consumed = evidence[SlotNow].consumed
      <3>1. evidence[SlotNow] \in SlotFiles  BY DEF RunTyped
      <3>2. PICK v \in FitOutcomes \cup {Nothing} :
              evidence' = [evidence EXCEPT ![SlotNow] = [evidence[SlotNow] EXCEPT !.digest = v]]
        BY <1>6, <3>1 DEF PublishResultDigest, SlotFiles
      <3> DEFINE e == [evidence[SlotNow] EXCEPT !.digest = v]
      <3>3. e \in SlotFiles /\ e.consumed = evidence[SlotNow].consumed
        BY <3>1, FileWritten
      <3>4. evidence' = [evidence EXCEPT ![SlotNow] = e]  BY <3>2
      <3> HIDE DEF e
      <3> QED BY <3>3, <3>4
    <2>2. /\ oneShot.phase = "fitted" /\ oneShot'.phase \notin Verifying
          /\ oneShot'.phase \notin {"decided", "raised", "killed"}
          /\ oneShot'.run = oneShot.run
          /\ UNCHANGED <<tag, failReceipt, fits, replays, ruling>>
      BY <1>6 DEF PublishResultDigest, RunTyped
    <2>3. RunTyped'
      <3>1. evidence' \in [SlotNames -> SlotFiles]  BY <2>1, SlotWritten
      <3> QED BY <1>6, <3>1 DEF PublishResultDigest, RunTyped
    <2>4. ClaimInv'  BY <2>1, <2>2, SlotWritten DEF ClaimInv
    <2>5. ReceiptInv'  BY <2>2 DEF ReceiptInv
    <2>6. VerifiedInv'  BY <2>2 DEF VerifiedInv, DecisionUsesReplayedResults
    <2> QED BY <2>3, <2>4, <2>5, <2>6
  <1>7. CASE PublishResult
    <2>1. PICK e \in SlotFiles : /\ evidence' = [evidence EXCEPT ![SlotNow] = e]
                              /\ e.consumed = evidence[SlotNow].consumed
      <3>1. evidence[SlotNow] \in SlotFiles  BY DEF RunTyped
      <3>2. PICK v \in FitOutcomes \cup {Nothing} :
              evidence' = [evidence EXCEPT ![SlotNow] = [evidence[SlotNow] EXCEPT !.result = v]]
        BY <1>7, <3>1 DEF PublishResult, SlotFiles
      <3> DEFINE e == [evidence[SlotNow] EXCEPT !.result = v]
      <3>3. e \in SlotFiles /\ e.consumed = evidence[SlotNow].consumed
        BY <3>1, FileWritten
      <3>4. evidence' = [evidence EXCEPT ![SlotNow] = e]  BY <3>2
      <3> HIDE DEF e
      <3> QED BY <3>3, <3>4
    <2>2. /\ oneShot.phase = "digested" /\ oneShot'.phase \notin Verifying
          /\ oneShot'.phase \notin {"decided", "raised", "killed"}
          /\ oneShot'.run = oneShot.run
          /\ UNCHANGED <<tag, failReceipt, fits, replays, ruling>>
      BY <1>7 DEF PublishResult, RunTyped
    <2>3. RunTyped'
      <3>1. evidence' \in [SlotNames -> SlotFiles]  BY <2>1, SlotWritten
      <3> QED BY <1>7, <3>1 DEF PublishResult, RunTyped
    <2>4. ClaimInv'  BY <2>1, <2>2, SlotWritten DEF ClaimInv
    <2>5. ReceiptInv'  BY <2>2 DEF ReceiptInv
    <2>6. VerifiedInv'  BY <2>2 DEF VerifiedInv, DecisionUsesReplayedResults
    <2> QED BY <2>3, <2>4, <2>5, <2>6
  <1>8. CASE CompleteCheck
    <2>1. RunTyped'  BY <1>8 DEF CompleteCheck, SlotComplete, RunTyped
    <2>2. ClaimInv'  BY <1>8 DEF CompleteCheck, SlotComplete, RunTyped, ClaimInv
    <2>3. ReceiptInv'  BY <1>8 DEF CompleteCheck, SlotComplete, RunTyped, ClaimInv,
                                   ReceiptInv
    <2>4. VerifiedInv'
      BY <1>8 DEF CompleteCheck, SlotComplete, RunTyped, VerifiedInv,
                  DecisionUsesReplayedResults
    <2> QED BY <2>1, <2>2, <2>3, <2>4
  <1>9. CASE StepRaises
    <2>1. evidence' \in [SlotNames -> SlotFiles]
          /\ \A s \in SlotNames : evidence'[s].consumed = evidence[s].consumed
      <3>1. CASE UNCHANGED evidence  BY <3>1 DEF RunTyped
      <3>2. CASE evidence' = [evidence EXCEPT ![SlotNow] = [@ EXCEPT !.failed = TRUE]]
        <4>1. evidence[SlotNow] \in SlotFiles  BY DEF RunTyped
        <4>2. /\ [evidence[SlotNow] EXCEPT !.failed = TRUE] \in SlotFiles
              /\ [evidence[SlotNow] EXCEPT !.failed = TRUE].consumed
                   = evidence[SlotNow].consumed
          BY <4>1, FileWritten
        <4> QED BY <3>2, <4>2, SlotWritten
      <3> QED BY <1>9, <3>1, <3>2 DEF StepRaises
    <2>2. /\ oneShot' = [oneShot EXCEPT !.phase = "raised", !.failedIn = oneShot.phase]
          /\ oneShot.phase \in {"preflight", "activation", "source", "slot", "fitted",
            "digested"}
          /\ UNCHANGED <<tag, failReceipt, fits, replays, ruling>>
      BY <1>9 DEF StepRaises
    <2>3. RunTyped'  BY <2>1, <2>2 DEF RunTyped
    <2>4. ClaimInv'  BY <2>1, <2>2 DEF ClaimInv, RunTyped
    <2>5. ReceiptInv'  BY <2>2 DEF ReceiptInv, RunTyped
    <2>6. VerifiedInv'  BY <2>2 DEF VerifiedInv, DecisionUsesReplayedResults, RunTyped
    <2> QED BY <2>3, <2>4, <2>5, <2>6
  <1>10. CASE StepKilled
    <2>1. RunTyped'  BY <1>10 DEF StepKilled, RunTyped
    <2>2. ClaimInv'  BY <1>10 DEF StepKilled, RunTyped, ClaimInv
    <2>3. ReceiptInv'  BY <1>10 DEF StepKilled, RunTyped, ClaimInv, ReceiptInv
    <2>4. VerifiedInv'
      BY <1>10 DEF StepKilled, RunTyped, VerifiedInv, DecisionUsesReplayedResults
    <2> QED BY <2>1, <2>2, <2>3, <2>4
  <1>11. CASE WriteFailureReceipt
    <2>1. /\ oneShot.phase = "raised" /\ oneShot' = [oneShot EXCEPT !.phase = "killed"]
          /\ UNCHANGED <<tag, evidence, fits, replays, ruling>>
          /\ oneShot.run \in 1..MaxRuns
      BY <1>11 DEF WriteFailureReceipt, RunTyped
    <2>2. ClaimInv'  BY <2>1 DEF ClaimInv, RunTyped
    <2>3. VerifiedInv'  BY <2>1 DEF VerifiedInv, DecisionUsesReplayedResults, RunTyped
    <2>4. CASE UNCHANGED failReceipt
      <3>1. RunTyped'  BY <2>1, <2>4 DEF RunTyped
      <3>2. ReceiptInv'  BY <2>1, <2>4 DEF ReceiptInv, RunTyped
      <3> QED BY <2>2, <2>3, <3>1, <3>2
    <2>5. CASE ~UNCHANGED failReceipt
      <3>1. PICK x \in Receipts :
              /\ failReceipt' = [failReceipt EXCEPT ![oneShot.run] = x]
              /\ x.consumed = "no" => InSlot /\ ~evidence[SlotNow].consumed /\ x.slot = SlotNow
        BY <1>11, <2>5 DEF WriteFailureReceipt, Receipts
      <3>2. RunTyped'
        <4>1. failReceipt' \in [1..MaxRuns -> {NoReceipt} \cup Receipts]
          BY <2>1, <3>1, ReceiptWritten
        <4> QED BY <2>1, <4>1 DEF RunTyped
      <3>3. x.consumed = "no" => tag = oneShot.run /\ fits[SlotNow] = 0
        BY <2>1, <3>1 DEF InSlot, ClaimInv, RunTyped
      <3>4. ReceiptInv'
        BY <2>1, <3>1, <3>3, ReceiptWritten DEF ReceiptInv, RunTyped
      <3> QED BY <2>2, <2>3, <3>2, <3>4
    <2> QED BY <2>4, <2>5
  <1>12. CASE EnsureFailureReceipt
    <2>1. /\ oneShot.phase = "killed" /\ oneShot' = [oneShot EXCEPT !.phase = "ended"]
          /\ UNCHANGED <<tag, evidence, fits, replays, ruling>>
          /\ oneShot.run \in 1..MaxRuns
      BY <1>12 DEF EnsureFailureReceipt, RunTyped
    <2>2. ClaimInv'  BY <2>1 DEF ClaimInv, RunTyped
    <2>3. VerifiedInv'  BY <2>1 DEF VerifiedInv, DecisionUsesReplayedResults, RunTyped
    <2>4. CASE UNCHANGED failReceipt
      <3>1. RunTyped'  BY <2>1, <2>4 DEF RunTyped
      <3>2. ReceiptInv'  BY <2>1, <2>4 DEF ReceiptInv, RunTyped
      <3> QED BY <2>2, <2>3, <3>1, <3>2
    <2>5. CASE ~UNCHANGED failReceipt
      <3>1. PICK x \in Receipts : /\ failReceipt' = [failReceipt EXCEPT ![oneShot.run] = x]
                                 /\ x.consumed = "unknown"
        <4>1. \A k \in {"yes", "no", "unknown"} :
                [created |-> k, slot |-> Nothing, consumed |-> "unknown"] \in Receipts
          BY DEF Receipts
        <4>2. PICK k \in {"yes", "no", "unknown"} :
                failReceipt' = [failReceipt EXCEPT ![oneShot.run] =
                  [created |-> k, slot |-> Nothing, consumed |-> "unknown"]]
          BY <1>12, <2>5 DEF EnsureFailureReceipt
        <4> QED BY <4>1, <4>2
      <3>2. RunTyped'
        <4>1. failReceipt' \in [1..MaxRuns -> {NoReceipt} \cup Receipts]
          BY <2>1, <3>1, ReceiptWritten
        <4> QED BY <2>1, <4>1 DEF RunTyped
      <3>3. ReceiptInv'
        BY <2>1, <3>1, ReceiptWritten DEF ReceiptInv, RunTyped
      <3> QED BY <2>2, <2>3, <3>2, <3>3
    <2> QED BY <2>4, <2>5
  <1>13. CASE EnsureFailureReceiptUnread
    <2>1. /\ oneShot.phase = "killed" /\ oneShot' = [oneShot EXCEPT !.phase = "ended"]
          /\ UNCHANGED <<tag, evidence, fits, replays, ruling>>
          /\ oneShot.run \in 1..MaxRuns
      BY <1>13 DEF EnsureFailureReceiptUnread, RunTyped
    <2>2. ClaimInv'  BY <2>1 DEF ClaimInv, RunTyped
    <2>3. VerifiedInv'  BY <2>1 DEF VerifiedInv, DecisionUsesReplayedResults, RunTyped
    <2>4. CASE UNCHANGED failReceipt
      <3>1. RunTyped'  BY <2>1, <2>4 DEF RunTyped
      <3>2. ReceiptInv'  BY <2>1, <2>4 DEF ReceiptInv, RunTyped
      <3> QED BY <2>2, <2>3, <3>1, <3>2
    <2>5. CASE ~UNCHANGED failReceipt
      <3>1. PICK x \in Receipts : /\ failReceipt' = [failReceipt EXCEPT ![oneShot.run] = x]
                                 /\ x.consumed = "unknown"
        <4>1. \A k \in {"yes", "no", "unknown"} :
                [created |-> k, slot |-> Nothing, consumed |-> "unknown"] \in Receipts
          BY DEF Receipts
        <4>2. PICK k \in {"yes", "no", "unknown"} :
                failReceipt' = [failReceipt EXCEPT ![oneShot.run] =
                  [created |-> k, slot |-> Nothing, consumed |-> "unknown"]]
          BY <1>13, <2>5 DEF EnsureFailureReceiptUnread
        <4> QED BY <4>1, <4>2
      <3>2. RunTyped'
        <4>1. failReceipt' \in [1..MaxRuns -> {NoReceipt} \cup Receipts]
          BY <2>1, <3>1, ReceiptWritten
        <4> QED BY <2>1, <4>1 DEF RunTyped
      <3>3. ReceiptInv'
        BY <2>1, <3>1, ReceiptWritten DEF ReceiptInv, RunTyped
      <3> QED BY <2>2, <2>3, <3>2, <3>3
    <2> QED BY <2>4, <2>5
  <1>14. CASE RunnerLost
    <2>1. RunTyped'  BY <1>14 DEF RunnerLost, RunOver, RunTyped
    <2>2. ClaimInv'  BY <1>14 DEF RunnerLost, RunOver, RunTyped, ClaimInv
    <2>3. ReceiptInv'  BY <1>14 DEF RunnerLost, RunOver, RunTyped, ClaimInv, ReceiptInv
    <2>4. VerifiedInv'
      BY <1>14 DEF RunnerLost, RunOver, RunTyped, VerifiedInv, DecisionUsesReplayedResults
    <2> QED BY <2>1, <2>2, <2>3, <2>4
  <1>15. CASE StartVerify
    <2>1. /\ evidence' \in [SlotNames -> SlotFiles]
          /\ \A s \in SlotNames : /\ evidence'[s].consumed = evidence[s].consumed
                                  /\ evidence'[s].verified = Nothing
      BY <1>15 DEF StartVerify, RunTyped, SlotFiles
    <2>2. /\ oneShot' = [oneShot EXCEPT !.phase = "verifying", !.at = 1, !.verifies = @ + 1]
          /\ oneShot.phase = "uploaded" /\ replays' = NoOutcomes
          /\ UNCHANGED <<tag, failReceipt, fits, ruling>>
      BY <1>15 DEF StartVerify
    <2>3. RunTyped'
      <3>1. replays' \in [SlotNames -> FitOutcomes \cup {Nothing}]
        BY <2>2 DEF NoOutcomes
      <3>2. /\ oneShot' \in [run : 0..MaxRuns, phase : RunPhases, at : DOMAIN SlotRoster,
                           created : BOOLEAN, failedIn : RunPhases, verifies : Nat]
            /\ oneShot'.run = oneShot.run
        <4>1. oneShot.verifies + 1 \in Nat  BY DEF RunTyped
        <4> QED BY <2>2, <4>1 DEF RunTyped
      <3> QED BY <2>1, <2>2, <3>1, <3>2 DEF RunTyped
    <2>4. ClaimInv'  BY <2>1, <2>2 DEF ClaimInv, RunTyped
    <2>5. ReceiptInv'  BY <2>2 DEF ReceiptInv, RunTyped
    <2>6. VerifiedInv'  BY <2>1, <2>2 DEF VerifiedInv, DecisionUsesReplayedResults, RunTyped
    <2> QED BY <2>3, <2>4, <2>5, <2>6
  <1>16. CASE VerifyReplicationSlot
    <2>1. PICK v \in FitOutcomes :
            /\ oneShot.phase = "verifying" /\ UNCHANGED <<tag, failReceipt, fits, ruling>>
            /\ replays' = [replays EXCEPT ![SlotNow] = v]
            /\ \/ /\ evidence[SlotNow].result = v
                  /\ evidence' = [evidence EXCEPT
                        ![SlotNow] = [@ EXCEPT !.verified = evidence[SlotNow].result]]
                  /\ oneShot' = IF oneShot.at = Len(SlotRoster)
                                  THEN [oneShot EXCEPT !.phase = "verified"]
                                  ELSE [oneShot EXCEPT !.at = @ + 1]
               \/ oneShot' = [oneShot EXCEPT !.phase = "uploaded"] /\ UNCHANGED evidence
      BY <1>16 DEF VerifyReplicationSlot, ReplayMatches
    <2>2. /\ replays' \in [SlotNames -> FitOutcomes \cup {Nothing}] /\ replays'[SlotNow] = v
          /\ \A s \in SlotNames : s # SlotNow => replays'[s] = replays[s]
      BY <2>1 DEF RunTyped
    <2>3. CASE UNCHANGED evidence /\ oneShot' = [oneShot EXCEPT !.phase = "uploaded"]
      <3>1. RunTyped'  BY <2>1, <2>2, <2>3 DEF RunTyped
      <3>2. ClaimInv'  BY <2>1, <2>3 DEF ClaimInv, RunTyped
      <3>3. ReceiptInv'  BY <2>1, <2>3 DEF ReceiptInv, RunTyped
      <3>4. VerifiedInv'  BY <2>3 DEF VerifiedInv, DecisionUsesReplayedResults, RunTyped
      <3> QED BY <3>1, <3>2, <3>3, <3>4
    <2>4. CASE ~(UNCHANGED evidence /\ oneShot' = [oneShot EXCEPT !.phase = "uploaded"])
      <3> DEFINE e == [evidence[SlotNow] EXCEPT !.verified = evidence[SlotNow].result]
      <3>1. /\ e \in SlotFiles /\ e.consumed = evidence[SlotNow].consumed
            /\ e.result = v /\ e.verified = v
            /\ evidence' = [evidence EXCEPT ![SlotNow] = e]
        <4>1. evidence[SlotNow] \in SlotFiles /\ evidence[SlotNow].result = v
          BY <2>1, <2>4 DEF RunTyped
        <4>2. evidence' = [evidence EXCEPT ![SlotNow] = e]  BY <2>1, <2>4
        <4> QED BY <4>1, <4>2, FileWritten
      <3> HIDE DEF e
      <3>2. /\ oneShot' \in [run : 0..MaxRuns, phase : {"verifying", "verified"},
                           at : DOMAIN SlotRoster, created : BOOLEAN, failedIn : RunPhases, verifies : Nat]
            /\ oneShot'.run = oneShot.run
        BY <2>1, <2>4 DEF RunTyped
      <3>3. RunTyped'
        <4>1. evidence' \in [SlotNames -> SlotFiles]  BY <3>1, SlotWritten
        <4> QED BY <2>1, <2>2, <3>2, <4>1 DEF RunTyped
      <3>4. ClaimInv'  BY <2>1, <3>1, <3>2, SlotWritten DEF ClaimInv
      <3>5. ReceiptInv'  BY <2>1, <3>2 DEF ReceiptInv
      <3>6. VerifiedInv'
        BY <2>1, <2>2, <3>1, <3>2, SlotWritten DEF VerifiedInv, DecisionUsesReplayedResults
      <3> QED BY <3>3, <3>4, <3>5, <3>6
    <2> QED BY <2>3, <2>4
  <1>17. CASE PublishReplicationDecision
    <2>1. RunTyped'  BY <1>17 DEF PublishReplicationDecision, SlotComplete, RunTyped
    <2>2. ClaimInv'  BY <1>17 DEF PublishReplicationDecision, SlotComplete, RunTyped,
                                  ClaimInv
    <2>3. ReceiptInv'  BY <1>17 DEF PublishReplicationDecision, SlotComplete, RunTyped,
                                    ClaimInv, ReceiptInv
    <2>4. VerifiedInv'
      BY <1>17 DEF PublishReplicationDecision, SlotComplete, RunTyped, VerifiedInv,
                   DecisionUsesReplayedResults
    <2> QED BY <2>1, <2>2, <2>3, <2>4
  <1> QED
    BY <1>1, <1>2, <1>3, <1>4, <1>5, <1>6, <1>7, <1>8, <1>9,
       <1>10, <1>11, <1>12, <1>13, <1>14, <1>15, <1>16, <1>17 DEF ReplicationNext

(* The invariant of the replication.                                       *)
THEOREM ReplicationInvariant == ReplicationSpec => []ReplicationInv
  <1>1. ReplicationInv /\ UNCHANGED replicationVars => ReplicationInv'
    BY DEF replicationVars, ReplicationInv, RunTyped, ClaimInv, ReceiptInv, VerifiedInv,
           DecisionUsesReplayedResults, RunAt
  <1> QED BY <1>1, ReplicationStart, ReplicationStep, PTL DEF ReplicationSpec

(* However many workflow runs are started and however they fail: no slot   *)
(* is fitted twice, a receipt never calls a fitted slot unconsumed, and    *)
(* the ruling is computed from replayed results.                           *)
THEOREM SlotsAlwaysOneShot == ReplicationSpec => []SlotsAreOneShot
  <1>1. ReplicationInv => SlotsAreOneShot
    BY DEF ReplicationInv, ClaimInv, ReceiptInv, VerifiedInv, SlotsAreOneShot,
           SlotFittedOnce, UnconsumedSlotWasNotFitted
  <1> QED BY <1>1, ReplicationInvariant, PTL

-----------------------------------------------------------------------------
(* The comparison attempts.                                                *)

CallerStages ==
  Guarded \cup {"idle", "absent", "refused", "failing", "raised", "unrecorded", "returned",
                "dead"}

CallerRecord ==
  [stage : CallerStages, ran : Nat, saw : SUBSET Nat, kept : Nat, first : Nat, told : Nat]

(* The state is well formed.                                               *)
AttemptTyped ==
  /\ version \in Nat
  /\ tree \in [Records -> Callers \cup {Nobody}]
  /\ rows \in Seq(Callers)
  /\ caller \in [Callers -> CallerRecord]

(* A caller past the reservation owns the root, and before it nothing is   *)
(* written under it.                                                       *)
OwnerInv ==
  /\ \A c \in Callers :
       caller[c].stage \notin {"idle", "absent", "refused", "dead"} => rootOwner = c
  /\ Absent => rows = <<>> /\ \A r \in Records : tree[r] = Nobody
  /\ OneWriterPerRoot

(* The arms ran under versions between the first look at the source and    *)
(* the present one; past the second look that is one version, and it is    *)
(* the published one.                                                      *)
SourceInv ==
  /\ \A c \in Callers :
       /\ caller[c].first <= version
       /\ caller[c].stage \in {"idle", "absent", "started", "before"} => caller[c].saw = {}
       /\ caller[c].stage \in {"arm", "replay", "row", "after"} =>
            /\ \A v \in caller[c].saw : caller[c].first <= v /\ v <= version
            /\ attemptKind \in Pinned => caller[c].first = 0
       /\ caller[c].stage \in {"row", "after"} => caller[c].saw # {}
       /\ caller[c].stage = "publish" =>
            /\ caller[c].saw = {caller[c].first}
            /\ attemptKind \in Pinned => caller[c].first = 0
  /\ Written("result") =>
       \E v \in Nat : published = {v} /\ (attemptKind \in Pinned => v = 0)

(* A caller that raised has left its failure record.                       *)
FailureInv ==
  \A c \in Callers : caller[c].stage = "raised" => Written("failure")

(* What a caller counts, and what it reported, is on disk.                 *)
RowsInv ==
  \A c \in Callers :
    /\ caller[c].kept <= Len(rows)
    /\ caller[c].told <= Len(rows)

AttemptInv == AttemptTyped /\ OwnerInv /\ SourceInv /\ FailureInv /\ RowsInv

LEMMA ComparisonStart == ComparisonInit => AttemptInv
  BY AttemptsAssumption
     DEF ComparisonInit, AttemptInv, AttemptTyped, OwnerInv, SourceInv, FailureInv, RowsInv,
         CallerRecord, CallerStages, Guarded, Fresh, Absent, OneWriterPerRoot, Written,
         Records

(* What a step leaves in the local state of its caller, field by field.    *)
Local(c, stage, ran, saw, kept, first, told) ==
  /\ caller' \in [Callers -> CallerRecord]
  /\ \A d \in Callers : d # c => caller'[d] = caller[d]
  /\ caller'[c].stage = stage /\ caller'[c].ran = ran /\ caller'[c].saw = saw
  /\ caller'[c].kept = kept /\ caller'[c].first = first /\ caller'[c].told = told

(* The forms in which the actions write it.                                *)
LEMMA LocalWritten ==
  ASSUME caller \in [Callers -> CallerRecord], NEW c \in Callers,
    NEW stage \in CallerStages,
         NEW n \in Nat, NEW vs \in SUBSET Nat
  PROVE  LET me == caller[c] IN
         /\ caller' = [caller EXCEPT ![c].stage = stage]
              => Local(c, stage, me.ran, me.saw, me.kept, me.first, me.told)
         /\ caller' = [caller EXCEPT ![c].stage = stage, ![c].first = n]
              => Local(c, stage, me.ran, me.saw, me.kept, n, me.told)
         /\ caller' = [caller EXCEPT ![c].stage = stage, ![c].told = n]
              => Local(c, stage, me.ran, me.saw, me.kept, me.first, n)
         /\ caller' = [caller EXCEPT ![c].kept = n, ![c].stage = stage]
              => Local(c, stage, me.ran, me.saw, n, me.first, me.told)
         /\ caller' = [caller EXCEPT ![c].ran = n, ![c].saw = vs, ![c].stage = stage]
              => Local(c, stage, n, vs, me.kept, me.first, me.told)
  BY DEF Local, CallerRecord

(* The durable rows after one more.                                        *)
LEMMA RowAppended ==
  ASSUME NEW s \in Seq(Callers), NEW c \in Callers
  PROVE  /\ Append(s, c) \in Seq(Callers) /\ Len(Append(s, c)) = Len(s) + 1
         /\ Append(s, c) # <<>> /\ Len(s) \in Nat
         /\ \A i \in DOMAIN Append(s, c) :
              Append(s, c)[i] = IF i \in DOMAIN s THEN s[i] ELSE c
  <1>1. Append(s, c) \in Seq(Callers) /\ Len(Append(s, c)) = Len(s) + 1 /\ Len(s) \in Nat
    OBVIOUS
  <1>2. Append(s, c) # <<>>  BY <1>1
  <1>3. ASSUME NEW i \in DOMAIN Append(s, c)
        PROVE  Append(s, c)[i] = IF i \in DOMAIN s THEN s[i] ELSE c
    OBVIOUS
  <1> QED BY <1>1, <1>2, <1>3

(* A step that leaves the version and the result alone keeps what is known  *)
(* of the source, when its caller's new state agrees with it.               *)
SourceFits(st, saw, first) ==
  /\ first <= version
  /\ st \in {"idle", "absent", "started", "before"} => saw = {}
  /\ st \in {"arm", "replay", "row", "after"} =>
       /\ \A v \in saw : first <= v /\ v <= version
       /\ attemptKind \in Pinned => first = 0
  /\ st \in {"row", "after"} => saw # {}
  /\ st = "publish" =>
       /\ saw = {first}
       /\ attemptKind \in Pinned => first = 0

LEMMA SourceKept ==
  ASSUME SourceInv, NEW c \in Callers, NEW st, NEW ran, NEW saw, NEW kept, NEW first,
         NEW told, Local(c, st, ran, saw, kept, first, told),
         SourceFits(st, saw, first),
         UNCHANGED <<attemptKind, version, published>>, tree'["result"] = tree["result"]
  PROVE  SourceInv'
  <1>1. \A d \in Callers :
          SourceFits(caller[d].stage, caller[d].saw, caller[d].first)
    BY DEF SourceInv, SourceFits
  <1>2. \A d \in Callers :
          SourceFits(caller'[d].stage, caller'[d].saw, caller'[d].first)
    BY <1>1 DEF Local
  <1>3. \A d \in Callers :
          SourceFits(caller[d].stage, caller[d].saw, caller[d].first)'
    <2> TAKE d \in Callers
    <2>1. SourceFits(caller'[d].stage, caller'[d].saw, caller'[d].first)  BY <1>2
    <2> QED BY <2>1 DEF SourceFits
  <1>4. Written("result")' => Written("result")  BY DEF Written
  <1> QED BY <1>3, <1>4 DEF SourceInv, SourceFits

(* A step of a caller keeps the invariant.                                 *)
LEMMA CallerStep ==
  ASSUME AttemptInv, NEW c \in Callers,
         \/ CheckRoot(c) \/ Reserve(c) \/ LoseRoot(c)
         \/ WriteStarted(c) \/ WriteBefore(c) \/ CheckArm(c) \/ ReplayArm(c) \/ WriteRow(c)
         \/ WriteAfter(c) \/ WriteResult(c) \/ ReloadResult(c)
         \/ WriteComplete(c) \/ ReloadAttempt(c)
         \/ RefuseVersion(c) \/ RaiseStep(c) \/ RaiseAfterLanding(c)
         \/ JournalFailure(c) \/ JournalFailureFails(c) \/ KillCaller(c)
  PROVE  AttemptInv'
  <1> DEFINE me == caller[c]
  <1>0. /\ Nobody \notin Callers
        /\ me \in CallerRecord /\ version \in Nat /\ caller \in [Callers -> CallerRecord]
        /\ me.ran \in Nat /\ me.saw \in SUBSET Nat /\ me.kept \in Nat
        /\ me.first \in Nat /\ me.told \in Nat
    BY AttemptsAssumption DEF AttemptInv, AttemptTyped, CallerRecord
  <1> USE <1>0 DEF AttemptInv, On, Proceed, Absent, Written, Untouched, Records
  <1>1. CASE CheckRoot(c)
    <2>0. Local(c, "absent", me.ran, me.saw, me.kept, version, me.told)
      BY <1>1, LocalWritten DEF CheckRoot, CallerStages, Guarded
    <2>1. AttemptTyped'
      BY <1>1, <2>0 DEF CheckRoot, Local, AttemptTyped
    <2>2. OwnerInv'
      BY <1>1, <2>0 DEF CheckRoot, Local, AttemptTyped, OwnerInv, OneWriterPerRoot, Guarded
    <2>3. SourceInv'
      <3>1. SourceFits("absent", me.saw, version)
        BY <1>1 DEF CheckRoot, SourceInv, SourceFits, Guarded, Pinned, Fingerprinted
      <3>2. UNCHANGED <<attemptKind, version, published>> /\ tree'["result"] = tree["result"]
        BY <1>1 DEF CheckRoot, AttemptTyped
      <3> QED BY <2>0, <3>1, <3>2, SourceKept
    <2>4. FailureInv'
      BY <1>1, <2>0 DEF CheckRoot, Local, AttemptTyped, FailureInv, Guarded
    <2>5. RowsInv'
      BY <1>1, <2>0 DEF CheckRoot, Local, AttemptTyped, RowsInv, Guarded
    <2> QED BY <2>1, <2>2, <2>3, <2>4, <2>5
  <1>2. CASE Reserve(c)
    <2>0. Local(c, "started", me.ran, me.saw, me.kept, me.first, me.told)
      BY <1>2, LocalWritten DEF Reserve, CallerStages, Guarded
    <2>1. AttemptTyped'
      BY <1>2, <2>0 DEF Reserve, Local, AttemptTyped
    <2>2. OwnerInv'
      BY <1>2, <2>0 DEF Reserve, Local, AttemptTyped, OwnerInv, OneWriterPerRoot, Guarded
    <2>3. SourceInv'
      <3>1. SourceFits("started", me.saw, me.first)
        BY <1>2 DEF Reserve, SourceInv, SourceFits, Guarded, Pinned, Fingerprinted
      <3>2. UNCHANGED <<attemptKind, version, published>> /\ tree'["result"] = tree["result"]
        BY <1>2 DEF Reserve, AttemptTyped
      <3> QED BY <2>0, <3>1, <3>2, SourceKept
    <2>4. FailureInv'
      BY <1>2, <2>0 DEF Reserve, Local, AttemptTyped, FailureInv, Guarded
    <2>5. RowsInv'
      BY <1>2, <2>0 DEF Reserve, Local, AttemptTyped, RowsInv, Guarded
    <2> QED BY <2>1, <2>2, <2>3, <2>4, <2>5
  <1>3. CASE LoseRoot(c)
    <2>0. Local(c, "refused", me.ran, me.saw, me.kept, me.first, me.told)
      BY <1>3, LocalWritten DEF LoseRoot, CallerStages, Guarded
    <2>1. AttemptTyped'
      BY <1>3, <2>0 DEF LoseRoot, Local, AttemptTyped
    <2>2. OwnerInv'
      BY <1>3, <2>0 DEF LoseRoot, Local, AttemptTyped, OwnerInv, OneWriterPerRoot, Guarded
    <2>3. SourceInv'
      <3>1. SourceFits("refused", me.saw, me.first)
        BY <1>3 DEF LoseRoot, SourceInv, SourceFits, Guarded, Pinned, Fingerprinted
      <3>2. UNCHANGED <<attemptKind, version, published>> /\ tree'["result"] = tree["result"]
        BY <1>3 DEF LoseRoot, AttemptTyped
      <3> QED BY <2>0, <3>1, <3>2, SourceKept
    <2>4. FailureInv'
      BY <1>3, <2>0 DEF LoseRoot, Local, AttemptTyped, FailureInv, Guarded
    <2>5. RowsInv'
      BY <1>3, <2>0 DEF LoseRoot, Local, AttemptTyped, RowsInv, Guarded
    <2> QED BY <2>1, <2>2, <2>3, <2>4, <2>5
  <1>4. CASE WriteStarted(c)
    <2>0. PICK st \in {"arm", "before"} :
            /\ Local(c, st, me.ran, me.saw, me.kept, me.first, me.told)
            /\ st = "arm" => attemptKind \in Fingerprinted
      BY <1>4, LocalWritten DEF WriteStarted, PublishRecord, CallerStages, Guarded
    <2>1. AttemptTyped'
      BY <1>4, <2>0 DEF WriteStarted, PublishRecord, Local, AttemptTyped
    <2>2. OwnerInv'
      BY <1>4, <2>0 DEF WriteStarted, PublishRecord, Local, AttemptTyped, OwnerInv,
                        OneWriterPerRoot, Guarded
    <2>3. SourceInv'
      BY <1>4, <2>0 DEF WriteStarted, PublishRecord, Local, AttemptTyped, SourceInv, Pinned,
                        Fingerprinted, Guarded
    <2>4. FailureInv'
      BY <1>4, <2>0 DEF WriteStarted, PublishRecord, Local, AttemptTyped, FailureInv, Guarded
    <2>5. RowsInv'
      BY <1>4, <2>0 DEF WriteStarted, PublishRecord, Local, AttemptTyped, RowsInv, Guarded
    <2> QED BY <2>1, <2>2, <2>3, <2>4, <2>5
  <1>5. CASE WriteBefore(c)
    <2>0. Local(c, "replay", me.ran, me.saw, me.kept, version, me.told)
      BY <1>5, LocalWritten DEF WriteBefore, PublishRecord, CallerStages, Guarded
    <2>1. AttemptTyped'
      BY <1>5, <2>0 DEF WriteBefore, PublishRecord, Local, AttemptTyped
    <2>2. OwnerInv'
      BY <1>5, <2>0 DEF WriteBefore, PublishRecord, Local, AttemptTyped, OwnerInv,
                        OneWriterPerRoot, Guarded
    <2>3. SourceInv'
      <3>1. SourceFits("replay", me.saw, version)
        BY <1>5 DEF WriteBefore, PublishRecord, SourceInv, SourceFits, Guarded, Pinned, Fingerprinted
      <3>2. UNCHANGED <<attemptKind, version, published>> /\ tree'["result"] = tree["result"]
        BY <1>5 DEF WriteBefore, PublishRecord, AttemptTyped
      <3> QED BY <2>0, <3>1, <3>2, SourceKept
    <2>4. FailureInv'
      BY <1>5, <2>0 DEF WriteBefore, PublishRecord, Local, AttemptTyped, FailureInv, Guarded
    <2>5. RowsInv'
      BY <1>5, <2>0 DEF WriteBefore, PublishRecord, Local, AttemptTyped, RowsInv, Guarded
    <2> QED BY <2>1, <2>2, <2>3, <2>4, <2>5
  <1>6. CASE CheckArm(c)
    <2>0. Local(c, "replay", me.ran, me.saw, me.kept, me.first, me.told)
      BY <1>6, LocalWritten DEF CheckArm, CallerStages, Guarded
    <2>1. AttemptTyped'
      BY <1>6, <2>0 DEF CheckArm, Local, AttemptTyped
    <2>2. OwnerInv'
      BY <1>6, <2>0 DEF CheckArm, Local, AttemptTyped, OwnerInv, OneWriterPerRoot, Guarded
    <2>3. SourceInv'
      <3>1. SourceFits("replay", me.saw, me.first)
        BY <1>6 DEF CheckArm, SourceInv, SourceFits, Guarded, Pinned, Fingerprinted
      <3>2. UNCHANGED <<attemptKind, version, published>> /\ tree'["result"] = tree["result"]
        BY <1>6 DEF CheckArm, AttemptTyped
      <3> QED BY <2>0, <3>1, <3>2, SourceKept
    <2>4. FailureInv'
      BY <1>6, <2>0 DEF CheckArm, Local, AttemptTyped, FailureInv, Guarded
    <2>5. RowsInv'
      BY <1>6, <2>0 DEF CheckArm, Local, AttemptTyped, RowsInv, Guarded
    <2> QED BY <2>1, <2>2, <2>3, <2>4, <2>5
  <1>7. CASE ReplayArm(c)
    <2>0. PICK st \in {"after", "replay", "row"} :
            Local(c, st, me.ran + 1, me.saw \cup {version}, me.kept, me.first, me.told)
      <3>1. PICK st \in {"after", "replay", "row"} :
              caller' = [caller EXCEPT ![c].ran = me.ran + 1, ![c].saw = me.saw \cup {version},
                                 ![c].stage = st]
        BY <1>7 DEF ReplayArm
      <3>2. me.ran + 1 \in Nat /\ me.saw \cup {version} \in SUBSET Nat
        OBVIOUS
      <3> QED BY <3>1, <3>2, LocalWritten DEF CallerStages, Guarded
    <2>1. AttemptTyped'
      BY <1>7, <2>0 DEF ReplayArm, Local, AttemptTyped
    <2>2. OwnerInv'
      BY <1>7, <2>0 DEF ReplayArm, Local, AttemptTyped, OwnerInv, OneWriterPerRoot, Guarded
    <2>3. SourceInv'
      <3>1. /\ me.stage = "replay" /\ me.first <= version
            /\ \A v \in me.saw : me.first <= v /\ v <= version
            /\ attemptKind \in Pinned => me.first = 0
        BY <1>7 DEF ReplayArm, SourceInv
      <3>2. \A v \in me.saw \cup {version} : me.first <= v /\ v <= version  BY <3>1
      <3>3. UNCHANGED <<attemptKind, version, tree, published>>  BY <1>7 DEF ReplayArm
      <3>4. me.saw \cup {version} # {}  OBVIOUS
      <3> QED BY <2>0, <3>1, <3>2, <3>3, <3>4 DEF Local, SourceInv
    <2>4. FailureInv'
      BY <1>7, <2>0 DEF ReplayArm, Local, AttemptTyped, FailureInv, Guarded
    <2>5. RowsInv'
      BY <1>7, <2>0 DEF ReplayArm, Local, AttemptTyped, RowsInv, Guarded
    <2> QED BY <2>1, <2>2, <2>3, <2>4, <2>5
  <1>8. CASE WriteRow(c)
    <2>0. PICK st \in {"after", "arm", "replay"} :
            /\ Local(c, st, me.ran, me.saw, me.kept + 1, me.first, me.told)
            /\ st = "arm" => attemptKind \in Fingerprinted
      <3>1. PICK st \in {"after", "arm", "replay"} :
              /\ caller' = [caller EXCEPT ![c].kept = me.kept + 1, ![c].stage = st]
              /\ st = "arm" => attemptKind \in Fingerprinted
        BY <1>8 DEF WriteRow, AfterRow
      <3>2. me.kept + 1 \in Nat  OBVIOUS
      <3> QED BY <3>1, <3>2, LocalWritten DEF CallerStages, Guarded
    <2>6. /\ rows \in Seq(Callers) /\ rows' \in Seq(Callers) /\ Len(rows') = Len(rows) + 1
          /\ \A i \in DOMAIN rows' : rows'[i] = IF i \in DOMAIN rows THEN rows[i] ELSE c
          /\ rootOwner = c /\ rows' # <<>>
          /\ me.stage = "row" /\ UNCHANGED <<attemptKind, version, rootOwner, tree,
            published>>
      <3>1. rows \in Seq(Callers) /\ rows' = Append(rows, c)
        BY <1>8 DEF WriteRow, AttemptTyped
      <3>2. /\ rootOwner = c /\ me.stage = "row"
            /\ UNCHANGED <<attemptKind, version, rootOwner, tree, published>>
        BY <1>8 DEF WriteRow, OwnerInv
      <3> QED BY <3>1, <3>2, RowAppended
    <2>1. AttemptTyped'  BY <1>8, <2>0, <2>6 DEF WriteRow, AfterRow, Local, AttemptTyped
    <2>2. OwnerInv'  BY <1>8, <2>0, <2>6 DEF WriteRow, Local, OwnerInv, OneWriterPerRoot,
                                             Guarded
    <2>3. SourceInv'
      <3>1. SourceFits("row", me.saw, me.first) /\ me.saw # {}
        BY <2>6 DEF SourceInv, SourceFits
      <3>2. SourceFits(st, me.saw, me.first)
        BY <2>0, <3>1 DEF SourceFits
      <3> QED BY <2>0, <2>6, <3>2, SourceKept
    <2>4. FailureInv'  BY <2>0, <2>6 DEF Local, FailureInv
    <2>5. RowsInv'
      <3>1. Len(rows) \in Nat  BY <2>6
      <3>2. \A d \in Callers : caller[d].kept \in Nat /\ caller[d].told \in Nat
        BY DEF CallerRecord
      <3> QED BY <2>0, <2>6, <3>1, <3>2 DEF Local, RowsInv
    <2> QED BY <2>1, <2>2, <2>3, <2>4, <2>5
  <1>9. CASE WriteAfter(c)
    <2>0. Local(c, "publish", me.ran, me.saw, me.kept, me.first, me.told)
      BY <1>9, LocalWritten DEF WriteAfter, AfterAgrees, PublishRecord, CallerStages, Guarded
    <2>1. AttemptTyped'
      BY <1>9, <2>0 DEF WriteAfter, AfterAgrees, PublishRecord, Local, AttemptTyped
    <2>2. OwnerInv'
      BY <1>9, <2>0 DEF WriteAfter, AfterAgrees, PublishRecord, Local, AttemptTyped, OwnerInv,
                        OneWriterPerRoot, Guarded
    <2>3. SourceInv'
      <3>1. SourceFits("publish", me.saw, me.first)
        BY <1>9 DEF WriteAfter, AfterAgrees, PublishRecord, SourceInv, SourceFits, Guarded, Pinned, Fingerprinted
      <3>2. UNCHANGED <<attemptKind, version, published>> /\ tree'["result"] = tree["result"]
        BY <1>9 DEF WriteAfter, AfterAgrees, PublishRecord, AttemptTyped
      <3> QED BY <2>0, <3>1, <3>2, SourceKept
    <2>4. FailureInv'
      BY <1>9, <2>0 DEF WriteAfter, AfterAgrees, PublishRecord, Local, AttemptTyped, FailureInv,
                        Guarded
    <2>5. RowsInv'
      BY <1>9, <2>0 DEF WriteAfter, AfterAgrees, PublishRecord, Local, AttemptTyped, RowsInv,
                        Guarded
    <2> QED BY <2>1, <2>2, <2>3, <2>4, <2>5
  <1>10. CASE WriteResult(c)
    <2>0. Local(c, "reload", me.ran, me.saw, me.kept, me.first, me.told)
      BY <1>10, LocalWritten DEF WriteResult, PublishRecord, CallerStages, Guarded
    <2>1. AttemptTyped'
      BY <1>10, <2>0 DEF WriteResult, PublishRecord, Local, AttemptTyped
    <2>2. OwnerInv'
      BY <1>10, <2>0 DEF WriteResult, PublishRecord, Local, AttemptTyped, OwnerInv,
                         OneWriterPerRoot, Guarded
    <2>3. SourceInv'
      BY <1>10, <2>0 DEF WriteResult, PublishRecord, Local, AttemptTyped, SourceInv, Pinned,
                         Fingerprinted, Guarded
    <2>4. FailureInv'
      BY <1>10, <2>0 DEF WriteResult, PublishRecord, Local, AttemptTyped, FailureInv, Guarded
    <2>5. RowsInv'
      BY <1>10, <2>0 DEF WriteResult, PublishRecord, Local, AttemptTyped, RowsInv, Guarded
    <2> QED BY <2>1, <2>2, <2>3, <2>4, <2>5
  <1>11. CASE ReloadResult(c)
    <2>0. Local(c, "complete", me.ran, me.saw, me.kept, me.first, me.told)
      BY <1>11, LocalWritten DEF ReloadResult, CallerStages, Guarded
    <2>1. AttemptTyped'
      BY <1>11, <2>0 DEF ReloadResult, Local, AttemptTyped
    <2>2. OwnerInv'
      BY <1>11, <2>0 DEF ReloadResult, Local, AttemptTyped, OwnerInv, OneWriterPerRoot,
                         Guarded
    <2>3. SourceInv'
      <3>1. SourceFits("complete", me.saw, me.first)
        BY <1>11 DEF ReloadResult, SourceInv, SourceFits, Guarded, Pinned, Fingerprinted
      <3>2. UNCHANGED <<attemptKind, version, published>> /\ tree'["result"] = tree["result"]
        BY <1>11 DEF ReloadResult, AttemptTyped
      <3> QED BY <2>0, <3>1, <3>2, SourceKept
    <2>4. FailureInv'
      BY <1>11, <2>0 DEF ReloadResult, Local, AttemptTyped, FailureInv, Guarded
    <2>5. RowsInv'
      BY <1>11, <2>0 DEF ReloadResult, Local, AttemptTyped, RowsInv, Guarded
    <2> QED BY <2>1, <2>2, <2>3, <2>4, <2>5
  <1>12. CASE WriteComplete(c)
    <2>0. PICK st \in {"verify", "returned"} : Local(c, st, me.ran, me.saw, me.kept,
      me.first, me.told)
      BY <1>12, LocalWritten DEF WriteComplete, PublishRecord, CallerStages, Guarded
    <2>1. AttemptTyped'
      BY <1>12, <2>0 DEF WriteComplete, PublishRecord, Local, AttemptTyped
    <2>2. OwnerInv'
      BY <1>12, <2>0 DEF WriteComplete, PublishRecord, Local, AttemptTyped, OwnerInv,
                         OneWriterPerRoot, Guarded
    <2>3. SourceInv'
      <3>1. SourceFits(st, me.saw, me.first)
        BY <1>12, <2>0 DEF WriteComplete, SourceInv, SourceFits
      <3>2. UNCHANGED <<attemptKind, version, published>> /\ tree'["result"] = tree["result"]
        BY <1>12 DEF WriteComplete, PublishRecord, AttemptTyped
      <3> QED BY <2>0, <3>1, <3>2, SourceKept
    <2>4. FailureInv'
      BY <1>12, <2>0 DEF WriteComplete, PublishRecord, Local, AttemptTyped, FailureInv, Guarded
    <2>5. RowsInv'
      BY <1>12, <2>0 DEF WriteComplete, PublishRecord, Local, AttemptTyped, RowsInv, Guarded
    <2> QED BY <2>1, <2>2, <2>3, <2>4, <2>5
  <1>13. CASE ReloadAttempt(c)
    <2>0. Local(c, "returned", me.ran, me.saw, me.kept, me.first, me.told)
      BY <1>13, LocalWritten DEF ReloadAttempt, CallerStages, Guarded
    <2>1. AttemptTyped'
      BY <1>13, <2>0 DEF ReloadAttempt, Local, AttemptTyped
    <2>2. OwnerInv'
      BY <1>13, <2>0 DEF ReloadAttempt, Local, AttemptTyped, OwnerInv, OneWriterPerRoot,
                         Guarded
    <2>3. SourceInv'
      <3>1. SourceFits("returned", me.saw, me.first)
        BY <1>13 DEF ReloadAttempt, SourceInv, SourceFits, Guarded, Pinned, Fingerprinted
      <3>2. UNCHANGED <<attemptKind, version, published>> /\ tree'["result"] = tree["result"]
        BY <1>13 DEF ReloadAttempt, AttemptTyped
      <3> QED BY <2>0, <3>1, <3>2, SourceKept
    <2>4. FailureInv'
      BY <1>13, <2>0 DEF ReloadAttempt, Local, AttemptTyped, FailureInv, Guarded
    <2>5. RowsInv'
      BY <1>13, <2>0 DEF ReloadAttempt, Local, AttemptTyped, RowsInv, Guarded
    <2> QED BY <2>1, <2>2, <2>3, <2>4, <2>5
  <1>14. CASE RefuseVersion(c)
    <2>0. Local(c, "failing", me.ran, me.saw, me.kept, me.first, me.kept)
      BY <1>14, LocalWritten DEF RefuseVersion, AfterAgrees, Completed, CallerStages,
                                 Guarded
    <2>1. AttemptTyped'
      BY <1>14, <2>0 DEF RefuseVersion, AfterAgrees, Completed, Local, AttemptTyped
    <2>2. OwnerInv'
      BY <1>14, <2>0 DEF RefuseVersion, AfterAgrees, Completed, Local, AttemptTyped,
                         OwnerInv, OneWriterPerRoot, Guarded
    <2>3. SourceInv'
      <3>1. SourceFits("failing", me.saw, me.first)
        BY <1>14 DEF RefuseVersion, AfterAgrees, Completed, SourceInv, SourceFits, Guarded, Pinned, Fingerprinted
      <3>2. UNCHANGED <<attemptKind, version, published>> /\ tree'["result"] = tree["result"]
        BY <1>14 DEF RefuseVersion, AfterAgrees, Completed, AttemptTyped
      <3> QED BY <2>0, <3>1, <3>2, SourceKept
    <2>4. FailureInv'
      BY <1>14, <2>0 DEF RefuseVersion, AfterAgrees, Completed, Local, AttemptTyped,
                         FailureInv, Guarded
    <2>5. RowsInv'
      BY <1>14, <2>0 DEF RefuseVersion, AfterAgrees, Completed, Local, AttemptTyped,
                         RowsInv, Guarded
    <2> QED BY <2>1, <2>2, <2>3, <2>4, <2>5
  <1>15. CASE RaiseStep(c)
    <2>0. Local(c, "failing", me.ran, me.saw, me.kept, me.first, me.kept)
      BY <1>15, LocalWritten DEF RaiseStep, Slip, Completed, CallerStages, Guarded
    <2>1. AttemptTyped'
      BY <1>15, <2>0 DEF RaiseStep, Slip, Completed, Local, AttemptTyped
    <2>2. OwnerInv'
      BY <1>15, <2>0 DEF RaiseStep, Slip, Completed, Local, AttemptTyped, OwnerInv,
                         OneWriterPerRoot, Guarded
    <2>3. SourceInv'
      <3>1. SourceFits("failing", me.saw, me.first)
        BY <1>15 DEF RaiseStep, Slip, Completed, SourceInv, SourceFits, Guarded, Pinned, Fingerprinted
      <3>2. UNCHANGED <<attemptKind, version, published>> /\ tree'["result"] = tree["result"]
        BY <1>15 DEF RaiseStep, Slip, Completed, AttemptTyped
      <3> QED BY <2>0, <3>1, <3>2, SourceKept
    <2>4. FailureInv'
      BY <1>15, <2>0 DEF RaiseStep, Slip, Completed, Local, AttemptTyped, FailureInv,
                         Guarded
    <2>5. RowsInv'
      BY <1>15, <2>0 DEF RaiseStep, Slip, Completed, Local, AttemptTyped, RowsInv, Guarded
    <2> QED BY <2>1, <2>2, <2>3, <2>4, <2>5
  <1>16. CASE RaiseAfterLanding(c)
    <2>0. Local(c, "failing", me.ran, me.saw, me.kept, me.first, me.kept)
      BY <1>16, LocalWritten DEF RaiseAfterLanding, Slip, Completed, CallerStages, Guarded
    <2>6. /\ rootOwner = c /\ UNCHANGED <<attemptKind, version, rootOwner>>
          /\ me.stage \in Guarded
      BY <1>16 DEF RaiseAfterLanding, RecordOf, OwnerInv, Guarded
    <2>7. /\ rows \in Seq(Callers) /\ rows' \in Seq(Callers) /\ Len(rows') >= Len(rows)
          /\ \A i \in DOMAIN rows' : rows'[i] = IF i \in DOMAIN rows THEN rows[i] ELSE c
      <3>1. CASE UNCHANGED rows  BY <3>1 DEF AttemptTyped
      <3>2. CASE rows' = Append(rows, c)  BY <3>2, RowAppended DEF AttemptTyped
      <3> QED BY <1>16, <3>1, <3>2 DEF RaiseAfterLanding
    <2>8. /\ tree' \in [Records -> Callers \cup {Nobody}]
          /\ \A r \in Records : tree'[r] = tree[r] \/ (tree[r] = Nobody /\ tree'[r] = c)
          /\ \/ UNCHANGED <<tree, published>>
             \/ me.stage = "publish" /\ published' = me.saw
             \/ me.stage # "publish" /\ published' = published /\ tree'["result"] = tree["result"]
      <3>1. CASE UNCHANGED <<tree, published>>  BY <3>1 DEF AttemptTyped
      <3>2. CASE ~UNCHANGED <<tree, published>>
        <4>1. PICK record \in RecordOf(me.stage) :
                /\ tree[record] = Nobody /\ tree' = [tree EXCEPT ![record] = c]
                /\ published' = IF me.stage = "publish" THEN me.saw ELSE published
          BY <1>16, <3>2 DEF RaiseAfterLanding, PublishRecord
        <4>2. record \in Records /\ (record = "result" <=> me.stage = "publish")
          BY <4>1 DEF RecordOf
        <4> QED BY <4>1, <4>2 DEF AttemptTyped
      <3> QED BY <3>1, <3>2
    <2>1. AttemptTyped'  BY <2>0, <2>6, <2>7, <2>8 DEF Local, AttemptTyped
    <2>2. OwnerInv'
      BY <2>0, <2>6, <2>7, <2>8 DEF Local, OwnerInv, OneWriterPerRoot, Guarded
    <2>3. SourceInv'
      BY <2>0, <2>6, <2>8 DEF Local, SourceInv, Pinned, Fingerprinted, Guarded
    <2>4. FailureInv'  BY <2>0, <2>8 DEF Local, FailureInv
    <2>5. RowsInv'
      <3>1. Len(rows) \in Nat /\ Len(rows') \in Nat  BY <2>7
      <3>2. \A d \in Callers : caller[d].kept \in Nat /\ caller[d].told \in Nat
        BY DEF CallerRecord
      <3>3. ASSUME NEW d \in Callers
            PROVE  caller'[d].kept <= Len(rows) /\ caller'[d].told <= Len(rows)
        BY <2>0 DEF Local, RowsInv
      <3>4. ASSUME NEW d \in Callers
            PROVE  caller'[d].kept \in Nat /\ caller'[d].told \in Nat
        BY <2>0, <3>2 DEF Local
      <3> QED BY <2>7, <3>1, <3>3, <3>4 DEF RowsInv
    <2> QED BY <2>1, <2>2, <2>3, <2>4, <2>5
  <1>17. CASE JournalFailure(c)
    <2>0. Local(c, "raised", me.ran, me.saw, me.kept, me.first, me.told)
      BY <1>17, LocalWritten DEF JournalFailure, CallerStages, Guarded
    <2>1. AttemptTyped'
      BY <1>17, <2>0 DEF JournalFailure, Local, AttemptTyped
    <2>2. OwnerInv'
      BY <1>17, <2>0 DEF JournalFailure, Local, AttemptTyped, OwnerInv, OneWriterPerRoot,
                         Guarded
    <2>3. SourceInv'
      BY <1>17, <2>0 DEF JournalFailure, Local, AttemptTyped, SourceInv, Pinned,
                         Fingerprinted, Guarded
    <2>4. FailureInv'
      BY <1>17, <2>0 DEF JournalFailure, Local, AttemptTyped, FailureInv, Guarded
    <2>5. RowsInv'
      BY <1>17, <2>0 DEF JournalFailure, Local, AttemptTyped, RowsInv, Guarded
    <2> QED BY <2>1, <2>2, <2>3, <2>4, <2>5
  <1>18. CASE JournalFailureFails(c)
    <2>0. Local(c, "unrecorded", me.ran, me.saw, me.kept, me.first, me.told)
      BY <1>18, LocalWritten DEF JournalFailureFails, Slip, CallerStages, Guarded
    <2>1. AttemptTyped'
      BY <1>18, <2>0 DEF JournalFailureFails, Slip, Local, AttemptTyped
    <2>2. OwnerInv'
      BY <1>18, <2>0 DEF JournalFailureFails, Slip, Local, AttemptTyped, OwnerInv,
                         OneWriterPerRoot, Guarded
    <2>3. SourceInv'
      BY <1>18, <2>0 DEF JournalFailureFails, Slip, Local, AttemptTyped, SourceInv, Pinned,
                         Fingerprinted, Guarded
    <2>4. FailureInv'
      BY <1>18, <2>0 DEF JournalFailureFails, Slip, Local, AttemptTyped, FailureInv, Guarded
    <2>5. RowsInv'
      BY <1>18, <2>0 DEF JournalFailureFails, Slip, Local, AttemptTyped, RowsInv, Guarded
    <2> QED BY <2>1, <2>2, <2>3, <2>4, <2>5
  <1>19. CASE KillCaller(c)
    <2>0. Local(c, "dead", me.ran, me.saw, me.kept, me.first, me.told)
      BY <1>19, LocalWritten DEF KillCaller, Slip, CallerStages, Guarded
    <2>1. AttemptTyped'
      BY <1>19, <2>0 DEF KillCaller, Slip, Local, AttemptTyped
    <2>2. OwnerInv'
      BY <1>19, <2>0 DEF KillCaller, Slip, Local, AttemptTyped, OwnerInv, OneWriterPerRoot,
                         Guarded
    <2>3. SourceInv'
      BY <1>19, <2>0 DEF KillCaller, Slip, Local, AttemptTyped, SourceInv, Pinned, Fingerprinted,
                         Guarded
    <2>4. FailureInv'
      BY <1>19, <2>0 DEF KillCaller, Slip, Local, AttemptTyped, FailureInv, Guarded
    <2>5. RowsInv'
      BY <1>19, <2>0 DEF KillCaller, Slip, Local, AttemptTyped, RowsInv, Guarded
    <2> QED BY <2>1, <2>2, <2>3, <2>4, <2>5
  <1> QED
    BY <1>1, <1>2, <1>3, <1>4, <1>5, <1>6, <1>7, <1>8, <1>9, <1>10,
       <1>11, <1>12, <1>13, <1>14, <1>15, <1>16, <1>17, <1>18, <1>19

(* The surroundings of an attempt change only forward.                     *)
LEMMA DriftStep == AttemptInv /\ Drift => AttemptInv'
  BY AttemptsAssumption
     DEF AttemptInv, Drift, AttemptTyped, CallerRecord, OwnerInv, OneWriterPerRoot, Absent,
         SourceInv, FailureInv, RowsInv, Written

(* The invariant of the attempts.                                          *)
THEOREM AttemptInvariant == ComparisonSpec => []AttemptInv
  <1>1. AttemptInv /\ UNCHANGED comparisonVars => AttemptInv'
    BY DEF comparisonVars, AttemptInv, AttemptTyped, OwnerInv, OneWriterPerRoot, Absent,
           SourceInv, FailureInv, RowsInv, Written
  <1>2. AttemptInv /\ ComparisonNext => AttemptInv'
    BY DriftStep, CallerStep DEF ComparisonNext
  <1> QED BY <1>1, <1>2, ComparisonStart, PTL DEF ComparisonSpec

(* An attempt that can be loaded is one writer's and from one source, the  *)
(* pinned one where the identity pins it; one that raised cannot be        *)
(* loaded, and the rows it reports are on disk: for every number of        *)
(* callers of the root, arms, source changes and faults.                   *)
THEOREM AttemptsAlwaysTrustworthy == ComparisonSpec => []AttemptsAreTrustworthy
  <1>1. AttemptInv => AttemptsAreTrustworthy
    <2> SUFFICES ASSUME AttemptInv PROVE AttemptsAreTrustworthy
      OBVIOUS
    <2>1. LoadableMeansOneSource
      <3>1. \A v \in Nat : Cardinality({v}) = 1  BY FS_Singleton
      <3> QED BY <3>1 DEF AttemptInv, SourceInv, LoadableMeansOneSource, Loadable,
                          ResultLoads
    <2>2. OneWriterPerRoot  BY DEF AttemptInv, OwnerInv
    <2>3. RaisedIsNotLoadable
      BY DEF AttemptInv, FailureInv, RaisedIsNotLoadable, Loadable, On
    <2>4. ToldRowsAreDurable  BY DEF AttemptInv, RowsInv, ToldRowsAreDurable
    <2> QED BY <2>1, <2>2, <2>3, <2>4 DEF AttemptsAreTrustworthy
  <1> QED BY <1>1, AttemptInvariant, PTL

-----------------------------------------------------------------------------
(* The directory of the decision-value study. *)

(* A finite set of integers that is not empty has a largest element. *)
LEMMA LargestOf ==
  ASSUME NEW S, IsFiniteSet(S), S \subseteq Int, S # {}
  PROVE  Max(S) \in S /\ \A y \in S : Max(S) >= y
<1> DEFINE Bad == {T \in SUBSET S : T # {} /\ \A m \in T : \E y \in T : ~(m >= y)}
<1>1. Bad = {}
  <2> SUFFICES ASSUME Bad # {} PROVE FALSE OBVIOUS
  <2>1. IsWellFoundedOn(StrictSubsetOrdering(S), SUBSET S)
    BY FS_StrictSubsetOrderingWellFounded, FS_FiniteSubsetsOfFinite
  <2>2. PICK T \in Bad : \A U \in Bad : <<U, T>> \notin StrictSubsetOrdering(S)
    BY <2>1, WFMin
  <2>3. PICK x \in T : TRUE OBVIOUS
  <2> DEFINE U == T \ {x}
  <2>4. U \in SUBSET S /\ <<U, T>> \in StrictSubsetOrdering(S) BY <2>3 DEF StrictSubsetOrdering
  <2>5. U # {} BY <2>3
  <2>6. PICK y \in U : \A z \in U : y >= z BY <2>2, <2>4, <2>5
  <2>7. x \in Int /\ y \in Int /\ x # y BY <2>3
  <2>8. CASE x >= y
    <3>1. \A z \in U : z \in Int /\ x >= z BY <2>6, <2>7, <2>8
    <3> QED BY <2>3, <2>7, <3>1
  <2>9. CASE y >= x BY <2>3, <2>6, <2>9
  <2> QED BY <2>7, <2>8, <2>9
<1>2. \E m \in S : \A y \in S : m >= y BY <1>1
<1> QED BY <1>2 DEF Max

(* What the protocol and the preflight leave of a block, and what its training has checked. *)
SoundBlock(p, b) ==
  /\ p.horizon \in Int /\ p.horizon >= 2 /\ p.prefix \in Int /\ p.prefix >= 0
  /\ b.start \in Int /\ b.start >= 0 /\ b.stop \in Int /\ b.cutoff \in Int /\ b.evalStop \in Int
  /\ b.stop + p.horizon < b.cutoff /\ b.cutoff < b.evalStop
  /\ \A i \in 0..b.evalStop : Feeds[p.dataset][i] \in Int
  /\ DOMAIN Feeds[p.dataset] \subseteq Int
  /\ \A i \in DOMAIN Feeds[p.dataset] : Feeds[p.dataset][i] \in Int

TrainedBlock(p, b) == SoundBlock(p, b) /\ CollectionRuns(p, b) /\ TrainingSucceeds(p, b)

(* DecisionValueDevStudyProtocol and the preflight make every block sound. *)
LEMMA AcceptedBlocks ==
  ASSUME NEW p \in ValueProtocols, ProtocolIsValid(p), ValuePreflight(p), NEW k \in DOMAIN p.blocks
  PROVE  SoundBlock(p, p.blocks[k])
<1> DEFINE b == p.blocks[k]
           feed == Feeds[p.dataset]
<1>1. /\ p.horizon \in Int /\ p.prefix \in Int /\ p.blocks \in Seq(BlockSpecs)
      /\ p.dataset \in DOMAIN Feeds
      /\ p.horizon >= 2 /\ p.prefix >= 0
      /\ BlockIsValid(b) /\ b.stop + p.horizon < b.cutoff
      /\ b.evalStop \in DOMAIN feed
  BY ValueAssumption DEF ProtocolIsValid, PlanIsValid, ValuePreflight
<1>2. b \in BlockSpecs BY <1>1
<1>3. /\ b.start \in Int /\ b.stop \in Int /\ b.cutoff \in Int
      /\ b.evalStart \in Int /\ b.evalStop \in Int
  BY <1>2 DEF BlockSpecs
<1>4. /\ IsFiniteSet(DOMAIN feed) /\ DOMAIN feed = 0..(Cardinality(DOMAIN feed) - 1)
      /\ \A i \in DOMAIN feed : feed[i] \in Int
  BY <1>1, ValueAssumption
<1>5. \A i \in 0..b.evalStop : i \in DOMAIN feed
  <2> DEFINE last == Cardinality(DOMAIN feed) - 1
  <2>1. DOMAIN feed = 0..last /\ b.evalStop \in 0..last BY <1>1, <1>4
  <2>2. last \in Int BY <1>4, FS_CardinalityType
  <2> HIDE DEF last
  <2> QED BY <1>3, <2>1, <2>2
<1>6. DOMAIN feed \subseteq Int
  <2> DEFINE last == Cardinality(DOMAIN feed) - 1
  <2>1. DOMAIN feed = 0..last BY <1>4
  <2> HIDE DEF last
  <2>2. 0..last \subseteq Int OBVIOUS
  <2> QED BY <2>1, <2>2
<1>7. b.start >= 0 /\ b.cutoff < b.evalStop BY <1>1, <1>3 DEF BlockIsValid
<1> QED BY <1>1, <1>3, <1>4, <1>5, <1>6, <1>7 DEF SoundBlock

(* A branch is a bar of the training window; its prefix starts in the window and not after it. *)
LEMMA BranchFacts ==
  ASSUME NEW p, NEW b, SoundBlock(p, b), NEW t \in LabelledBranches(p, b)
  PROVE  /\ t \in Int /\ b.start <= t /\ t <= b.stop
         /\ PrefixStart(p, b, t) \in Int /\ b.start <= PrefixStart(p, b, t)
         /\ PrefixStart(p, b, t) <= t
<1>1. /\ b.start \in Int /\ b.stop \in Int /\ p.prefix \in Int /\ p.prefix >= 0 BY DEF SoundBlock
<1>2. t \in b.start..b.stop BY DEF LabelledBranches, BranchBars
<1> DEFINE S == {b.start, t - p.prefix}
<1>3. IsFiniteSet(S)
  <2>1. S = {b.start} \cup {t - p.prefix} OBVIOUS
  <2>2. IsFiniteSet({b.start}) BY FS_Singleton
  <2> HIDE DEF S
  <2> QED BY <2>1, <2>2, FS_AddElement
<1>4. S \subseteq Int /\ S # {} BY <1>1, <1>2
<1>5. Max(S) \in S /\ \A y \in S : Max(S) >= y BY <1>3, <1>4, LargestOf
<1>6. PrefixStart(p, b, t) = Max(S) BY DEF PrefixStart
<1> HIDE DEF S
<1>7. \/ PrefixStart(p, b, t) = b.start
      \/ PrefixStart(p, b, t) = t - p.prefix
  BY <1>5, <1>6 DEF S
<1>8. PrefixStart(p, b, t) >= b.start BY <1>5, <1>6 DEF S
<1>9. t \in Int /\ b.start <= t /\ t <= b.stop BY <1>1, <1>2
<1>10. PrefixStart(p, b, t) \in Int BY <1>1, <1>7, <1>9
<1> QED BY <1>1, <1>7, <1>8, <1>9, <1>10

(* The branches and the part of them the margin model is fitted on are finite, and the cutoff *)
(* of the margin lies inside the block.                                                       *)
LEMMA MarginFacts ==
  ASSUME NEW p, NEW b, TrainedBlock(p, b)
  PROVE  LET times == LabelledBranches(p, b) IN
         /\ Max(times) \in Int /\ Max(times) <= b.stop
         /\ MarginCutoff(p, times) \in Int /\ MarginCutoff(p, times) <= b.cutoff
         /\ b.start <= MarginCutoff(p, times)
<1> DEFINE times == LabelledBranches(p, b)
           fitted == FitTimes(p, times)
<1>1. /\ SoundBlock(p, b) /\ RosterFits(times) /\ RosterFits(fitted)
  BY DEF TrainedBlock, TrainingSucceeds, MarginFits
<1>2. /\ b.start \in Int /\ b.stop \in Int /\ b.cutoff \in Int /\ p.horizon \in Int
      /\ p.horizon >= 2 /\ b.stop + p.horizon < b.cutoff
  BY <1>1 DEF SoundBlock
<1>3. times \subseteq b.start..b.stop BY DEF LabelledBranches, BranchBars
<1>4. fitted \subseteq times BY DEF FitTimes
<1>5. IsFiniteSet(times) /\ IsFiniteSet(fitted)
  BY <1>2, <1>3, <1>4, FS_Interval, FS_Subset
<1>6. Cardinality({}) = 0 BY FS_EmptySet
<1> HIDE DEF times, fitted
<1>7. times # {} /\ fitted # {}
  <2>1. Cardinality(times) >= 3 /\ Cardinality(fitted) >= 3 BY <1>1 DEF RosterFits
  <2>2. ~(Cardinality({}) >= 3) BY <1>6
  <2> QED BY <2>1, <2>2
<1>8. times \subseteq Int /\ fitted \subseteq Int BY <1>2, <1>3, <1>4
<1>9. Max(times) \in times /\ Max(fitted) \in fitted BY <1>5, <1>7, <1>8, LargestOf
<1>10. /\ Max(times) \in Int /\ Max(times) <= b.stop
       /\ Max(fitted) \in Int /\ Max(fitted) <= b.stop /\ b.start <= Max(fitted)
  <2>1. Max(times) \in b.start..b.stop /\ Max(fitted) \in b.start..b.stop BY <1>3, <1>4, <1>9
  <2> QED BY <1>2, <2>1
<1>11. MarginCutoff(p, times) = Max(fitted) + p.horizon + 1 BY DEF MarginCutoff, fitted
<1>12. /\ MarginCutoff(p, times) \in Int /\ MarginCutoff(p, times) <= b.cutoff
       /\ b.start <= MarginCutoff(p, times)
  BY <1>2, <1>10, <1>11
<1> QED BY <1>10, <1>12 DEF times

(* The maturity of a label is a time. *)
LEMMA MaturityIsTime ==
  ASSUME NEW p, NEW b, TrainedBlock(p, b), NEW t \in LabelledBranches(p, b)
  PROVE  LabelMaturity(p, t) \in Int
<1> DEFINE feed == Feeds[p.dataset]
           seen == {feed[i] : i \in (t + 1)..(t + p.horizon)}
           S == {t + p.horizon} \cup seen
           later == (t + 1)..(t + p.horizon)
           f == [i \in later |-> feed[i]]
<1>1. SoundBlock(p, b) BY DEF TrainedBlock
<1>2. t \in Int /\ b.start <= t /\ t <= b.stop BY <1>1, BranchFacts
<1>3. /\ p.horizon \in Int /\ p.horizon >= 2 /\ b.start \in Int /\ b.start >= 0
      /\ b.stop \in Int /\ b.cutoff \in Int /\ b.evalStop \in Int
      /\ b.stop + p.horizon < b.cutoff /\ b.cutoff < b.evalStop
      /\ \A i \in 0..b.evalStop : feed[i] \in Int
  BY <1>1 DEF SoundBlock
<1>4. \A i \in later : i \in 0..b.evalStop
  <2> HIDE DEF feed
  <2> QED BY <1>2, <1>3
<1>5. \A i \in later : feed[i] \in Int
  <2> HIDE DEF feed, later
  <2> QED BY <1>3, <1>4
<1>6. IsFiniteSet(later)
  <2>1. t + 1 \in Int /\ t + p.horizon \in Int BY <1>2, <1>3
  <2> QED BY <2>1, FS_Interval
<1>7. IsFiniteSet(seen)
  <2> HIDE DEF feed
  <2>1. f \in Surjection(later, seen) BY DEF Surjection
  <2> HIDE DEF f, later, seen
  <2> QED BY <1>6, <2>1, FS_Surjection
<1>8. IsFiniteSet(S)
  <2> HIDE DEF seen
  <2>1. S = seen \cup {t + p.horizon} OBVIOUS
  <2> QED BY <1>7, <2>1, FS_AddElement
<1>9. S \subseteq Int /\ S # {}
  <2> HIDE DEF feed, later
  <2>1. \A x \in seen : x \in Int BY <1>5 DEF seen, later
  <2>2. t + p.horizon \in Int BY <1>2, <1>3
  <2> HIDE DEF seen
  <2> QED BY <2>1, <2>2
<1>10. Max(S) \in S BY <1>8, <1>9, LargestOf
<1> QED BY <1>9, <1>10 DEF LabelMaturity

(* What a trained block has read had arrived by its cutoff; its teachers and its margin keep  *)
(* to their own past; and no row after the cutoff is among the rows of a pair.                *)
LEMMA TrainedIsOnThePast ==
  ASSUME NEW p, NEW b, TrainedBlock(p, b)
  PROVE  /\ TrainedOnThePast(p, b)
         /\ (UNION {PairBars(p, b, t) : t \in LabelledBranches(p, b)}) \cap PerturbedAfter(p, b.cutoff)
              = {}
<1> DEFINE feed == Feeds[p.dataset]
           times == LabelledBranches(p, b)
           m == MarginCutoff(p, times)
<1>1. SoundBlock(p, b) /\ CollectionRuns(p, b) /\ TrainingSucceeds(p, b) BY DEF TrainedBlock
<1>2. /\ p.horizon \in Int /\ p.horizon >= 2 /\ b.start \in Int /\ b.start >= 0
      /\ b.stop \in Int /\ b.cutoff \in Int /\ b.evalStop \in Int
      /\ b.stop + p.horizon < b.cutoff /\ b.cutoff < b.evalStop
      /\ \A i \in 0..b.evalStop : feed[i] \in Int
      /\ DOMAIN feed \subseteq Int /\ \A i \in DOMAIN feed : feed[i] \in Int
  BY <1>1 DEF SoundBlock
<1>3. /\ Max(times) \in Int /\ Max(times) <= b.stop /\ m \in Int /\ m <= b.cutoff /\ b.start <= m
  BY MarginFacts
<1> HIDE DEF feed, m
<1>4. \A i, first, last, asOf :
        i \in TransformBars(feed, first, last, asOf) <=> i \in first..last /\ feed[i] <= asOf
  BY DEF TransformBars
<1>5. \A i, cutoff : i \in RidgeBars(feed, cutoff) <=>
        i \in DOMAIN feed /\ i < cutoff /\ feed[i] <= cutoff
  BY DEF RidgeBars
<1>6. ASSUME NEW t \in times
      PROVE  /\ \A i \in VintageBars(p, b, t) :
                  /\ feed[i] \in Int /\ i \in Int
                  /\ feed[i] <= PrefixStart(p, b, t) /\ i <= PrefixStart(p, b, t)
             /\ \A i \in PairBars(p, b, t) : i \in Int /\ i < b.cutoff /\ feed[i] \in Int /\ feed[i] <= i
  <2> DEFINE first == PrefixStart(p, b, t)
  <2>1. /\ t \in Int /\ b.start <= t /\ t <= b.stop /\ first \in Int /\ b.start <= first /\ first <= t
    BY <1>1, <1>6, BranchFacts
  <2>2. VintageBars(p, b, t) = TransformBars(feed, b.start, first - 1, first) \cup RidgeBars(feed, first)
    BY DEF VintageBars, feed
  <2>3. PairBars(p, b, t) = first..(t + p.horizon) /\ \A i \in PairBars(p, b, t) : feed[i] <= i
    BY <1>1, <1>6 DEF CollectionRuns, PairRuns, PairBars, feed
  <2> HIDE DEF first, times
  <2>4. ASSUME NEW i \in TransformBars(feed, b.start, first - 1, first)
        PROVE  feed[i] \in Int /\ i \in Int /\ feed[i] <= first /\ i <= first
    <3>1. i \in b.start..(first - 1) /\ feed[i] <= first BY <1>4, <2>4
    <3>2. i \in 0..b.evalStop BY <1>2, <2>1, <3>1
    <3> QED BY <1>2, <2>1, <3>1, <3>2
  <2>5. ASSUME NEW i \in RidgeBars(feed, first)
        PROVE  feed[i] \in Int /\ i \in Int /\ feed[i] <= first /\ i <= first
    BY <1>2, <1>5, <2>1, <2>5
  <2>6. ASSUME NEW i \in PairBars(p, b, t)
        PROVE  i \in Int /\ i < b.cutoff /\ feed[i] \in Int /\ feed[i] <= i
    <3>1. i \in first..(t + p.horizon) /\ feed[i] <= i BY <2>3, <2>6
    <3>2. i \in 0..b.evalStop /\ i < b.cutoff BY <1>2, <2>1, <3>1
    <3> QED BY <1>2, <3>1, <3>2
  <2> QED BY <2>2, <2>4, <2>5, <2>6 DEF first
<1>7. /\ \A i \in CalibrationBars(p, times) : i \in Int /\ i > m /\ i < b.cutoff /\ feed[i] <= i
      /\ \A t \in FitTimes(p, times) : t \in times /\ LabelMaturity(p, t) < m
  <2>1. MarginFits(p, b, times) BY <1>1 DEF TrainingSucceeds
  <2>2. \A i \in CalibrationBars(p, times) : feed[i] <= i BY <2>1 DEF MarginFits, feed
  <2>3. \A t \in FitTimes(p, times) : t \in times /\ LabelMaturity(p, t) < m
    BY <2>1 DEF MarginFits, LabelAdmitted, FitTimes, m
  <2>4. CalibrationBars(p, times) = (m + 1)..(Max(times) + p.horizon) BY DEF CalibrationBars, m
  <2> HIDE DEF times
  <2>5. \A i \in CalibrationBars(p, times) : i \in Int /\ i > m /\ i < b.cutoff BY <1>2, <1>3, <2>4
  <2> QED BY <2>2, <2>3, <2>5
<1>8. \A i \in TrainingBars(p, b) : i <= b.cutoff /\ feed[i] <= b.cutoff
  <2>1. TrainingBars(p, b) = TransformBars(feed, b.start, b.stop, b.cutoff) \cup RidgeBars(feed, b.cutoff)
          \cup (UNION {VintageBars(p, b, t) \cup PairBars(p, b, t) : t \in times})
          \cup (TransformBars(feed, b.start, m - 1, m) \cup CalibrationBars(p, times))
    BY DEF TrainingBars, MarginBars, feed, m
  <2>2. ASSUME NEW i \in TransformBars(feed, b.start, b.stop, b.cutoff)
        PROVE  i <= b.cutoff /\ feed[i] <= b.cutoff
    <3>1. i \in b.start..b.stop /\ feed[i] <= b.cutoff BY <1>4, <2>2
    <3> QED BY <1>2, <3>1
  <2>3. ASSUME NEW i \in RidgeBars(feed, b.cutoff) PROVE i <= b.cutoff /\ feed[i] <= b.cutoff
    BY <1>2, <1>5, <2>3
  <2>4. ASSUME NEW t \in times, NEW i \in VintageBars(p, b, t) \cup PairBars(p, b, t)
        PROVE  i <= b.cutoff /\ feed[i] <= b.cutoff
    <3>1. PrefixStart(p, b, t) \in Int /\ t \in Int /\ t <= b.stop /\ PrefixStart(p, b, t) <= t
      BY <1>1, <2>4, BranchFacts
    <3> HIDE DEF times
    <3>2. CASE i \in VintageBars(p, b, t)
      <4>1. /\ feed[i] \in Int /\ i \in Int
            /\ feed[i] <= PrefixStart(p, b, t) /\ i <= PrefixStart(p, b, t)
        BY <1>6, <2>4, <3>2
      <4> QED BY <1>2, <3>1, <4>1
    <3>3. CASE i \in PairBars(p, b, t)
      <4>1. i \in Int /\ i < b.cutoff /\ feed[i] \in Int /\ feed[i] <= i BY <1>6, <2>4, <3>3
      <4> QED BY <1>2, <4>1
    <3> QED BY <2>4, <3>2, <3>3
  <2> HIDE DEF times
  <2>5. ASSUME NEW i \in TransformBars(feed, b.start, m - 1, m)
        PROVE  i <= b.cutoff /\ feed[i] <= b.cutoff
    <3>1. i \in b.start..(m - 1) /\ feed[i] <= m BY <1>4, <2>5
    <3>2. i \in 0..b.evalStop BY <1>2, <1>3, <3>1
    <3> QED BY <1>2, <1>3, <3>1, <3>2
  <2>6. ASSUME NEW i \in CalibrationBars(p, times) PROVE i <= b.cutoff /\ feed[i] <= b.cutoff
    <3>1. i \in Int /\ i > m /\ i < b.cutoff /\ feed[i] <= i BY <1>7, <2>6
    <3>2. i \in 0..b.evalStop BY <1>2, <1>3, <3>1
    <3> QED BY <1>2, <3>1, <3>2
  <2> QED BY <2>1, <2>2, <2>3, <2>4, <2>5, <2>6
<1>9. \A t \in times : \A i \in VintageBars(p, b, t) : feed[i] <= PrefixStart(p, b, t)
  BY <1>6
<1>10. \A t \in FitTimes(p, times) : \A i \in CalibrationBars(p, times) : LabelMaturity(p, t) < i
  <2> SUFFICES ASSUME NEW t \in FitTimes(p, times), NEW i \in CalibrationBars(p, times)
               PROVE  LabelMaturity(p, t) < i
    OBVIOUS
  <2>1. t \in times /\ LabelMaturity(p, t) < m /\ i \in Int /\ i > m BY <1>7
  <2>2. LabelMaturity(p, t) \in Int BY <2>1, MaturityIsTime
  <2> QED BY <1>3, <2>1, <2>2
<1>11. TrainedOnThePast(p, b) BY <1>8, <1>9, <1>10 DEF TrainedOnThePast, feed
<1>12. \A t \in times : \A i \in PairBars(p, b, t) : ~(i > b.cutoff)
  <2> SUFFICES ASSUME NEW t \in times, NEW i \in PairBars(p, b, t) PROVE ~(i > b.cutoff)
    OBVIOUS
  <2>1. i \in Int /\ i < b.cutoff BY <1>6
  <2> QED BY <1>2, <2>1
<1> HIDE DEF times
<1> QED BY <1>11, <1>12 DEF PerturbedAfter, times

(* What a process of the study is, at each stage of its run. *)
EndedStages    == {"idle", "failed", "dead"}
TrainingStages == {"train", "probe", "evaluate"}
ResultStages  == {"protocol", "result", "summary", "published"}
ReceiptStages  == {"abort", "link", "blocked"}

ValueRunRecord ==
  [stage : EndedStages \cup TrainingStages \cup {"persist"} \cup ResultStages \cup ReceiptStages,
   protocol : ValueProtocols \cup {NoRoot}, block : Nat,
   phase : {"training", "causality_probe"}, evidence : Seq(PairEvidence),
   outcomes : Seq(BlockOutcomes)]

AcceptedProtocol(p) == p \in ValueProtocols /\ ProtocolIsValid(p) /\ ValuePreflight(p)

RunIsSound(run) ==
  /\ run \in ValueRunRecord
  /\ run.stage \in EndedStages => run = EndedRun(run.stage)
  /\ run.stage \in TrainingStages \cup {"persist"} \cup ResultStages =>
       /\ AcceptedProtocol(run.protocol) /\ run.phase = "training" /\ run.evidence = << >>
       /\ run.block \in 1..Len(run.protocol.blocks)
       /\ Len(run.outcomes)
            = IF run.stage \in TrainingStages THEN run.block - 1 ELSE Len(run.protocol.blocks)
       /\ \A k \in 1..Len(run.outcomes) : TrainedBlock(run.protocol, run.protocol.blocks[k])
  /\ run.stage \in {"probe", "evaluate"} =>
       TrainedBlock(run.protocol, run.protocol.blocks[run.block])
  /\ run.stage \in ReceiptStages => run.phase = "training" /\ Len(run.evidence) \in 1..MaxEvidence

(* The record of an ended process. *)
LEMMA EndedIsSound ==
  ASSUME NEW stage \in EndedStages
  PROVE  /\ RunIsSound(EndedRun(stage)) /\ EndedRun(stage).stage = stage
         /\ EndedRun(stage).phase = "training" /\ EndedRun(stage).evidence = << >>
         /\ EndedRun(stage).outcomes = << >>
<1>1. EndedRun(stage) = [stage |-> stage, protocol |-> NoRoot, block |-> 0, phase |-> "training",
                         evidence |-> << >>, outcomes |-> << >>]
  BY DEF EndedRun, IdleValueRun
<1>2. stage \notin TrainingStages \cup {"persist"} \cup ResultStages \cup ReceiptStages
  BY DEF EndedStages, TrainingStages, ResultStages, ReceiptStages
<1>3. EndedRun(stage) \in ValueRunRecord BY <1>1 DEF ValueRunRecord
<1> QED BY <1>1, <1>2, <1>3 DEF RunIsSound, TrainingStages

(* An accepted protocol has a sequence of blocks. *)
LEMMA AcceptedHasBlocks ==
  ASSUME NEW p, AcceptedProtocol(p)
  PROVE  p.blocks \in Seq(BlockSpecs) /\ Len(p.blocks) \in Nat
<1>1. p \in ValueProtocols BY DEF AcceptedProtocol
<1>2. p.blocks \in Seq(BlockSpecs) BY <1>1, ValueAssumption
<1> QED BY <1>2

(* Starting, on a protocol that passed every check. *)
LEMMA StartIsSound ==
  ASSUME NEW run, RunIsSound(run), run.stage = "idle", NEW p, AcceptedProtocol(p)
  PROVE  RunIsSound([run EXCEPT !.stage = "train", !.protocol = p, !.block = 1])
<1> DEFINE R == [run EXCEPT !.stage = "train", !.protocol = p, !.block = 1]
<1>1. run \in ValueRunRecord /\ run = EndedRun("idle") BY DEF RunIsSound, EndedStages
<1>2. /\ run.phase = "training" /\ run.evidence = << >> /\ run.outcomes = << >>
  <2>1. "idle" \in EndedStages BY DEF EndedStages
  <2> QED BY <1>1, <2>1, EndedIsSound
<1>3. p \in ValueProtocols /\ Len(p.blocks) \in 1..3 BY DEF AcceptedProtocol, ProtocolIsValid
<1>4. /\ R \in ValueRunRecord
      /\ R.stage = "train" /\ R.protocol = p /\ R.block = 1 /\ R.phase = run.phase
      /\ R.evidence = run.evidence /\ R.outcomes = run.outcomes
  <2> DEFINE chosen == p
             stage == "train"
             block == 1
  <2>1. /\ run \in ValueRunRecord /\ chosen \in ValueProtocols /\ stage \in TrainingStages
        /\ block \in Nat
    BY <1>1, <1>3 DEF TrainingStages
  <2>2. R = [run EXCEPT !.stage = stage, !.protocol = chosen, !.block = block] OBVIOUS
  <2> HIDE DEF R, chosen, stage, block
  <2>3. /\ R \in ValueRunRecord
        /\ R.stage = stage /\ R.protocol = chosen /\ R.block = block /\ R.phase = run.phase
        /\ R.evidence = run.evidence /\ R.outcomes = run.outcomes
    BY <2>1, <2>2 DEF ValueRunRecord
  <2> QED BY <2>3 DEF chosen, stage, block
<1> HIDE DEF R
<1>5. Len(R.outcomes) = 0 BY <1>2, <1>4
<1>6. 1 \in 1..Len(p.blocks)
  <2> DEFINE last == Len(p.blocks)
  <2>1. last \in 1..3 BY <1>3
  <2> HIDE DEF last
  <2>2. 1 \in 1..last BY <2>1
  <2> QED BY <2>2 DEF last
<1>7. R.stage \notin EndedStages /\ R.stage \notin ReceiptStages /\ R.stage \in TrainingStages
      /\ R.stage \notin {"probe", "evaluate"}
  BY <1>4 DEF EndedStages, ReceiptStages, TrainingStages
<1>8. AcceptedProtocol(R.protocol) /\ R.block \in 1..Len(R.protocol.blocks) /\ Len(R.outcomes) = R.block - 1
  BY <1>4, <1>5, <1>6
<1>9. \A k \in 1..Len(R.outcomes) : TrainedBlock(R.protocol, R.protocol.blocks[k]) BY <1>5
<1> QED BY <1>2, <1>4, <1>7, <1>8, <1>9 DEF RunIsSound, R

(* A step that leaves all but the stage alone; what the new stage asks for is given. *)
LEMMA StageIsSound ==
  ASSUME NEW run, RunIsSound(run), NEW stage,
         \/ run.stage = "train" /\ stage = "probe"
              /\ TrainedBlock(run.protocol, run.protocol.blocks[run.block])
         \/ run.stage = "probe" /\ stage = "evaluate"
         \/ run.stage = "persist" /\ stage = "protocol"
         \/ run.stage = "protocol" /\ stage = "result"
         \/ run.stage = "result" /\ stage = "summary"
         \/ run.stage = "summary" /\ stage = "published"
         \/ run.stage = "abort" /\ stage = "link"
         \/ run.stage = "link" /\ stage = "blocked"
  PROVE  RunIsSound([run EXCEPT !.stage = stage])
<1> DEFINE R == [run EXCEPT !.stage = stage]
<1>1. run \in ValueRunRecord BY DEF RunIsSound
<1>2. /\ R \in ValueRunRecord
      /\ R.stage = stage /\ R.protocol = run.protocol /\ R.block = run.block
      /\ R.phase = run.phase /\ R.evidence = run.evidence /\ R.outcomes = run.outcomes
  BY <1>1 DEF ValueRunRecord, TrainingStages, ResultStages, ReceiptStages
<1> HIDE DEF R
<1>3. /\ run.stage \notin EndedStages /\ stage \notin EndedStages
      /\ run.stage \in TrainingStages <=> stage \in TrainingStages
      /\ run.stage \in ReceiptStages <=> stage \in ReceiptStages
      /\ run.stage \in {"persist"} \cup ResultStages <=> stage \in {"persist"} \cup ResultStages
  BY DEF EndedStages, TrainingStages, ResultStages, ReceiptStages
<1>4. stage \in {"probe", "evaluate"}
        => TrainedBlock(run.protocol, run.protocol.blocks[run.block])
  BY DEF RunIsSound
<1> QED BY <1>2, <1>3, <1>4 DEF RunIsSound, R

(* An incomplete pair of the training: nothing but the evidence is kept. *)
LEMMA AbortIsSound ==
  ASSUME NEW run, RunIsSound(run), run.stage = "train",
         NEW n \in 1..MaxEvidence, NEW e \in [1..n -> PairEvidence]
  PROVE  RunIsSound([run EXCEPT !.stage = "abort", !.evidence = e, !.outcomes = << >>])
<1> DEFINE R == [run EXCEPT !.stage = "abort", !.evidence = e, !.outcomes = << >>]
<1>1. run \in ValueRunRecord /\ run.phase = "training" BY DEF RunIsSound, TrainingStages
<1>2. MaxEvidence \in Nat BY ValueAssumption
<1>3. n \in Nat BY <1>2
<1>4. e \in Seq(PairEvidence) /\ Len(e) = n BY <1>3
<1>5. << >> \in Seq(BlockOutcomes) OBVIOUS
<1>6. /\ R \in ValueRunRecord
      /\ R.stage = "abort" /\ R.phase = run.phase /\ R.evidence = e
  BY <1>1, <1>4, <1>5 DEF ValueRunRecord, ReceiptStages
<1> HIDE DEF R
<1>7. /\ R.stage \notin EndedStages \cup TrainingStages \cup {"persist"} \cup ResultStages
      /\ R.stage \notin {"probe", "evaluate"}
  BY <1>6 DEF EndedStages, TrainingStages, ResultStages
<1> QED BY <1>1, <1>4, <1>6, <1>7 DEF RunIsSound, R

(* The outcome of a block: the next block, or the verdict. *)
LEMMA EvaluationIsSound ==
  ASSUME NEW run, RunIsSound(run), run.stage = "evaluate", NEW o \in BlockOutcomes
  PROVE  LET more == run.block < Len(run.protocol.blocks) IN
         RunIsSound([run EXCEPT !.outcomes = Append(run.outcomes, o),
                                !.block = IF more THEN run.block + 1 ELSE run.block,
                                !.stage = IF more THEN "train" ELSE "persist"])
<1> DEFINE more == run.block < Len(run.protocol.blocks)
           p == run.protocol
           last == Len(run.protocol.blocks)
           R == [run EXCEPT !.outcomes = Append(run.outcomes, o),
                            !.block = IF more THEN run.block + 1 ELSE run.block,
                            !.stage = IF more THEN "train" ELSE "persist"]
<1>1. /\ run \in ValueRunRecord /\ AcceptedProtocol(p) /\ run.phase = "training" /\ run.evidence = << >>
      /\ run.block \in 1..last /\ Len(run.outcomes) = run.block - 1
      /\ \A k \in 1..Len(run.outcomes) : TrainedBlock(p, p.blocks[k])
      /\ TrainedBlock(p, p.blocks[run.block])
  BY DEF RunIsSound, TrainingStages
<1>3. last \in Nat BY <1>1, AcceptedHasBlocks
<1>4. run.outcomes \in Seq(BlockOutcomes) /\ run.block \in Nat BY <1>1 DEF ValueRunRecord
<1>5. /\ Append(run.outcomes, o) \in Seq(BlockOutcomes)
      /\ Len(Append(run.outcomes, o)) = run.block
  BY <1>1, <1>4
<1>6. /\ R \in ValueRunRecord /\ R.protocol = p
      /\ R.stage = (IF more THEN "train" ELSE "persist")
      /\ R.block = (IF more THEN run.block + 1 ELSE run.block)
      /\ R.phase = run.phase /\ R.evidence = run.evidence /\ R.outcomes = Append(run.outcomes, o)
  <2> DEFINE block == IF more THEN run.block + 1 ELSE run.block
             stage == IF more THEN "train" ELSE "persist"
             done  == Append(run.outcomes, o)
  <2>1. block \in Nat /\ stage \in TrainingStages \cup {"persist"} /\ done \in Seq(BlockOutcomes)
    BY <1>4, <1>5 DEF TrainingStages
  <2>2. R = [run EXCEPT !.outcomes = done, !.block = block, !.stage = stage] OBVIOUS
  <2>3. run \in ValueRunRecord BY <1>1
  <2> HIDE DEF R, block, stage, done
  <2>4. /\ R \in ValueRunRecord /\ R.protocol = run.protocol
        /\ R.stage = stage /\ R.block = block
        /\ R.phase = run.phase /\ R.evidence = run.evidence /\ R.outcomes = done
    BY <2>1, <2>2, <2>3 DEF ValueRunRecord
  <2> QED BY <2>4 DEF stage, block, done
<1> HIDE DEF R
<1>7. \A k \in 1..Len(R.outcomes) : TrainedBlock(p, p.blocks[k])
  <2> SUFFICES ASSUME NEW k \in 1..run.block PROVE TrainedBlock(p, p.blocks[k]) BY <1>5, <1>6
  <2>1. k = run.block \/ k \in 1..(run.block - 1) BY <1>4
  <2> QED BY <1>1, <2>1
<1>8. CASE more
  <2>1. R.stage = "train" /\ R.block = run.block + 1 BY <1>6, <1>8
  <2>2. R.block \in 1..last /\ Len(R.outcomes) = R.block - 1
    BY <1>1, <1>3, <1>4, <1>5, <1>6, <1>8, <2>1
  <2>3. R.stage \in TrainingStages /\ R.stage \notin EndedStages /\ R.stage \notin ReceiptStages
        /\ R.stage \notin {"probe", "evaluate"}
    BY <2>1 DEF TrainingStages, EndedStages, ReceiptStages
  <2> QED BY <1>1, <1>6, <1>7, <2>2, <2>3 DEF RunIsSound, R
<1>9. CASE ~more
  <2>1. R.stage = "persist" /\ R.block = run.block BY <1>6, <1>9
  <2>2. R.block \in 1..last /\ Len(R.outcomes) = last
    BY <1>1, <1>3, <1>4, <1>5, <1>6, <1>9, <2>1
  <2>3. R.stage \notin TrainingStages /\ R.stage \notin EndedStages /\ R.stage \notin ReceiptStages
        /\ R.stage \notin {"probe", "evaluate"}
    BY <2>1 DEF TrainingStages, EndedStages, ReceiptStages
  <2> QED BY <1>1, <1>6, <1>7, <2>2, <2>3 DEF RunIsSound, R
<1> QED BY <1>8, <1>9

(* A ledger that verify_paired_economic_ledger accepts accounts for the money of its fills.     *)
LEMMA ReconciledMoney ==
  ASSUME NEW ledger \in Ledgers, LedgerReconciles(ledger)
  PROVE  MoneyIsAccountedFor(ledger)
<1> DEFINE Filled == [at : Int, cashBefore : Int, lotsBefore : Int, equityBefore : Int, filled : Int,
                      price : Int, cost : Int, cashAfter : Int, lotsAfter : Int, equityAfter : Int]
           f == ledger[1]
           g == ledger[2]
<1>1. BuyLot \in Filled /\ SellLot \in Filled /\ Interval(1, 15, 1, 20, 0, 6, 0, 15, 1, 21) \in Filled
  BY DEF BuyLot, SellLot, Interval
<1>2. /\ Interval(1, 15, 1, 20, -1, 6, 1, 21, 0, 21) \in Filled
      /\ [BuyLot EXCEPT !.lotsAfter = 0] \in Filled /\ [SellLot EXCEPT !.lotsBefore = 0] \in Filled
  <2>1. [BuyLot EXCEPT !.lotsAfter = 0] \in Filled BY DEF BuyLot, Interval
  <2>2. [SellLot EXCEPT !.lotsBefore = 0] \in Filled BY DEF SellLot, Interval
  <2>3. Interval(1, 15, 1, 20, -1, 6, 1, 21, 0, 21) \in Filled BY DEF Interval
  <2> QED BY <2>1, <2>2, <2>3
<1>3. Len(ledger) = 2 BY DEF LedgerReconciles, ClosingMark
<1>4. \E a, b \in Filled : ledger = <<a, b>>
  <2>1. ledger # <<SellLot>> BY <1>3
  <2> HIDE DEF Filled
  <2>3. CASE ledger = <<BuyLot, SellLot>> BY <1>1, <2>3
  <2>4. CASE ledger = <<BuyLot, Interval(1, 15, 1, 20, -1, 6, 1, 21, 0, 21)>>
    BY <1>1, <1>2, <2>4
  <2>5. CASE ledger = <<[BuyLot EXCEPT !.lotsAfter = 0], [SellLot EXCEPT !.lotsBefore = 0]>>
    BY <1>2, <2>5
  <2>6. CASE ledger = <<BuyLot, Interval(1, 15, 1, 20, 0, 6, 0, 15, 1, 21)>> BY <1>1, <2>6
  <2> QED BY <2>1, <2>3, <2>4, <2>5, <2>6 DEF Ledgers
<1>5. f \in Filled /\ g \in Filled
  <2> HIDE DEF Filled
  <2> QED BY <1>4
<1>6. IntervalReconciles(ledger, 1) /\ IntervalReconciles(ledger, 2)
  <2>1. 1 \in DOMAIN ledger /\ 2 \in DOMAIN ledger
    <3> HIDE DEF Filled
    <3> QED BY <1>4
  <2> QED BY <2>1 DEF LedgerReconciles
<1>7. Last(ledger) = g BY <1>3 DEF Last
<1>8. /\ f.cashBefore = 20 /\ f.lotsBefore = 0
      /\ f.cashAfter = f.cashBefore - f.filled * f.price - f.cost
      /\ f.lotsAfter = f.lotsBefore + f.filled
      /\ g.cashBefore = f.cashAfter /\ g.lotsBefore = f.lotsAfter
      /\ g.cashAfter = g.cashBefore - g.filled * g.price - g.cost
      /\ g.lotsAfter = g.lotsBefore + g.filled
  <2>1. ledger[2 - 1] = f OBVIOUS
  <2> QED BY <1>6, <2>1 DEF IntervalReconciles, OpeningCash
<1>9. g.lotsAfter = 0 BY <1>7 DEF LedgerReconciles
<1> DEFINE paid1 == f.filled * f.price
           paid2 == g.filled * g.price
<1>10. /\ f.filled \in Int /\ f.cost \in Int /\ g.filled \in Int /\ g.cost \in Int
       /\ f.lotsAfter \in Int /\ g.lotsAfter \in Int /\ paid1 \in Int /\ paid2 \in Int
       /\ f.cashAfter \in Int /\ g.cashAfter \in Int
  BY <1>5
<1> HIDE DEF f, g
<1>11. /\ f.cashAfter = 20 - paid1 - f.cost /\ g.cashAfter = f.cashAfter - paid2 - g.cost
  BY <1>8 DEF paid1, paid2
<1> HIDE DEF paid1, paid2
<1>12. g.cashAfter = 20 - ((paid1 + f.cost) + (paid2 + g.cost)) BY <1>10, <1>11
<1>13. f.filled + g.filled = 0 BY <1>8, <1>9, <1>10
<1> QED BY <1>7, <1>12, <1>13 DEF MoneyIsAccountedFor, OpeningCash, paid1, paid2, f, g

(* A verdict of SOFTWARE_ONLY is given of reconciled ledgers alone.                            *)
LEMMA SoftwareOnly ==
  ASSUME NEW p, NEW outcomes \in Seq(BlockOutcomes), ReportedVerdict(p, outcomes) = "SOFTWARE_ONLY"
  PROVE  \A k \in DOMAIN outcomes : MoneyIsAccountedFor(outcomes[k].ledger)
<1> SUFFICES ASSUME NEW k \in DOMAIN outcomes PROVE MoneyIsAccountedFor(outcomes[k].ledger)
  OBVIOUS
<1>1. DevelopmentVerdict(p, outcomes) # "INVALID" BY DEF ReportedVerdict
<1>2. ~BlockInvalid(p, k, outcomes[k]) BY <1>1 DEF DevelopmentVerdict
<1>3. LedgerReconciles(outcomes[k].ledger) BY <1>2 DEF BlockInvalid
<1>4. \A o \in BlockOutcomes : o.ledger \in Ledgers
  <2> SUFFICES ASSUME NEW o \in BlockOutcomes PROVE o.ledger \in Ledgers OBVIOUS
  <2>1. <<BuyLot, SellLot>> \in Ledgers BY DEF Ledgers
  <2>2. CASE o \in [ledger : Ledgers, deep : {FALSE}, gain : {"all"}] BY <2>2
  <2>3. CASE \E g \in {"some", "none"} :
               o = [ledger |-> <<BuyLot, SellLot>>, deep |-> g = "none", gain |-> g]
    <3>1. o.ledger = <<BuyLot, SellLot>> BY <2>3
    <3> QED BY <2>1, <3>1
  <2> QED BY <2>2, <2>3 DEF BlockOutcomes
<1>5. outcomes[k] \in BlockOutcomes OBVIOUS
<1>6. outcomes[k].ledger \in Ledgers BY <1>4, <1>5
<1> QED BY <1>3, <1>6, ReconciledMoney

(* The directory has at most one process behind it, that has written what its stage says; what a *)
(* process left behind is one result, whole so far, or one receipt of a process still known.      *)
HoldingStages == {"link", "blocked"} \cup ResultStages

FilesAt(stage) ==
  IF stage \in {"link", "protocol"} THEN {} ELSE IF stage = "blocked" THEN {"receipt"}
  ELSE IF stage = "result" THEN {"protocol"}
  ELSE IF stage = "summary" THEN {"protocol", "result"} ELSE {"protocol", "result", "summary"}

HoldersAgree ==
  /\ \A r, s \in ValueRuns :
       valueRun[r].stage \in HoldingStages /\ valueRun[s].stage \in HoldingStages => r = s
  /\ \A r \in ValueRuns :
       /\ valueRun[r].stage \in HoldingStages => DOMAIN valueRoot = FilesAt(valueRun[r].stage)
       /\ valueRun[r].stage \in {"link", "blocked"} => Encodable(r)
       /\ valueRun[r].stage = "blocked" => valueRoot["receipt"] = EncodedReceipt(r)
       /\ valueRun[r].stage \in ResultStages =>
            \A name \in DOMAIN valueRoot : valueRoot[name] = ResultOf(r)

ResultIsSound(doc) ==
  /\ AcceptedProtocol(doc.protocol) /\ doc.blocks \in Seq(BlockOutcomes)
  /\ Len(doc.blocks) = Len(doc.protocol.blocks)
  /\ doc.verdict = ReportedVerdict(doc.protocol, doc.blocks)
  /\ \A k \in DOMAIN doc.protocol.blocks : TrainedBlock(doc.protocol, doc.protocol.blocks[k])

RootIsSound ==
  valueRoot # NoRoot =>
    /\ DOMAIN valueRoot \in {{}, {"protocol"}, {"protocol", "result"},
                             {"protocol", "result", "summary"}, {"receipt"}}
    /\ "receipt" \in DOMAIN valueRoot => \E r \in ValueRuns : valueRun[r].stage = "blocked"
    /\ "protocol" \in DOMAIN valueRoot =>
         /\ \A name \in DOMAIN valueRoot : valueRoot[name] = valueRoot["protocol"]
         /\ ResultIsSound(valueRoot["protocol"])
         /\ valueRoot["protocol"].by \in ValueRuns
         /\ valueRun[valueRoot["protocol"].by].stage \in ResultStages \cup {"dead"}

ValueInv ==
  /\ DOMAIN valueRun = ValueRuns
  /\ \A r \in ValueRuns : RunIsSound(valueRun[r])
  /\ HoldersAgree /\ RootIsSound

(* The names of the files of a stage never include that of the missing directory. *)
LEMMA NoRootHoldsNothing ==
  /\ DOMAIN NoRoot = {"absent"}
  /\ \A stage : DOMAIN NoRoot # FilesAt(stage)
<1>1. DOMAIN NoRoot = {"absent"} BY DEF NoRoot
<1> QED BY <1>1 DEF FilesAt

(* The encoding of a receipt depends on the evidence and the phase of its process alone. *)
LEMMA ReceiptKept ==
  ASSUME NEW r, valueRun'[r].evidence = valueRun[r].evidence, valueRun'[r].phase = valueRun[r].phase
  PROVE  (EncodedReceipt(r))' = EncodedReceipt(r) /\ Encodable(r)' = Encodable(r)
<1>1. \A pairs : (ReceiptOf(r, pairs))' = ReceiptOf(r, pairs) BY DEF ReceiptOf
<1>2. (Encodings(r))' = Encodings(r) BY DEF Encodings, ReceiptOf
<1> QED BY <1>2 DEF EncodedReceipt, Encodable

(* The document of a result depends on the protocol and the outcomes of its process alone. *)
LEMMA ResultKept ==
  ASSUME NEW r, valueRun'[r].protocol = valueRun[r].protocol,
         valueRun'[r].outcomes = valueRun[r].outcomes
  PROVE  (ResultOf(r))' = ResultOf(r)
BY DEF ResultOf

(* What StudyRootIsOneAttempt says follows from the invariant. *)
LEMMA RootFromInvariant == ValueInv => StudyRootIsOneAttempt
<1> SUFFICES ASSUME ValueInv, valueRoot # NoRoot
             PROVE  StudyRootIsOneAttempt
  BY DEF StudyRootIsOneAttempt
<1>1. DOMAIN valueRoot \in {{}, {"protocol"}, {"protocol", "result"},
                            {"protocol", "result", "summary"}, {"receipt"}}
  BY DEF ValueInv, RootIsSound
<1>2. ASSUME "receipt" \in DOMAIN valueRoot
      PROVE  LET doc == valueRoot["receipt"]
                 run == valueRun[doc.by]
             IN  /\ run.stage = "blocked" /\ doc.phase = "training"
                 /\ LoadsReceipt(valueRoot, MaxEvidence, TRUE)
                 /\ doc.count = Len(run.evidence) /\ doc.count > 0
  <2>1. PICK r \in ValueRuns : valueRun[r].stage = "blocked" BY <1>2 DEF ValueInv, RootIsSound
  <2>2. /\ DOMAIN valueRoot = {"receipt"} /\ Encodable(r) /\ valueRoot["receipt"] = EncodedReceipt(r)
    BY <2>1 DEF ValueInv, HoldersAgree, HoldingStages, FilesAt
  <2> DEFINE e == valueRun[r].evidence
             doc == valueRoot["receipt"]
  <2>3. /\ valueRun[r] \in ValueRunRecord /\ valueRun[r].phase = "training"
        /\ Len(e) \in 1..MaxEvidence
    BY <2>1 DEF ValueInv, RunIsSound, ReceiptStages
  <2>4. e \in Seq(PairEvidence) BY <2>3 DEF ValueRunRecord
  <2>5. ReceiptDecodes(doc) BY <2>2 DEF Encodable, EncodedReceipt
  <2>6. \/ doc = ReceiptOf(r, [i \in DOMAIN e |-> ReceiptPair(e[i])])
        \/ doc = ReceiptOf(r, [i \in DOMAIN e |-> QuarantinedPair(e[i])])
    BY <2>2 DEF EncodedReceipt, Encodings
  <2>7. \E pairs : doc = ReceiptOf(r, pairs) /\ Len(pairs) = Len(e)
    <3>1. Len([i \in DOMAIN e |-> ReceiptPair(e[i])]) = Len(e) BY <2>4
    <3>2. Len([i \in DOMAIN e |-> QuarantinedPair(e[i])]) = Len(e) BY <2>4
    <3> QED BY <2>6, <3>1, <3>2
  <2>8. PICK pairs : doc = ReceiptOf(r, pairs) /\ Len(pairs) = Len(e) BY <2>7
  <2>9. /\ doc.by = r /\ doc.phase = "training" /\ doc.count = Len(e) /\ doc.pairs = pairs
    BY <2>3, <2>8 DEF ReceiptOf
  <2>10. MaxEvidence \in Nat BY ValueAssumption
  <2>11. Len(doc.pairs) <= MaxEvidence /\ doc.count > 0 BY <2>3, <2>8, <2>9, <2>10
  <2>12. LoadsReceipt(valueRoot, MaxEvidence, TRUE) BY <2>2, <2>5, <2>11 DEF LoadsReceipt
  <2> QED BY <2>1, <2>9, <2>11, <2>12
<1>3. ASSUME "protocol" \in DOMAIN valueRoot
      PROVE  LET doc == valueRoot["protocol"]
                 p   == doc.protocol
             IN  /\ \A name \in DOMAIN valueRoot : valueRoot[name] = doc
                 /\ valueRun[doc.by].evidence = << >> /\ Len(doc.blocks) = Len(p.blocks)
                 /\ doc.verdict \in {"INVALID", "SOFTWARE_ONLY"}
                 /\ doc.verdict = "SOFTWARE_ONLY"
                      => \A k \in DOMAIN doc.blocks : MoneyIsAccountedFor(doc.blocks[k].ledger)
                 /\ \A k \in DOMAIN p.blocks : TrainedOnThePast(p, p.blocks[k])
  <2> DEFINE doc == valueRoot["protocol"]
             p   == doc.protocol
  <2>1. /\ \A name \in DOMAIN valueRoot : valueRoot[name] = doc
        /\ ResultIsSound(doc) /\ doc.by \in ValueRuns
        /\ valueRun[doc.by].stage \in ResultStages \cup {"dead"}
    BY <1>3 DEF ValueInv, RootIsSound
  <2>2. RunIsSound(valueRun[doc.by]) BY <2>1 DEF ValueInv
  <2> HIDE DEF doc
  <2>3. valueRun[doc.by].evidence = << >>
    <3>1. CASE valueRun[doc.by].stage \in ResultStages BY <2>2, <3>1 DEF RunIsSound
    <3>2. CASE valueRun[doc.by].stage = "dead"
      <4>1. "dead" \in EndedStages /\ valueRun[doc.by] = EndedRun("dead") BY <2>2, <3>2 DEF RunIsSound, EndedStages
      <4> QED BY <4>1, EndedIsSound
    <3> QED BY <2>1, <3>1, <3>2
  <2>4. /\ doc.blocks \in Seq(BlockOutcomes) /\ Len(doc.blocks) = Len(p.blocks)
        /\ doc.verdict = ReportedVerdict(p, doc.blocks)
        /\ \A k \in DOMAIN p.blocks : TrainedBlock(p, p.blocks[k])
    BY <2>1 DEF ResultIsSound
  <2>5. doc.verdict \in {"INVALID", "SOFTWARE_ONLY"} BY <2>4 DEF ReportedVerdict
  <2>6. doc.verdict = "SOFTWARE_ONLY"
          => \A k \in DOMAIN doc.blocks : MoneyIsAccountedFor(doc.blocks[k].ledger)
    BY <2>4, SoftwareOnly
  <2>7. \A k \in DOMAIN p.blocks : TrainedOnThePast(p, p.blocks[k]) BY <2>4, TrainedIsOnThePast
  <2> QED BY <2>1, <2>3, <2>4, <2>5, <2>6, <2>7 DEF doc
<1> QED BY <1>1, <1>2, <1>3 DEF StudyRootIsOneAttempt

(* A step of a process that stands outside the directory, before and after. *)
LEMMA OutsideKeepsRoot ==
  ASSUME ValueInv, NEW r \in ValueRuns, NEW R, RunIsSound(R),
         valueRun' = [valueRun EXCEPT ![r] = R], valueRoot' = valueRoot,
         R.stage \notin HoldingStages, valueRun[r].stage \notin {"blocked"},
         valueRun[r].stage \in ResultStages \cup {"dead"} => R.stage = "dead"
  PROVE  ValueInv'
<1>1. /\ DOMAIN valueRun' = ValueRuns /\ valueRun'[r] = R
      /\ \A s \in ValueRuns \ {r} : valueRun'[s] = valueRun[s]
  BY DEF ValueInv
<1>2. \A s \in ValueRuns : RunIsSound(valueRun'[s]) BY <1>1 DEF ValueInv
<1>3. HoldersAgree'
  <2>1. \A s \in ValueRuns : valueRun'[s].stage \in HoldingStages => s # r BY <1>1
  <2>2. \A s \in ValueRuns : valueRun'[s].stage \in HoldingStages => valueRun'[s] = valueRun[s]
    BY <1>1, <2>1
  <2>3. \A s, t \in ValueRuns :
          valueRun'[s].stage \in HoldingStages /\ valueRun'[t].stage \in HoldingStages => s = t
    BY <2>2 DEF ValueInv, HoldersAgree
  <2>4. ASSUME NEW s \in ValueRuns, valueRun'[s].stage \in HoldingStages
        PROVE  /\ DOMAIN valueRoot' = FilesAt(valueRun'[s].stage)
               /\ valueRun'[s].stage \in {"link", "blocked"} => Encodable(s)'
               /\ valueRun'[s].stage = "blocked" => valueRoot'["receipt"] = (EncodedReceipt(s))'
               /\ valueRun'[s].stage \in ResultStages =>
                    \A name \in DOMAIN valueRoot' : valueRoot'[name] = (ResultOf(s))'
    <3>1. valueRun'[s] = valueRun[s] BY <2>2, <2>4
    <3>2. (EncodedReceipt(s))' = EncodedReceipt(s) /\ Encodable(s)' = Encodable(s)
      BY <3>1, ReceiptKept
    <3>3. (ResultOf(s))' = ResultOf(s) BY <3>1, ResultKept
    <3> QED BY <2>4, <3>1, <3>2, <3>3 DEF ValueInv, HoldersAgree
  <2>5. {"link", "blocked"} \subseteq HoldingStages /\ ResultStages \subseteq HoldingStages /\ "blocked" \in HoldingStages
    BY DEF HoldingStages
  <2> QED BY <2>3, <2>4, <2>5 DEF HoldersAgree
<1>4. RootIsSound'
  <2> SUFFICES ASSUME valueRoot # NoRoot PROVE RootIsSound' BY DEF RootIsSound
  <2>1. "receipt" \in DOMAIN valueRoot => \E s \in ValueRuns : valueRun'[s].stage = "blocked"
    BY <1>1 DEF ValueInv, RootIsSound
  <2>2. ASSUME "protocol" \in DOMAIN valueRoot
        PROVE  valueRun'[valueRoot["protocol"].by].stage \in ResultStages \cup {"dead"}
    BY <1>1, <2>2 DEF ValueInv, RootIsSound
  <2> QED BY <2>1, <2>2 DEF ValueInv, RootIsSound
<1> QED BY <1>1, <1>2, <1>3, <1>4 DEF ValueInv

(* Starting leaves the directory alone; only a protocol that passed every check trains. *)
LEMMA StartKeepsValueInv ==
  ASSUME ValueInv, NEW r \in ValueRuns, NEW p \in ValueProtocols, StartStudy(r, p)
  PROVE  ValueInv'
<1>1. valueRun[r].stage = "idle" /\ valueRoot' = valueRoot BY DEF StartStudy, ValueAt, FilesKept
<1>2. "idle" \notin HoldingStages \cup ResultStages \cup {"dead", "blocked"} BY DEF HoldingStages, ResultStages
<1>3. CASE ProtocolIsValid(p) /\ ValuePreflight(p) /\ valueRoot = NoRoot
  <2> DEFINE R == [valueRun[r] EXCEPT !.stage = "train", !.protocol = p, !.block = 1]
  <2>1. RunIsSound(valueRun[r]) /\ AcceptedProtocol(p) BY <1>3 DEF ValueInv, AcceptedProtocol
  <2>2. RunIsSound(R) BY <1>1, <2>1, StartIsSound
  <2>3. valueRun' = [valueRun EXCEPT ![r] = R] BY <1>3 DEF StartStudy
  <2>4. R.stage = "train" BY <2>1 DEF RunIsSound, ValueRunRecord
  <2> HIDE DEF R
  <2>5. R.stage \notin HoldingStages BY <2>4 DEF HoldingStages, ResultStages
  <2> QED BY <1>1, <1>2, <2>2, <2>3, <2>5, OutsideKeepsRoot
<1>4. CASE ~(ProtocolIsValid(p) /\ ValuePreflight(p) /\ valueRoot = NoRoot)
  <2>1. valueRun' = [valueRun EXCEPT ![r] = EndedRun("failed")] BY <1>4 DEF StartStudy
  <2>2. "failed" \in EndedStages /\ "failed" \notin HoldingStages BY DEF EndedStages, HoldingStages, ResultStages
  <2>3. RunIsSound(EndedRun("failed")) /\ EndedRun("failed").stage = "failed"
    BY <2>2, EndedIsSound
  <2> QED BY <1>1, <1>2, <2>1, <2>2, <2>3, OutsideKeepsRoot
<1> QED BY <1>3, <1>4

(* A training ends in a trained block, in the evidence of its incomplete pairs, or in nothing. *)
LEMMA TrainKeepsValueInv ==
  ASSUME ValueInv, NEW r \in ValueRuns, TrainBlock(r)
  PROVE  ValueInv'
<1> DEFINE run == valueRun[r]
           p == run.protocol
           b == RunBlock(r)
           pairs == Cardinality(LabelledBranches(p, b)) * Cardinality(Heads)
<1>1. run.stage = "train" /\ valueRoot' = valueRoot BY DEF TrainBlock, ValueAt, FilesKept
<1>2. "train" \notin HoldingStages \cup ResultStages \cup {"dead", "blocked"} BY DEF HoldingStages, ResultStages
<1>3. RunIsSound(run) BY DEF ValueInv
<1>4. /\ AcceptedProtocol(p) /\ run.block \in 1..Len(p.blocks) BY <1>1, <1>3 DEF RunIsSound, TrainingStages
<1>5. SoundBlock(p, b)
  <2>1. p.blocks \in Seq(BlockSpecs) BY <1>4, AcceptedHasBlocks
  <2>2. run.block \in DOMAIN p.blocks BY <1>4, <2>1
  <2> QED BY <1>4, <2>2, AcceptedBlocks DEF AcceptedProtocol, RunBlock
<1>6. pairs \in Int
  <2>1. b.start \in Int /\ b.stop \in Int BY <1>5 DEF SoundBlock
  <2>2. LabelledBranches(p, b) \subseteq b.start..b.stop BY DEF LabelledBranches, BranchBars
  <2>3. IsFiniteSet(LabelledBranches(p, b)) BY <2>1, <2>2, FS_Interval, FS_Subset
  <2>4. Cardinality(LabelledBranches(p, b)) \in Nat /\ Cardinality(Heads) \in Nat
    BY <2>3, ValueAssumption, FS_CardinalityType
  <2> QED BY <2>4
<1>7. PICK n \in 0..Min({MaxEvidence, pairs}) : \E e \in [1..n -> PairEvidence] :
        valueRun' = [valueRun EXCEPT ![r] =
          IF ~CollectionRuns(p, b) THEN EndedRun("failed")
          ELSE IF n > 0 THEN [run EXCEPT !.stage = "abort", !.evidence = e, !.outcomes = << >>]
          ELSE IF ~TrainingSucceeds(p, b) THEN EndedRun("failed")
          ELSE [run EXCEPT !.stage = "probe"]]
  BY DEF TrainBlock
<1>8. PICK e \in [1..n -> PairEvidence] :
        valueRun' = [valueRun EXCEPT ![r] =
          IF ~CollectionRuns(p, b) THEN EndedRun("failed")
          ELSE IF n > 0 THEN [run EXCEPT !.stage = "abort", !.evidence = e, !.outcomes = << >>]
          ELSE IF ~TrainingSucceeds(p, b) THEN EndedRun("failed")
          ELSE [run EXCEPT !.stage = "probe"]]
  BY <1>7
<1> HIDE DEF pairs, b
<1>9. n > 0 => n \in 1..MaxEvidence
  <2>1. MaxEvidence \in Int BY ValueAssumption
  <2>2. /\ Min({MaxEvidence, pairs}) \in {MaxEvidence, pairs}
        /\ Min({MaxEvidence, pairs}) <= MaxEvidence
    BY <1>6, <2>1 DEF Min
  <2> QED BY <1>6, <1>7, <2>1, <2>2
<1>10. CASE ~CollectionRuns(p, b) \/ (~(n > 0) /\ ~TrainingSucceeds(p, b))
  <2>1. valueRun' = [valueRun EXCEPT ![r] = EndedRun("failed")] BY <1>8, <1>10
  <2>2. "failed" \in EndedStages /\ "failed" \notin HoldingStages BY DEF EndedStages, HoldingStages, ResultStages
  <2>3. RunIsSound(EndedRun("failed")) /\ EndedRun("failed").stage = "failed"
    BY <2>2, EndedIsSound
  <2> QED BY <1>1, <1>2, <2>1, <2>2, <2>3, OutsideKeepsRoot
<1>11. CASE CollectionRuns(p, b) /\ n > 0
  <2> DEFINE R == [run EXCEPT !.stage = "abort", !.evidence = e, !.outcomes = << >>]
  <2>1. RunIsSound(R) BY <1>1, <1>3, <1>9, <1>11, AbortIsSound
  <2>2. valueRun' = [valueRun EXCEPT ![r] = R] BY <1>8, <1>11
  <2>3. R.stage = "abort" BY <1>3 DEF RunIsSound, ValueRunRecord
  <2> HIDE DEF R
  <2>4. R.stage \notin HoldingStages BY <2>3 DEF HoldingStages, ResultStages
  <2> QED BY <1>1, <1>2, <2>1, <2>2, <2>4, OutsideKeepsRoot
<1>12. CASE CollectionRuns(p, b) /\ ~(n > 0) /\ TrainingSucceeds(p, b)
  <2> DEFINE R == [run EXCEPT !.stage = "probe"]
  <2>1. TrainedBlock(p, p.blocks[run.block]) BY <1>5, <1>12 DEF TrainedBlock, b, RunBlock
  <2>2. RunIsSound(R) BY <1>1, <1>3, <2>1, StageIsSound
  <2>3. valueRun' = [valueRun EXCEPT ![r] = R] BY <1>8, <1>12
  <2>4. R.stage = "probe" BY <1>3 DEF RunIsSound, ValueRunRecord
  <2> HIDE DEF R
  <2>5. R.stage \notin HoldingStages BY <2>4 DEF HoldingStages, ResultStages
  <2> QED BY <1>1, <1>2, <2>2, <2>3, <2>5, OutsideKeepsRoot
<1> QED BY <1>10, <1>11, <1>12

(* The probe never finds a pair to report: no row of a trained block lies after its cutoff. *)
LEMMA ProbeKeepsValueInv ==
  ASSUME ValueInv, NEW r \in ValueRuns, ProbeBlock(r)
  PROVE  ValueInv'
<1> DEFINE run == valueRun[r]
           p == run.protocol
           b == RunBlock(r)
           reads == UNION {PairBars(p, b, t) : t \in LabelledBranches(p, b)}
           touched == reads \cap PerturbedAfter(p, b.cutoff) # {}
<1>1. run.stage = "probe" /\ valueRoot' = valueRoot BY DEF ProbeBlock, ValueAt, FilesKept
<1>2. "probe" \notin HoldingStages \cup ResultStages \cup {"dead", "blocked"} BY DEF HoldingStages, ResultStages
<1>3. RunIsSound(run) BY DEF ValueInv
<1>4. TrainedBlock(p, b) BY <1>1, <1>3 DEF RunIsSound, RunBlock
<1>5. ~touched BY <1>4, TrainedIsOnThePast
<1>6. PICK n \in 0..(IF touched THEN 1 ELSE 0) : \E e \in [1..n -> PairEvidence] :
        valueRun' = [valueRun EXCEPT ![r] =
          IF n > 0 THEN [run EXCEPT !.stage = "abort", !.phase = "causality_probe",
                                    !.evidence = e, !.outcomes = << >>]
          ELSE [run EXCEPT !.stage = "evaluate"]]
  BY DEF ProbeBlock
<1> HIDE DEF touched
<1>7. ~(n > 0) BY <1>5, <1>6
<1> DEFINE R == [run EXCEPT !.stage = "evaluate"]
<1>8. valueRun' = [valueRun EXCEPT ![r] = R] BY <1>6, <1>7
<1>9. RunIsSound(R) BY <1>1, <1>3, StageIsSound
<1>10. R.stage = "evaluate" BY <1>3 DEF RunIsSound, ValueRunRecord
<1> HIDE DEF R
<1>11. R.stage \notin HoldingStages BY <1>10 DEF HoldingStages, ResultStages
<1> QED BY <1>1, <1>2, <1>8, <1>9, <1>11, OutsideKeepsRoot

(* An evaluated block adds its outcome to those of the trained blocks before it. *)
LEMMA EvaluateKeepsValueInv ==
  ASSUME ValueInv, NEW r \in ValueRuns, EvaluateBlock(r)
  PROVE  ValueInv'
<1> DEFINE run == valueRun[r]
           more == run.block < Len(run.protocol.blocks)
<1>1. run.stage = "evaluate" /\ valueRoot' = valueRoot BY DEF EvaluateBlock, ValueAt, FilesKept
<1>2. "evaluate" \notin HoldingStages \cup ResultStages \cup {"dead", "blocked"} BY DEF HoldingStages, ResultStages
<1>3. RunIsSound(run) BY DEF ValueInv
<1>4. PICK o \in BlockOutcomes :
        valueRun' = [valueRun EXCEPT ![r] =
          [run EXCEPT !.outcomes = Append(run.outcomes, o),
                      !.block = IF more THEN run.block + 1 ELSE run.block,
                      !.stage = IF more THEN "train" ELSE "persist"]]
  BY DEF EvaluateBlock
<1> DEFINE R == [run EXCEPT !.outcomes = Append(run.outcomes, o),
                            !.block = IF more THEN run.block + 1 ELSE run.block,
                            !.stage = IF more THEN "train" ELSE "persist"]
<1>5. RunIsSound(R) BY <1>1, <1>3, EvaluationIsSound
<1>6. R.stage = (IF more THEN "train" ELSE "persist") BY <1>3 DEF RunIsSound, ValueRunRecord
<1>7. valueRun' = [valueRun EXCEPT ![r] = R] BY <1>4
<1> HIDE DEF R, more
<1>8. R.stage \notin HoldingStages BY <1>6 DEF HoldingStages, ResultStages
<1> QED BY <1>1, <1>2, <1>5, <1>7, <1>8, OutsideKeepsRoot

(* A killed process leaves the directory as it was. *)
LEMMA KillKeepsValueInv ==
  ASSUME ValueInv, NEW r \in ValueRuns, KillValueRun(r)
  PROVE  ValueInv'
<1>1. /\ valueRun[r].stage # "blocked" /\ valueRoot' = valueRoot
      /\ valueRun' = [valueRun EXCEPT ![r] = EndedRun("dead")]
  BY DEF KillValueRun
<1>2. "dead" \in EndedStages /\ "dead" \notin HoldingStages BY DEF EndedStages, HoldingStages, ResultStages
<1>3. RunIsSound(EndedRun("dead")) /\ EndedRun("dead").stage = "dead" BY <1>2, EndedIsSound
<1> QED BY <1>1, <1>2, <1>3, OutsideKeepsRoot

(* A step of the process behind the directory, or of one that finds none. *)
LEMMA HolderKeepsRoot ==
  ASSUME ValueInv, NEW r \in ValueRuns, NEW R, RunIsSound(R),
         valueRun' = [valueRun EXCEPT ![r] = R], R.stage \in HoldingStages,
         \A s \in ValueRuns \ {r} : valueRun[s].stage \notin HoldingStages,
         DOMAIN valueRoot' = FilesAt(R.stage),
         R.stage \in {"link", "blocked"} => Encodable(r)',
         R.stage = "blocked" => valueRoot'["receipt"] = (EncodedReceipt(r))',
         R.stage \in ResultStages => \A name \in DOMAIN valueRoot' : valueRoot'[name] = (ResultOf(r))'
  PROVE  ValueInv'
<1>1. /\ DOMAIN valueRun' = ValueRuns /\ valueRun'[r] = R
      /\ \A s \in ValueRuns \ {r} : valueRun'[s] = valueRun[s]
  BY DEF ValueInv
<1>2. \A s \in ValueRuns : RunIsSound(valueRun'[s]) BY <1>1 DEF ValueInv
<1>3. \A s \in ValueRuns : valueRun'[s].stage \in HoldingStages => s = r BY <1>1
<1>4. {"link", "blocked"} \subseteq HoldingStages /\ ResultStages \subseteq HoldingStages /\ "blocked" \in HoldingStages
  BY DEF HoldingStages
<1>5. HoldersAgree' BY <1>1, <1>3, <1>4 DEF HoldersAgree
<1>6. RootIsSound'
  <2>1. DOMAIN valueRoot' \in {{}, {"protocol"}, {"protocol", "result"},
                               {"protocol", "result", "summary"}, {"receipt"}}
    BY DEF FilesAt
  <2>2. ASSUME "receipt" \in DOMAIN valueRoot' PROVE valueRun'[r].stage = "blocked"
    BY <1>1, <2>2 DEF FilesAt, HoldingStages, ResultStages
  <2>3. ASSUME "protocol" \in DOMAIN valueRoot'
        PROVE  /\ \A name \in DOMAIN valueRoot' : valueRoot'[name] = valueRoot'["protocol"]
               /\ ResultIsSound(valueRoot'["protocol"])
               /\ valueRoot'["protocol"].by \in ValueRuns
               /\ valueRun'[valueRoot'["protocol"].by].stage \in ResultStages \cup {"dead"}
    <3>1. R.stage \in ResultStages BY <2>3 DEF FilesAt, HoldingStages
    <3>2. /\ \A name \in DOMAIN valueRoot' : valueRoot'[name] = valueRoot'["protocol"]
          /\ valueRoot'["protocol"] = (ResultOf(r))'
      BY <2>3, <3>1
    <3>3. (ResultOf(r))' = [kind |-> "result", by |-> r, protocol |-> R.protocol,
                            blocks |-> R.outcomes, verdict |-> ReportedVerdict(R.protocol, R.outcomes)]
      BY <1>1 DEF ResultOf
    <3>4. /\ AcceptedProtocol(R.protocol) /\ R \in ValueRunRecord
          /\ Len(R.outcomes) = Len(R.protocol.blocks)
          /\ \A k \in 1..Len(R.outcomes) : TrainedBlock(R.protocol, R.protocol.blocks[k])
      <4>1. R.stage \notin TrainingStages BY <3>1 DEF ResultStages, TrainingStages
      <4> QED BY <3>1, <4>1 DEF RunIsSound
    <3>5. R.outcomes \in Seq(BlockOutcomes) BY <3>4 DEF ValueRunRecord
    <3>6. DOMAIN R.protocol.blocks = 1..Len(R.outcomes) BY <3>4, AcceptedHasBlocks
    <3>7. ResultIsSound(valueRoot'["protocol"])
      BY <3>2, <3>3, <3>4, <3>5, <3>6 DEF ResultIsSound
    <3> QED BY <1>1, <3>1, <3>2, <3>3, <3>7
  <2> QED BY <2>1, <2>2, <2>3 DEF RootIsSound
<1> QED BY <1>1, <1>2, <1>5, <1>6 DEF ValueInv

(* The claim makes its process the only one behind an empty directory, or ends it. *)
LEMMA ClaimKeepsValueInv ==
  ASSUME ValueInv, NEW r \in ValueRuns, ClaimRoot(r)
  PROVE  ValueInv'
<1> DEFINE run == valueRun[r]
           receipt == ValueAt(r, "abort")
           stage == IF receipt THEN "link" ELSE "protocol"
           R == [run EXCEPT !.stage = stage]
<1>1. run.stage = "persist" \/ run.stage = "abort" BY DEF ClaimRoot, ValueAt
<1>2. run.stage \notin HoldingStages \cup ResultStages \cup {"dead", "blocked"} BY <1>1 DEF HoldingStages, ResultStages
<1>3. RunIsSound(run) BY DEF ValueInv
<1>4. CASE valueRoot = NoRoot /\ (receipt => Encodable(r))
  <2>1. DOMAIN valueRoot' = {} BY <1>4 DEF ClaimRoot
  <2>2. valueRun' = [valueRun EXCEPT ![r] = R] BY <1>4 DEF ClaimRoot
  <2>3. \/ run.stage = "abort" /\ stage = "link" /\ receipt
        \/ run.stage = "persist" /\ stage = "protocol" /\ ~receipt
    BY <1>1 DEF ValueAt
  <2>4. /\ R.stage = stage /\ R.evidence = run.evidence /\ R.phase = run.phase
    BY <1>3 DEF RunIsSound, ValueRunRecord
  <2> HIDE DEF stage
  <2>5. RunIsSound(R) BY <1>3, <2>3, StageIsSound
  <2> HIDE DEF R
  <2>6. R.stage \in {"link", "protocol"} BY <2>3, <2>4
  <2>7. R.stage \in HoldingStages /\ FilesAt(R.stage) = {} /\ R.stage # "blocked"
    BY <2>6 DEF HoldingStages, ResultStages, FilesAt
  <2>8. valueRun'[r] = R BY <2>2 DEF ValueInv
  <2>9. R.stage = "link" => Encodable(r)'
    <3>1. Encodable(r)' = Encodable(r) BY <2>4, <2>8, ReceiptKept
    <3> QED BY <1>4, <2>3, <2>4, <3>1
  <2>10. \A s \in ValueRuns : valueRun[s].stage \notin HoldingStages
    BY <1>4, NoRootHoldsNothing DEF ValueInv, HoldersAgree
  <2> QED BY <2>1, <2>2, <2>5, <2>7, <2>9, <2>10, HolderKeepsRoot
<1>5. CASE ~(valueRoot = NoRoot /\ (receipt => Encodable(r)))
  <2>1. valueRun' = [valueRun EXCEPT ![r] = EndedRun("failed")] /\ valueRoot' = valueRoot
    BY <1>5 DEF ClaimRoot
  <2>2. "failed" \in EndedStages /\ "failed" \notin HoldingStages BY DEF EndedStages, HoldingStages, ResultStages
  <2>3. RunIsSound(EndedRun("failed")) /\ EndedRun("failed").stage = "failed"
    BY <2>2, EndedIsSound
  <2> QED BY <1>2, <2>1, <2>2, <2>3, OutsideKeepsRoot
<1> QED BY <1>4, <1>5

(* Each file of a result adds the same document to those of its process. *)
LEMMA WriteKeepsValueInv ==
  ASSUME ValueInv, NEW r \in ValueRuns, WriteValueFile(r)
  PROVE  ValueInv'
<1> DEFINE run == valueRun[r]
           stage == CASE run.stage = "protocol" -> "result" [] run.stage = "result" -> "summary"
                      [] run.stage = "summary" -> "published"
           R == [run EXCEPT !.stage = stage]
<1>1. run.stage \in {"protocol", "result", "summary"} BY DEF WriteValueFile
<1>2. RunIsSound(run) BY DEF ValueInv
<1>3. valueRun' = [valueRun EXCEPT ![r] = R] BY DEF WriteValueFile
<1>4. \/ run.stage = "protocol" /\ stage = "result"
      \/ run.stage = "result" /\ stage = "summary"
      \/ run.stage = "summary" /\ stage = "published"
  BY <1>1
<1> HIDE DEF stage
<1>5. R.stage = stage /\ R.protocol = run.protocol /\ R.outcomes = run.outcomes
  BY <1>2 DEF RunIsSound, ValueRunRecord
<1>6. RunIsSound(R) BY <1>2, <1>4, StageIsSound
<1> HIDE DEF R
<1>7. valueRun'[r] = R BY <1>3 DEF ValueInv
<1>8. (ResultOf(r))' = ResultOf(r) BY <1>5, <1>7, ResultKept
<1>9. run.stage \in HoldingStages /\ run.stage \in ResultStages BY <1>1 DEF HoldingStages, ResultStages
<1>10. /\ DOMAIN valueRoot = FilesAt(run.stage)
       /\ \A name \in DOMAIN valueRoot : valueRoot[name] = ResultOf(r)
       /\ \A s \in ValueRuns \ {r} : valueRun[s].stage \notin HoldingStages
  BY <1>9 DEF ValueInv, HoldersAgree
<1>11. valueRoot' = [n \in DOMAIN valueRoot \cup {run.stage} |->
                       IF n = run.stage THEN ResultOf(r) ELSE valueRoot[n]]
  BY DEF WriteValueFile, AddFile
<1>12. \A name \in DOMAIN valueRoot' : valueRoot'[name] = ResultOf(r) BY <1>10, <1>11
<1>13. DOMAIN valueRoot' = FilesAt(run.stage) \cup {run.stage} BY <1>10, <1>11
<1>14. DOMAIN valueRoot' = FilesAt(R.stage) BY <1>4, <1>5, <1>13 DEF FilesAt
<1>15. R.stage \in HoldingStages /\ R.stage \notin {"link", "blocked"} BY <1>4, <1>5 DEF HoldingStages, ResultStages
<1> QED BY <1>3, <1>6, <1>8, <1>10, <1>12, <1>14, <1>15, HolderKeepsRoot

(* The link puts an encoded receipt, alone, into the claimed directory. *)
LEMMA LinkKeepsValueInv ==
  ASSUME ValueInv, NEW r \in ValueRuns, LinkReceipt(r)
  PROVE  ValueInv'
<1> DEFINE run == valueRun[r]
           R == [run EXCEPT !.stage = "blocked"]
<1>1. run.stage = "link" BY DEF LinkReceipt, ValueAt
<1>2. RunIsSound(run) BY DEF ValueInv
<1>3. valueRun' = [valueRun EXCEPT ![r] = R] BY DEF LinkReceipt
<1>4. R.stage = "blocked" /\ R.evidence = run.evidence /\ R.phase = run.phase
  BY <1>2 DEF RunIsSound, ValueRunRecord
<1>5. RunIsSound(R) BY <1>1, <1>2, StageIsSound
<1> HIDE DEF R
<1>6. valueRun'[r] = R BY <1>3 DEF ValueInv
<1>7. (EncodedReceipt(r))' = EncodedReceipt(r) /\ Encodable(r)' = Encodable(r)
  BY <1>4, <1>6, ReceiptKept
<1>8. run.stage \in HoldingStages BY <1>1 DEF HoldingStages
<1>9. /\ DOMAIN valueRoot = {} /\ Encodable(r)
      /\ \A s \in ValueRuns \ {r} : valueRun[s].stage \notin HoldingStages
  BY <1>1, <1>8 DEF ValueInv, HoldersAgree, FilesAt
<1>10. valueRoot' = [n \in DOMAIN valueRoot \cup {"receipt"} |->
                       IF n = "receipt" THEN EncodedReceipt(r) ELSE valueRoot[n]]
  BY DEF LinkReceipt, AddFile
<1>11. DOMAIN valueRoot' = {"receipt"} /\ valueRoot'["receipt"] = EncodedReceipt(r) BY <1>9, <1>10
<1>12. R.stage \in HoldingStages /\ R.stage \notin ResultStages /\ FilesAt(R.stage) = {"receipt"}
  BY <1>4 DEF HoldingStages, ResultStages, FilesAt
<1> QED BY <1>3, <1>5, <1>7, <1>9, <1>11, <1>12, HolderKeepsRoot

(* A failed link leaves no process behind the directory, that is given back or empty. *)
LEMMA LinkFailureKeepsValueInv ==
  ASSUME ValueInv, NEW r \in ValueRuns, LinkFails(r)
  PROVE  ValueInv'
<1>1. /\ valueRun[r].stage = "link"
      /\ valueRun' = [valueRun EXCEPT ![r] = EndedRun("failed")]
      /\ valueRoot' = IF valueRoot = << >> THEN NoRoot ELSE valueRoot
  BY DEF LinkFails, ValueAt
<1>2. "failed" \in EndedStages /\ "failed" \notin HoldingStages BY DEF EndedStages, HoldingStages, ResultStages
<1>3. RunIsSound(EndedRun("failed")) /\ EndedRun("failed").stage = "failed"
  BY <1>2, EndedIsSound
<1>4. valueRun[r].stage \in HoldingStages BY <1>1 DEF HoldingStages
<1>5. /\ DOMAIN valueRoot = {}
      /\ \A s \in ValueRuns \ {r} : valueRun[s].stage \notin HoldingStages
  BY <1>1, <1>4 DEF ValueInv, HoldersAgree, FilesAt
<1>6. /\ DOMAIN valueRun' = ValueRuns /\ valueRun'[r] = EndedRun("failed")
      /\ \A s \in ValueRuns \ {r} : valueRun'[s] = valueRun[s]
  BY <1>1 DEF ValueInv
<1>7. \A s \in ValueRuns : RunIsSound(valueRun'[s]) BY <1>3, <1>6 DEF ValueInv
<1>8. \A s \in ValueRuns : valueRun'[s].stage \notin HoldingStages BY <1>2, <1>3, <1>5, <1>6
<1>9. {"link", "blocked"} \subseteq HoldingStages /\ ResultStages \subseteq HoldingStages /\ "blocked" \in HoldingStages
  BY DEF HoldingStages
<1>10. HoldersAgree' BY <1>8, <1>9 DEF HoldersAgree
<1>11. valueRoot' = NoRoot \/ DOMAIN valueRoot' = {} BY <1>1, <1>5
<1>12. RootIsSound' BY <1>11 DEF RootIsSound
<1> QED BY <1>6, <1>7, <1>10, <1>12 DEF ValueInv

(* The study's directory is one attempt, honestly reported, whatever the protocols, the Datasets  *)
(* and the number of processes, deaths and failed links (decision_value_dev_study.py                *)
(* run_decision_value_dev_study, _persist_incomplete_pair_attempt).                                *)
THEOREM StudyDirectoryIsOneAttempt == ValueSpec => []StudyRootIsOneAttempt
<1>1. ValueInit => ValueInv
  <2> SUFFICES ASSUME ValueInit PROVE ValueInv OBVIOUS
  <2>1. "idle" \in EndedStages /\ "idle" \notin HoldingStages BY DEF EndedStages, HoldingStages, ResultStages
  <2>2. EndedRun("idle") = IdleValueRun
    BY DEF EndedRun, IdleValueRun
  <2>3. RunIsSound(IdleValueRun) /\ IdleValueRun.stage = "idle" BY <2>1, <2>2, EndedIsSound
  <2>4. valueRoot = NoRoot /\ valueRun = [r \in ValueRuns |-> IdleValueRun] BY DEF ValueInit
  <2>5. {"link", "blocked"} \subseteq HoldingStages /\ ResultStages \subseteq HoldingStages /\ "blocked" \in HoldingStages
    BY DEF HoldingStages
  <2>6. \A r \in ValueRuns : valueRun[r].stage \notin HoldingStages BY <2>1, <2>3, <2>4
  <2>7. HoldersAgree BY <2>5, <2>6 DEF HoldersAgree
  <2> QED BY <2>3, <2>4, <2>7 DEF ValueInv, RootIsSound
<1>2. ValueInv /\ [ValueNext]_valueVars => ValueInv'
  <2> SUFFICES ASSUME ValueInv, [ValueNext]_valueVars PROVE ValueInv' OBVIOUS
  <2>1. CASE UNCHANGED valueVars
    <3>1. valueRun' = valueRun /\ valueRoot' = valueRoot BY <2>1 DEF valueVars
    <3>2. \A r : (EncodedReceipt(r))' = EncodedReceipt(r) /\ Encodable(r)' = Encodable(r)
      BY <3>1, ReceiptKept
    <3>3. \A r : (ResultOf(r))' = ResultOf(r) BY <3>1, ResultKept
    <3>4. HoldersAgree' BY <3>1, <3>2, <3>3 DEF ValueInv, HoldersAgree
    <3>5. RootIsSound' BY <3>1 DEF ValueInv, RootIsSound
    <3> QED BY <3>1, <3>4, <3>5 DEF ValueInv
  <2>2. ASSUME NEW r \in ValueRuns, NEW p \in ValueProtocols, StartStudy(r, p) PROVE ValueInv'
    BY <2>2, StartKeepsValueInv
  <2>3. ASSUME NEW r \in ValueRuns, TrainBlock(r) PROVE ValueInv' BY <2>3, TrainKeepsValueInv
  <2>4. ASSUME NEW r \in ValueRuns, ProbeBlock(r) PROVE ValueInv' BY <2>4, ProbeKeepsValueInv
  <2>5. ASSUME NEW r \in ValueRuns, EvaluateBlock(r) PROVE ValueInv'
    BY <2>5, EvaluateKeepsValueInv
  <2>6. ASSUME NEW r \in ValueRuns, ClaimRoot(r) PROVE ValueInv' BY <2>6, ClaimKeepsValueInv
  <2>7. ASSUME NEW r \in ValueRuns, WriteValueFile(r) PROVE ValueInv' BY <2>7, WriteKeepsValueInv
  <2>8. ASSUME NEW r \in ValueRuns, LinkReceipt(r) PROVE ValueInv' BY <2>8, LinkKeepsValueInv
  <2>9. ASSUME NEW r \in ValueRuns, LinkFails(r) PROVE ValueInv' BY <2>9, LinkFailureKeepsValueInv
  <2>10. ASSUME NEW r \in ValueRuns, KillValueRun(r) PROVE ValueInv' BY <2>10, KillKeepsValueInv
  <2> QED
    BY <2>1, <2>2, <2>3, <2>4, <2>5, <2>6, <2>7, <2>8, <2>9, <2>10 DEF ValueNext
<1>3. ValueInv => StudyRootIsOneAttempt BY RootFromInvariant
<1> QED BY <1>1, <1>2, <1>3, PTL DEF ValueSpec

-----------------------------------------------------------------------------
(* The store of a Study implements the Study's ledger for any number of      *)
(* processes, faults and kills.  The lock makes the guard that was checked   *)
(* under it still hold at the rename: at most one process is past the lock,  *)
(* and nothing but its own publication changes an artifact.                  *)

(* What Permitted needs of a request between the checks and the rename.     *)
RequestOK(r) ==
  \/ r.op = "create" /\ r.arg \in Protocols
  \/ r.op = "baseline"
  \/ r.op = "define" /\ r.seq \in Sequences /\ r.arg \in Ledger!Refs
  \/ r.op = "run" /\ r.seq \in Sequences
  \/ r.op \in {"verify", "compare", "fail"} /\ r.seq \in Sequences
  \/ r.op = "decide" /\ r.seq \in Sequences /\ r.arg \in Ledger!Decisions
  \/ r.op = "freeze" /\ r.arg \in Sequences \union {Ledger!None}

(* One process past the lock, and what it checked there still holds.        *)
StoreInv ==
  /\ pc \in [Procs -> Labels]
  /\ DOMAIN request = Procs
  /\ \A p \in Procs : pc[p] # "idle" => lock = {p}
  /\ \A p \in Procs : pc[p] # "idle" => RequestOK(request[p])
  /\ \A p \in Procs : pc[p] \in {"begun", "staged"} => Permitted(request[p])
  /\ \A p \in Procs : pc[p] = "staged" /\ request[p].op = "run"
                        => request[p].arg \in Evidence

(* Every call a process may make is a well-formed request.                  *)
LEMMA CallsOK == \A r \in Calls : RequestOK(r)
<1> SUFFICES ASSUME NEW r \in Calls PROVE RequestOK(r)
  OBVIOUS
<1>1. \/ \E kind \in Protocols : r = Call("create", Root, kind)
      \/ r = Call("baseline", Root, "none")
      \/ \E op \in {"run", "verify", "compare", "fail"}, i \in Sequences :
           r = Call(op, i, "none")
      \/ \E i \in Sequences, b \in Ledger!Refs : r = Call("define", i, b)
      \/ \E i \in Sequences, k \in Ledger!Decisions : r = Call("decide", i, k)
      \/ \E s \in Sequences \union {Ledger!None} : r = Call("freeze", Root, s)
  BY DEF Calls
<1>3. CASE \E kind \in Protocols : r = Call("create", Root, kind)
  BY <1>3 DEF RequestOK, Call
<1>4. CASE r = Call("baseline", Root, "none")
  BY <1>4 DEF RequestOK, Call
<1>5. CASE \E op \in {"run", "verify", "compare", "fail"}, i \in Sequences :
             r = Call(op, i, "none")
  BY <1>5 DEF RequestOK, Call
<1>6. CASE \E i \in Sequences, b \in Ledger!Refs : r = Call("define", i, b)
  BY <1>6 DEF RequestOK, Call
<1>7. CASE \E i \in Sequences, k \in Ledger!Decisions : r = Call("decide", i, k)
  BY <1>7 DEF RequestOK, Call
<1>8. CASE \E s \in Sequences \union {Ledger!None} : r = Call("freeze", Root, s)
  BY <1>8 DEF RequestOK, Call
<1> QED
  BY <1>1, <1>3, <1>4, <1>5, <1>6, <1>7, <1>8

(* The checks of an operation read the artifacts and nothing else.          *)
LEMMA PermittedStable ==
  UNCHANGED artifacts => \A r : Permitted(r)' <=> Permitted(r)
<1> SUFFICES ASSUME UNCHANGED artifacts, NEW r PROVE Permitted(r)' <=> Permitted(r)
  OBVIOUS
<1> QED
  BY DEF artifacts, Permitted, Ledger!MayCreate, Ledger!MayRunBaseline,
     Ledger!MayDefine, Ledger!MayRun, Ledger!MayVerify, Ledger!MayCompare,
     Ledger!MayDecide, Ledger!MayFail, Ledger!MayFreeze, Ledger!Mutable,
     Ledger!Defined, Ledger!Holding, Ledger!Lineage, Ledger!LineageBefore,
     Ledger!Accepted, Ledger!ExpectedDecision, Ledger!Terminal,
     Ledger!HoldingComplete, Ledger!HoldingDecisions, Ledger!HoldingOutcome,
     Ledger!Winner, Ledger!EligibleArms

-----------------------------------------------------------------------------
(* While a process is past the lock, the others wait.                       *)
LEMMA OthersIdle ==
  ASSUME StoreInv, NEW p \in Procs, NEW q \in Procs, pc[p] # "idle", q # p
  PROVE  pc[q] = "idle"
BY DEF StoreInv

(* Nobody is past the lock in the beginning.                                *)
LEMMA InitStore == Init => StoreInv
BY DEF Init, StoreInv, Labels

(* A call that ends, in whatever way, leaves every process idle.            *)
LEMMA LeaveStep ==
  ASSUME StoreInv, NEW p \in Procs, pc[p] # "idle", Leave(p)
  PROVE  StoreInv'
<1>1. \A q \in Procs : pc'[q] = "idle"
  BY OthersIdle DEF Leave, Goto, StoreInv
<1>2. pc' \in [Procs -> Labels] /\ DOMAIN request' = Procs
  BY DEF Leave, Goto, StoreInv, Labels
<1> QED
  BY <1>1, <1>2 DEF StoreInv

(* Every step keeps the guard that was checked under the lock true until    *)
(* the rename that relies on it.                                            *)
LEMMA StoreStep == StoreInv /\ Next => StoreInv'
<1> SUFFICES ASSUME StoreInv, NEW p \in Procs, Step(p) PROVE StoreInv'
  BY DEF Next
<1>1. ASSUME NEW r \in Calls, Lock(p, r)
      PROVE  StoreInv'
  <2>1. \A q \in Procs : pc[q] = "idle"
    BY <1>1 DEF Lock, StoreInv
  <2>2. /\ lock' = {p} /\ pc' = [pc EXCEPT ![p] = "locked"]
        /\ request' = [request EXCEPT ![p] = r]
    BY <1>1 DEF Lock, Goto
  <2>3. \A q \in Procs : pc'[q] = IF q = p THEN "locked" ELSE "idle"
    BY <2>1, <2>2 DEF StoreInv
  <2>4. pc' \in [Procs -> Labels] /\ DOMAIN request' = Procs /\ request'[p] = r
    BY <2>2 DEF StoreInv, Labels
  <2> QED
    BY <2>2, <2>3, <2>4, CallsOK DEF StoreInv
<1>2. CASE Refuse(p)
  BY <1>2, LeaveStep DEF Refuse, At
<1>3. CASE Begin(p)
  <2>1. /\ pc[p] = "locked" /\ Permitted(request[p])
        /\ pc' = [pc EXCEPT ![p] = "begun"] /\ UNCHANGED <<artifacts, lock, request>>
    BY <1>3 DEF Begin, At, Goto, Admitted
  <2>2. \A q \in Procs : pc'[q] = IF q = p THEN "begun" ELSE "idle"
    BY <2>1, OthersIdle DEF StoreInv
  <2>3. pc' \in [Procs -> Labels]
    BY <2>1 DEF StoreInv, Labels
  <2>4. Permitted(request[p])'
    BY <2>1, PermittedStable
  <2> QED
    BY <2>1, <2>2, <2>3, <2>4 DEF StoreInv
<1>4. ASSUME NEW ev \in Evidence, Stage(p, ev)
      PROVE  StoreInv'
  <2>1. /\ pc[p] = "begun" /\ Permitted(request[p]) /\ RequestOK(request[p])
        /\ pc' = [pc EXCEPT ![p] = "staged"] /\ UNCHANGED <<artifacts, lock>>
        /\ request' = IF request[p].op = "run"
                      THEN [request EXCEPT ![p] = Call("run", request[p].seq, ev)]
                      ELSE request
    BY <1>4 DEF Stage, At, Goto, StoreInv
  <2>2. \A q \in Procs : pc'[q] = IF q = p THEN "staged" ELSE "idle"
    BY <2>1, OthersIdle DEF StoreInv
  <2>3. pc' \in [Procs -> Labels] /\ DOMAIN request' = Procs
    BY <2>1 DEF StoreInv, Labels
  <2>4. /\ request'[p].op = request[p].op /\ request'[p].seq = request[p].seq
        /\ request[p].op # "run" => request'[p] = request[p]
        /\ request[p].op = "run" => request'[p].arg = ev
    BY <2>1 DEF StoreInv, Call
  <2>5. RequestOK(request'[p])
    BY <2>1, <2>4 DEF RequestOK
  <2>6. ASSUME request[p].op = "run" PROVE Permitted(request[p])'
    <3>1. Ledger!MayRun(request[p].seq)
      BY <2>1, <2>6 DEF Permitted
    <3>2. Ledger!MayRun(request[p].seq)'
      BY <2>1, <2>4, <3>1 DEF artifacts, Ledger!MayRun, Ledger!Mutable, Ledger!Defined,
         Ledger!Holding
    <3> QED
      BY <2>4, <2>6, <3>2 DEF Permitted
  <2>7. ASSUME request[p].op # "run" PROVE Permitted(request[p])'
    <3>1. UNCHANGED request
      BY <2>1, <2>7
    <3> QED
      BY <2>1, <3>1, PermittedStable
  <2>9. Permitted(request[p])'
    BY <2>6, <2>7
  <2>8. RequestOK(request[p])'
    BY <2>5 DEF RequestOK
  <2> QED
    BY <2>1, <2>2, <2>3, <2>4, <2>8, <2>9 DEF StoreInv
<1>5. CASE StageFails(p)
  BY <1>5, LeaveStep DEF StageFails, At
<1>6. CASE BuildFails(p)
  BY <1>6, LeaveStep DEF BuildFails, At
<1>7. CASE Publish(p)
  <2>1. /\ pc[p] = "staged" /\ pc' = [pc EXCEPT ![p] = "published"]
        /\ UNCHANGED <<lock, request>>
    BY <1>7 DEF Publish, At, Goto
  <2>2. \A q \in Procs : pc'[q] = IF q = p THEN "published" ELSE "idle"
    BY <2>1, OthersIdle DEF StoreInv
  <2>3. pc' \in [Procs -> Labels]
    BY <2>1 DEF StoreInv, Labels
  <2> QED
    BY <2>1, <2>2, <2>3 DEF StoreInv
<1>8. CASE Return(p)
  BY <1>8, LeaveStep DEF Return, At
<1>9. CASE Kill(p)
  BY <1>9, LeaveStep DEF Kill, At
<1> QED
  BY <1>1, <1>2, <1>3, <1>4, <1>5, <1>6, <1>7, <1>8, <1>9 DEF Step

(* So does a step that changes nothing.                                     *)
LEMMA StoreKept == StoreInv /\ [Next]_vars => StoreInv'
<1>1. StoreInv /\ UNCHANGED vars => StoreInv'
  <2> SUFFICES ASSUME StoreInv, UNCHANGED vars PROVE StoreInv'
    OBVIOUS
  <2>1. UNCHANGED <<artifacts, pc, request, lock>>
    BY DEF vars
  <2> QED
    BY <2>1, PermittedStable DEF StoreInv, RequestOK
<1> QED
  BY <1>1, StoreStep

-----------------------------------------------------------------------------
(* The rename of a staged artifact is the permitted step of the ledger.     *)
LEMMA PublishIsStep ==
  ASSUME StoreInv, NEW p \in Procs, Publish(p)
  PROVE  Ledger!Next
<1> DEFINE r == request[p]
<1>1. RequestOK(r) /\ Permitted(r) /\ Rename(r) /\ (r.op = "run" => r.arg \in Evidence)
  BY DEF Publish, At, StoreInv
<1> HIDE DEF r
<1>2. CASE r.op = "create"
  BY <1>1, <1>2 DEF RequestOK, Permitted, Rename, Ledger!Next, Ledger!CreateStudy
<1>3. CASE r.op = "baseline"
  BY <1>1, <1>3 DEF RequestOK, Permitted, Rename, Ledger!Next, Ledger!RunBaseline
<1>4. CASE r.op = "define"
  BY <1>1, <1>4 DEF RequestOK, Permitted, Rename, Ledger!Next, Ledger!DefineExperiment,
                    Sequences
<1>5. CASE r.op = "run"
  BY <1>1, <1>5 DEF RequestOK, Permitted, Rename, Ledger!Next, Ledger!RunExperiment,
                    Sequences
<1>6. CASE r.op = "verify"
  BY <1>1, <1>6 DEF RequestOK, Permitted, Rename, Ledger!Next, Ledger!VerifyExperiment,
                    Sequences
<1>7. CASE r.op = "compare"
  BY <1>1, <1>7 DEF RequestOK, Permitted, Rename, Ledger!Next, Ledger!CompareExperiment,
                    Sequences
<1>8. CASE r.op = "decide"
  BY <1>1, <1>8 DEF RequestOK, Permitted, Rename, Ledger!Next, Ledger!DecideExperiment,
                    Sequences
<1>9. CASE r.op = "fail"
  BY <1>1, <1>9 DEF RequestOK, Permitted, Rename, Ledger!Next,
     Ledger!RecordExperimentFailure, Sequences
<1>10. CASE r.op = "freeze"
  <2>1. OutcomeOf(r.arg) \in Ledger!Outcomes
    BY DEF OutcomeOf, Ledger!Outcomes
  <2>2. Ledger!FreezeStudy(OutcomeOf(r.arg), r.arg)
    BY <1>1, <1>10 DEF Permitted, Rename, Ledger!FreezeStudy
  <2>3. r.arg \in Ledger!Sequences \union {Ledger!None}
    BY <1>1, <1>10 DEF RequestOK, Sequences
  <2> QED
    BY <2>1, <2>2, <2>3 DEF Ledger!Next
<1> QED
  BY <1>1, <1>2, <1>3, <1>4, <1>5, <1>6, <1>7, <1>8, <1>9, <1>10 DEF RequestOK

(* The processes of the store implement the Study's ledger: whatever fails  *)
(* or dies, what becomes visible is one permitted operation at a time.      *)
THEOREM StoreImplementsLedger == Spec => ImplementsLedger
<1>1. Init => StoreInv /\ Ledger!Init
  BY InitStore DEF Init
<1>2. StoreInv /\ [Next]_vars => StoreInv'
  BY StoreKept
<1>3. StoreInv /\ [Next]_vars => [Ledger!Next]_(Ledger!vars)
  <2> SUFFICES ASSUME StoreInv, [Next]_vars PROVE Ledger!Next \/ UNCHANGED Ledger!vars
    OBVIOUS
  <2>1. CASE UNCHANGED vars
    BY <2>1 DEF vars, artifacts, Ledger!vars
  <2>2. ASSUME NEW p \in Procs, Step(p) PROVE Ledger!Next \/ UNCHANGED Ledger!vars
    <3>1. CASE Publish(p)
      BY <3>1, PublishIsStep
    <3>2. CASE ~Publish(p)
      <4>1. UNCHANGED artifacts
        BY <2>2, <3>2 DEF Step, Lock, Refuse, Begin, Stage, StageFails, BuildFails,
           Return, Kill
      <4> QED
        BY <4>1 DEF artifacts, Ledger!vars
    <3> QED
      BY <3>1, <3>2
  <2> QED
    BY <2>1, <2>2 DEF Next
<1> QED
  BY <1>1, <1>2, <1>3, PTL DEF Spec, ImplementsLedger, Ledger!Spec

-----------------------------------------------------------------------------
(* Without a kill a staging entry belongs to a process that is staged.      *)
StagingInv ==
  /\ kills \in Nat
  /\ kills = 0 => \A e \in staging :
       \E p \in Procs : pc[p] = "staged" /\ e = <<request[p].seq, p>>

LEMMA StagingStep == StoreInv /\ StagingInv /\ [Next]_vars => StagingInv'
<1> SUFFICES ASSUME StoreInv, StagingInv, [Next]_vars, kills' = 0 \/ kills' \notin Nat
             PROVE  /\ kills' \in Nat
                    /\ \A e \in staging' :
                         \E p \in Procs : pc'[p] = "staged" /\ e = <<request'[p].seq, p>>
  BY DEF StagingInv
<1>1. CASE UNCHANGED vars
  BY <1>1 DEF vars, StagingInv
<1>2. ASSUME NEW p \in Procs, Kill(p) PROVE FALSE
  BY <1>2 DEF Kill, StagingInv
<1>3. ASSUME NEW p \in Procs, Step(p), ~Kill(p)
      PROVE  /\ kills' \in Nat
             /\ \A e \in staging' :
                  \E q \in Procs : pc'[q] = "staged" /\ e = <<request'[q].seq, q>>
  <2>1. kills' = kills
    BY <1>3 DEF Step, Lock, Refuse, Begin, Stage, StageFails, BuildFails, Publish, Return
  <2>2. /\ kills' \in Nat
        /\ \A e \in staging : \E q \in Procs : pc[q] = "staged" /\ e = <<request[q].seq, q>>
    BY <2>1 DEF StagingInv
  <2>3. ASSUME pc[p] # "idle", pc[p] # "staged" PROVE staging = {}
    <3>1. \A q \in Procs : pc[q] # "staged"
      BY <2>3, OthersIdle
    <3> QED BY <2>2, <3>1
  <2>4. ASSUME pc[p] = "staged" PROVE staging \subseteq {<<request[p].seq, p>>}
    BY <2>2, <2>4, OthersIdle
  <2>5. CASE \E r \in Calls : Lock(p, r)
    <3>1. \A q \in Procs : pc[q] = "idle"
      BY <2>5 DEF Lock, StoreInv
    <3> QED BY <2>2, <2>5, <3>1 DEF Lock
  <2>6. CASE Refuse(p) \/ Begin(p) \/ StageFails(p) \/ Return(p)
    <3>1. pc[p] # "idle" /\ pc[p] # "staged" /\ UNCHANGED staging
      BY <2>6 DEF Refuse, Begin, StageFails, Return, At
    <3> QED BY <2>2, <2>3, <3>1
  <2>7. CASE BuildFails(p) \/ Publish(p)
    <3>1. pc[p] = "staged" /\ staging' = staging \ {<<request[p].seq, p>>}
      BY <2>7 DEF BuildFails, Publish, At
    <3> QED BY <2>2, <2>4, <3>1
  <2>8. ASSUME NEW ev \in Evidence, Stage(p, ev)
        PROVE  \A e \in staging' :
                 \E q \in Procs : pc'[q] = "staged" /\ e = <<request'[q].seq, q>>
    <3>1. staging = {} /\ staging' = staging \union {<<request[p].seq, p>>}
      BY <2>3, <2>8 DEF Stage, At
    <3>2. pc'[p] = "staged" /\ request'[p].seq = request[p].seq
      BY <2>8 DEF Stage, Goto, StoreInv, Call
    <3> QED BY <3>1, <3>2
  <2> QED BY <1>3, <2>2, <2>5, <2>6, <2>7, <2>8 DEF Step
<1> QED
  BY <1>1, <1>2, <1>3 DEF Next

(* An exception, unlike a kill, leaves no staging entry for the next reader *)
(* to stumble over: whoever writes one holds the lock until it is gone.     *)
THEOREM ExceptionsNeverLeaveStaging == Spec => []ExceptionsLeaveNoStaging
<1>1. Init => StoreInv /\ StagingInv
  BY InitStore DEF Init, StagingInv
<1>2. StoreInv /\ [Next]_vars => StoreInv'
  BY StoreKept
<1>3. StoreInv /\ StagingInv => ExceptionsLeaveNoStaging
  BY DEF StoreInv, StagingInv, ExceptionsLeaveNoStaging
<1> QED
  BY <1>1, <1>2, <1>3, StagingStep, PTL DEF Spec

(* The theorems about the ledger, read for the store's artifacts.           *)
LedgerProofs == INSTANCE StudyLedger_proofs

(* Whatever processes raise, fail or are killed, the artifacts they have    *)
(* renamed into place are those of a Study that the reader accepts: what    *)
(* can make a Study unreadable is an entry beside them, never one of them.  *)
THEOREM StoreAlwaysReconstructs == Spec => []Ledger!StudyReconstructs
<1>1. LedgerProofs!Spec => []LedgerProofs!StudyReconstructs
  BY LedgerProofs!AlwaysReconstructs, LedgerConstants
     DEF Ledger!LedgerAssumption, LedgerProofs!LedgerAssumption
<1>2. Ledger!Init => LedgerProofs!Init
  BY DEF Ledger!Init, LedgerProofs!Init, Ledger!Sequences, LedgerProofs!Sequences,
     Ledger!None, LedgerProofs!None, Ledger!NotFrozen, LedgerProofs!NotFrozen
<1>3. Ledger!Next => LedgerProofs!Next
  BY DEF
     Ledger!CreateStudy, LedgerProofs!CreateStudy, Ledger!RunBaseline,
     LedgerProofs!RunBaseline, Ledger!DefineExperiment, LedgerProofs!DefineExperiment,
     Ledger!RunExperiment, LedgerProofs!RunExperiment, Ledger!VerifyExperiment,
     LedgerProofs!VerifyExperiment, Ledger!CompareExperiment,
     LedgerProofs!CompareExperiment, Ledger!DecideExperiment,
     LedgerProofs!DecideExperiment, Ledger!RecordExperimentFailure,
     LedgerProofs!RecordExperimentFailure, Ledger!FreezeStudy, LedgerProofs!FreezeStudy,
     Ledger!MayCreate, LedgerProofs!MayCreate, Ledger!MayRunBaseline,
     LedgerProofs!MayRunBaseline, Ledger!MayDefine, LedgerProofs!MayDefine,
     Ledger!MayRun, LedgerProofs!MayRun, Ledger!MayVerify, LedgerProofs!MayVerify,
     Ledger!MayCompare, LedgerProofs!MayCompare, Ledger!MayDecide,
     LedgerProofs!MayDecide, Ledger!MayFail, LedgerProofs!MayFail, Ledger!MayFreeze,
     LedgerProofs!MayFreeze, Ledger!Mutable, LedgerProofs!Mutable, Ledger!PutPlan,
     LedgerProofs!PutPlan, Ledger!PutBaseline, LedgerProofs!PutBaseline,
     Ledger!PutDefinition, LedgerProofs!PutDefinition, Ledger!PutCandidate,
     LedgerProofs!PutCandidate, Ledger!PutVerification, LedgerProofs!PutVerification,
     Ledger!PutComparison, LedgerProofs!PutComparison, Ledger!PutDecision,
     LedgerProofs!PutDecision, Ledger!PutFailure, LedgerProofs!PutFailure,
     Ledger!PutFreeze, LedgerProofs!PutFreeze, Ledger!Sequences, LedgerProofs!Sequences,
     Ledger!None, LedgerProofs!None, Ledger!BaselineNode, LedgerProofs!BaselineNode,
     Ledger!Refs, LedgerProofs!Refs, Ledger!Verdicts, LedgerProofs!Verdicts,
     Ledger!Decisions, LedgerProofs!Decisions, Ledger!Outcomes, LedgerProofs!Outcomes,
     Ledger!NotFrozen, LedgerProofs!NotFrozen, Ledger!Holding, LedgerProofs!Holding,
     Ledger!Defined, LedgerProofs!Defined, Ledger!Accepted, LedgerProofs!Accepted,
     Ledger!LineageBefore, LedgerProofs!LineageBefore, Ledger!Lineage,
     LedgerProofs!Lineage, Ledger!Verdict, LedgerProofs!Verdict,
     Ledger!ExpectedDecision, LedgerProofs!ExpectedDecision, Ledger!Terminal,
     LedgerProofs!Terminal, Ledger!Decided, LedgerProofs!Decided, Ledger!EligibleArms,
     LedgerProofs!EligibleArms, Ledger!Winner, LedgerProofs!Winner,
     Ledger!HoldingComplete, LedgerProofs!HoldingComplete, Ledger!HoldingDecisions,
     LedgerProofs!HoldingDecisions, Ledger!HoldingOutcome, LedgerProofs!HoldingOutcome,
     Ledger!Next, LedgerProofs!Next
<1>4. [Ledger!Next]_(Ledger!vars) => [LedgerProofs!Next]_(LedgerProofs!vars)
  BY <1>3 DEF Ledger!vars, LedgerProofs!vars
<1>5. LedgerProofs!StudyReconstructs => Ledger!StudyReconstructs
  BY DEF
     Ledger!StudyReconstructs, LedgerProofs!StudyReconstructs, Ledger!Reconstructs,
     LedgerProofs!Reconstructs, Ledger!Intact, LedgerProofs!Intact, Ledger!FreezeIntact,
     LedgerProofs!FreezeIntact, Ledger!Sequences, LedgerProofs!Sequences, Ledger!None,
     LedgerProofs!None, Ledger!BaselineNode, LedgerProofs!BaselineNode,
     Ledger!NotFrozen, LedgerProofs!NotFrozen, Ledger!Holding, LedgerProofs!Holding,
     Ledger!Defined, LedgerProofs!Defined, Ledger!Accepted, LedgerProofs!Accepted,
     Ledger!LineageBefore, LedgerProofs!LineageBefore, Ledger!Verdict,
     LedgerProofs!Verdict, Ledger!ExpectedDecision, LedgerProofs!ExpectedDecision,
     Ledger!Terminal, LedgerProofs!Terminal, Ledger!Decided, LedgerProofs!Decided,
     Ledger!EligibleArms, LedgerProofs!EligibleArms, Ledger!Winner, LedgerProofs!Winner,
     Ledger!HoldingComplete, LedgerProofs!HoldingComplete, Ledger!HoldingOutcome,
     LedgerProofs!HoldingOutcome
<1> QED
  BY <1>1, <1>2, <1>4, <1>5, StoreImplementsLedger, PTL
     DEF ImplementsLedger, Ledger!Spec, LedgerProofs!Spec
=============================================================================
