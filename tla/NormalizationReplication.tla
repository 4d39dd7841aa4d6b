---------------------- MODULE NormalizationReplication ----------------------
(***************************************************************************)
(* The one-shot PPO normalization replication                               *)
(* (evaluation/ppo_normalization_execution.py driven by                     *)
(* tools/ppo_normalization_actions.py). A workflow run creates the          *)
(* repository-global activation tag, claims every slot before it trains it, *)
(* publishes one result per slot and uploads the tree; a verify job replays *)
(* the bundles on a copy of that tree, a finalize job publishes the         *)
(* ruling. Runs are serialised by the workflow's concurrency group. Any   *)
(* step may raise, the process may be killed at its time limit, the runner  *)
(* may be lost, and GitHub may apply a request whose answer never arrives.  *)
(*                                                                          *)
(* Runs are numbered in the order they start; a result is the value the     *)
(* replay of the fitted bundle gave.                                        *)
(***************************************************************************)
EXTENDS Naturals, Sequences

CONSTANTS SlotRoster,      \* the sealed roster, in order
          FitOutcomes,   \* what a replay of a bundle can give
          MaxRuns,    \* bound: workflow runs
          MaxVerifies \* bound: verify jobs of one run

SlotNames == {SlotRoster[i] : i \in DOMAIN SlotRoster}

ASSUME ReplicationAssumption ==
  /\ SlotRoster \in Seq(SlotNames) /\ SlotRoster # <<>> /\ FitOutcomes # {}
  /\ MaxRuns \in Nat /\ MaxVerifies \in Nat

Nothing   == "none"
NoReceipt == [created |-> "none", slot |-> "none", consumed |-> "none"]

VARIABLES
  tag,          \* the run whose record the activation tag holds, 0 without a tag
  oneShot,      \* the latest workflow run
  evidence,     \* slot -> the files of its directory in the run's tree
  failReceipt,  \* run -> execution-failure.json, or NoReceipt
  fits,         \* history: slot -> training runs so far, over all workflow runs
  replays,      \* history: slot -> what the latest verify job's replay gave
  ruling      \* the results the published comparison was computed from

replicationVars == <<tag, oneShot, evidence, failReceipt, fits, replays, ruling>>

EmptySlot   == [consumed |-> FALSE, failed |-> FALSE, digest |-> Nothing,
            result |-> Nothing, verified |-> Nothing]
NoOutcomes == [s \in SlotNames |-> Nothing]
RunPhases  == {"idle", "preflight", "activation", "source", "slot", "fitted", "digested",
            "complete", "uploaded", "verifying", "verified", "decided",
            "raised", "killed", "ended"}

\* Types: the phases of a run and the files of a slot's directory.
ReplicationTypeOK ==
  /\ tag \in 0..MaxRuns
  /\ oneShot \in [run : 0..MaxRuns, phase : RunPhases, at : Nat, created : BOOLEAN,
                  failedIn : RunPhases, verifies : 0..MaxVerifies]
  /\ evidence \in [SlotNames -> [consumed : BOOLEAN, failed : BOOLEAN,
                                 digest : FitOutcomes \cup {Nothing},
                                 result : FitOutcomes \cup {Nothing},
                                 verified : FitOutcomes \cup {Nothing}]]
  /\ failReceipt \in [1..MaxRuns ->
       {NoReceipt} \cup [created : {"yes", "no", "unknown"}, slot : SlotNames \cup {Nothing},
                    consumed : {"yes", "no", "unknown"}]]
  /\ fits \in [SlotNames -> Nat]

ReplicationInit ==
  /\ tag = 0
  /\ oneShot = [run |-> 0, phase |-> "idle", at |-> 1, created |-> FALSE,
                failedIn |-> "idle", verifies |-> 0]
  /\ evidence = [s \in SlotNames |-> EmptySlot]
  /\ failReceipt = [r \in 1..MaxRuns |-> NoReceipt]
  /\ fits = [s \in SlotNames |-> 0]
  /\ replays = NoOutcomes
  /\ ruling = NoOutcomes

RunAt(phase)     == oneShot.phase = phase
SlotNow          == SlotRoster[oneShot.at]
RunOver      == {"idle", "decided", "ended"}

-----------------------------------------------------------------------------
(* The execution job.                                                       *)

\* request_main: a canonical request comment under the exact pull request head;
\* a request is refused while the activation tag exists. A run re-executed by
\* hand enters at the execution job, so the tag may exist there.
RequestRun ==
  /\ oneShot.phase \in RunOver
  /\ oneShot.run < MaxRuns
  /\ oneShot' = [run |-> oneShot.run + 1, phase |-> "preflight", at |-> 1,
                 created |-> FALSE, failedIn |-> "idle", verifies |-> 0]
  /\ evidence' = [s \in SlotNames |-> EmptySlot]
  /\ replays' = NoOutcomes
  /\ UNCHANGED <<tag, failReceipt, fits, ruling>>

\* The checkout, the request and the sealed implementation agree.
Preflight ==
  /\ RunAt("preflight")
  /\ oneShot' = [oneShot EXCEPT !.phase = "activation"]
  /\ UNCHANGED <<tag, evidence, failReceipt, fits, replays, ruling>>

\* Mutation: the tag is moved to the new record when it exists.
TagFreeForced == TRUE

\* _require_no_activation_tag and the exclusive creation of the ref.
TagFree == tag = 0

\* _create_activation_tag: GitHub creates the ref only when it is free. The
\* answer may be lost after the ref was created: the call raises all the same.
CreateActivationTag ==
  /\ RunAt("activation")
  /\ \/ /\ TagFree
        /\ tag' = oneShot.run
        /\ \/ oneShot' = [oneShot EXCEPT !.phase = "source", !.created = TRUE]
           \/ oneShot' = [oneShot EXCEPT !.phase = "raised", !.failedIn = "activation"]
     \/ /\ ~TagFree
        /\ oneShot' = [oneShot EXCEPT !.phase = "raised", !.failedIn = "activation"]
        /\ UNCHANGED tag
  /\ UNCHANGED <<evidence, failReceipt, fits, replays, ruling>>

\* _download_source and prepare_replication_execution: an empty execution root.
PrepareReplicationExecution ==
  /\ RunAt("source")
  /\ oneShot' = [oneShot EXCEPT !.phase = "slot"]
  /\ UNCHANGED <<tag, evidence, failReceipt, fits, replays, ruling>>

\* Mutation: the claim is left to the moment the result is there.
ClaimReplicationSlotLate(s) ==
  /\ ~evidence[s].consumed
  /\ evidence' = evidence

\* _claim_replication_slot: consumed.json, published once.
ClaimReplicationSlot(s) ==
  /\ ~evidence[s].consumed
  /\ evidence' = [evidence EXCEPT ![s] = [@ EXCEPT !.consumed = TRUE]]

\* execute_replication_slot up to the training run: the claim comes first.
ClaimAndFit ==
  /\ RunAt("slot")
  /\ ClaimReplicationSlot(SlotNow)
  /\ fits' = [fits EXCEPT ![SlotNow] = @ + 1]
  /\ oneShot' = [oneShot EXCEPT !.phase = "fitted"]
  /\ UNCHANGED <<tag, failReceipt, replays, ruling>>

\* The bundle is saved, reloaded and evaluated; the digest goes first.
PublishResultDigest ==
  /\ RunAt("fitted")
  /\ \E v \in FitOutcomes :
       evidence' = [evidence EXCEPT ![SlotNow] = [@ EXCEPT !.digest = v]]
  /\ oneShot' = [oneShot EXCEPT !.phase = "digested"]
  /\ UNCHANGED <<tag, failReceipt, fits, replays, ruling>>

\* The result, then the next slot of the roster.
PublishResult ==
  /\ RunAt("digested")
  /\ evidence' = [evidence EXCEPT ![SlotNow] = [@ EXCEPT !.result = evidence[SlotNow].digest]]
  /\ oneShot' = IF oneShot.at = Len(SlotRoster)
                  THEN [oneShot EXCEPT !.phase = "complete"]
                  ELSE [oneShot EXCEPT !.phase = "slot", !.at = @ + 1]
  /\ UNCHANGED <<tag, failReceipt, fits, replays, ruling>>

\* replication_slot_state: published and not failed evidence under a claim.
SlotComplete(s) ==
  evidence[s].consumed /\ ~evidence[s].failed /\ evidence[s].result # Nothing

\* The complete check and the transport receipt, then the upload of the tree.
CompleteCheck ==
  /\ RunAt("complete")
  /\ oneShot' = [oneShot EXCEPT
       !.phase = IF \A s \in SlotNames : SlotComplete(s) THEN "uploaded" ELSE "raised",
       !.failedIn = "complete"]
  /\ UNCHANGED <<tag, evidence, failReceipt, fits, replays, ruling>>

\* An exception of any step; inside a slot the handler records failed.json when
\* the slot is consumed and has neither a failure nor a result.
StepRaises ==
  /\ oneShot.phase \in {"preflight", "activation", "source", "slot", "fitted", "digested"}
  /\ oneShot' = [oneShot EXCEPT !.phase = "raised", !.failedIn = oneShot.phase]
  /\ evidence' = IF oneShot.phase \in {"fitted", "digested"} /\ evidence[SlotNow].consumed
                   THEN [evidence EXCEPT ![SlotNow] = [@ EXCEPT !.failed = TRUE]]
                   ELSE evidence
  /\ UNCHANGED <<tag, failReceipt, fits, replays, ruling>>

\* The step's time limit kills the process between two writes.
StepKilled ==
  /\ oneShot.phase \in {"preflight", "activation", "source", "slot", "fitted", "digested"}
  /\ oneShot' = [oneShot EXCEPT !.phase = "killed", !.failedIn = oneShot.phase]
  /\ UNCHANGED <<tag, evidence, failReceipt, fits, replays, ruling>>

InSlot == oneShot.failedIn \in {"slot", "fitted", "digested"}

\* execute_main's handler: the receipt says what this process knows. A receipt
\* that cannot be written is left to the workflow's failure step.
WriteFailureReceipt ==
  /\ RunAt("raised")
  /\ \/ /\ failReceipt' = [failReceipt EXCEPT ![oneShot.run] =
             [created |-> IF oneShot.created THEN "yes" ELSE "no",
              slot |-> IF InSlot THEN SlotNow ELSE Nothing,
              consumed |-> IF ~InSlot THEN "unknown"
                           ELSE IF evidence[SlotNow].consumed THEN "yes" ELSE "no"]]
        /\ oneShot' = [oneShot EXCEPT !.phase = "killed"]
     \/ /\ oneShot' = [oneShot EXCEPT !.phase = "killed"]
        /\ UNCHANGED failReceipt
  /\ UNCHANGED <<tag, evidence, fits, replays, ruling>>

\* ensure_failure_receipt_main: keeps the receipt that exists, otherwise asks
\* GitHub for the tag; another run's record or no answer leaves "unknown".
EnsureFailureReceipt ==
  /\ RunAt("killed")
  /\ failReceipt' =
       IF failReceipt[oneShot.run] # NoReceipt THEN failReceipt
       ELSE [failReceipt EXCEPT ![oneShot.run] =
               [created |-> IF tag = oneShot.run THEN "yes"
                            ELSE IF tag = 0 THEN "no" ELSE "unknown",
                slot |-> Nothing, consumed |-> "unknown"]]
  /\ oneShot' = [oneShot EXCEPT !.phase = "ended"]
  /\ UNCHANGED <<tag, evidence, fits, replays, ruling>>

\* The same step when GitHub cannot be read.
EnsureFailureReceiptUnread ==
  /\ RunAt("killed")
  /\ failReceipt[oneShot.run] = NoReceipt
  /\ failReceipt' = [failReceipt EXCEPT ![oneShot.run] =
                       [created |-> "unknown", slot |-> Nothing, consumed |-> "unknown"]]
  /\ oneShot' = [oneShot EXCEPT !.phase = "ended"]
  /\ UNCHANGED <<tag, evidence, fits, replays, ruling>>

\* The runner itself is lost: no failure step, no receipt.
RunnerLost ==
  /\ oneShot.phase \notin RunOver
  /\ oneShot' = [oneShot EXCEPT !.phase = "ended"]
  /\ UNCHANGED <<tag, evidence, failReceipt, fits, replays, ruling>>

-----------------------------------------------------------------------------
(* The verify and finalize jobs.                                            *)

\* verify_main: a fresh copy of the uploaded tree, so no verified record yet.
StartVerify ==
  /\ RunAt("uploaded")
  /\ oneShot.verifies < MaxVerifies
  /\ oneShot' = [oneShot EXCEPT !.phase = "verifying", !.at = 1, !.verifies = @ + 1]
  /\ evidence' = [s \in SlotNames |-> [evidence[s] EXCEPT !.verified = Nothing]]
  /\ replays' = NoOutcomes
  /\ UNCHANGED <<tag, failReceipt, fits, ruling>>

\* Mutation: the digests alone are compared.
ReplayMatchesDigest(s, v) == evidence[s].result = evidence[s].digest

\* The fresh replay equals the recorded one byte for byte.
ReplayMatches(s, v) ==
  /\ evidence[s].result = evidence[s].digest
  /\ evidence[s].result = v

\* verify_replication_slot: the bundle is reloaded and replayed without a fit;
\* a replay that differs fails the job, which may be run again.
VerifyReplicationSlot ==
  /\ RunAt("verifying")
  /\ \E v \in FitOutcomes :
       /\ replays' = [replays EXCEPT ![SlotNow] = v]
       /\ IF SlotComplete(SlotNow) /\ ReplayMatches(SlotNow, v)
            THEN /\ evidence' = [evidence EXCEPT
                                   ![SlotNow] = [@ EXCEPT !.verified = evidence[SlotNow].result]]
                 /\ oneShot' = IF oneShot.at = Len(SlotRoster)
                                 THEN [oneShot EXCEPT !.phase = "verified"]
                                 ELSE [oneShot EXCEPT !.at = @ + 1]
            ELSE /\ oneShot' = [oneShot EXCEPT !.phase = "uploaded"]
                 /\ UNCHANGED evidence
  /\ UNCHANGED <<tag, failReceipt, fits, ruling>>

\* finalize_main and publish_replication_decision: every slot complete and
\* verified for the very result the comparison reads.
PublishReplicationDecision ==
  /\ RunAt("verified")
  /\ \A s \in SlotNames : SlotComplete(s) /\ evidence[s].verified = evidence[s].result
  /\ ruling' = [s \in SlotNames |-> evidence[s].result]
  /\ oneShot' = [oneShot EXCEPT !.phase = "decided"]
  /\ UNCHANGED <<tag, evidence, failReceipt, fits, replays>>

ReplicationNext ==
  \/ RequestRun \/ Preflight \/ CreateActivationTag \/ PrepareReplicationExecution
  \/ ClaimAndFit \/ PublishResultDigest \/ PublishResult \/ CompleteCheck
  \/ StepRaises \/ StepKilled \/ WriteFailureReceipt
  \/ EnsureFailureReceipt \/ EnsureFailureReceiptUnread \/ RunnerLost
  \/ StartVerify \/ VerifyReplicationSlot \/ PublishReplicationDecision

ReplicationSpec == ReplicationInit /\ [][ReplicationNext]_replicationVars

-----------------------------------------------------------------------------
\* However runs fail, are killed or are started again, no slot of the roster is
\* ever trained twice (the tag and the claims of _claim_replication_slot).
SlotFittedOnce == \A s \in SlotNames : fits[s] <= 1

\* A failure receipt that calls its slot unconsumed is right: this run never
\* trained it (slot_consumed of build_execution_failure_receipt).
UnconsumedSlotWasNotFitted ==
  \A r \in 1..MaxRuns :
    failReceipt[r] # NoReceipt /\ failReceipt[r].consumed = "no"
      => fits[failReceipt[r].slot] = 0

\* The ruling is computed from results whose own replay in the verify job
\* gave the same outcome (all_slots_independently_verified).
DecisionUsesReplayedResults ==
  ruling # NoOutcomes /\ RunAt("decided") => ruling = replays

(* The one-shot slots: fitted at most once, never fitted unclaimed, and decided on the       *)
(* results that were replayed.                                                               *)
SlotsAreOneShot ==
  SlotFittedOnce /\ UnconsumedSlotWasNotFitted /\ DecisionUsesReplayedResults
=============================================================================
