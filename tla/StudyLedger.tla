----------------------------- MODULE StudyLedger -----------------------------
(* What a controlled Study promises: the order in which its artifacts may   *)
(* come to exist (evaluation/experiments/workflow.py) and what a reader     *)
(* accepts when it rebuilds the Study from them (inspection.py).  Every     *)
(* operation is one step here; StudyStore adds the processes, the mutation  *)
(* lock, the staged publication and the failures, and implements this       *)
(* specification.                                                           *)
(*                                                                          *)
(* Evidence stands for a complete EvidenceSet together with everything that *)
(* is computed from it deterministically: whether the delta to its baseline *)
(* is controlled, whether it meets the eligibility rule, and its score.     *)
EXTENDS Integers

CONSTANTS
  MaxExperiments,  \* plan.max_experiments
  Protocols,       \* protocols a plan may have
  Evidence,        \* EvidenceSets a run may produce
  Controlled,      \* those verify_controlled_delta finds no violation in
  Eligible,        \* those whose comparison meets the eligibility rule
  Score,           \* the selection score of an EvidenceSet
  NoEvidence

ASSUME LedgerAssumption ==
  /\ MaxExperiments \in Nat \ {0}
  /\ Protocols \subseteq {"open", "holding"}
  /\ Controlled \subseteq Evidence /\ Eligible \subseteq Evidence
  /\ Score \in [Evidence -> Int]
  /\ NoEvidence \notin Evidence

Sequences == 1..MaxExperiments
None == -1          \* no reference
BaselineNode == 0   \* the reference to the baseline EvidenceSet
Refs == Sequences \union {BaselineNode}

Verdicts == {"CONTROLLED", "INVALID"}
Decisions == {"ACCEPT_CANDIDATE", "KEEP_BASELINE", "INCONCLUSIVE"}
Outcomes == {"WINNER", "NO_WINNER"}
NotFrozen == [outcome |-> "none", selected |-> None, decided |-> {}]

VARIABLES
  files,      \* plan.json and baseline/, where they exist
  protocol,   \* plan.protocol: a PPO holding-duration protocol or none
  base,       \* definition.json: the EvidenceSet an experiment builds on
  candidate,  \* candidate/
  verdict,    \* verification.json
  compared,   \* the experiments with a comparison.json
  decision,   \* decision.json
  failed,     \* the experiments with a failure.json
  freeze      \* freeze.json; decided are the decisions it binds

vars ==
  <<files, protocol, base, candidate, verdict, compared, decision, failed, freeze>>

-----------------------------------------------------------------------------
Holding == protocol = "holding"
Defined(i) == base[i] # None

(* _reconstruct appends the baseline, then each accepted candidate.         *)
Accepted == {i \in Sequences : decision[i] = "ACCEPT_CANDIDATE"}
LineageBefore(n) ==
  {BaselineNode : f \in files \intersect {"baseline"}}
    \union {i \in Accepted : i < n}
Lineage == LineageBefore(MaxExperiments + 1)

Verdict(ev) == IF ev \in Controlled THEN "CONTROLLED" ELSE "INVALID"

ExpectedDecision(ev) ==
  IF ev \in Eligible THEN "ACCEPT_CANDIDATE" ELSE "KEEP_BASELINE"

Terminal(i) == i \in failed \/ verdict[i] = "INVALID" \/ decision[i] # "none"

Decided == {i \in Sequences : decision[i] # "none"}

EligibleArms == {i \in Sequences : candidate[i] \in Eligible}

(* Mutation: an exact tie goes to the longer hold.                          *)
WinnerLongest(i) ==
  /\ i \in EligibleArms
  /\ \A k \in EligibleArms :
       \/ Score[candidate[k]] < Score[candidate[i]]
       \/ Score[candidate[k]] = Score[candidate[i]] /\ i >= k

(* The highest score; an exact tie goes to the shorter hold.  The horizons  *)
(* grow with the sequence.                                                  *)
Winner(i) ==
  /\ i \in EligibleArms
  /\ \A k \in EligibleArms :
       \/ Score[candidate[k]] < Score[candidate[i]]
       \/ Score[candidate[k]] = Score[candidate[i]] /\ i <= k

-----------------------------------------------------------------------------
(* The guards of the operations: _reconstruct has succeeded, _assert_mutable *)
(* and the checks of each.                                                   *)

Mutable == "plan" \in files /\ freeze = NotFrozen

MayCreate ==
  /\ files = {} /\ freeze = NotFrozen
  /\ \A i \in Sequences : ~Defined(i)

MayRunBaseline == Mutable /\ "baseline" \notin files

(* The sequence is the next one and inside the budget.                      *)
MayDefine(n, b) ==
  /\ Mutable /\ "baseline" \in files
  /\ b \in Lineage
  /\ n \in Sequences /\ ~Defined(n)
  /\ \A k \in Sequences : k < n => Defined(k)

(* Mutation: an arm runs before the whole roster is registered.             *)
MayRunEarly(i) ==
  /\ Mutable /\ i \in Sequences /\ Defined(i)
  /\ i \notin failed /\ candidate[i] = NoEvidence

MayRun(i) ==
  /\ Mutable /\ i \in Sequences /\ Defined(i)
  /\ Holding => \A k \in Sequences : Defined(k)
  /\ i \notin failed /\ candidate[i] = NoEvidence

MayVerify(i) ==
  /\ Mutable /\ i \in Sequences /\ Defined(i)
  /\ i \notin failed /\ candidate[i] # NoEvidence /\ verdict[i] = "none"

MayCompare(i) ==
  /\ Mutable /\ i \in Sequences /\ Defined(i)
  /\ i \notin failed /\ verdict[i] = "CONTROLLED" /\ i \notin compared

(* Mutation: a decision may be taken again.                                 *)
MayDecideAgain(i, kind) ==
  /\ Mutable /\ i \in Sequences /\ Defined(i)
  /\ i \notin failed /\ verdict[i] # "none" /\ i \in compared
  /\ Holding => kind = ExpectedDecision(candidate[i])

MayDecide(i, kind) ==
  /\ Mutable /\ i \in Sequences /\ Defined(i)
  /\ i \notin failed /\ verdict[i] # "none" /\ i \in compared
  /\ decision[i] = "none"
  /\ Holding => kind = ExpectedDecision(candidate[i])

(* Mutation: complete evidence is written off as a failure.                 *)
MayFailComplete(i) ==
  /\ Mutable /\ i \in Sequences /\ Defined(i)
  /\ i \notin failed
  /\ verdict[i] = "none" /\ i \notin compared /\ decision[i] = "none"

MayFail(i) ==
  /\ Mutable /\ i \in Sequences /\ Defined(i)
  /\ candidate[i] = NoEvidence /\ i \notin failed
  /\ verdict[i] = "none" /\ i \notin compared /\ decision[i] = "none"

(* Every arm of a holding-duration Study is complete and decided by the     *)
(* rule, and the winner is the one the rule names, where it names one.      *)
HoldingComplete ==
  \A i \in Sequences :
    /\ Defined(i) /\ i \notin failed /\ candidate[i] # NoEvidence
    /\ i \in compared /\ decision[i] # "none"
HoldingDecisions ==
  \A i \in Sequences : decision[i] = ExpectedDecision(candidate[i])
HoldingOutcome(outcome, selected) ==
  IF outcome = "WINNER" THEN Winner(selected) ELSE EligibleArms = {}

MayFreeze(outcome, selected) ==
  /\ Mutable /\ "baseline" \in files
  /\ \A i \in Sequences : Defined(i) => Terminal(i)
  /\ Holding => /\ HoldingComplete /\ HoldingDecisions
                /\ HoldingOutcome(outcome, selected)
  /\ IF outcome = "WINNER" THEN selected \in Accepted ELSE selected = None

-----------------------------------------------------------------------------
(* The artifact each operation publishes.                                   *)

PutPlan(kind) ==
  /\ files' = files \union {"plan"}
  /\ protocol' = kind
  /\ UNCHANGED <<base, candidate, verdict, compared, decision, failed, freeze>>

PutBaseline ==
  /\ files' = files \union {"baseline"}
  /\ UNCHANGED <<protocol, base, candidate, verdict, compared, decision, failed, freeze>>

PutDefinition(n, b) ==
  /\ base' = [base EXCEPT ![n] = b]
  /\ UNCHANGED <<files, protocol, candidate, verdict, compared, decision, failed, freeze>>

PutCandidate(i, ev) ==
  /\ candidate' = [candidate EXCEPT ![i] = ev]
  /\ UNCHANGED <<files, protocol, base, verdict, compared, decision, failed, freeze>>

PutVerification(i) ==
  /\ verdict' = [verdict EXCEPT ![i] = Verdict(candidate[i])]
  /\ UNCHANGED <<files, protocol, base, candidate, compared, decision, failed, freeze>>

PutComparison(i) ==
  /\ compared' = compared \union {i}
  /\ UNCHANGED <<files, protocol, base, candidate, verdict, decision, failed, freeze>>

PutDecision(i, kind) ==
  /\ decision' = [decision EXCEPT ![i] = kind]
  /\ UNCHANGED <<files, protocol, base, candidate, verdict, compared, failed, freeze>>

PutFailure(i) ==
  /\ failed' = failed \union {i}
  /\ UNCHANGED <<files, protocol, base, candidate, verdict, compared, decision, freeze>>

(* Mutation: a Study without a winner names its baseline.                   *)
PutFreezeBaseline(outcome, selected) ==
  /\ freeze' = [outcome |-> outcome, decided |-> Decided,
                selected |-> IF selected = None THEN BaselineNode ELSE selected]
  /\ UNCHANGED <<files, protocol, base, candidate, verdict, compared, decision, failed>>

PutFreeze(outcome, selected) ==
  /\ freeze' = [outcome |-> outcome, selected |-> selected, decided |-> Decided]
  /\ UNCHANGED <<files, protocol, base, candidate, verdict, compared, decision, failed>>

-----------------------------------------------------------------------------
Init ==
  /\ files = {} /\ protocol = "none" /\ compared = {} /\ failed = {}
  /\ base = [i \in Sequences |-> None]
  /\ candidate = [i \in Sequences |-> NoEvidence]
  /\ verdict = [i \in Sequences |-> "none"]
  /\ decision = [i \in Sequences |-> "none"]
  /\ freeze = NotFrozen

CreateStudy(kind) == MayCreate /\ PutPlan(kind)
RunBaseline == MayRunBaseline /\ PutBaseline
DefineExperiment(n, b) == MayDefine(n, b) /\ PutDefinition(n, b)
RunExperiment(i, ev) == MayRun(i) /\ PutCandidate(i, ev)
VerifyExperiment(i) == MayVerify(i) /\ PutVerification(i)
CompareExperiment(i) == MayCompare(i) /\ PutComparison(i)
DecideExperiment(i, kind) == MayDecide(i, kind) /\ PutDecision(i, kind)
RecordExperimentFailure(i) == MayFail(i) /\ PutFailure(i)
FreezeStudy(outcome, selected) ==
  MayFreeze(outcome, selected) /\ PutFreeze(outcome, selected)

Next ==
  \/ \E kind \in Protocols : CreateStudy(kind)
  \/ RunBaseline
  \/ \E i \in Sequences :
       \/ \E b \in Refs : DefineExperiment(i, b)
       \/ \E ev \in Evidence : RunExperiment(i, ev)
       \/ VerifyExperiment(i)
       \/ CompareExperiment(i)
       \/ \E kind \in Decisions : DecideExperiment(i, kind)
       \/ RecordExperimentFailure(i)
  \/ \E outcome \in Outcomes, selected \in Sequences \union {None} :
       FreezeStudy(outcome, selected)

Spec == Init /\ [][Next]_vars

-----------------------------------------------------------------------------
(* What _reconstruct checks of one experiment.                              *)
Intact(i) ==
  /\ Defined(i) =>
       /\ base[i] \in LineageBefore(i)
       /\ \A k \in Sequences : k < i => Defined(k)
  /\ ~Defined(i) => candidate[i] = NoEvidence /\ i \notin failed
  /\ candidate[i] # NoEvidence => i \notin failed
  /\ verdict[i] # "none" =>
       candidate[i] # NoEvidence /\ verdict[i] = Verdict(candidate[i])
  /\ i \in compared => verdict[i] = "CONTROLLED"
  /\ decision[i] # "none" =>
       /\ i \in compared
       /\ Holding => decision[i] = ExpectedDecision(candidate[i])
  /\ i \in failed => /\ verdict[i] = "none" /\ i \notin compared
                     /\ decision[i] = "none"

(* What _reconstruct checks of the freeze.                                  *)
FreezeIntact ==
  freeze # NotFrozen =>
    /\ freeze.decided = Decided
    /\ \A i \in Sequences : Defined(i) => Terminal(i)
    /\ Holding => /\ HoldingComplete
                  /\ HoldingOutcome(freeze.outcome, freeze.selected)
    /\ freeze.outcome = "WINNER" => freeze.selected \in Accepted

(* _reconstruct raises nothing on the artifacts.                            *)
Reconstructs ==
  /\ "plan" \in files
  /\ (\E i \in Sequences : Defined(i)) => "baseline" \in files
  /\ \A i \in Sequences : Intact(i)
  /\ FreezeIntact

-----------------------------------------------------------------------------
(* The artifacts stay well formed.                                          *)
TypeOK ==
  /\ files \subseteq {"plan", "baseline"}
  /\ protocol \in Protocols \union {"none"}
  /\ base \in [Sequences -> Refs \union {None}]
  /\ candidate \in [Sequences -> Evidence \union {NoEvidence}]
  /\ verdict \in [Sequences -> Verdicts \union {"none"}]
  /\ compared \subseteq Sequences /\ failed \subseteq Sequences
  /\ decision \in [Sequences -> Decisions \union {"none"}]
  /\ freeze \in [outcome : Outcomes \union {"none"},
                 selected : Sequences \union {None},
                 decided : SUBSET Sequences]

(* Whatever operations are accepted, in whatever order and by whomever,     *)
(* the next _reconstruct accepts the Study they leave.                      *)
StudyReconstructs == files # {} => Reconstructs

(* No artifact is ever replaced or removed, and once freeze.json exists     *)
(* nothing is added either.                                                 *)
EvidenceAppendOnly ==
  [][ /\ files # {} => protocol' = protocol
      /\ files \subseteq files' /\ compared \subseteq compared'
      /\ failed \subseteq failed'
      /\ freeze # NotFrozen => vars' = vars
      /\ \A i \in Sequences :
           /\ base[i] # None => base'[i] = base[i]
           /\ candidate[i] # NoEvidence => candidate'[i] = candidate[i]
           /\ verdict[i] # "none" => verdict'[i] = verdict[i]
           /\ decision[i] # "none" => decision'[i] = decision[i] ]_vars

(* Every arm of a holding-duration Study is measured against the one        *)
(* baseline run without a minimum hold: no arm builds on the result of      *)
(* another, although an accepted arm enters the lineage.                    *)
ArmsShareBaseline ==
  Holding => \A i \in Sequences : Defined(i) => base[i] = BaselineNode

(* The winner of a holding-duration Study is the best eligible arm of the   *)
(* whole preregistered roster, and there is no winner only if no arm is     *)
(* eligible.                                                                *)
WinnerIsBest ==
  Holding /\ freeze # NotFrozen =>
    /\ freeze.outcome = "NO_WINNER" =>
         \A i \in Sequences : candidate[i] \notin Eligible
    /\ freeze.outcome = "WINNER" =>
         /\ candidate[freeze.selected] \in Eligible
         /\ \A i \in Sequences : candidate[i] \in Eligible =>
              /\ Score[candidate[i]] <= Score[candidate[freeze.selected]]
              /\ Score[candidate[i]] = Score[candidate[freeze.selected]]
                   => freeze.selected <= i
=============================================================================
