-------------------------- MODULE StudyLedger_proofs --------------------------
(* What holds of a Study for every budget, every protocol and every set of  *)
(* EvidenceSets.  The invariant is StudyReconstructs without its            *)
(* precondition, which alone is not inductive: the reader's checks have to  *)
(* hold of a Study that has no plan yet, and the roster of a                *)
(* holding-duration Study has to be complete before the first arm runs.     *)
EXTENDS StudyLedger, TLAPS

(* plan.json is the first artifact and the baseline precedes definitions.   *)
Rooted ==
  /\ files # {} => "plan" \in files
  /\ \A i \in Sequences : Defined(i) => "baseline" \in files

AllIntact == \A i \in Sequences : Intact(i)

(* No arm has run before the whole roster is registered.                    *)
RosterFirst ==
  Holding => \A i \in Sequences :
    candidate[i] # NoEvidence => \A k \in Sequences : Defined(k)

LedgerInv ==
  TypeOK /\ Rooted /\ AllIntact /\ FreezeIntact /\ RosterFirst /\ ArmsShareBaseline

-----------------------------------------------------------------------------
(* The initial Study satisfies the invariant.                               *)
LEMMA InitLedger == Init => LedgerInv
<1> SUFFICES ASSUME Init PROVE LedgerInv
  OBVIOUS
<1>1. TypeOK
  BY DEF Init, TypeOK, NotFrozen
<1>2. Rooted /\ RosterFirst /\ ArmsShareBaseline
  BY DEF Init, Rooted, RosterFirst, ArmsShareBaseline, Defined
<1>3. AllIntact
  BY DEF Init, AllIntact, Intact, Defined
<1>4. FreezeIntact
  BY DEF Init, FreezeIntact
<1> QED
  BY <1>1, <1>2, <1>3, <1>4 DEF LedgerInv

-----------------------------------------------------------------------------
(* Every step keeps the artifacts well formed.                              *)
LEMMA TypeStep == TypeOK /\ Next => TypeOK'
<1> SUFFICES ASSUME TypeOK, Next PROVE TypeOK'
  OBVIOUS
<1> USE LedgerAssumption
<1>1. CASE (\E kind \in Protocols : CreateStudy(kind)) \/ RunBaseline
  BY <1>1 DEF CreateStudy, RunBaseline, PutPlan, PutBaseline, TypeOK
<1>2. ASSUME NEW i \in Sequences, NEW b \in Refs, DefineExperiment(i, b)
      PROVE  TypeOK'
  BY <1>2 DEF DefineExperiment, PutDefinition, TypeOK
<1>3. ASSUME NEW i \in Sequences, NEW ev \in Evidence, RunExperiment(i, ev)
      PROVE  TypeOK'
  BY <1>3 DEF RunExperiment, PutCandidate, TypeOK
<1>4. ASSUME NEW i \in Sequences, VerifyExperiment(i)
      PROVE  TypeOK'
  <2>1. Verdict(candidate[i]) \in Verdicts
    BY DEF Verdict, Verdicts
  <2> QED
    BY <1>4, <2>1 DEF VerifyExperiment, PutVerification, TypeOK
<1>5. ASSUME NEW i \in Sequences, CompareExperiment(i) \/ RecordExperimentFailure(i)
      PROVE  TypeOK'
  BY <1>5 DEF CompareExperiment, RecordExperimentFailure, PutComparison, PutFailure, TypeOK
<1>6. ASSUME NEW i \in Sequences, NEW kind \in Decisions, DecideExperiment(i, kind)
      PROVE  TypeOK'
  BY <1>6 DEF DecideExperiment, PutDecision, TypeOK
<1>7. ASSUME NEW outcome \in Outcomes, NEW selected \in Sequences \union {None},
             FreezeStudy(outcome, selected)
      PROVE  TypeOK'
  <2>1. Decided \in SUBSET Sequences
    BY DEF Decided
  <2> QED
    BY <1>7, <2>1 DEF FreezeStudy, PutFreeze, TypeOK
<1> QED
  BY <1>1, <1>2, <1>3, <1>4, <1>5, <1>6, <1>7 DEF Next

-----------------------------------------------------------------------------
(* Every step keeps every experiment acceptable to the reader.  A reference *)
(* stays in the lineage because accepted decisions are never taken back.    *)
LEMMA IntactStep == LedgerInv /\ Next => AllIntact'
<1> SUFFICES ASSUME LedgerInv, Next, NEW n \in Sequences PROVE Intact(n)'
  BY DEF AllIntact, Sequences
<1> USE LedgerAssumption
<1>0. TypeOK /\ Rooted /\ Intact(n)
  BY DEF LedgerInv, AllIntact
<1>1. CASE \E kind \in Protocols : CreateStudy(kind)
  <2>1. /\ \A i \in Sequences : base[i] = None
        /\ \A i \in Sequences : candidate[i] = NoEvidence /\ verdict[i] = "none" /\ decision[i] = "none"
        /\ n \notin compared /\ n \notin failed
    BY <1>1 DEF CreateStudy, MayCreate, LedgerInv, AllIntact, Intact, Defined
  <2>2. UNCHANGED <<base, candidate, verdict, compared, decision, failed>>
    BY <1>1 DEF CreateStudy, PutPlan
  <2> QED
    BY <2>1, <2>2 DEF Intact, Defined
<1>2. CASE RunBaseline
  <2>1. UNCHANGED <<protocol, base, candidate, verdict, compared, decision, failed>>
    BY <1>2 DEF RunBaseline, PutBaseline
  <2>2. LineageBefore(n) \subseteq LineageBefore(n)'
    BY <1>2, <2>1 DEF RunBaseline, PutBaseline, LineageBefore, Accepted
  <2> QED
    BY <1>0, <2>1, <2>2 DEF Intact, Defined, Verdict, ExpectedDecision, Holding
<1>3. ASSUME NEW i \in Sequences, NEW b \in Refs, DefineExperiment(i, b)
      PROVE  Intact(n)'
  <2>1. /\ UNCHANGED <<files, protocol, candidate, verdict, compared, decision, failed>>
        /\ base' = [base EXCEPT ![i] = b]
        /\ ~Defined(i) /\ b \in Lineage
        /\ \A k \in Sequences : k < i => Defined(k)
    BY <1>3 DEF DefineExperiment, MayDefine, PutDefinition
  <2>2. b # None /\ base \in [Sequences -> Refs \union {None}]
    BY <1>0 DEF Refs, None, Sequences, BaselineNode, TypeOK
  <2>3. \A k \in Sequences : Defined(k) => Defined(k)'
    BY <2>1, <2>2 DEF Defined
  <2>4. \A m : LineageBefore(m)' = LineageBefore(m)
    BY <2>1 DEF LineageBefore, Accepted
  <2>5. CASE n # i
    <3>1. base'[n] = base[n]
      BY <2>1, <2>2, <2>5
    <3> QED
      BY <1>0, <2>1, <2>3, <2>4, <3>1 DEF Intact, Defined, Verdict, ExpectedDecision, Holding
  <2>6. CASE n = i
    <3>1. base'[n] = b
      BY <2>1, <2>2, <2>6
    <3>2. \A k \in Sequences : decision[k] # "none" => Defined(k)
      BY DEF LedgerInv, AllIntact, Intact
    <3>3. ASSUME NEW k \in Sequences, Defined(k) PROVE k < i
      <4>1. \A j \in Sequences : j < k => Defined(j)
        BY <3>3 DEF LedgerInv, AllIntact, Intact
      <4> QED
        BY <2>1, <3>3, <4>1 DEF Sequences
    <3>4. b \in LineageBefore(n)
      BY <2>1, <2>6, <3>2, <3>3 DEF Lineage, LineageBefore, Accepted
    <3> QED
      BY <1>0, <2>1, <2>2, <2>3, <2>4, <2>6, <3>1, <3>4
         DEF Intact, Defined, Verdict, ExpectedDecision, Holding
  <2> QED
    BY <2>5, <2>6
<1>4. ASSUME NEW i \in Sequences, NEW ev \in Evidence, RunExperiment(i, ev)
      PROVE  Intact(n)'
  <2>1. /\ UNCHANGED <<files, protocol, base, verdict, compared, decision, failed>>
        /\ candidate' = [candidate EXCEPT ![i] = ev]
        /\ Defined(i) /\ i \notin failed /\ candidate[i] = NoEvidence
    BY <1>4 DEF RunExperiment, MayRun, PutCandidate
  <2>2. candidate \in [Sequences -> Evidence \union {NoEvidence}]
    BY <1>0 DEF TypeOK
  <2>3. LineageBefore(n)' = LineageBefore(n)
    BY <2>1 DEF LineageBefore, Accepted
  <2>4. CASE n # i
    <3>1. candidate'[n] = candidate[n]
      BY <2>1, <2>2, <2>4
    <3> QED
      BY <1>0, <2>1, <2>3, <3>1 DEF Intact, Defined, Verdict, ExpectedDecision, Holding
  <2>5. CASE n = i
    <3>1. verdict[n] = "none" /\ n \notin compared /\ decision[n] = "none"
      BY <1>0, <2>1, <2>5 DEF Intact
    <3> QED
      BY <1>0, <2>1, <2>3, <2>5, <3>1 DEF Intact, Defined
  <2> QED
    BY <2>4, <2>5
<1>5. ASSUME NEW i \in Sequences, VerifyExperiment(i)
      PROVE  Intact(n)'
  <2>1. /\ UNCHANGED <<files, protocol, base, candidate, compared, decision, failed>>
        /\ verdict' = [verdict EXCEPT ![i] = Verdict(candidate[i])]
        /\ i \notin failed /\ candidate[i] # NoEvidence /\ verdict[i] = "none"
    BY <1>5 DEF VerifyExperiment, MayVerify, PutVerification
  <2>2. verdict \in [Sequences -> Verdicts \union {"none"}]
    BY <1>0 DEF TypeOK
  <2>3. LineageBefore(n)' = LineageBefore(n)
    BY <2>1 DEF LineageBefore, Accepted
  <2>4. CASE n # i
    <3>1. verdict'[n] = verdict[n]
      BY <2>1, <2>2, <2>4
    <3> QED
      BY <1>0, <2>1, <2>3, <3>1 DEF Intact, Defined, Verdict, ExpectedDecision, Holding
  <2>5. CASE n = i
    <3>1. verdict'[n] = Verdict(candidate[n])
      BY <2>1, <2>2, <2>5
    <3>2. n \notin compared /\ decision[n] = "none"
      BY <1>0, <2>1, <2>5 DEF Intact
    <3> QED
      BY <1>0, <2>1, <2>3, <2>5, <3>1, <3>2 DEF Intact, Defined, Verdict
  <2> QED
    BY <2>4, <2>5
<1>6. ASSUME NEW i \in Sequences, CompareExperiment(i)
      PROVE  Intact(n)'
  <2>1. /\ UNCHANGED <<files, protocol, base, candidate, verdict, decision, failed>>
        /\ compared' = compared \union {i}
        /\ i \notin failed /\ verdict[i] = "CONTROLLED"
    BY <1>6 DEF CompareExperiment, MayCompare, PutComparison
  <2>2. LineageBefore(n)' = LineageBefore(n)
    BY <2>1 DEF LineageBefore, Accepted
  <2> QED
    BY <1>0, <2>1, <2>2 DEF Intact, Defined, Verdict, ExpectedDecision, Holding
<1>7. ASSUME NEW i \in Sequences, NEW kind \in Decisions, DecideExperiment(i, kind)
      PROVE  Intact(n)'
  <2>1. /\ UNCHANGED <<files, protocol, base, candidate, verdict, compared, failed>>
        /\ decision' = [decision EXCEPT ![i] = kind]
        /\ i \notin failed /\ i \in compared /\ decision[i] = "none"
        /\ Holding => kind = ExpectedDecision(candidate[i])
    BY <1>7 DEF DecideExperiment, MayDecide, PutDecision
  <2>2. decision \in [Sequences -> Decisions \union {"none"}]
    BY <1>0 DEF TypeOK
  <2>3. \A k \in Sequences : decision[k] # "none" => decision'[k] = decision[k]
    BY <2>1, <2>2
  <2>4. LineageBefore(n) \subseteq LineageBefore(n)'
    BY <2>1, <2>3 DEF LineageBefore, Accepted
  <2>5. CASE n # i
    <3>1. decision'[n] = decision[n]
      BY <2>1, <2>2, <2>5
    <3> QED
      BY <1>0, <2>1, <2>4, <3>1 DEF Intact, Defined, Verdict, ExpectedDecision, Holding
  <2>6. CASE n = i
    <3>1. decision'[n] = kind
      BY <2>1, <2>2, <2>6
    <3> QED
      BY <1>0, <2>1, <2>4, <2>6, <3>1 DEF Intact, Defined, Verdict, ExpectedDecision, Holding
  <2> QED
    BY <2>5, <2>6
<1>8. ASSUME NEW i \in Sequences, RecordExperimentFailure(i)
      PROVE  Intact(n)'
  <2>1. /\ UNCHANGED <<files, protocol, base, candidate, verdict, compared, decision>>
        /\ failed' = failed \union {i}
        /\ Defined(i) /\ candidate[i] = NoEvidence
        /\ verdict[i] = "none" /\ i \notin compared /\ decision[i] = "none"
    BY <1>8 DEF RecordExperimentFailure, MayFail, PutFailure
  <2>2. LineageBefore(n)' = LineageBefore(n)
    BY <2>1 DEF LineageBefore, Accepted
  <2> QED
    BY <1>0, <2>1, <2>2 DEF Intact, Defined, Verdict, ExpectedDecision, Holding
<1>9. ASSUME NEW outcome \in Outcomes, NEW selected \in Sequences \union {None},
             FreezeStudy(outcome, selected)
      PROVE  Intact(n)'
  <2>1. UNCHANGED <<files, protocol, base, candidate, verdict, compared, decision, failed>>
    BY <1>9 DEF FreezeStudy, PutFreeze
  <2>2. LineageBefore(n)' = LineageBefore(n)
    BY <2>1 DEF LineageBefore, Accepted
  <2> QED
    BY <1>0, <2>1, <2>2 DEF Intact, Defined, Verdict, ExpectedDecision, Holding
<1> QED
  BY <1>1, <1>2, <1>3, <1>4, <1>5, <1>6, <1>7, <1>8, <1>9 DEF Next

-----------------------------------------------------------------------------
(* Every step keeps the freeze acceptable: no operation is permitted after  *)
(* it, and freeze_study's own checks are those of the reader.               *)
LEMMA FreezeStep == LedgerInv /\ Next => FreezeIntact'
<1> SUFFICES ASSUME LedgerInv, Next PROVE FreezeIntact'
  OBVIOUS
<1>1. ASSUME NEW outcome \in Outcomes, NEW selected \in Sequences \union {None},
             FreezeStudy(outcome, selected)
      PROVE  FreezeIntact'
  <2>1. UNCHANGED <<files, protocol, base, candidate, verdict, compared, decision, failed>>
    BY <1>1 DEF FreezeStudy, PutFreeze
  <2>2. freeze'.outcome = outcome /\ freeze'.selected = selected /\ freeze'.decided = Decided
    BY <1>1 DEF FreezeStudy, PutFreeze
  <2>3. /\ \A i \in Sequences : Defined(i) => Terminal(i)
        /\ Holding => HoldingComplete /\ HoldingOutcome(outcome, selected)
        /\ outcome = "WINNER" => selected \in Accepted
    BY <1>1 DEF FreezeStudy, MayFreeze
  <2>4. /\ Decided' = Decided /\ Accepted' = Accepted /\ Holding' = Holding
        /\ HoldingComplete' = HoldingComplete
        /\ \A i \in Sequences : Defined(i)' = Defined(i) /\ Terminal(i)' = Terminal(i)
    BY <2>1 DEF Decided, Accepted, Holding, HoldingComplete, Defined, Terminal
  <2>5. HoldingOutcome(freeze.outcome, freeze.selected)'
          = HoldingOutcome(outcome, selected)
    BY <2>1, <2>2 DEF HoldingOutcome, Winner, EligibleArms
  <2> QED
    BY <2>2, <2>3, <2>4, <2>5 DEF FreezeIntact
<1>2. CASE \E outcome \in Outcomes, selected \in Sequences \union {None} :
             FreezeStudy(outcome, selected)
  BY <1>1, <1>2
<1>3. CASE ~ \E outcome \in Outcomes, selected \in Sequences \union {None} :
               FreezeStudy(outcome, selected)
  <2>1. freeze = NotFrozen /\ freeze' = freeze
    BY <1>3 DEF Next, CreateStudy, RunBaseline, DefineExperiment, RunExperiment,
       VerifyExperiment, CompareExperiment, DecideExperiment, RecordExperimentFailure,
       MayCreate, MayRunBaseline, MayDefine, MayRun, MayVerify, MayCompare, MayDecide,
       MayFail, Mutable, PutPlan, PutBaseline, PutDefinition, PutCandidate,
       PutVerification, PutComparison, PutDecision, PutFailure
  <2> QED
    BY <2>1 DEF FreezeIntact, NotFrozen
<1> QED
  BY <1>2, <1>3

(* Every step keeps plan and baseline first, the roster before the runs and *)
(* the one baseline of a holding-duration Study.                            *)
LEMMA RosterStep ==
  LedgerInv /\ Next => Rooted' /\ RosterFirst' /\ ArmsShareBaseline'
<1> SUFFICES ASSUME LedgerInv, Next
             PROVE  Rooted' /\ RosterFirst' /\ ArmsShareBaseline'
  OBVIOUS
<1> USE LedgerAssumption
<1>0. TypeOK /\ Rooted /\ RosterFirst /\ ArmsShareBaseline
  BY DEF LedgerInv
<1>1. CASE \E kind \in Protocols : CreateStudy(kind)
  <2>1. /\ \A i \in Sequences : base[i] = None /\ candidate[i] = NoEvidence
        /\ UNCHANGED <<base, candidate>> /\ files' = files \union {"plan"}
    BY <1>1 DEF CreateStudy, MayCreate, PutPlan, LedgerInv, AllIntact, Intact, Defined
  <2> QED
    BY <2>1 DEF Rooted, RosterFirst, ArmsShareBaseline, Defined
<1>2. CASE RunBaseline
  BY <1>0, <1>2 DEF RunBaseline, MayRunBaseline, Mutable, PutBaseline, Rooted,
     RosterFirst, ArmsShareBaseline, Defined, Holding
<1>3. ASSUME NEW i \in Sequences, NEW b \in Refs, DefineExperiment(i, b)
      PROVE  Rooted' /\ RosterFirst' /\ ArmsShareBaseline'
  <2>1. /\ UNCHANGED <<files, protocol, candidate>>
        /\ base' = [base EXCEPT ![i] = b]
        /\ ~Defined(i) /\ b \in Lineage /\ "baseline" \in files
    BY <1>3 DEF DefineExperiment, MayDefine, PutDefinition
  <2>2. base \in [Sequences -> Refs \union {None}]
    BY <1>0 DEF TypeOK
  <2>3. Holding => \A k \in Sequences : candidate[k] = NoEvidence
    BY <1>0, <2>1 DEF RosterFirst
  <2>4. \A k \in Sequences : decision[k] # "none" => candidate[k] # NoEvidence
    BY DEF LedgerInv, AllIntact, Intact
  <2>5. Holding => b = BaselineNode
    BY <2>1, <2>3, <2>4 DEF Lineage, LineageBefore, Accepted
  <2>6. \A k \in Sequences : base'[k] = IF k = i THEN b ELSE base[k]
    BY <2>1, <2>2
  <2> QED
    BY <1>0, <2>1, <2>3, <2>5, <2>6
       DEF Rooted, RosterFirst, ArmsShareBaseline, Defined, Holding
<1>4. ASSUME NEW i \in Sequences, NEW ev \in Evidence, RunExperiment(i, ev)
      PROVE  Rooted' /\ RosterFirst' /\ ArmsShareBaseline'
  BY <1>0, <1>4 DEF RunExperiment, MayRun, PutCandidate, Rooted, RosterFirst,
     ArmsShareBaseline, Defined, Holding
<1>5. CASE UNCHANGED <<files, protocol, base, candidate>>
  BY <1>0, <1>5 DEF Rooted, RosterFirst, ArmsShareBaseline, Defined, Holding
<1>6. \/ \E kind \in Protocols : CreateStudy(kind)
      \/ RunBaseline
      \/ \E i \in Sequences, b \in Refs : DefineExperiment(i, b)
      \/ \E i \in Sequences, ev \in Evidence : RunExperiment(i, ev)
      \/ UNCHANGED <<files, protocol, base, candidate>>
  BY DEF Next, VerifyExperiment, CompareExperiment, DecideExperiment,
     RecordExperimentFailure, FreezeStudy, PutVerification, PutComparison,
     PutDecision, PutFailure, PutFreeze
<1> QED
  BY <1>1, <1>2, <1>3, <1>4, <1>5, <1>6

-----------------------------------------------------------------------------
(* The invariant holds of every Study the operations can produce.           *)
THEOREM LedgerInvariant == Spec => []LedgerInv
<1>1. Init => LedgerInv
  BY InitLedger
<1>2. LedgerInv /\ [Next]_vars => LedgerInv'
  <2> SUFFICES ASSUME LedgerInv, [Next]_vars PROVE LedgerInv'
    OBVIOUS
  <2>1. CASE Next
    <3>1. TypeOK'
      BY <2>1, TypeStep DEF LedgerInv
    <3> QED
      BY <2>1, <3>1, IntactStep, FreezeStep, RosterStep DEF LedgerInv
  <2>2. CASE UNCHANGED vars
    BY <2>2 DEF vars, LedgerInv, TypeOK, Rooted, AllIntact, FreezeIntact, RosterFirst,
       ArmsShareBaseline, Intact, Defined, Holding, LineageBefore, Accepted, Verdict,
       ExpectedDecision, Terminal, Decided, EligibleArms, Winner, HoldingComplete,
       HoldingOutcome
  <2> QED
    BY <2>1, <2>2
<1> QED
  BY <1>1, <1>2, PTL DEF Spec

(* Whatever operations are accepted, in whatever order, the reader accepts  *)
(* the Study they leave: no legal sequence of calls makes it unreadable.    *)
THEOREM AlwaysReconstructs == Spec => []StudyReconstructs
<1>1. LedgerInv => StudyReconstructs
  BY DEF LedgerInv, Rooted, AllIntact, StudyReconstructs, Reconstructs
<1> QED
  BY <1>1, LedgerInvariant, PTL

(* No arm of a holding-duration Study builds on the result of another.      *)
THEOREM ArmsAlwaysShareBaseline == Spec => []ArmsShareBaseline
<1>1. LedgerInv => ArmsShareBaseline
  BY DEF LedgerInv
<1> QED
  BY <1>1, LedgerInvariant, PTL

(* A frozen holding-duration Study names the best eligible arm of the whole *)
(* roster, and names none only if none is eligible.                         *)
THEOREM WinnerAlwaysBest == Spec => []WinnerIsBest
<1>1. LedgerInv => WinnerIsBest
  <2> SUFFICES ASSUME LedgerInv, Holding, freeze # NotFrozen
               PROVE  /\ freeze.outcome = "NO_WINNER" =>
                           \A i \in Sequences : candidate[i] \notin Eligible
                      /\ freeze.outcome = "WINNER" =>
                           /\ candidate[freeze.selected] \in Eligible
                           /\ \A i \in Sequences : candidate[i] \in Eligible =>
                                /\ Score[candidate[i]] <= Score[candidate[freeze.selected]]
                                /\ Score[candidate[i]] = Score[candidate[freeze.selected]]
                                     => freeze.selected <= i
    BY DEF WinnerIsBest
  <2>1. HoldingOutcome(freeze.outcome, freeze.selected)
    BY DEF LedgerInv, FreezeIntact
  <2>2. freeze.outcome = "NO_WINNER" => EligibleArms = {}
    BY <2>1 DEF HoldingOutcome
  <2>3. freeze.outcome = "WINNER" => Winner(freeze.selected)
    BY <2>1 DEF HoldingOutcome
  <2>4. \A ev \in Eligible : Score[ev] \in Int
    BY LedgerAssumption
  <2> QED
    BY <2>2, <2>3, <2>4 DEF EligibleArms, Winner
<1> QED
  BY <1>1, LedgerInvariant, PTL

(* No operation replaces or removes an artifact, and none follows a freeze. *)
THEOREM AlwaysAppendOnly == Spec => EvidenceAppendOnly
<1> DEFINE Kept(i) ==
             /\ base[i] # None => base'[i] = base[i]
             /\ candidate[i] # NoEvidence => candidate'[i] = candidate[i]
             /\ verdict[i] # "none" => verdict'[i] = verdict[i]
             /\ decision[i] # "none" => decision'[i] = decision[i]
           Grown ==
             /\ files # {} => protocol' = protocol
             /\ files \subseteq files' /\ compared \subseteq compared'
             /\ failed \subseteq failed'
             /\ freeze # NotFrozen => vars' = vars
             /\ \A i \in Sequences : Kept(i)
<1>1. LedgerInv /\ [Next]_vars => [Grown]_vars
  <2> SUFFICES ASSUME LedgerInv, Next PROVE Grown
    OBVIOUS
  <2>1. freeze = NotFrozen
    BY DEF Next, CreateStudy, RunBaseline, DefineExperiment, RunExperiment,
       VerifyExperiment, CompareExperiment, DecideExperiment, RecordExperimentFailure,
       FreezeStudy, MayCreate, MayRunBaseline, MayDefine, MayRun, MayVerify,
       MayCompare, MayDecide, MayFail, MayFreeze, Mutable
  <2>2. /\ files # {} => protocol' = protocol
        /\ files \subseteq files' /\ compared \subseteq compared'
        /\ failed \subseteq failed'
    BY DEF Next, CreateStudy, RunBaseline, DefineExperiment, RunExperiment,
       VerifyExperiment, CompareExperiment, DecideExperiment, RecordExperimentFailure,
       FreezeStudy, MayCreate, PutPlan, PutBaseline, PutDefinition, PutCandidate,
       PutVerification, PutComparison, PutDecision, PutFailure, PutFreeze
  <2>3. ASSUME NEW n \in Sequences PROVE Kept(n)
    <3>0. TypeOK
      BY DEF LedgerInv
    <3>1. ASSUME NEW i \in Sequences, NEW b \in Refs, DefineExperiment(i, b)
          PROVE  Kept(n)
      BY <3>0, <3>1 DEF DefineExperiment, MayDefine, PutDefinition, Defined, TypeOK
    <3>2. ASSUME NEW i \in Sequences, NEW ev \in Evidence, RunExperiment(i, ev)
          PROVE  Kept(n)
      BY <3>0, <3>2 DEF RunExperiment, MayRun, PutCandidate, TypeOK
    <3>3. ASSUME NEW i \in Sequences, VerifyExperiment(i)
          PROVE  Kept(n)
      BY <3>0, <3>3 DEF VerifyExperiment, MayVerify, PutVerification, TypeOK
    <3>4. ASSUME NEW i \in Sequences, NEW kind \in Decisions, DecideExperiment(i, kind)
          PROVE  Kept(n)
      BY <3>0, <3>4 DEF DecideExperiment, MayDecide, PutDecision, TypeOK
    <3>5. CASE UNCHANGED <<base, candidate, verdict, decision>>
      BY <3>5
    <3>6. \/ \E i \in Sequences, b \in Refs : DefineExperiment(i, b)
          \/ \E i \in Sequences, ev \in Evidence : RunExperiment(i, ev)
          \/ \E i \in Sequences : VerifyExperiment(i)
          \/ \E i \in Sequences, kind \in Decisions : DecideExperiment(i, kind)
          \/ UNCHANGED <<base, candidate, verdict, decision>>
      BY DEF Next, CreateStudy, RunBaseline, CompareExperiment,
         RecordExperimentFailure, FreezeStudy, PutPlan, PutBaseline, PutComparison,
         PutFailure, PutFreeze
    <3> HIDE DEF Kept
    <3> QED
      BY <3>1, <3>2, <3>3, <3>4, <3>5, <3>6
  <2> QED
    BY <2>1, <2>2, <2>3
<1>2. EvidenceAppendOnly <=> [][Grown]_vars
  BY DEF EvidenceAppendOnly
<1> QED
  BY <1>1, <1>2, LedgerInvariant, PTL DEF Spec
=============================================================================
