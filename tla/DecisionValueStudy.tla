------------------------- MODULE DecisionValueStudy -------------------------
(***************************************************************************)
(* The decision-value development study, from its frozen protocol to the    *)
(* directory it leaves (evaluation: decision_value_dev_study.py,            *)
(* decision_value_plan.py, decision_value_feature_transform.py,             *)
(* decision_value_reachable_labels.py, paired_portfolio_action.py,          *)
(* paired_portfolio_label.py, decision_value_fit.py,                        *)
(* decision_value_margin.py, decision_value_ledger_oracle.py).              *)
(*                                                                          *)
(* A bar is its index and its time; what it holds is a version, and a fit is *)
(* the set of bar versions it read. A paired replay settles both arms or     *)
(* leaves evidence that may not encode; replays are external. Several        *)
(* processes may run towards one output directory and die at any step.       *)
(***************************************************************************)
EXTENDS Integers, Sequences, FiniteSets, FiniteSetsExt, SequencesExt

CONSTANTS ValueRuns,      \* processes
          ValueProtocols, \* protocols on offer, valid or not
          Feeds,          \* Dataset |-> [bar |-> time its sources became available]
          Heads,          \* candidate actions other than the joint HOLD
          MaxEvidence,    \* bound: incomplete pairs of one collection
          MaxValueDeaths, \* bound: processes killed
          MaxLinkFailures \* bound: failures of os.link

\* Every field is an integer, as DecisionValueBlockSpec and the protocol coerce it; the bars
\* of a Dataset are numbered from 0.
BlockSpecs ==
  [start : Int, step : Int, stop : Int, cutoff : Int, evalStart : Int, evalStop : Int]

ASSUME ValueAssumption ==
  /\ Heads # {} /\ IsFiniteSet(Heads) /\ MaxEvidence \in Nat
  /\ \A p \in ValueProtocols :
       /\ p.horizon \in Int /\ p.prefix \in Int /\ p.minFit \in Int
       /\ p.blocks \in Seq(BlockSpecs)
  /\ \A d \in DOMAIN Feeds :
       /\ IsFiniteSet(DOMAIN Feeds[d])
       /\ DOMAIN Feeds[d] = 0..(Cardinality(DOMAIN Feeds[d]) - 1)
       /\ \A i \in DOMAIN Feeds[d] : Feeds[d][i] \in Int
  /\ MaxValueDeaths \in Nat /\ MaxLinkFailures \in Nat

VARIABLES valueRun,     \* local state of each process
          valueRoot,    \* files at output_dir: name |-> document, or NoRoot
          valueDeaths, linkFailures

\* No directory: what it is has none of the names a directory can hold.
NoRoot == [n \in {"absent"} |-> "absent"]

valueVars == <<valueRun, valueRoot, valueDeaths, linkFailures>>

-----------------------------------------------------------------------------
(* The protocol.                                                            *)

\* DecisionValueStudyPlan.
PlanIsValid(p) ==
  /\ p.scope \in {"synthetic_only", "real_development"}
  /\ p.horizon >= 2 /\ p.reserve \in 1..(p.horizon - 1)
  /\ p.scope = "real_development" <=> p.authorized

\* DecisionValueBlockSpec.
BlockIsValid(b) ==
  /\ b.start >= 0 /\ b.step > 0 /\ b.start < b.stop
  /\ b.stop < b.cutoff /\ b.cutoff < b.evalStart /\ b.evalStart < b.evalStop

BlocksAreOrdered(p) ==
  \A i \in 1..(Len(p.blocks) - 1) :
    /\ p.blocks[i].evalStop <= p.blocks[i + 1].evalStart
    /\ p.blocks[i].cutoff < p.blocks[i + 1].cutoff

\* DecisionValueDevStudyProtocol.
ProtocolIsValid(p) ==
  /\ PlanIsValid(p) /\ Len(p.blocks) \in 1..3
  /\ \A i \in DOMAIN p.blocks :
       LET b == p.blocks[i] IN
       BlockIsValid(b) /\ b.stop + p.horizon < b.cutoff /\ b.step >= p.horizon
  /\ BlocksAreOrdered(p)
  /\ p.prefix >= 0 /\ p.minFit >= 0
  /\ p.grid # << >> /\ \A i \in 1..(Len(p.grid) - 1) : p.grid[i] < p.grid[i + 1]
  /\ 0 < p.fraction[1] /\ p.fraction[1] < p.fraction[2]

\* The preflight of run_decision_value_dev_study against the published Dataset.
ValuePreflight(p) ==
  /\ p.dataset \in DOMAIN Feeds
  /\ p.scope = "synthetic_only" /\ p.published
  /\ \A i \in DOMAIN p.blocks : p.blocks[i].evalStop \in DOMAIN Feeds[p.dataset]

-----------------------------------------------------------------------------
(* What the training of one block reads.                                    *)

\* Mutation: the window alone decides, late rows enter the statistics.
TransformBarsOfWindow(feed, first, last, asOf) == first..last

\* fit_train_feature_transform: the rows whose sources had arrived by as_of_index.
TransformBars(feed, first, last, asOf) == {i \in first..last : feed[i] <= asOf}

\* fit_ridge_forecast, as the study calls it: rows that had arrived before the cutoff.
RidgeBars(feed, cutoff) == {i \in DOMAIN feed : i < cutoff /\ feed[i] <= cutoff}

\* range(train_start, train_stop + 1, train_step).
BranchBars(b) == {i \in b.start..b.stop : (i - b.start) % b.step = 0}

PrefixStart(p, b, t) == Max({b.start, t - p.prefix})

\* causal_b0_reference_provider: too little history before the prefix skips the branch.
HasReference(p, b, t) == PrefixStart(p, b, t) - b.start >= Max({p.minFit, 2})

\* The teacher of one branch: its own normalization and its own Ridge forecast.
VintageBars(p, b, t) ==
  LET first == PrefixStart(p, b, t) IN
  TransformBars(Feeds[p.dataset], b.start, first - 1, first)
    \cup RidgeBars(Feeds[p.dataset], first)

LabelledBranches(p, b) == {t \in BranchBars(b) : HasReference(p, b, t)}

\* run_paired_portfolio_action: both arms replay prefix, intervention and horizon, and
\* a replay refuses a row whose marks had not arrived.
PairBars(p, b, t) == PrefixStart(p, b, t)..(t + p.horizon)
PairRuns(p, b, t) ==
  /\ t + p.horizon \in DOMAIN Feeds[p.dataset]
  /\ t < t + p.horizon - 1
  /\ \A i \in PairBars(p, b, t) : Feeds[p.dataset][i] <= i

\* build_synthetic_paired_label: when the outcome of the branch is known.
LabelMaturity(p, t) == Max({t + p.horizon} \cup {Feeds[p.dataset][i] : i \in (t + 1)..(t + p.horizon)})

\* build_synthetic_paired_label, and _validate_sample_pair_evidence: the teacher was
\* fitted strictly before the decision.
LabelAdmitted(p, b, t, cutoff) ==
  /\ Feeds[p.dataset][t] <= t
  /\ LabelMaturity(p, t) < cutoff
  /\ PrefixStart(p, b, t) < t

\* _collect_training and _fit_standardized_ridge: every state has every head, and three
\* rows a head.
RosterFits(times) == Cardinality(times) >= 3

-----------------------------------------------------------------------------
(* select_margin_multiplier.                                                *)

FitCount(p, times) ==
  ((p.fraction[2] - p.fraction[1]) * Cardinality(times)) \div p.fraction[2]

FitTimes(p, times) ==
  {t \in times : Cardinality({u \in times : u <= t}) <= FitCount(p, times)}

MarginCutoff(p, times)  == Max(FitTimes(p, times)) + p.horizon + 1
CalibrationBars(p, times) == (MarginCutoff(p, times) + 1)..(Max(times) + p.horizon)

MarginFits(p, b, times) ==
  /\ FitCount(p, times) \in 1..(Cardinality(times) - 1)
  /\ Cardinality(CalibrationBars(p, times)) >= 2
  /\ \A t \in FitTimes(p, times) : LabelAdmitted(p, b, t, MarginCutoff(p, times))
  /\ RosterFits(FitTimes(p, times))
  /\ \A i \in CalibrationBars(p, times) : Feeds[p.dataset][i] <= i

MarginBars(p, b, times) ==
  TransformBars(Feeds[p.dataset], b.start, MarginCutoff(p, times) - 1, MarginCutoff(p, times))
    \cup CalibrationBars(p, times)

-----------------------------------------------------------------------------
(* _train_block.                                                            *)

\* The collection runs to its end whatever the pairs do.
CollectionRuns(p, b) == \A t \in LabelledBranches(p, b) : PairRuns(p, b, t)

\* The checks behind it, when every pair settled.
TrainingSucceeds(p, b) ==
  LET times == LabelledBranches(p, b) IN
  /\ times # {}
  /\ \A t \in times : LabelAdmitted(p, b, t, b.cutoff)
  /\ RosterFits(times) /\ MarginFits(p, b, times)

\* Every row the returned models and margins depend on.
TrainingBars(p, b) ==
  LET times == LabelledBranches(p, b) IN
  TransformBars(Feeds[p.dataset], b.start, b.stop, b.cutoff)
    \cup RidgeBars(Feeds[p.dataset], b.cutoff)
    \cup (UNION {VintageBars(p, b, t) \cup PairBars(p, b, t) : t \in times})
    \cup MarginBars(p, b, times)

\* _perturb_after: the rows after the cutoff are replaced.
PerturbedAfter(p, last) == {i \in DOMAIN Feeds[p.dataset] : i > last}

\* The causality probe trains again on the perturbed view and compares the models.
ProbePasses(p, b) == TrainingBars(p, b) \cap PerturbedAfter(p, b.cutoff) = {}

-----------------------------------------------------------------------------
(* The replays of the evaluation and verify_paired_economic_ledger: one lot is  *)
(* bought at 4 and sold at 6 with a fee of 1 each, from an account of 20.        *)

Interval(i, c0, q0, e0, fill, price, cost, c1, q1, e1) ==
  [at |-> i, cashBefore |-> c0, lotsBefore |-> q0, equityBefore |-> e0, filled |-> fill,
   price |-> price, cost |-> cost, cashAfter |-> c1, lotsAfter |-> q1, equityAfter |-> e1]

OpeningCash == 20
ClosingMark == <<5, 6>>
BuyLot  == Interval(0, 20, 0, 20, 1, 4, 1, 15, 1, 20)
SellLot == Interval(1, 15, 1, 20, -1, 6, 1, 20, 0, 20)

\* What a replay may hand over: sound, a fee that never left the account, a fill that
\* never reached the position, an interval lost, a position left open.
Ledgers ==
  {<<BuyLot, SellLot>>,
   <<BuyLot, Interval(1, 15, 1, 20, -1, 6, 1, 21, 0, 21)>>,
   <<[BuyLot EXCEPT !.lotsAfter = 0], [SellLot EXCEPT !.lotsBefore = 0]>>,
   <<SellLot>>,
   <<BuyLot, Interval(1, 15, 1, 20, 0, 6, 0, 15, 1, 21)>>}

\* One interval: it starts where the last one ended and follows from its fills and costs.
IntervalReconciles(ledger, i) ==
  LET iv == ledger[i] IN
  /\ iv.at = i - 1
  /\ IF i = 1 THEN iv.cashBefore = OpeningCash /\ iv.lotsBefore = 0 /\ iv.equityBefore = OpeningCash
     ELSE /\ iv.cashBefore = ledger[i - 1].cashAfter
          /\ iv.lotsBefore = ledger[i - 1].lotsAfter
          /\ iv.equityBefore = ledger[i - 1].equityAfter
  /\ iv.cost >= 0
  /\ iv.cashAfter = iv.cashBefore - iv.filled * iv.price - iv.cost
  /\ iv.lotsAfter = iv.lotsBefore + iv.filled
  /\ iv.equityAfter = iv.cashAfter + iv.lotsAfter * ClosingMark[i]

LedgerReconciles(ledger) ==
  /\ Len(ledger) = Len(ClosingMark)
  /\ \A i \in DOMAIN ledger : IntervalReconciles(ledger, i)
  /\ Last(ledger).lotsAfter = 0

\* What a block of the evaluation leaves: the ledgers of its arms, whether a drawdown
\* reached a fifth, and what the best head did against the baselines.
BlockOutcomes ==
  [ledger : Ledgers, deep : {FALSE}, gain : {"all"}]
    \cup {[ledger |-> <<BuyLot, SellLot>>, deep |-> g = "none", gain |-> g] : g \in {"some", "none"}}

BlockInvalid(p, k, outcome) ==
  \/ ~ProbePasses(p, p.blocks[k]) \/ ~LedgerReconciles(outcome.ledger) \/ outcome.deep

\* The verdict of the development rule, and what a synthetic study may report of it.
DevelopmentVerdict(p, outcomes) ==
  IF \E k \in DOMAIN outcomes : BlockInvalid(p, k, outcomes[k]) THEN "INVALID"
  ELSE IF \A k \in DOMAIN outcomes : outcomes[k].gain = "all" THEN "DEVELOPMENT_IMPROVED"
  ELSE IF \E k \in DOMAIN outcomes : outcomes[k].gain # "none" THEN "INCONCLUSIVE"
  ELSE "NO_IMPROVEMENT"

ReportedVerdict(p, outcomes) ==
  IF DevelopmentVerdict(p, outcomes) = "INVALID" THEN "INVALID" ELSE "SOFTWARE_ONLY"

-----------------------------------------------------------------------------
(* The failure receipt.                                                     *)

Marker == "unvalidated_source_record"

\* The evidence of an incomplete pair: what its decimals hold, whether its fields are
\* those of the schema, and its reason codes; one of them names the marker itself.
EvidenceOf(d, s, r) == [decimal |-> d, shaped |-> s, reasons |-> r]
PairEvidence ==
  {EvidenceOf("finite", TRUE, <<"not_flat">>), EvidenceOf("nan", TRUE, <<"insolvent">>),
   EvidenceOf("oversized", FALSE, <<"not_flat", Marker>>)}

\* _decimal_status and _receipt_decimal: what cannot be written becomes a sentinel.
ReceiptDecimal(d) == IF d = "finite" THEN "finite" ELSE "sentinel"

\* _normalise_pair_mapping.
NormalisedPair(e) ==
  [decimal |-> ReceiptDecimal(e.decimal), shaped |-> e.shaped, reasons |-> e.reasons,
   source |-> FALSE, admissible |-> FALSE]

\* _validate_incomplete_endpoint and _require_finite_decimal.
EndpointIsValid(r, sentinels) ==
  r.shaped /\ (r.decimal = "finite" \/ (sentinels /\ r.decimal = "sentinel"))

\* _validate_incomplete_pair_record.
PairRecordIsValid(r, sentinels) ==
  /\ ~r.admissible
  /\ r.reasons # << >>
  /\ r.source => sentinels
  /\ r.source <=> Head(r.reasons) = Marker
  /\ Marker \notin ToSet(Tail(r.reasons))
  /\ EndpointIsValid(r, sentinels)

\* _salvaged_reasons.
SalvagedReasons(e) == SelectSeq(e.reasons, LAMBDA x : x # Marker)

\* _quarantined_pair: a placeholder that carries the source record as text.
QuarantinedPair(e) ==
  [decimal |-> "sentinel", shaped |-> TRUE, reasons |-> <<Marker>> \o SalvagedReasons(e),
   source |-> TRUE, admissible |-> FALSE]

\* _receipt_pair.
ReceiptPair(e) ==
  IF PairRecordIsValid(NormalisedPair(e), TRUE) THEN NormalisedPair(e) ELSE QuarantinedPair(e)

\* The body of the receipt; the view is identified only when it is the perturbed one.
ReceiptOf(r, pairs) ==
  [kind |-> "receipt", by |-> r, schema |-> 3, pairs |-> pairs, count |-> Len(pairs),
   phase |-> valueRun[r].phase, view |-> valueRun[r].phase = "causality_probe",
   fitAdmitted |-> FALSE]

\* _decode_incomplete_receipt.
ReceiptDecodes(doc) ==
  /\ doc.schema \in {2, 3} /\ ~doc.fitAdmitted
  /\ doc.view <=> doc.phase = "causality_probe"
  /\ doc.pairs # << >> /\ doc.count = Len(doc.pairs)
  /\ \A i \in DOMAIN doc.pairs : PairRecordIsValid(doc.pairs[i], doc.schema = 3)

\* _encode_incomplete_receipt: pair by pair, else every pair quarantined; each attempt
\* is read back with the loader's own decoder.
Encodings(r) ==
  LET e == valueRun[r].evidence IN
  <<ReceiptOf(r, [i \in DOMAIN e |-> ReceiptPair(e[i])]),
    ReceiptOf(r, [i \in DOMAIN e |-> QuarantinedPair(e[i])])>>

Encodable(r) == \E i \in 1..2 : ReceiptDecodes(Encodings(r)[i])

EncodedReceipt(r) == IF ReceiptDecodes(Encodings(r)[1]) THEN Encodings(r)[1] ELSE Encodings(r)[2]

\* load_incomplete_pair_attempt: the receipt and nothing else in the directory, within
\* the byte budget of the caller; a larger budget needs the pinned digest.
LoadsReceipt(files, budget, pinned) ==
  /\ budget > 1 => pinned
  /\ DOMAIN files = {"receipt"}
  /\ Len(files["receipt"].pairs) <= budget
  /\ ReceiptDecodes(files["receipt"])

-----------------------------------------------------------------------------
(* The run.                                                                 *)

IdleValueRun == [stage |-> "idle", protocol |-> NoRoot, block |-> 0, phase |-> "training",
                 evidence |-> << >>, outcomes |-> << >>]

ValueInit ==
  /\ valueRun = [r \in ValueRuns |-> IdleValueRun]
  /\ valueRoot = NoRoot
  /\ valueDeaths = 0 /\ linkFailures = 0

EndedRun(stage) == [IdleValueRun EXCEPT !.stage = stage]
ValueAt(r, stage)  == valueRun[r].stage = stage
FilesKept == UNCHANGED <<valueRoot, valueDeaths, linkFailures>>

\* The construction of the protocol and the checks before anything runs.
StartStudy(r, p) ==
  /\ ValueAt(r, "idle")
  /\ valueRun' = [valueRun EXCEPT ![r] =
       IF ProtocolIsValid(p) /\ ValuePreflight(p) /\ valueRoot = NoRoot
       THEN [@ EXCEPT !.stage = "train", !.protocol = p, !.block = 1]
       ELSE EndedRun("failed")]
  /\ FilesKept

RunBlock(r) == valueRun[r].protocol.blocks[valueRun[r].block]

\* _train_block for the study: every pair is replayed before the first incomplete one
\* is reported, and none of them is dropped.
TrainBlock(r) ==
  LET p == valueRun[r].protocol
      b == RunBlock(r)
      pairs == Cardinality(LabelledBranches(p, b)) * Cardinality(Heads)
  IN
  /\ ValueAt(r, "train")
  /\ \E n \in 0..Min({MaxEvidence, pairs}) : \E e \in [1..n -> PairEvidence] :
       valueRun' = [valueRun EXCEPT ![r] =
         IF ~CollectionRuns(p, b) THEN EndedRun("failed")
         ELSE IF n > 0 THEN [@ EXCEPT !.stage = "abort", !.evidence = e, !.outcomes = << >>]
         ELSE IF ~TrainingSucceeds(p, b) THEN EndedRun("failed")
         ELSE [@ EXCEPT !.stage = "probe"]]
  /\ FilesKept

\* The second training: rows after the cutoff may turn a settled pair into another one.
ProbeBlock(r) ==
  LET p == valueRun[r].protocol
      reads == UNION {PairBars(p, RunBlock(r), t) : t \in LabelledBranches(p, RunBlock(r))}
      touched == reads \cap PerturbedAfter(p, RunBlock(r).cutoff) # {}
  IN
  /\ ValueAt(r, "probe")
  /\ \E n \in 0..(IF touched THEN 1 ELSE 0) : \E e \in [1..n -> PairEvidence] :
       valueRun' = [valueRun EXCEPT ![r] =
         IF n > 0 THEN [@ EXCEPT !.stage = "abort", !.phase = "causality_probe", !.evidence = e,
                                  !.outcomes = << >>]
         ELSE [@ EXCEPT !.stage = "evaluate"]]
  /\ FilesKept

\* The replays of every arm in every scenario; then the next block, or the verdict.
EvaluateBlock(r) ==
  LET run  == valueRun[r]
      more == run.block < Len(run.protocol.blocks)
  IN
  /\ ValueAt(r, "evaluate")
  /\ \E o \in BlockOutcomes :
       valueRun' = [valueRun EXCEPT ![r] =
         [run EXCEPT !.outcomes = Append(run.outcomes, o),
                     !.block = IF more THEN run.block + 1 ELSE run.block,
                     !.stage = IF more THEN "train" ELSE "persist"]]
  /\ FilesKept

ResultOf(r) ==
  [kind |-> "result", by |-> r, protocol |-> valueRun[r].protocol, blocks |-> valueRun[r].outcomes,
   verdict |-> ReportedVerdict(valueRun[r].protocol, valueRun[r].outcomes)]

\* out_path.mkdir(exist_ok=False) for the result, and the claim of
\* _persist_incomplete_pair_attempt for an encoded receipt.
ClaimRoot(r) ==
  LET receipt == ValueAt(r, "abort") IN
  /\ ValueAt(r, "persist") \/ receipt
  /\ IF valueRoot = NoRoot /\ (receipt => Encodable(r))
     THEN /\ valueRoot' = << >>
          /\ valueRun' = [valueRun EXCEPT ![r].stage = IF receipt THEN "link" ELSE "protocol"]
     ELSE /\ valueRun' = [valueRun EXCEPT ![r] = EndedRun("failed")]
          /\ UNCHANGED valueRoot
  /\ UNCHANGED <<valueDeaths, linkFailures>>

AddFile(name, doc) ==
  valueRoot' = [n \in DOMAIN valueRoot \cup {name} |-> IF n = name THEN doc ELSE valueRoot[n]]

\* protocol.json, result.json and summary.md, one after the other.
WriteValueFile(r) ==
  /\ valueRun[r].stage \in {"protocol", "result", "summary"}
  /\ AddFile(valueRun[r].stage, ResultOf(r))
  /\ valueRun' = [valueRun EXCEPT ![r].stage =
       CASE @ = "protocol" -> "result" [] @ = "result" -> "summary" [] @ = "summary" -> "published"]
  /\ UNCHANGED <<valueDeaths, linkFailures>>

\* os.link of the staged receipt; IncompletePairedLabelsError is raised with its digest.
LinkReceipt(r) ==
  /\ ValueAt(r, "link")
  /\ AddFile("receipt", EncodedReceipt(r))
  /\ valueRun' = [valueRun EXCEPT ![r].stage = "blocked"]
  /\ UNCHANGED <<valueDeaths, linkFailures>>

\* A failed link gives the claimed directory back when it is still empty.
LinkFails(r) ==
  /\ ValueAt(r, "link") /\ linkFailures < MaxLinkFailures
  /\ valueRoot' = IF valueRoot = << >> THEN NoRoot ELSE valueRoot
  /\ valueRun' = [valueRun EXCEPT ![r] = EndedRun("failed")]
  /\ linkFailures' = linkFailures + 1 /\ UNCHANGED valueDeaths

KillValueRun(r) ==
  /\ valueRun[r].stage \notin {"idle", "failed", "published", "blocked", "dead"}
  /\ valueDeaths < MaxValueDeaths
  /\ valueRun' = [valueRun EXCEPT ![r] = EndedRun("dead")]
  /\ valueDeaths' = valueDeaths + 1 /\ UNCHANGED <<valueRoot, linkFailures>>

ValueNext ==
  \E r \in ValueRuns :
    \/ \E p \in ValueProtocols : StartStudy(r, p)
    \/ TrainBlock(r) \/ ProbeBlock(r) \/ EvaluateBlock(r)
    \/ ClaimRoot(r) \/ WriteValueFile(r) \/ LinkReceipt(r) \/ LinkFails(r)
    \/ KillValueRun(r)

ValueSpec == ValueInit /\ [][ValueNext]_valueVars

-----------------------------------------------------------------------------
\* Nothing of a block that was trained had arrived after its cutoff, no teacher knew a row
\* that arrived after the start of its prefix, and the margin was calibrated on rows after
\* those its model was fitted on.
TrainedOnThePast(p, b) ==
  LET feed  == Feeds[p.dataset]
      times == LabelledBranches(p, b)
  IN  /\ \A i \in TrainingBars(p, b) : i <= b.cutoff /\ feed[i] <= b.cutoff
      /\ \A t \in times : \A i \in VintageBars(p, b, t) : feed[i] <= PrefixStart(p, b, t)
      /\ \A t \in FitTimes(p, times) : \A i \in CalibrationBars(p, times) : LabelMaturity(p, t) < i

\* The cash at the end is the opening cash less what the fills of both intervals paid, and
\* nothing is held.
MoneyIsAccountedFor(ledger) ==
  LET Paid(i) == ledger[i].filled * ledger[i].price + ledger[i].cost IN
  /\ Last(ledger).cashAfter = OpeningCash - (Paid(1) + Paid(2))
  /\ ledger[1].filled + ledger[2].filled = 0

(* The study's directory is one attempt, honestly reported. It holds nothing, one            *)
(* process's files in the order they are written, or one receipt. A result is there only     *)
(* when no pair of any block was incomplete, says SOFTWARE_ONLY only of ledgers whose final   *)
(* cash is the opening cash less what the fills paid, and was trained on the past. A receipt  *)
(* is read back by the loader with one inadmissible record for each incomplete pair, and      *)
(* always tells of the training: for an accepted protocol the probe has nothing to find       *)
(* (decision_value_dev_study.py run_decision_value_dev_study, _persist_incomplete_pair_attempt). *)
StudyRootIsOneAttempt ==
  valueRoot # NoRoot =>
    /\ DOMAIN valueRoot \in {{}, {"protocol"}, {"protocol", "result"},
                             {"protocol", "result", "summary"}, {"receipt"}}
    /\ "receipt" \in DOMAIN valueRoot =>
         LET doc == valueRoot["receipt"]
             run == valueRun[doc.by]
         IN  /\ run.stage = "blocked" /\ doc.phase = "training"
             /\ LoadsReceipt(valueRoot, MaxEvidence, TRUE)
             /\ doc.count = Len(run.evidence) /\ doc.count > 0
    /\ "protocol" \in DOMAIN valueRoot =>
         LET doc == valueRoot["protocol"]
             p   == doc.protocol
         IN  /\ \A name \in DOMAIN valueRoot : valueRoot[name] = doc
             /\ valueRun[doc.by].evidence = << >> /\ Len(doc.blocks) = Len(p.blocks)
             /\ doc.verdict \in {"INVALID", "SOFTWARE_ONLY"}
             /\ doc.verdict = "SOFTWARE_ONLY"
                  => \A k \in DOMAIN doc.blocks : MoneyIsAccountedFor(doc.blocks[k].ledger)
             /\ \A k \in DOMAIN p.blocks : TrainedOnThePast(p, p.blocks[k])
=============================================================================
