------------------------- MODULE CheckpointPipeline -------------------------
(***************************************************************************)
(* The PPO feature study in restartable stages: `prepare` freezes the       *)
(* protocol, an `arm` run fits one factor, replays its cells and assembles  *)
(* the arm, `finalize` publishes the comparison                             *)
(* (evaluation/ppo_feature_checkpoint.py). Each stage is one workflow run   *)
(* of tools/ppo_checkpoint_actions.py, which merges the artifacts of        *)
(* earlier runs, executes the stage's commands as killable children and     *)
(* leaves a receipt; the workflow uploads tree and receipt however the run  *)
(* ended, so the tree of a failed or cancelled run can be imported too.     *)
(*                                                                          *)
(* A tree is a function from paths to contents, 0 for an absent path. A fit *)
(* holds the number of its training run, a cell or an arm the number of the *)
(* fit it was made from.                                                    *)
(***************************************************************************)
EXTENDS Integers, Sequences, FiniteSets

CONSTANTS Factors,      \* the preregistered feature factors
          Cells,        \* scenario and symbol pairs of one factor
          MaxFits,      \* bound: training runs
          MaxUploads,   \* bound: workflow runs that left an artifact
          MaxHeads,     \* bound: commits of the pull request
          MaxReviews    \* bound: review records posted

ASSUME PipelineAssumption ==
  /\ IsFiniteSet(Cells) /\ MaxHeads \in Nat \ {0}
  /\ MaxFits \in Nat /\ MaxUploads \in Nat /\ MaxReviews \in Nat

Paths == {<<"protocol">>, <<"comparison">>}
           \cup {<<"fit", f>> : f \in Factors}
           \cup {<<"cell", f, c>> : f \in Factors, c \in Cells}
           \cup {<<"arm", f>> : f \in Factors}

EmptyTree == [p \in Paths |-> 0]
NoRun     == [phase |-> "none"]
NoFactor  == "none"

VARIABLES
  pullHead,   \* the commit the pull request points at
  reviews,    \* the review records posted: which protocol, which prepare artifact
  uploads,    \* the artifacts of earlier runs, in order
  stageRun,   \* the workflow run under way, or NoRun
  fitsMade    \* training runs so far

pipelineVars == <<pullHead, reviews, uploads, stageRun, fitsMade>>

Content  == 0..(MaxFits + MaxHeads)
Tree     == [Paths -> Content]
Receipts == [stage : {"prepare", "arm", "finalize"},
             status : {"started", "failed", "succeeded"},
             protocol : 0..MaxHeads, review : 0..MaxReviews, code : 1..MaxHeads]

\* Types: what an artifact, a review record and a run under way hold.
PipelineTypeOK ==
  /\ pullHead \in 1..MaxHeads
  /\ reviews \in Seq([protocol : 1..MaxHeads, prepare : 1..MaxUploads])
  /\ uploads \in Seq([tree : Tree, receipt : Receipts])
  /\ fitsMade \in 0..MaxFits
  /\ \/ stageRun = NoRun
     \/ stageRun \in [phase : {"preflight", "ready", "exited", "over"},
                      factor : Factors \cup {NoFactor}, tree : Tree, done : Nat,
                      receipt : Receipts]

PipelineInit ==
  /\ pullHead = 1
  /\ reviews = <<>>
  /\ uploads = <<>>
  /\ stageRun = NoRun
  /\ fitsMade = 0

-----------------------------------------------------------------------------
(* The checkpoint study's own rules.                                        *)

\* _validate_fit_directory and _read_cell_directory: the fit is complete under
\* the current protocol and every required cell names that fit's digest.
FitValid(t, f)     == t[<<"fit", f>>] # 0
CellValid(t, f, c) == t[<<"cell", f, c>>] = t[<<"fit", f>>]

\* _load_required_cells: the whole roster, each cell valid.
RosterComplete(t, f) == FitValid(t, f) /\ \A c \in Cells : CellValid(t, f, c)

\* _validate_arm_directory: the arm is the one its fit and cells rebuild.
ArmValid(t, f) == RosterComplete(t, f) /\ t[<<"arm", f>>] = t[<<"fit", f>>]

\* commands_for_stage: what a run of the stage executes, in order.
CellOrder == CHOOSE s \in [1..Cardinality(Cells) -> Cells] :
               \A i, j \in DOMAIN s : s[i] = s[j] => i = j

CommandsForStage(r) ==
  CASE r.receipt.stage = "prepare"  -> << <<"protocol">> >>
    [] r.receipt.stage = "finalize" -> << <<"comparison">> >>
    [] OTHER -> << <<"fit", r.factor>> >>
                  \o [i \in DOMAIN CellOrder |-> <<"cell", r.factor, CellOrder[i]>>]
                  \o << <<"arm", r.factor>> >>

\* Mutation: an existing fit is trained again and replaced.
FitCheckpointAgain(r, p) ==
  /\ fitsMade < MaxFits
  /\ fitsMade' = fitsMade + 1
  /\ stageRun' = [r EXCEPT !.phase = "exited", !.tree = [@ EXCEPT ![p] = fitsMade + 1]]

\* fit_checkpoint: an existing fit is validated and kept, otherwise one training
\* run is staged, verified and published by one rename.
FitCheckpoint(r, p) ==
  /\ IF r.tree[p] # 0
       THEN /\ UNCHANGED fitsMade
            /\ stageRun' = [r EXCEPT !.phase = "exited"]
       ELSE /\ fitsMade < MaxFits
            /\ fitsMade' = fitsMade + 1
            /\ stageRun' = [r EXCEPT !.phase = "exited",
                                     !.tree = [@ EXCEPT ![p] = fitsMade + 1]]

\* replay_cell: replays the fit in the tree unless a valid cell is there.
ReplayCell(r, p) ==
  LET t == r.tree IN
  /\ FitValid(t, p[2])
  /\ t[p] # 0 => CellValid(t, p[2], p[3])
  /\ stageRun' = [r EXCEPT !.phase = "exited",
                           !.tree = [t EXCEPT ![p] = t[<<"fit", p[2]>>]]]
  /\ UNCHANGED fitsMade

\* assemble_arm: from the fit and the complete roster of cells.
AssembleArm(r, p) ==
  LET t == r.tree IN
  /\ RosterComplete(t, p[2])
  /\ t[p] # 0 => ArmValid(t, p[2])
  /\ stageRun' = [r EXCEPT !.phase = "exited",
                           !.tree = [t EXCEPT ![p] = t[<<"fit", p[2]>>]]]
  /\ UNCHANGED fitsMade

\* finalize_checkpoint_study: every arm of every factor rebuilds.
FinalizeStudy(r, p) ==
  /\ \A f \in Factors : ArmValid(r.tree, f)
  /\ stageRun' = [r EXCEPT !.phase = "exited", !.tree = [@ EXCEPT ![p] = 1]]
  /\ UNCHANGED fitsMade

\* prepare_checkpoint_study: the protocol of the checked-out code.
PrepareStudy(r, p) ==
  /\ r.tree = EmptyTree
  /\ stageRun' = [r EXCEPT !.phase = "exited",
                           !.tree = [@ EXCEPT ![p] = r.receipt.code]]
  /\ UNCHANGED fitsMade

-----------------------------------------------------------------------------
(* One workflow run.                                                        *)

\* Mutation: a path that is already there is skipped without a look at its bytes.
AgreeUnchecked(trees) == TRUE

\* _file_bytes_equal: a path that two trees hold has the same bytes in both.
Agree(trees) ==
  \A i, j \in DOMAIN trees, p \in Paths :
    trees[i][p] # 0 /\ trees[j][p] # 0 => trees[i][p] = trees[j][p]

\* merge_checkpoint_trees, tree after tree: the union; what some tree holds is taken from it.
MergeCheckpointTrees(trees) ==
  [p \in Paths |->
     LET holders == {i \in DOMAIN trees : trees[i][p] # 0}
     IN  IF holders = {} THEN 0 ELSE trees[CHOOSE i \in holders : TRUE][p]]

\* The trees of the references the operator gives.
TreesOf(references) == [i \in DOMAIN references |-> uploads[references[i]].tree]

\* validate_artifact_metadata and _download_and_extract_one: an artifact without
\* a checkpoint tree cannot be imported.
Importable(a) == uploads[a].tree # EmptyTree

\* Mutation: the receipt's review is not compared with this run's.
ValidatePriorReceiptAnyReview(receipt, code, protocol, review) ==
  /\ receipt.code = code
  /\ receipt.protocol = protocol

\* validate_prior_receipt, both passes: same code, same protocol and, past
\* prepare, the same review record.
ValidatePriorReceipt(receipt, code, protocol, review) ==
  /\ receipt.code = code
  /\ receipt.protocol = protocol
  /\ receipt.stage # "prepare" => receipt.review = review

\* validate_operator_approval and validate_review_evidence_comment: the posted
\* record binds this protocol, this prepare artifact and the pull's head.
ValidateReview(review, protocol, prepare) ==
  /\ review \in DOMAIN reviews
  /\ reviews[review] = [protocol |-> protocol, prepare |-> prepare]
  /\ pullHead = protocol

\* execute_from_environment up to the first receipt that carries an identity.
StartStage(stage, f) ==
  /\ stageRun = NoRun
  /\ stageRun' = [phase |-> IF stage = "prepare" THEN "ready" ELSE "preflight",
                  factor |-> f, tree |-> EmptyTree, done |-> 0,
                  receipt |-> [stage |-> stage, status |-> "started",
                               protocol |-> 0, review |-> 0, code |-> pullHead]]
  /\ UNCHANGED <<pullHead, reviews, uploads, fitsMade>>

\* _restore_checkpoint_inputs: download, merge, validate; the receipt records
\* protocol and review before the first command.
RestoreInputs(references, review) ==
  /\ stageRun.phase = "preflight"
  /\ LET code     == stageRun.receipt.code
         tree     == MergeCheckpointTrees(TreesOf(references))
         prepared == {i \in DOMAIN references :
                        LET rc == uploads[references[i]].receipt
                        IN  rc.stage = "prepare" /\ rc.status = "succeeded"}
     IN  /\ \A i \in DOMAIN references : Importable(references[i])
         /\ Agree(TreesOf(references))
         /\ tree[<<"protocol">>] = code
         /\ Cardinality(prepared) = 1
         /\ \A i \in prepared : ValidateReview(review, code, references[i])
         /\ \A i \in DOMAIN references :
              ValidatePriorReceipt(uploads[references[i]].receipt, code, code, review)
         /\ stageRun' = [stageRun EXCEPT
              !.phase = "ready", !.tree = tree,
              !.receipt = [@ EXCEPT !.protocol = code, !.review = review]]
  /\ UNCHANGED <<pullHead, reviews, uploads, fitsMade>>

\* run_process_group: the child does the next command's work...
RunChild ==
  /\ stageRun.phase = "ready"
  /\ stageRun.done < Len(CommandsForStage(stageRun))
  /\ LET p == CommandsForStage(stageRun)[stageRun.done + 1]
     IN  \/ p[1] = "protocol"   /\ PrepareStudy(stageRun, p)
         \/ p[1] = "fit"        /\ FitCheckpoint(stageRun, p)
         \/ p[1] = "cell"       /\ ReplayCell(stageRun, p)
         \/ p[1] = "arm"        /\ AssembleArm(stageRun, p)
         \/ p[1] = "comparison" /\ FinalizeStudy(stageRun, p)
  /\ UNCHANGED <<pullHead, reviews, uploads>>

\* ... and its exit status 0 is recorded before the next one starts.
ChildSucceeded ==
  /\ stageRun.phase = "exited"
  /\ stageRun' = [stageRun EXCEPT !.phase = "ready", !.done = @ + 1]
  /\ UNCHANGED <<pullHead, reviews, uploads, fitsMade>>

\* Mutation: the loop over the commands ends at the first child that is stopped.
StageCompleteEarly(r) == r.done > 0

\* run_stage_commands has gone through every command.
StageComplete(r) == r.done = Len(CommandsForStage(r))

\* The end of execute_from_environment: the protocol is validated once more.
StageSucceeds ==
  /\ stageRun.phase = "ready"
  /\ StageComplete(stageRun)
  /\ stageRun.tree[<<"protocol">>] = stageRun.receipt.code
  /\ stageRun' = [stageRun EXCEPT !.phase = "over",
       !.receipt = [@ EXCEPT !.status = "succeeded", !.protocol = stageRun.receipt.code]]
  /\ UNCHANGED <<pullHead, reviews, uploads, fitsMade>>

\* An error, the deadline, low memory or a child that will not die; also between
\* a child's publication and the receipt that would record it.
StageCommandFails ==
  /\ stageRun.phase \in {"preflight", "ready", "exited"}
  /\ stageRun' = [stageRun EXCEPT !.phase = "over",
                                  !.receipt = [@ EXCEPT !.status = "failed"]]
  /\ UNCHANGED <<pullHead, reviews, uploads, fitsMade>>

\* The job is cancelled: the last receipt written stays as it is.
RunCancelled ==
  /\ stageRun.phase \in {"ready", "exited"}
  /\ stageRun' = [stageRun EXCEPT !.phase = "over"]
  /\ UNCHANGED <<pullHead, reviews, uploads, fitsMade>>

\* The workflow uploads checkpoint/ and receipt.json always; a run that never
\* made a tree leaves nothing another run could import.
Upload ==
  /\ stageRun.phase = "over"
  /\ Len(uploads) < MaxUploads
  /\ uploads' = IF stageRun.tree = EmptyTree THEN uploads
                ELSE Append(uploads, [tree |-> stageRun.tree,
                                      receipt |-> stageRun.receipt])
  /\ stageRun' = NoRun
  /\ UNCHANGED <<pullHead, reviews, fitsMade>>

-----------------------------------------------------------------------------
(* People: a commit is pushed, a reviewer posts a record.                   *)

PushCommit ==
  /\ pullHead < MaxHeads
  /\ pullHead' = pullHead + 1
  /\ UNCHANGED <<reviews, uploads, stageRun, fitsMade>>

PostReview(a) ==
  /\ Len(reviews) < MaxReviews
  /\ uploads[a].receipt.stage = "prepare"
  /\ uploads[a].receipt.status = "succeeded"
  /\ reviews' = Append(reviews, [protocol |-> uploads[a].receipt.protocol,
                                 prepare |-> a])
  /\ UNCHANGED <<pullHead, uploads, stageRun, fitsMade>>

\* References the operator may pass: distinct, at most as many as exist.
References ==
  {s \in UNION {[1..n -> 1..Len(uploads)] : n \in 1..Len(uploads)} :
     \A i, j \in DOMAIN s : s[i] = s[j] => i = j}

PipelineNext ==
  \/ PushCommit
  \/ \E a \in 1..Len(uploads) : PostReview(a)
  \/ \E stage \in {"prepare", "finalize"} :
       StartStage(stage, NoFactor)
  \/ \E f \in Factors : StartStage("arm", f)
  \/ \E s \in References, w \in 1..Len(reviews) : RestoreInputs(s, w)
  \/ RunChild \/ ChildSucceeded \/ StageSucceeds
  \/ StageCommandFails \/ RunCancelled \/ Upload

PipelineSpec == PipelineInit /\ [][PipelineNext]_pipelineVars

-----------------------------------------------------------------------------
\* The artifacts so far and the one the run under way would leave.
Artifacts ==
  {uploads[a] : a \in 1..Len(uploads)} \cup
  (IF stageRun = NoRun THEN {}
   ELSE {[tree |-> stageRun.tree, receipt |-> stageRun.receipt]})

\* However runs fail, are cancelled and are merged again, a tree never mixes two
\* training runs of one factor: every cell and arm in it was made from the fit
\* beside it.
EvidenceNamesItsFit ==
  \A a \in Artifacts : \A f \in Factors :
    /\ \A c \in Cells : a.tree[<<"cell", f, c>>] \in {0, a.tree[<<"fit", f>>]}
    /\ a.tree[<<"arm", f>>] \in {0, a.tree[<<"fit", f>>]}

\* A fit is only ever trained under a posted review of the protocol its tree
\* holds, and no tree holds the fits of two reviews: artifacts that share a fit
\* share the review.
FitsAreReviewed ==
  \A a, b \in Artifacts : \A f \in Factors : a.tree[<<"fit", f>>] # 0 =>
    LET w == a.receipt.review
    IN  /\ w \in DOMAIN reviews
        /\ reviews[w].protocol = a.tree[<<"protocol">>]
        /\ a.tree[<<"protocol">>] = a.receipt.code
        /\ b.tree[<<"fit", f>>] = a.tree[<<"fit", f>>] => b.receipt.review = w

\* A receipt that says succeeded is the receipt of a finished stage: the
\* protocol, an assembled arm or the comparison over complete arms is there.
SucceededStageIsComplete ==
  \A a \in Artifacts :
    /\ a.receipt.status = "succeeded" =>
         /\ a.receipt.protocol = a.tree[<<"protocol">>] /\ a.receipt.protocol # 0
         /\ a.receipt.stage = "arm" => \E f \in Factors : ArmValid(a.tree, f)
         /\ a.receipt.stage = "finalize" => a.tree[<<"comparison">>] = 1
    /\ a.tree[<<"comparison">>] = 1 => \A f \in Factors : ArmValid(a.tree, f)

(* What a succeeded run merges is complete, reviewed and of one fit.                         *)
MergedEvidenceIsWhole ==
  EvidenceNamesItsFit /\ FitsAreReviewed /\ SucceededStageIsComplete
=============================================================================
