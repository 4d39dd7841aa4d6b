-------------------------- MODULE PortfolioInference -------------------------
(***************************************************************************)
(* From a completed training attempt to decisions: the inference bundle     *)
(* published from it, its two loaders (the plain one and the one for a      *)
(* declared execution scenario), the binding of the fitted observation      *)
(* transform to a later window, and the decisions taken through it. Files   *)
(* of the attempt and of the bundle, the runtime environment and the        *)
(* installed sources may change between any two steps.                      *)
(***************************************************************************)
EXTENDS PortfolioTraining

CONSTANTS RuntimeEnvs,   \* environments an inference may be asked to run in
          Scenarios,     \* declared execution scenarios
          Snapshots,     \* decision snapshots: [index, agentStop, remaining, shift, order]
          AllowedChanges,\* cost fields a stress scenario may change
          MaxEdits       \* bound: outside changes of files, environment or sources

ASSUME InferenceAssumption ==
  /\ \A env \in RuntimeEnvs : env.start \in Int /\ env.stop \in Int
  /\ \A snap \in Snapshots : snap.index \in Int
  /\ MaxEdits \in Nat

VARIABLES publisher, bundle, loader, runtime, decided, edits

inferenceVars == <<publisher, bundle, loader, runtime, decided, edits>>

-----------------------------------------------------------------------------
(* Validation of a training attempt                                         *)

\* What the caller keeps of a training that returned (SharedPortfolioPPOTrainingResult).
Receipt == [manifest |-> [config |-> trainer.config, status |-> "started"],
            context |-> [TrainingContext(trainer.config) EXCEPT !.source = "trained"],
            checkpoint |-> trainer.checkpoint,
            completion |-> [rollouts |-> [r \in 1..Rollouts |-> [index |-> r, steps |-> r * NSteps,
                              joined |-> r * NSteps, optimizer |-> 1, checkpoint |-> r]],
                            steps |-> Requested, joined |-> Requested, optimizer |-> Rollouts,
                            final |-> Rollouts]]

\* _validate_training_manifest: fixed semantics, consistent rollout dimensions, distinct seeds.
ManifestValid(f) ==
  /\ f.status = "started"
  /\ ConfigValid(f.config)
  /\ Cardinality({f.config.executionSeed, f.config.resetSeed, f.config.ppoSeed}) = 3

\* _safe_member, _read_canonical_json: a regular file whose bytes have the trusted digest.
Pinned(file, expected) == file # NoFile /\ file = expected

\* PortfolioObservationTransform.__post_init__: the fit scope is the
\* actor rows of the training window and nothing after them.
TransformValid(t) ==
  /\ 0 <= t.start /\ t.start < t.agentStop /\ t.agentStop <= t.stop
  /\ t.rows = t.start..t.agentStop - 1
  /\ t.agentStop = t.stop - t.cost.latency - 1

\* _validate_source_runtime: an observed source is declared (its match is the loader's).
SourceDeclared(c) == c.source # NoFile

\* from_payload: the payload has the digest the context declares and restores the transform.
FromPayload(c) == TransformValid(c.transform)

\* _space_descriptor of the expected policy layout: the codes of the action space.
LayoutExpected(c) == c.layout.codes = Codes /\ c.layout.window = c.transform.agentStop

\* _objective_from_payload: a typed objective of one shared, settled account.
ObjectiveTyped(b) == b.mode = "shared_portfolio" /\ b.valuation \in {"settled", "marked_continuation"}

\* _clock_from_payload: a clock of positive rollouts and horizon.
ClockTyped(b) == b.rolloutSteps >= 1 /\ b.horizon >= 1

\* The declaration of _validated_training_context: its own digest, the manifest's context
\* and a window that is not empty.
DeclarationValid(c, f) == c.config = f.config /\ 0 <= c.start /\ c.start < c.stop

\* Its typed objective and clock, and the transform fitted under them.
BoundValid(c) ==
  /\ ObjectiveTyped(c.bound) /\ ClockTyped(c.bound) /\ c.bound.horizon = c.stop - c.start
  /\ FromPayload(c)
  /\ c.transform.start = c.start /\ c.transform.stop = c.stop

\* Its financial context and the layout of the policy's spaces.
FinancialsValid(c) == c.transform.cost = c.cost /\ LayoutExpected(c)

\* Its training configuration, distinct seeds, and no label claimed by the caller.
TrainingConfigMatches(c, f) ==
  /\ c.config = f.config /\ c.bound.rolloutSteps = c.config.nSteps
  /\ Cardinality({c.config.executionSeed, c.config.resetSeed, c.config.ppoSeed}) = 3
  /\ c.label = NoFile

\* _validated_training_context
ContextValid(c, f) ==
  /\ DeclarationValid(c, f) /\ BoundValid(c) /\ FinancialsValid(c)
  /\ TrainingConfigMatches(c, f) /\ SourceDeclared(c)

\* One record of the completion: in place, exact counts, the file on disk is the same
\* record, its start record names the predecessor's checkpoint, its own bytes match.
RolloutFollows(completion, r) ==
  LET record == completion.rollouts[r]
      start == attempt.started[r]
  IN /\ record # NoFile /\ start # NoFile
     /\ record.index = r /\ record.steps = r * NSteps /\ record.joined = r * NSteps
     /\ start.index = r /\ start.steps = (r - 1) * NSteps /\ start.checkpoint = r - 1
     /\ start.version = attempt.checkpoints[r - 1]
     /\ start.optimizer = r - 1  \* one optimizer phase per rollout
     /\ attempt.completed[r] = record
     /\ attempt.checkpoints[r] = record.checkpoint

\* _validate_completion: the exact budget, every rollout after its predecessor, and the
\* final checkpoint is the last rollout's.
CompletionValid(completion, f, expected) ==
  /\ ManifestValid(f)
  /\ completion.steps = f.config.total /\ completion.joined = f.config.total
  /\ completion.final = expected
  /\ attempt.checkpoints[0] # NoFile
  /\ \A r \in 1..Rollouts : RolloutFollows(completion, r)
  /\ completion.optimizer = Rollouts
  /\ expected = attempt.checkpoints[Rollouts]

\* The reads of publish_portfolio_inference_bundle, each file against its trusted digest.
AttemptVerified ==
  /\ Pinned(attempt.manifest, Receipt.manifest)
  /\ Pinned(attempt.completion, Receipt.completion)
  /\ CompletionValid(attempt.completion, attempt.manifest, Receipt.checkpoint)
  /\ Pinned(attempt.context, Receipt.context)
  /\ ContextValid(attempt.context, attempt.manifest)
  /\ attempt.checkpoints[Rollouts] = Receipt.checkpoint

-----------------------------------------------------------------------------
(* Publication                                                              *)

NoBundle == [root |-> FALSE, context |-> NoFile, manifest |-> NoFile, policy |-> NoFile,
             record |-> NoFile, other |-> FALSE]

\* Everything is verified before the destination is created; an existing one is refused.
PublishStart ==
  /\ publisher.pc = "idle" /\ trainer.pc = "done"
  /\ IF AttemptVerified /\ ~bundle.root
     THEN /\ publisher' = [publisher EXCEPT !.pc = "copy"]
          /\ bundle' = [bundle EXCEPT !.root = TRUE, !.context = attempt.context,
                                      !.manifest = attempt.manifest]
     ELSE publisher' = [publisher EXCEPT !.pc = "refused"] /\ UNCHANGED bundle
  /\ UNCHANGED <<trainingVars, loader, runtime, decided, edits>>

\* The except branch: failure.json unless the bundle manifest stands (it may not be written).
PublishFails ==
  /\ publisher' = [publisher EXCEPT !.pc = "failed"]
  /\ bundle' \in {bundle, [bundle EXCEPT !.other = TRUE]}

\* _write_copy_verified: the checkpoint is read again and its copy hashed.
CopyPolicy ==
  /\ publisher.pc = "copy"
  /\ \/ /\ attempt.checkpoints[Rollouts] = Receipt.checkpoint
        /\ bundle' = [bundle EXCEPT !.policy = attempt.checkpoints[Rollouts]]
        /\ publisher' = [publisher EXCEPT !.pc = "manifest"]
     \/ PublishFails
  /\ UNCHANGED <<trainingVars, loader, runtime, decided, edits>>

\* The bundle manifest is the last file: it names the trusted digests.
WriteBundleManifest ==
  /\ publisher.pc = "manifest"
  /\ \/ /\ bundle' = [bundle EXCEPT !.record =
             [attempt |-> Receipt, files |-> [context |-> Receipt.context,
                manifest |-> Receipt.manifest, policy |-> Receipt.checkpoint]]]
        /\ publisher' = [publisher EXCEPT !.pc = "published"]
     \/ PublishFails
  /\ UNCHANGED <<trainingVars, loader, runtime, decided, edits>>

PublisherDies ==
  /\ publisher.pc \in {"copy", "manifest"}
  /\ publisher' = [publisher EXCEPT !.pc = "dead"]
  /\ UNCHANGED <<trainingVars, bundle, loader, runtime, decided, edits>>

PublishAgain ==
  /\ publisher.pc \in {"refused", "failed", "dead"}
  /\ publisher' = [publisher EXCEPT !.pc = "idle"]
  /\ UNCHANGED <<trainingVars, bundle, loader, runtime, decided, edits>>

-----------------------------------------------------------------------------
(* Binding a transform to a later window                                    *)

RuntimeAgentStop(env) == env.stop - env.cost.latency - 1

\* PortfolioObservationRuntimeBinding.create: the training bound is the transform's, the
\* environment has its data and costs, and starts at or after the training stop.
PlainBindable(c, env) ==
  /\ TransformValid(c.transform)
  /\ env.start < env.stop
  /\ env.cost = c.transform.cost
  /\ env.start >= c.transform.stop
  /\ RuntimeAgentStop(env) > env.start

\* _validate_runtime_environment: never reset, the fitted costs, the policy's own spaces.
PlainEnvironmentValid(c, env) ==
  ~env.session /\ env.cost = c.cost /\ PlainBindable(c, env) /\ LayoutExpected(c)

\* _execution_policy_payload: both policies have exactly the known fields.
PolicyFieldsKnown(s) == DOMAIN s.base = DOMAIN TrainCost /\ DOMAIN s.cost = DOMAIN TrainCost

\* _changed_fields
ChangedFields(s) == {x \in DOMAIN s.base : s.base[x] # s.cost[x]}

\* _validated_components: the declared changes are the real ones, all allowed, none for
\* the base role and some for a stress.
ScenarioValid(s) ==
  /\ PolicyFieldsKnown(s)
  /\ ChangedFields(s) \subseteq AllowedChanges
  /\ s.changed = ChangedFields(s)
  /\ (s.role = "base") <=> (ChangedFields(s) = {})

\* create_portfolio_scenario_runtime_binding_v2: the base cost is the fitted one, the
\* environment's is the declared one, and the window is a later one.
ScenarioBindable(c, env, s) ==
  /\ ScenarioValid(s)
  /\ s.base = c.cost /\ s.base = c.transform.cost
  /\ env.cost = s.cost
  /\ TransformValid(c.transform)
  /\ env.start < env.stop /\ env.start >= c.transform.stop
  /\ env.start < RuntimeAgentStop(env)

Bindable(kind, c, env, s) ==
  IF kind = "plain" THEN PlainEnvironmentValid(c, env) ELSE ScenarioBindable(c, env, s)

\* The fields of a binding that are read when an observation is transformed.
BindingOf(env) == [start |-> env.start, stop |-> env.stop, agentStop |-> RuntimeAgentStop(env),
                   cost |-> env.cost]

-----------------------------------------------------------------------------
(* Loading                                                                  *)

\* _source_runtime_matches against capture_portfolio_source_runtime.
SourceMatches(c) == c.source = codebase

\* capture_portfolio_scenario_inference_source_digest against the caller's pin: the
\* scenario loader's own modules too.
ScenarioSourceMatches(kind) == kind = "scenario" => codebase = "trained"

\* _verify_portfolio_inference_bundle_inputs: exactly the four files, each the trusted one.
BundleVerified ==
  /\ bundle.root /\ ~bundle.other
  /\ NoFile \notin {bundle.context, bundle.manifest, bundle.policy, bundle.record}
  /\ bundle.record.attempt = Receipt
  /\ Pinned(bundle.context, Receipt.context) /\ bundle.context = bundle.record.files.context
  /\ Pinned(bundle.manifest, Receipt.manifest) /\ ManifestValid(bundle.manifest)
  /\ ContextValid(bundle.context, bundle.manifest)
  /\ SourceMatches(bundle.context)

\* load_portfolio_inference_bundle / load_portfolio_scenario_inference_bundle up to the
\* binding: the environment must not have been reset.
LoadVerify(kind, env, s) ==
  /\ loader.pc = "idle" /\ publisher.pc = "published"
  /\ runtime' = env
  /\ IF BundleVerified /\ ScenarioSourceMatches(kind) /\ ~env.session /\ Bindable(kind, bundle.context, env, s)
     THEN loader' = [pc |-> "verified", kind |-> kind, scenario |-> s, context |-> bundle.context,
                     binding |-> BindingOf(env), policy |-> NoFile, poisoned |-> FALSE]
     ELSE loader' = [loader EXCEPT !.pc = "refused"]
  /\ UNCHANGED <<trainingVars, publisher, bundle, decided, edits>>

\* _validate_loaded_policy_architecture: spaces, layers and activations of the context; an
\* archive of another training loads too when its architecture is the same.
ArchitectureMatches(c, policy) == policy \in 0..Rollouts + 1 /\ LayoutExpected(c)

\* _load_verified_bundle_policy: a private copy of policy.zip, hashed while it is copied,
\* is what is loaded; its spaces and architecture are those of the context.
LoadPolicy ==
  /\ loader.pc = "verified"
  /\ loader' = IF bundle.policy = Receipt.checkpoint
                  /\ ArchitectureMatches(loader.context, bundle.policy)
               THEN [loader EXCEPT !.pc = "loaded", !.policy = bundle.policy]
               ELSE [loader EXCEPT !.pc = "refused"]
  /\ UNCHANGED <<trainingVars, publisher, bundle, runtime, decided, edits>>

LoadAgain ==
  /\ loader.pc \in {"refused", "loaded"}
  /\ loader' = [loader EXCEPT !.pc = "idle", !.policy = NoFile]
  /\ UNCHANGED <<trainingVars, publisher, bundle, runtime, decided, edits>>

-----------------------------------------------------------------------------
(* Deciding                                                                 *)

\* _validate_portfolio_snapshot_window, and the clock part of _validated_raw: the index,
\* the stop, what remains and the timestamp are those of the bound window.
SnapshotInWindow(b, snap) ==
  /\ snap.agentStop = b.agentStop
  /\ b.start <= snap.index /\ snap.index < b.agentStop
  /\ snap.remaining = b.agentStop - snap.index
  /\ snap.shift = 0  \* nanoseconds off the native clock

\* _validate_active_orders: prices go with the kind of order and with a reference price.
OrderRowValid(o) ==
  \/ ~o.present /\ ~o.limit /\ ~o.stop /\ ~o.reference
  \/ /\ o.present
     /\ (o.limit \/ o.stop) => o.reference
     /\ o.kind = "market" => ~o.limit /\ ~o.stop
     /\ o.kind = "limit" => o.limit /\ ~o.stop
     /\ o.kind = "stop" => o.stop /\ ~o.limit

\* _validated_raw: exact keys, shapes and dtypes, a clock inside the bound window and
\* consistent order rows.
RawValid(b, snap) == SnapshotInWindow(b, snap) /\ OrderRowValid(snap.order)

\* transform_observation, transform_scenario_observation_v2: the binding belongs to this
\* transform and its window begins at or after the training stop.
BindingBelongs(c, b) == b.start >= c.transform.stop /\ b.start < b.agentStop

\* _predict_portfolio_action: a deterministic action inside the bound space.
PredictedAction(c) == c.layout.codes

\* _transform_orders and _transform_clock: clock and order ages relative to the bound window.
Transformed(b, snap) ==
  [elapsed |-> snap.index - b.start, remaining |-> b.agentStop - snap.index,
   of |-> b.agentStop - b.start,
   age |-> IF snap.order.present THEN snap.order.submitted - snap.index ELSE 0]

\* decide_portfolio: the scenario policy first checks that its environment is still the
\* bound one; a failed check leaves its wrapper unusable (observation raises while poisoned).
DecideTarget(snap) ==
  LET bound == loader.kind = "plain"
               \/ (Bindable(loader.kind, loader.context, runtime, loader.scenario)
                   /\ BindingOf(runtime) = loader.binding /\ ~loader.poisoned)
      valid == RawValid(loader.binding, snap) /\ BindingBelongs(loader.context, loader.binding)
  IN /\ loader.pc = "loaded"
     /\ bound /\ valid
     /\ \E code \in PredictedAction(loader.context) :
        decided' = [policy |-> loader.policy, kind |-> loader.kind, scenario |-> loader.scenario,
                    snap |-> snap, input |-> Transformed(loader.binding, snap),
                    context |-> loader.context, env |-> runtime, action |-> code]
     /\ UNCHANGED <<trainingVars, publisher, bundle, loader, runtime, edits>>

\* reset of the scenario's observation wrapper: a failure poisons, a success clears it.
ScenarioReset ==
  /\ loader.pc = "loaded" /\ loader.kind = "scenario"
  /\ LET ok == Bindable(loader.kind, loader.context, runtime, loader.scenario)
               /\ BindingOf(runtime) = loader.binding
     IN /\ loader' = [loader EXCEPT !.poisoned = ~ok]
        /\ runtime' = IF ok THEN [runtime EXCEPT !.session = TRUE] ELSE runtime
  /\ UNCHANGED <<trainingVars, publisher, bundle, decided, edits>>

-----------------------------------------------------------------------------
(* The outside world                                                        *)

Edit == edits < MaxEdits /\ edits' = edits + 1

\* Files of the attempt or of the bundle are replaced.
EditFiles ==
  /\ Edit /\ trainer.pc = "done"
  /\ \/ \E i \in 0..Rollouts : attempt' = [attempt EXCEPT !.checkpoints[i] = Rollouts + 1]
        /\ UNCHANGED bundle
     \/ \E r \in 1..Rollouts : attempt' = [attempt EXCEPT !.started[r] =
                                             [@ EXCEPT !.version = Rollouts + 1]]
        /\ UNCHANGED bundle
     \/ bundle.policy # NoFile /\ bundle' = [bundle EXCEPT !.policy = Rollouts + 1]
        /\ UNCHANGED attempt
     \/ bundle.root /\ bundle' = [bundle EXCEPT !.other = TRUE] /\ UNCHANGED attempt
  /\ UNCHANGED <<trainer, sampler, joiner, episodes, gym, codebase, publisher, loader, runtime, decided>>

\* The packages or sources are upgraded.
Upgrade ==
  /\ Edit /\ trainer.pc = "done" /\ codebase' = "upgraded"
  /\ UNCHANGED <<trainer, sampler, joiner, episodes, gym, attempt, publisher, bundle, loader, runtime, decided>>

\* The environment object is changed behind the policy that was bound to it.
EditEnvironment ==
  /\ Edit /\ loader.pc = "loaded"
  /\ \E env \in RuntimeEnvs : runtime' = env
  /\ UNCHANGED <<trainingVars, publisher, bundle, loader, decided>>

InferenceInit ==
  /\ TrainingInit
  /\ publisher = [pc |-> "idle"]
  /\ bundle = NoBundle
  /\ loader = [pc |-> "idle", kind |-> "plain", scenario |-> NoFile, context |-> NoFile,
               binding |-> NoFile, policy |-> NoFile, poisoned |-> FALSE]
  /\ runtime = NoFile
  /\ decided = NoFile
  /\ edits = 0

InferenceNext ==
  \/ TrainingNext /\ UNCHANGED inferenceVars
  \/ PublishStart \/ CopyPolicy \/ WriteBundleManifest \/ PublisherDies \/ PublishAgain
  \/ \E env \in RuntimeEnvs : LoadVerify("plain", env, NoFile)
  \/ \E env \in RuntimeEnvs, s \in Scenarios : LoadVerify("scenario", env, s)
  \/ LoadPolicy \/ LoadAgain \/ ScenarioReset
  \/ \E snap \in Snapshots : DecideTarget(snap)
  \/ EditFiles \/ Upgrade \/ EditEnvironment

policyVars == <<trainingVars, inferenceVars>>

InferenceSpec == InferenceInit /\ [][InferenceNext]_policyVars

-----------------------------------------------------------------------------
(* Properties                                                               *)

(* A policy in use is the last checkpoint of a complete training, decides    *)
(* only on bars after every row its transform or its training saw, and pays  *)
(* the cost it was fitted with or, in a scenario, exactly the declared one,  *)
(* whatever file, environment or source changed before, between or after     *)
(* the checks of publish and load.                                           *)
DecidesWithTheTrainedPolicy ==
  /\ loader.policy # NoFile => loader.policy = Rollouts
  /\ decided # NoFile =>
       /\ decided.policy = Rollouts
       /\ \A row \in decided.context.transform.rows : row < decided.snap.index
       /\ decided.snap.index >= StopIndex
       /\ decided.kind = "scenario" =>
            /\ decided.env.cost = decided.scenario.cost
            /\ decided.scenario.base = TrainCost
            /\ decided.scenario.changed \subseteq AllowedChanges

(* From a decision back to the samples its policy was trained on nothing is   *)
(* guessed: the attempt's own records are attributed and whole until someone  *)
(* edits them, and edited ones never reach a decision.                        *)
PolicyIsTraceable ==
  /\ edits = 0 => TrainingLineageHolds
  /\ DecidesWithTheTrainedPolicy
==============================================================================
