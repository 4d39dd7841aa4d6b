-------------------------- MODULE PortfolioTraining --------------------------
(***************************************************************************)
(* One opt-in joint PPO training attempt of the shared portfolio           *)
(* (fit_shared_portfolio_ppo) with the lineage it retains: the environment, *)
(* the native episode journal around it, the wrapper that joins each native *)
(* step to one policy sample, the forward-hook journal of the policy, and   *)
(* the coordinator's checkpoints and rollout receipts. Weights of the       *)
(* policy are the number of optimizer phases behind them; a digest is the   *)
(* content it stands for.                                                   *)
(***************************************************************************)
EXTENDS Integers, Sequences, FiniteSets

CONSTANTS NSteps,        \* config.n_steps
          Rollouts,      \* total_timesteps \div n_steps
          Codes,         \* action codes of the joint action
          Decisions,     \* actor decisions of one episode
          Configs,       \* training configurations the caller may pass
          TrainCost,     \* execution cost of the training environment
          MaxExtra,      \* bound: policy forwards nobody steps on
          NoFile         \* absent file or reference

ASSUME TrainingAssumption ==
  /\ NSteps \in Nat \ {0, 1} /\ Rollouts \in Nat \ {0} /\ Decisions \in Nat \ {0}
  /\ TrainCost.latency \in Nat /\ MaxExtra \in Nat

VARIABLES trainer,   \* the process inside fit_shared_portfolio_ppo
          sampler,   \* PortfolioPolicySampleJournal attached to the policy
          joiner,    \* _ActorNativeJoinWrapper
          episodes,  \* PortfolioEpisodeJournalWrapper
          gym,       \* SharedPortfolioGymEnv
          attempt,   \* the files of the attempt root
          codebase   \* sources and packages the process imports

trainingVars == <<trainer, sampler, joiner, episodes, gym, attempt, codebase>>

-----------------------------------------------------------------------------
(* Inputs                                                                   *)

\* SharedPortfolioPPOConfig.__post_init__: exact rollouts, whole batches, distinct seeds.
ConfigValid(c) ==
  /\ c.total >= 1 /\ c.nSteps >= 2 /\ c.batch >= 2 /\ c.epochs >= 1
  /\ c.total >= c.nSteps /\ c.total % c.nSteps = 0
  /\ c.batch <= c.nSteps /\ c.nSteps % c.batch = 0
  /\ c.resetSeed # c.ppoSeed

\* SharedPortfolioGymEnv.__init__: the close is reserved after the last decision.
PolicyAgentStop == Decisions
StopIndex == Decisions + TrainCost.latency + 1

\* The checks of the sample journal's __init__: four codes from zero for each symbol.
ActionSpaceSupported == Codes \subseteq 0..3

\* fit_portfolio_observation_transform: statistics of the actor rows of the window.
FittedTransform ==
  [start |-> 0, stop |-> StopIndex, agentStop |-> PolicyAgentStop, rows |-> 0..PolicyAgentStop - 1,
   cost |-> TrainCost]

\* PortfolioObservationTransform.validate_environment
TransformMatches(t) ==
  t.start = 0 /\ t.stop = StopIndex /\ t.agentStop = StopIndex - TrainCost.latency - 1 /\ t.cost = TrainCost

\* _validate_inputs: the environment was never reset, the transform fits it, the
\* rollout length is the bound clock's, and no seed is the execution seed.
InputsValid(c) ==
  /\ ConfigValid(c)
  /\ gym.session = FALSE
  /\ c.nSteps = NSteps /\ ActionSpaceSupported /\ TransformMatches(FittedTransform)
  /\ c.executionSeed \notin {c.resetSeed, c.ppoSeed}

Requested == NSteps * Rollouts

-----------------------------------------------------------------------------
(* SharedPortfolioGymEnv                                                    *)

NoEpisode == [session |-> FALSE, done |-> TRUE, poisoned |-> FALSE, index |-> 0]

\* reset: a new session at the start index.
GymReset == [session |-> TRUE, done |-> FALSE, poisoned |-> FALSE, index |-> 0]

\* _require_live_session
GymLive == gym.session /\ ~gym.poisoned /\ ~gym.done

\* step: one actor interval, and after the last decision the settlement of every
\* remaining interval inside the same step; a session that fails after it was
\* mutated poisons the episode, one that fails before leaves it as it was.
GymStep(outcome) ==
  LET next == gym.index + 1
  IN CASE outcome = "ok" -> IF next < PolicyAgentStop THEN [gym EXCEPT !.index = next]
                            ELSE [gym EXCEPT !.index = StopIndex, !.done = TRUE]
       [] outcome = "refused" -> gym
       [] outcome = "failed" -> [gym EXCEPT !.poisoned = TRUE, !.done = TRUE]

\* _decision_trace_transition: every interval of a step is traced, the actor's and each
\* settlement interval after it.
TracedIntervals(g, next) == next.index - g.index

\* _terminal_state: the episode closed at the stop index, with nothing pending.
SettlementComplete(g) == g.done /\ ~g.poisoned /\ g.index = StopIndex

-----------------------------------------------------------------------------
(* The native episode journal: one file per event, named by its sequence    *)

Event(name, action) == [event |-> name, action |-> action]

\* __init__ of the wrapper: a fresh root.
NewEpisodes == [poisoned |-> FALSE, writeFailed |-> FALSE, open |-> FALSE, latest |-> NoFile]

\* _append_event on disk: the next sequence number is the number of events.
Appended(a, es) == [a EXCEPT !.native = @ \o es]

\* _episode_cutoff: an episode that is still open is closed explicitly.
Cutoff(e) == IF e.open THEN <<Event("episode_interrupted", NoFile)>> ELSE <<>>

\* close: nothing is appended after a failed write.
EpisodesClosed(e) == IF e.writeFailed THEN <<>> ELSE Cutoff(e)

-----------------------------------------------------------------------------
(* The forward-hook journal of the policy                                   *)

\* __init__, its attachment: one journal per policy, no other hook, a new root.
OpenedSampler(weights) ==
  [state |-> "open", count |-> 0, latest |-> NoFile, version |-> weights, hooks |-> 1]

\* _validate_forward_hook_layout: the only hook is still the journal's own.
HookLayoutIntact == sampler.hooks = 1

\* _records_for_forward: one record per row of the batch, with the codes sampled.
RecordsForForward(code, batch) ==
  [i \in 1..batch |-> [version |-> trainer.weights, action |-> code]]

\* close: the hook is removed and the policy is free for the next journal.
ClosedSampler(s) == [s EXCEPT !.state = "closed", !.hooks = 0]

-----------------------------------------------------------------------------
(* The join wrapper                                                         *)

NewJoiner == [poisoned |-> FALSE, rollout |-> 0, lastSample |-> 0, joined |-> 0, lastNative |-> -1]

\* begin_rollout / end_rollout / abort_rollout
BeginRollout(j, index) == [j EXCEPT !.rollout = index, !.lastSample = 0]
JoinerReady(j) == ~j.poisoned /\ j.rollout = 0
CountsMatch == sampler.count = NSteps /\ joiner.lastSample = NSteps
EndedRollout(j) == [j EXCEPT !.rollout = 0]
AbortedRollout(j) == [j EXCEPT !.poisoned = TRUE, !.rollout = 0]

\* Mutation: any sample newer than the last joined one is accepted.
FreshSampleLoose ==
  /\ sampler.latest # NoFile
  /\ sampler.latest.id > joiner.lastSample
  /\ sampler.latest.batch = 1

\* The guard of step: exactly one sample since the last join, of a batch of one.
FreshSample ==
  /\ sampler.latest # NoFile
  /\ sampler.count = joiner.lastSample + 1
  /\ sampler.latest.id = joiner.lastSample + 1
  /\ sampler.latest.batch = 1

-----------------------------------------------------------------------------
NoAttempt ==
  [root |-> FALSE, manifest |-> NoFile, context |-> NoFile,
   checkpoints |-> [i \in 0..Rollouts |-> NoFile],
   started |-> [i \in 1..Rollouts |-> NoFile],
   completed |-> [i \in 1..Rollouts |-> NoFile],
   samples |-> [i \in 1..Rollouts |-> <<>>],
   native |-> <<>>, joins |-> <<>>, completion |-> NoFile, failure |-> NoFile]

IdleTrainer == [pc |-> "idle", weights |-> 0, steps |-> 0, rollout |-> 0, closed |-> FALSE,
         rootOpen |-> FALSE, checkpoint |-> NoFile, optimizer |-> 0, submitted |-> NoFile,
         config |-> NoFile, extra |-> 0]

TrainingInit ==
  /\ trainer = IdleTrainer
  /\ sampler = [state |-> "closed", count |-> 0, latest |-> NoFile, version |-> 0, hooks |-> 0]
  /\ joiner = NewJoiner
  /\ episodes = NewEpisodes
  /\ gym = NoEpisode
  /\ attempt = NoAttempt
  /\ codebase = "trained"

\* _context_payload and training_context: everything an inference must find again,
\* the fitted transform (on the actor rows only) and the sources observed.
TrainingContext(c) ==
  [config |-> c, start |-> 0, stop |-> StopIndex, cost |-> TrainCost, source |-> codebase,
   bound |-> [mode |-> "shared_portfolio", valuation |-> "settled", horizon |-> StopIndex,
              rolloutSteps |-> NSteps],
   layout |-> [codes |-> Codes, window |-> PolicyAgentStop], label |-> NoFile,
   transform |-> FittedTransform]

\* A step of fit_shared_portfolio_ppo raises: its handler runs next.
Raises == trainer' = [trainer EXCEPT !.pc = "raised"]

\* fit_shared_portfolio_ppo up to learn: a new root with the context, the manifest
\* ("started") and the initial checkpoint; an existing root is refused.
CreateAttempt(c) ==
  /\ trainer.pc = "idle"
  /\ IF InputsValid(c) /\ ~attempt.root
     THEN /\ trainer' = [trainer EXCEPT !.pc = "created", !.config = c, !.checkpoint = 0]
          /\ attempt' = [attempt EXCEPT !.root = TRUE,
               !.manifest = [config |-> c, status |-> "started"],
               !.context = TrainingContext(c),
               !.checkpoints[0] = 0]
     ELSE trainer' = [trainer EXCEPT !.pc = "refused"] /\ UNCHANGED attempt
  /\ UNCHANGED <<sampler, joiner, episodes, gym>>

\* PortfolioEpisodeJournalWrapper.reset through the join wrapper: the first reset
\* of learn, and the automatic one of the vector environment after an episode.
ResetWith(pc) ==
  /\ ~joiner.poisoned /\ ~episodes.poisoned /\ ~episodes.writeFailed
  /\ \/ /\ trainer' = [trainer EXCEPT !.pc = pc]
        /\ gym' = GymReset
        /\ episodes' = [episodes EXCEPT !.open = TRUE]
        /\ attempt' = Appended(attempt, Cutoff(episodes) \o
             <<Event("episode_started", NoFile), Event("episode_reset", NoFile)>>)
     \/ /\ Raises  \* the reset facts cannot be written
        /\ gym' = GymReset
        /\ episodes' = [episodes EXCEPT !.open = TRUE, !.poisoned = TRUE, !.writeFailed = TRUE]
        /\ attempt' = Appended(attempt, Cutoff(episodes) \o <<Event("episode_started", NoFile)>>)
  /\ UNCHANGED <<sampler, joiner>>

BeginLearn == trainer.pc = "created" /\ ResetWith("start")
EpisodeEnds == trainer.pc = "reset" /\ ResetWith("stepped")

\* start_rollout: needs the previous rollout finished and a saved checkpoint; the
\* journal's policy version is the digest of that checkpoint.
StartRollout ==
  LET index == trainer.rollout + 1
  IN /\ trainer.pc = "start"
     /\ IF sampler.state = "open" \/ trainer.closed \/ trainer.checkpoint = NoFile
           \/ ~JoinerReady(joiner)
        THEN Raises /\ UNCHANGED <<sampler, joiner, attempt>>
        ELSE \/ /\ trainer' = [trainer EXCEPT !.pc = "forward", !.rollout = index, !.rootOpen = TRUE]
                /\ sampler' = OpenedSampler(attempt.checkpoints[index - 1])
                /\ joiner' = BeginRollout(joiner, index)
                /\ attempt' = [attempt EXCEPT !.started[index] =
                     [index |-> index, steps |-> trainer.steps, checkpoint |-> index - 1,
                      version |-> trainer.checkpoint, optimizer |-> trainer.optimizer]]
             \/ /\ Raises  \* the start record cannot be written
                /\ joiner' = AbortedRollout(joiner)
                /\ UNCHANGED <<sampler, attempt>>
     /\ UNCHANGED <<episodes, gym>>

\* _on_forward: the record is durable before the action is returned; a failure
\* poisons the journal and the forward raises.
Forward(code, batch) ==
  LET id == sampler.count + batch
  IN /\ trainer.pc = "forward"
     /\ \/ /\ sampler.state = "open" /\ HookLayoutIntact
           /\ sampler' = [sampler EXCEPT !.count = id,
                !.latest = [id |-> id, action |-> code, batch |-> batch]]
           /\ attempt' = [attempt EXCEPT !.samples[trainer.rollout] =
                @ \o RecordsForForward(code, batch)]
           /\ \/ batch = 1 /\ trainer' = [trainer EXCEPT !.pc = "step", !.submitted = code]
              \/ /\ trainer.extra < MaxExtra  \* a forward whose action is never submitted
                 /\ trainer' = [trainer EXCEPT !.extra = @ + 1]
        \/ /\ batch = 1 /\ Raises
           /\ sampler' = [sampler EXCEPT !.state = IF @ = "open" THEN "poisoned" ELSE @]
           /\ UNCHANGED attempt
     /\ UNCHANGED <<joiner, episodes, gym>>

\* Somebody else registers a forward hook on the policy (or globally).
ForeignHook ==
  /\ trainer.pc = "forward" /\ trainer.extra < MaxExtra
  /\ sampler' = [sampler EXCEPT !.hooks = @ + 1]
  /\ trainer' = [trainer EXCEPT !.extra = @ + 1]
  /\ UNCHANGED <<joiner, episodes, gym, attempt>>

\* step of the join wrapper over step of the episode journal over step of the
\* environment: every failure in between poisons what it leaves undecided.
JoinStep(outcome) ==
  LET code == trainer.submitted
      sequence == Len(attempt.native) + 1  \* index of step_result, after step_started
      started == Event("step_started", code)
  IN /\ trainer.pc = "step"
     /\ IF joiner.poisoned \/ joiner.rollout = 0 \/ ~FreshSample
           \/ code # sampler.latest.action
        THEN /\ outcome = "refused" /\ Raises
             /\ joiner' = [joiner EXCEPT !.poisoned = TRUE]
             /\ UNCHANGED <<sampler, episodes, gym, attempt>>
        ELSE
        /\ ~episodes.poisoned /\ episodes.open /\ GymLive
        /\ UNCHANGED sampler
        /\ \/ /\ outcome = "ok"
              /\ gym' = GymStep("ok")
              /\ TracedIntervals(gym, gym') >= 1
              /\ episodes' = [episodes EXCEPT !.latest = sequence, !.open = ~gym'.done]
              /\ attempt' = [Appended(attempt, <<started, Event("step_result", code)>>) EXCEPT
                   !.joins = Append(@, [rollout |-> joiner.rollout, sample |-> sampler.latest.id,
                     native |-> sequence, action |-> code])]
              /\ joiner' = [joiner EXCEPT !.joined = @ + 1, !.lastSample = sampler.latest.id,
                   !.lastNative = sequence]
              /\ trainer' = [trainer EXCEPT !.steps = @ + 1,
                   !.pc = IF gym'.done THEN "reset" ELSE "stepped"]
           \/ /\ outcome \in {"refused", "failed"}  \* the environment raised
              /\ gym' = GymStep(outcome)
              /\ episodes' = [episodes EXCEPT !.poisoned = TRUE]
              /\ attempt' = Appended(attempt, <<started, Event("step_failed", NoFile)>>)
              /\ joiner' = [joiner EXCEPT !.poisoned = TRUE]
              /\ Raises
           \/ /\ outcome = "unwritten"  \* the result of a step that happened is not recorded
              /\ gym' = GymStep("ok")
              /\ episodes' = [episodes EXCEPT !.poisoned = TRUE, !.writeFailed = TRUE]
              /\ attempt' = Appended(attempt, <<started>>)
              /\ joiner' = [joiner EXCEPT !.poisoned = TRUE]
              /\ Raises
           \/ /\ outcome = "unjoined"  \* the native result is recorded, its join is not
              /\ gym' = GymStep("ok")
              /\ episodes' = [episodes EXCEPT !.latest = sequence, !.open = ~gym'.done]
              /\ attempt' = Appended(attempt, <<started, Event("step_result", code)>>)
              /\ joiner' = [joiner EXCEPT !.poisoned = TRUE]
              /\ Raises

\* on_step, and the loop of collect_rollouts.
NextStep ==
  /\ trainer.pc = "stepped"
  /\ trainer' = [trainer EXCEPT !.submitted = NoFile,
       !.pc = IF trainer.steps < NSteps * trainer.rollout THEN "forward" ELSE "end"]
  /\ UNCHANGED <<sampler, joiner, episodes, gym, attempt>>

\* end_rollout: exactly n_steps samples, each joined; the journal is closed either way.
EndRollout ==
  /\ trainer.pc = "end"
  /\ sampler' = ClosedSampler(sampler)
  /\ IF CountsMatch
     THEN /\ joiner' = EndedRollout(joiner)
          /\ trainer' = [trainer EXCEPT !.pc = "train", !.closed = TRUE]
     ELSE joiner' = [joiner EXCEPT !.poisoned = TRUE] /\ Raises
  /\ UNCHANGED <<episodes, gym, attempt>>

\* PPO.train and after_train: the checkpoint after the update, then its receipt.
\* The save may be interrupted before the receipt is written.
AfterTrain ==
  LET r == trainer.rollout
      w == trainer.weights + 1
      record == [index |-> r, steps |-> trainer.steps, joined |-> joiner.joined,
                 optimizer |-> 1, checkpoint |-> w]
      saved == [attempt EXCEPT !.checkpoints[r] = w]
  IN /\ trainer.pc = "train"
     /\ \/ /\ trainer.closed /\ trainer.steps = r * NSteps
           /\ attempt' = [saved EXCEPT !.completed[r] = record]
           /\ trainer' = [trainer EXCEPT !.weights = w, !.optimizer = @ + 1, !.closed = FALSE,
                !.rootOpen = FALSE, !.checkpoint = w,
                !.pc = IF trainer.steps < Requested THEN "start" ELSE "finish"]
        \/ trainer' = [trainer EXCEPT !.pc = "raised", !.weights = w] /\ attempt' \in {attempt, saved}
     /\ UNCHANGED <<sampler, joiner, episodes, gym>>

\* validate_training_end
TrainingEndValid ==
  /\ sampler.state = "closed" /\ ~trainer.rootOpen
  /\ \A r \in 1..Rollouts : attempt.completed[r] # NoFile
  /\ trainer.steps = Requested /\ joiner.joined = Requested

\* on_training_end, the close of the environment and completion.json.
Finish ==
  /\ trainer.pc = "finish"
  /\ IF TrainingEndValid
     THEN \/ /\ trainer' = [trainer EXCEPT !.pc = "done"]
             /\ attempt' = [Appended(attempt, EpisodesClosed(episodes)) EXCEPT !.completion =
                  [rollouts |-> attempt.completed, steps |-> trainer.steps,
                   joined |-> joiner.joined, optimizer |-> trainer.optimizer,
                   final |-> trainer.checkpoint]]
             /\ episodes' = [episodes EXCEPT !.open = FALSE]
          \/ Raises /\ UNCHANGED <<attempt, episodes>>
     ELSE Raises /\ UNCHANGED <<attempt, episodes>>
  /\ UNCHANGED <<sampler, joiner, gym>>

\* The handler: the environment is closed, an incomplete rollout is aborted and
\* failure.json names the latest sample and the latest native event.
RetainFailure ==
  /\ trainer.pc = "raised"
  /\ trainer' = [trainer EXCEPT !.pc = "failed"]
  /\ sampler' = ClosedSampler(sampler)
  /\ joiner' = AbortedRollout(joiner)
  /\ episodes' = [episodes EXCEPT !.open = IF episodes.writeFailed THEN @ ELSE FALSE]
  /\ LET closed == Appended(attempt, EpisodesClosed(episodes))
     IN attempt' \in {closed, [closed EXCEPT !.failure =
                        [sample |-> sampler.latest, native |-> episodes.latest]]}
  /\ UNCHANGED gym

\* The process is killed: memory is lost and the root stays as it is.
TrainerDies ==
  /\ trainer.pc \notin {"idle", "done", "failed", "refused", "dead"}
  /\ trainer' = [trainer EXCEPT !.pc = "dead"]
  /\ UNCHANGED <<sampler, joiner, episodes, gym, attempt>>

\* A second call with the same root, after any end of the first.
RetrySameRoot ==
  /\ trainer.pc \in {"failed", "dead", "refused"}
  /\ trainer' = IdleTrainer
  /\ sampler' = [state |-> "closed", count |-> 0, latest |-> NoFile, version |-> 0, hooks |-> 0]
  /\ joiner' = NewJoiner /\ episodes' = NewEpisodes /\ gym' = NoEpisode
  /\ UNCHANGED attempt

StepOutcomes == {"ok", "refused", "failed", "unwritten", "unjoined"}

TrainingStep ==
  \/ \E c \in Configs : CreateAttempt(c)
  \/ BeginLearn \/ EpisodeEnds \/ StartRollout
  \/ \E code \in Codes, batch \in 1..2 : Forward(code, batch)
  \/ ForeignHook
  \/ \E outcome \in StepOutcomes : JoinStep(outcome)
  \/ NextStep \/ EndRollout \/ AfterTrain \/ Finish
  \/ RetainFailure \/ TrainerDies \/ RetrySameRoot

TrainingNext == TrainingStep /\ UNCHANGED codebase

-----------------------------------------------------------------------------
(* Properties                                                               *)

JoinsOf(r) == {i \in DOMAIN attempt.joins : attempt.joins[i].rollout = r}

(* Every transition the attempt keeps names one policy sample and one native *)
(* step of the same action, no two name the same, no sample is skipped, and it was taken *)
(* from exactly the weights of the checkpoint its rollout's start record     *)
(* names: whatever was poisoned, retried, interrupted or sampled twice.      *)
TransitionsAreAttributed ==
  /\ \A i \in DOMAIN attempt.joins :
       LET j == attempt.joins[i]
           s == attempt.samples[j.rollout]
       IN /\ j.sample \in DOMAIN s
          /\ s[j.sample].action = j.action
          /\ s[j.sample].version = attempt.started[j.rollout].version
          /\ s[j.sample].version = attempt.checkpoints[j.rollout - 1]
          /\ attempt.native[j.native + 1] = Event("step_result", j.action)
  /\ \A i, k \in DOMAIN attempt.joins : i < k =>
       /\ attempt.joins[i].native < attempt.joins[k].native
       /\ attempt.joins[i].rollout = attempt.joins[k].rollout =>
            attempt.joins[i].sample < attempt.joins[k].sample
  /\ \A r \in 1..Rollouts :
       {attempt.joins[i].sample : i \in JoinsOf(r)} = 1..Cardinality(JoinsOf(r))

(* completion.json stands only over an unbroken chain: every rollout started *)
(* from its predecessor's checkpoint, kept exactly n_steps samples all of    *)
(* which were stepped on, and no native step is left out of the joins.       *)
CompletionIsWhole ==
  attempt.completion # NoFile =>
    /\ \A r \in 1..Rollouts :
         /\ attempt.started[r].checkpoint = r - 1
         /\ attempt.completed[r].checkpoint = attempt.checkpoints[r]
         /\ Cardinality(JoinsOf(r)) = NSteps
         /\ Len(attempt.samples[r]) = NSteps
    /\ attempt.completion.final = attempt.checkpoints[Rollouts]
    /\ Cardinality({i \in DOMAIN attempt.native : attempt.native[i].event = "step_result"})
         = Len(attempt.joins)

(* The lineage a training attempt leaves behind can be trusted.              *)
TrainingLineageHolds == TransitionsAreAttributed /\ CompletionIsWhole
==============================================================================
