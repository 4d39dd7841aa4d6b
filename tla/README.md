# Verification of trade_rl

TLA+ modules that model the parts of `trade_rl` whose correctness depends on the
order of steps: the paper-trading collection, the market store and the data
sources, the order executor and the replay loop around it, portfolio training and
inference, the controlled Study with everything that publishes once, the
restartable workflows, agent coordination, and the tools that watch GitHub and
processes. TLC checks them on small instances; TLAPS proves the central results
for every value of the constants. `PROJECT.json` lists components, runs, mutants,
the correspondence of every definition to its source lines, findings, hazards
and theorems.

Run everything from this directory:

    tlc -config MCPaperJournal.cfg MCPaperJournal       # likewise for the other cfgs
    tlapm PaperBooks_proofs.tla                         # likewise for the other proofs

Contents: 1 the system, 2 modules and code, 3 runs, 4 fairness, 5 proofs,
6 findings, 7 observations, 8 what is abstracted or left out, 9 plan.

## 1. The system

trade_rl trains and evaluates portfolio policies on Binance data. About 124 000
lines of Python; most of them compute (features, strategies, statistics). The
state that several processes or many steps share lives in the components below.
Paths are under `src/trade_rl/` unless they begin with `tools/` (`src/tools/`).

| component | state | operations | talks to |
|---|---|---|---|
| paper journal (`evaluation/paper/store.py`, `engine.py`) | SQLite rows chained by digest; each engine's replayed tip and keys | initialize, open (verify all), append | every paper process; the engine replays it |
| paper collector (`supervisor.py`, `control.py`, `lock.py`, `failure.py`, `operations.py`) | collector lock, open cycle in the control database, last command time, pending decision, failure marker | launch, enter, cycle (guard, gap, rules, market, decide, execute, finish), halt, exit, cadence loop | journal, watchdog through marker and heartbeat |
| paper watchdog (`watchdog.py`) | collector heartbeat, supervisor status, restart budget | supervise, relaunch, beat, give up, scheduled check | collector processes, failure marker |
| paper account and assessment (`account.py`, `assessment.py`) | book, funding ledger, permanent stop; a fold over the finished journal | decide, execute, gap, assess | driven by the engine |
| paper attempts (`attempt2.py`, `predecessor.py`, `storage_probe.py`, `cli.py`) | sealed roots, the predecessor's root, the root lock | seal, launch, run, probe, assess | collector |
| market store (`integrations/market_store`) | ingestion runs, source records, bars under embargo triggers | migrate, begin, ingest, finish, export | PostgreSQL, Vision cache |
| Binance integration (`integrations/binance`) | raw cache files, frozen metadata; the series of one read | cached read, request, sync; native or aggregated series, gap policy, funding alignment | market store, forward acquisition, Datasets |
| forward acquisition and study (`evaluation/forward_acquisition`, `forward_study`) | sealed Dataset, seal record, output root | authorize, acquire, seal, score | Vision, git checkout |
| stateful order execution (`simulation/stateful`, `simulation/orders`) | pending orders, book, admission projection, per-bar queues | reconcile, submit, begin bar, prepare, allocate, fill, expire, finish bar | session, accounting |
| portfolio session, book accounting | decision index, reserved settlement intervals; quantities, cash, insolvency | decide, advance; fill, revalue, margin call, flatten, settle | executor |
| strategy replay (`evaluation/replay.py`) | remembered quantity, holding age, minimum hold, entry, ledger intervals | observe, propose, project, execute, capture, settle | strategies, risk, executor |
| portfolio policies and pre-trade risk (`strategies`, `risk/pretrade.py`) | one decision over a book with orders in flight | propose, constrain, reconcile | replay, session |
| portfolio training and inference (`strategies/rl`) | episode journal, forward journal, joins, checkpoints; the bundle | step, train, publish, load, bind, decide | replay, execution scenario |
| controlled Study (`evaluation/experiments`) | plan, baseline, definitions, candidates, verifications, comparisons, decisions, failures, freeze | nine mutating operations, reconstruction | Study store, final evaluation |
| Study store (`experiments/store.py`) | mutation lock, staging entries, sequence directories | lock, stage, publish file or directory | every Study operation |
| final evaluation (`evaluation/final_test`) | claim, sealed authorization | authorize, inspect | frozen Study |
| artifact store (`artifacts/`) | run directories, `latest.json`, failed runs | stage, publish, roll back, mark failed | candidate runs |
| candidate runs (`evaluation/runs`) | destination directory, provenance before and after | resolve, fit, execute, publish, load | Datasets, Study |
| comparison attempts, Ridge comparison | attempt root with its records; ledgers of every arm | reserve, record rows, complete, fail, load; validate, publish | candidate runs |
| decision-value study (`evaluation/decision_value_*`, `paired_portfolio_*`) | protocol, blocks, incomplete pairs, output directory | train a block, label, probe, reconcile, publish, refuse | replay |
| PPO checkpoint pipeline, normalization replication | trees and receipts uploaded by runs; tag, slot claims, results | prepare, arm, finalize; activate, claim, fit, verify, rule | GitHub workflows, git tags |
| trusted review (`tools/ppo_4h_gemini_review.py`) | runs, artifacts, verdicts, provider calls | request, revalidate, ask, publish | GitHub, the provider |
| agent coordination (`tools/agent_repo/coordination`) | task phases, leases with epochs, the registry reference | schedule, lease, renew, take over, enroll, swap | GitHub |
| repository tools (`tools/*github*`, `branch_hygiene.py`, ...) | nothing of their own; branches they delete | observe, retire, prune, verify | GitHub |
| process containment (`tools/tier_d_nonrl`) | Job Object, handles, sampled identities | launch, sample, terminate, close | the operating system |
| features, datasets, statistics, codecs, diagnostics, objectives | none shared | functions, I/O | all of the above |

What is hard, and what must hold:

* **Journal.** Two engines replay the same tail and both append; a process dies
  between INSERT, COMMIT and return; BEGIN IMMEDIATE times out. The chain must
  verify, no acknowledged event may be lost or doubled, and no commit may be
  made by an engine that has not seen the whole prefix.
* **Collector and account.** The failure marker, source drift, SIGTERM or a kill
  may fall between any two steps of a cycle, and the clock may step back. A
  stopped collection must not go on, an interrupted cycle must not be resumed,
  silence must leave a gap, the first cause must survive. Funding is published
  late, together or revised, and legs of a hedge fill one without the other: what
  is paid must be for what was held, and a naked leg must stop the account.
* **Watchdog.** Supervisors, collectors and a scheduled check communicate through
  files that may be stale, missing or rewritten. Restarts must stay inside the
  gap the protocol allows; a silent collection must be noticed even when the
  supervisor died with its child; no two writers may mislead each other.
* **Order execution and decisions.** Orders are admitted on a projection, filled
  later by a liquidity allocation computed before the first fill, and the book may
  die in between. What the loop remembers (age, entry, hold, unlocked size) and
  what a policy believes about orders in flight must agree with what was executed.
* **Publications.** Nearly every result is a directory or a tag that may exist only
  once, decided by a check made hours before the rename, by processes that fail,
  die, race and are run again while code, data and GitHub move. What is published
  must come from one writer and one source, and must not be replaced; what failed
  must not load; what was read must have been true.
* **Data.** Two files of a cache are renamed one after the other from names every
  process shares; archives are republished; ingestions lose their database session.
  What a Dataset reads must be what the exchange served, once.

The hazards, each at its line, are in `PROJECT.json` with the properties that
catch them.

## 2. Modules and how they correspond to the code

One module per component, an `MC` module per instance set, proofs in `*_proofs`.
Where one idea has several parts, the checked property is a conjunction of named
parts (`OrdersStaySound`, `StopHolds`, `AttemptsAreTrustworthy`, ...), each stated
and commented where it is defined.
Definitions named `...Unchecked`, `...Early`, `...Keeping` and the like, commented
"Mutation:", are deliberately wrong variants next to the definition they
replace; no specification uses them.

**PaperJournal.** `events` are the committed rows, `writer` SQLite's RESERVED
lock, `readers` the open read transactions, `pc/request/tip/known` one engine per
process, `returned` a history of what callers were told. `append` is split where
another process or a crash can come in: `AppendBegin` (BEGIN IMMEDIATE),
`AppendExisting`, `AppendStale` or `AppendInsert`, `AppendCommit`,
`AppendReturn`; `AppendKnown` is the engine's path for a key it has replayed,
`AppendBusy` the timeout, `Interrupt` an exception that closes the connection,
`Crash` a kill. A digest is the sequence of what it was chained from, so two
digests are equal exactly if their histories are (no collisions).

**PaperCollector.** Every program point of `PaperCollector.__enter__`, `cycle`,
`_execute_pending`, `_halt`, `__exit__` and the cadence loop of `operations.py`
at which another process, a signal or the clock can intervene is a label of
`pc`. A commit to the journal is one step here (`Commit`): PaperJournal shows why
it may be. `Environment` steps the clock forward or back, changes the source, or
writes the marker from outside.

**PaperWatchdog.** Collectors are reduced to what the heartbeat and the exit code
tell (`starting, idle, begun, acked, hung`, exit codes); supervisors follow
`supervise_collector` from the head of its loop to the verdict on a dead child
(`SupEndsAfterExit`, `SupRestart`); `CheckRead`/`CheckWrite` are
`check_collection`, which reads first and writes later. A write of a heartbeat
may fail at any time (`Beat`).

**StatefulOrders.** One bar is `Decide`/`Submit`, `Start`, `BeginBar`, one
`Prepare...` step for each active order in the code's order, one allocation for
each symbol, one fill for each allocation and the finishing steps. `setup` is
chosen once in `Init` and never changes: it is the configuration (cost model,
session, or direct caller of the executor). `Reconciled` is
`orders/reconciliation.py`, `Admissible`/`Closes`/`Reserved` are admission on the
projection, `Allocation` is `liquidity.py` (`Remaining` is the pool and the inventory that
each order of the queue leaves to the next), `Margined`/`Flattened`/`Settled` are
`accounting.py`.

**StudyLedger** is the abstract specification of the Study: `May...` are the checks
of an operation, `Put...` the artifact it publishes, and each operation is one
step. `Reconstructs` is what `_reconstruct` accepts. `Holding` is the
holding-duration protocol.

**StudyStore** is the detailed one: processes take the mutation lock (`Lock`),
rebuild and check (`Refuse`, `Begin`), create and fill a staging entry (`Stage`,
`StageFails`, `BuildFails`), rename it (`Publish`) and return; `Kill` may strike
anywhere. It instantiates StudyLedger on its artifact variables
(`ImplementsLedger`).

**PaperAccount.** One carry pair. `DecideCommand`, `ExecuteCommand` and the gap act on
a snapshot of a venue that publishes funding when it pleases; the assessment
(`screen_reasons`) judges the account's history.

**PaperAttempt.** Sealing of both attempts and of the storage probe, the lineage check
at each way into a root, the lock and the guard, for processes that race while
the predecessor's root, the checkout and the clock change.

**MarketStore.** Clients, sessions and the database's own triggers: an ingest command
from admission to `finish_run` (advisory lock, abandoned runs, source records,
404s, conflicts, counters) and an export that reads statement by statement.

**VisionCache.** Each access to a file name is a step (`read`, request with retries,
two writes, two renames, unlink); a process keeps writing the file it opened
wherever that has been renamed to. The frozen exchangeInfo is published the same way.

**MarketSource.** One read is one phase after another: REST pages or the planned
archives of a window, native or aggregated, the gap policy, the month boundaries
of funding, and the alignment of funding to both clocks.

**ForwardStudy.** Acquisition, seal record and the single scoring run, with concurrent
and killed processes, republished archives, edited files and a clock that steps back.

**StrategyReplay.** The single-symbol, shared-cash and scripted loops of `replay.py`;
the executor is reduced to its contract, which StatefulOrders details.

**PortfolioPolicies.** A bar of a desk: what each policy proposes, `PreTradeRisk`,
reconciliation with orders in flight, and fills.

**PortfolioTraining / PortfolioInference.** The training attempt with its journals and
joins; the bundle made of it, its two loaders, the scenario binding and the
decisions, while files and environments change. Inference composes training.

**FinalAuthorization / WriteOnce.** Staging, exclusive claim, rename, re-binding and
release, composed with StudyLedger. WriteOnce is the abstract write-once cell;
`SealedOnce` is the refinement.

**ArtifactStore.** Stage, publish, roll back, pointer and failed runs; power failures
lose the renames that were not synced.

**CandidateRun, RidgeComparison, ReturnSeries.** A candidate run from configuration to
the loader of every supported schema; the whole validation of a Ridge comparison
document; the metrics both check, as exact ratios.

**ComparisonAttempt.** The five attempt runners, which differ in the order of their
records, over a source that may change underneath.

**DecisionValueStudy.** Protocol, causal training of a block, paired labels, margin
calibration, ledger reconciliation, verdict and receipts, and the output directory
several runs compete for.

**CheckpointPipeline / NormalizationReplication.** Restartable workflow stages that merge
what earlier runs uploaded; the one-shot replication with its tag and slots.

**ReviewGate.** Whole runs are concurrent, attempts of a run follow each other; the
repository, artifacts and runners change between any two steps.

**CoordinationScheduler / CoordinationRegistry.** The ready set over reported phases; lease
epochs, projections and the compare-and-swap of one Git reference.

**RepositoryTools.** A tool is a script of calls, one call a step; `Together(kind)` says
which answers the tool itself confirms to be of one moment. A comment carries the time of its
update, which the tools compare (github_work_inventory.py:64-90).

**ProcessContainment.** One call to the operating system is one step; an identity is a
PID with its generation.

## 3. Runs

The components of a group share no state. Their run puts them side by side: a
variable `part`, chosen in `Init` and never changed, says which component takes
steps, and the others keep their initial state. One run is thus the union of the
components' state spaces, and one TLC invocation answers for all of them. Where a
component chooses its configuration in `Init`, the other parts pin it.

| run | components | instance | shows |
|---|---|---|---|
| journal | PaperJournal | 2 processes, 3 keys, 2 bodies, 3 events | chain, durability, commits only from the full prefix |
| | PaperAccount | 6 commands, 2 funding times, 2 rates | funding is paid for what was held, none missed in silence; a naked leg stops the account, a stopped account only reduces |
| | PaperAttempt | 2 entrants, 1 root, 2 code versions, 2 times | a collection is the sealed one, a probe is no screen |
| | MarketStore | 2 clients, 2 overlapping archives, 2 versions, 2 runs | bars match sources, succeeded runs account for every archive, only the live run writes |
| | VisionCache | 2 processes, 2 payloads, 2 attempts, 3 requests, 1 death, 1 republication | what a caller gets was served whole; a pair is complete when nothing is in flight |
| | MarketSource | windows of 8 base bars, pages of 2, days of 2, months of 4 bars, up to two holes | the series are the exchange's, the two clocks accrue the same funding, each event once |
| | ForwardStudy | 2 acquirers, 2 scorers, 2 disturbances | the result rests on the seal, one score |
| collector | PaperCollector | 2 processes, 2 launches, 8 clock values, 1 step back | one command at most after a stop, whole cycles, silence recorded, first cause kept |
| | PortfolioPolicies | 3 bars, 2 symbols, every policy kind | a HOLD keeps the orders on their way; limits are kept |
| | ProcessContainment | 3 PIDs, 4 births, 2 snapshots | nothing of the family outside the job or left after close; samples are of one moment |
| | RepositoryTools | 3 branches, 11 tools, 2 repository events, 2 deletions | deletions are of merged, unreserved tips; reports were true at one moment |
| collector_ends | PaperCollector | 2 processes, 6 clock values, 1 step back, fair | every launched process ends |
| watchdog | PaperWatchdog | 2 supervisors, 2 collectors, 1 fault | when all have returned, the end is explained by marker, terminal heartbeat or time |
| watchdog_alone | PaperWatchdog | 1 supervisor, 2 collectors, 2 faults, fair check and clock | restarts only inside the gap; silence is noticed |
| watchdog_clean_end | PaperWatchdog | 1 supervisor, 1 collector, no fault | violation: a clean end is condemned |
| watchdog_contention | PaperWatchdog | 2 supervisors, 2 collectors, 1 fault | violation: the owner's status is overwritten |
| orders | StatefulOrders | four setups, up to 2 symbols | one order per symbol, cap without reversals, final termination, settlement; legal transitions inside windows |
| | StrategyReplay | 3 modes, 3 decision and 2 settlement bars, 2 lots | age, entry, hold and intervals agree with the execution |
| | PortfolioTraining, PortfolioInference | 2 rollouts of 2 steps, 1 edit, 3 decisions | a decision is that of the trained policy; its samples are attributed |
| | ReviewGate | 2 runs, 2 requests, 2 re-runs, 1 repository change | one verdict per commit |
| orders_cap | StatefulOrders | 2 symbols | violation: an unfilled reversal lets another opening exceed the cap |
| study | StudyLedger, FinalAuthorization | 3 experiments, both protocols, 2 authorizers | reader accepts every Study, evidence append-only, one baseline, best winner; the sealed authorization binds it, once |
| | ArtifactStore | 2 publishers, 2 runs, 2 troubles | `latest.json` names a published run |
| | ComparisonAttempt | 5 kinds, 2 callers, 2 arms, 2 versions | what loads is one writer's, from one source |
| | NormalizationReplication | 2 slots, 2 outcomes, 2 runs, 2 verifies | a slot is fitted at most once and never unclaimed |
| | CandidateRun, RidgeComparison | 2 runs, 9 schemas, 1 death; 3 arms, 6 bars | results are what one run did; documents balance |
| | DecisionValueStudy | 2 runs, 2 heads, 1 death | the directory is one attempt, honestly reported |
| study_store | StudyStore | 2 processes, 2 experiments, 1 fault, 1 kill | the store implements the ledger; exceptions leave no staging |
| | CheckpointPipeline | 1 factor, 1 cell, 2 fits, 3 uploads, 2 reviews | merged evidence is complete, reviewed and of one fit |
| | CoordinationScheduler, CoordinationRegistry | 3 tasks; 2 coordinators, 2 owners, 4 leases, 2 moves | the selection is exact; the registry is the record of who writes |
| study_kill | StudyStore | 1 process, 1 experiment, 1 kill | violation: a killed run cannot be recorded as FAILED |

Why the bounds are enough. Two processes are the fewest that race, and a lock, an
exclusive file or a compare-and-swap makes a third one another loser of the same
race. Three journal events let one process be two commits behind and retry a key
at either end. The collector's clock reaches past close plus grace, with a gap
limit that is crossed and one that is not; two launches are a crash and its
successor. The watchdog's two collectors are a child and its relaunch (or the
rival's child); one or two faults kill the child, the supervisor, or both. In
`orders`, capital 3 with lots of one unit at price 1 gives positions below, at and
above the cap, volumes 0, 1 and 3 give no, partial and full fills, and `flows` and
`costs` kill the book between bars or inside a fill. Three experiments are the
fewest in which one can be decided, one defined on it and one failed; their
results tie exactly, are ineligible, or are not controlled. One death (fault,
trouble, disturbance, republication) is enough where the hazard is one event between
two steps: its place is not fixed, and what the code does afterwards includes the
next process that meets the remains. Where a hazard needs two (a power failure
after an exception, a session lost by a run that was abandoned, a lost answer after
a rival's move) the bound is two. A window of eight bars crosses a month with whole
months, broken months and days, and pages that end inside and at a bar.

`CHECK_DEADLOCK FALSE` is set where the system really stops: a screen that is
over with its launches used up, a session at its last bar or a terminated book, a
frozen Study, a tool or a keeper that has returned. Elsewhere a caller can always
come and be refused, and the models say so.

Symmetry is declared over the interchangeable callers (processes, keys, clients,
supervisors, authorizers, coordinators, ...) in the safety runs only; the liveness
runs use none.

## 4. Fairness

`collector_ends` assumes that a live process keeps taking its steps and that the
clock advances: `run_collector` is a loop of finite calls with HTTP timeouts
and `sleep`, so a process that is neither killed nor suspended does go on.
Launches, signals, crashes, drift and the external marker are not assumed to
happen.

`watchdog_alone` assumes less: the clock, and that the scheduled check runs again
and again (docs/specs/funding-carry-paper.md:631: a scheduled task runs it every minute as a process of its
own). No supervisor and no collector is assumed to make progress: the property
is about both being dead or hung.

## 5. Proofs

The theorems hold for every set of processes, roots, keys or tasks and for every
value of the constants that satisfies the named assumptions of the modules: sizes
and times are naturals or integers, "nobody", "unclaimed" and "no request" are no
member of the set they stand beside, a slot roster is a sequence of slot names, PIDs
are positive, the target weights of the symbols, the dust of a fill and the latencies of a
desk are naturals, the cells of a checkpoint study and the tasks of a coordination are finitely
many, the fields of a study protocol are integers and the bars of a Dataset are numbered
from 0, a direct caller's intents are non-zero quantities of known symbols, and funding
settlements lie further apart than the gap limit (`FundingAssumption`, which account.py
relies on). Each proof has the same shape: an inductive invariant, one lemma or step for
each action, and the theorems that follow from it. The invariant is given here with the reason it is needed; the checked
property alone is seldom inductive.

**PaperBooks_proofs** (PaperJournal, PaperAccount).
* `JournalInv` adds what an engine between BEGIN and return has staged (`StageInv`: it
  holds the RESERVED lock alone, its row extends the tail, its key is new) and that a
  digest is as long as its history. The chain alone is not inductive: a commit
  appends a row whose parent was read two steps earlier, and only the lock says it is
  still the tail. Gives `ChainAlwaysIntact`, `AcknowledgedAlwaysDurable`,
  `JournalAppendOnly`. `ViewInv` says that what a process replayed is exactly some
  prefix, tip and keys together; a tip equal to the tail's digest therefore means the
  whole prefix was seen (`ViewAlwaysPrefix`, `AlwaysCommittedFromFullPrefix`).
* `AccountInv` is typing, `HedgeKept` (a naked leg is on record and has stopped the
  account) and `FundingKept`: a settled payment is past and paid for what was held
  before it, and while nothing has failed an owed one is expected, as is the next one
  once there was an execution. Rates arrive late, together or revised; without the
  expected payments "none missed" would not survive an observation. Gives `FundingAlwaysSettled`,
  `StopAlwaysHolds`.

**Attempts_proofs** (PaperWatchdog, PaperAttempt, PortfolioTraining, PortfolioInference).
* `WatchInv`: copies of the last command lag the journal (`CopiesLag`), a live
  collector has a supervisor unless one was killed (`Employed`), and a supervisor that
  has returned left an explanation or left the collection to another (`Explained`).
  Gives `EndAlwaysExplained` and, because a copy that lags can only make the gap look
  longer, `RestartsAlwaysInsideGap`.
* `AttemptInv`: a process past the protocol is in a sealed root it may enter, under the
  sealed code, and has read the predecessor (`EntryIsJustified`); only sealed screens
  are assessed. Gives `CollectionAlwaysTheSealedOne`.
* `TrainingInv`: the records of an attempt are attributed (a join names a sample and a
  native result of its action), versioned (samples were drawn from the checkpoint before
  their rollout), ordered and dense (`RecordsInv`). That is not inductive without what a
  running process knows (`LiveInv`): the rollout under way has drawn as many samples as its
  journal counts and joined a prefix of them, later rollouts have none, and there are as
  many native results as joins; a forward nobody stepped on makes the two counts differ,
  and the next step is then refused for good. A step that raised leaves the records as
  they are, joined or not, so a failure keeps only `RecordsInv`.
* `PolicyInv`: whatever publishes, loads, decides or edits comes after a training that
  returned, which takes no further step (`DoneIsLast`); a loader past its checks holds the
  fitted context and the last checkpoint of the receipt, so an edit afterwards changes
  nothing it uses (`LoaderInv`). Gives `PolicyTraceable`.

**Collection_proofs** (PaperCollector, RepositoryTools, PortfolioPolicies).
* `CollectorInv`: typing, exclusive lock, and `LateOnce` (once a command was committed
  after the marker or the drift, no process is where it could commit another without
  a new look). Gives `CollectorTypeCorrect`, `AtMostOneLateCommand`,
  `FirstCauseAlwaysKept`.
* `CycleInv` says for every program point which cycle is open, who began it and which
  commands it holds. Gives `CyclesAlwaysWhole`; `SilenceAlwaysRecorded` needs the last
  command time that each step compares with.
* `ToolsInv`: while tools read, the repository only moves on (`Grew`, event by event): a tip,
  a run, a comment or a review that changes never returns to an earlier value, tips and
  attempts because they are numbered, comments because they carry the time of their update.
  What the script has read so far, and between which calls (`ReadInv`): a part read alike
  before and after another call was so at the moment of that call, and the calls of each
  tool are nested in this way. What the deleting tools have read, decided and already
  deleted (`DeleteInv`), so that a branch goes only at the tip the lease names. Without the
  update times the inventory's report is not of one moment: an edited comment that is
  edited back reads alike around a moment at which it differed.
  Gives `ToolsAlwaysExact`.
* `DeskInv`: the shape of the desk (integer weights, integer rests, a scale in percent),
  no decision before the first bar, and the property. What it takes is about one decision:
  every kind of policy answers with integer weights (`AnswersAreSound`); a proposal whose
  free symbols shrink to make room for the held ones, or that shrinks as a whole, fits the
  limit although each share is cut off by itself (`ProposalFits`, from `SharesFit`); and
  while no symbol's posture exceeds its limit, nor all together theirs, a HOLD asks for
  exactly what each order in flight leads to (`HoldAsksForOrders`): the held symbols are then
  inside their posture and nothing is rescaled. Sums over the symbols are obtained, compared
  and combined by induction over the subsets of the symbols (`SymbolInduction`, from the
  library's well-founded order on finite sets). The posture is the one the code
  computes, without the dust of an order that is being worked: counted with that dust the
  statement is false: dust that would reduce a held position brings the total under a limit
  that the position alone exceeds, and the code then shrinks the others. Gives `DecisionAlwaysKeepsPosture`.

**StudyLedger_proofs** (StudyLedger).
* `LedgerInv`: plan and baseline first (`Rooted`), every experiment and the freeze
  acceptable to the reader (`AllIntact`, `FreezeIntact`) and, for a holding-duration
  Study, the whole roster defined before any candidate exists (`RosterFirst`), which
  keeps an accepted arm out of the lineage of another. Gives `AlwaysReconstructs`,
  `ArmsAlwaysShareBaseline`, `WinnerAlwaysBest`, `AlwaysAppendOnly`.

**Evaluation_proofs** (FinalAuthorization, ForwardStudy, StrategyReplay).
* `FinalInv`: the ledger's invariant, what each authorizer has read of the Study at its
  program point (`AuthorizersOK`), and whose claim every root carries (`RootsOK`).
  What is staged stays the frozen winner because a freeze admits no further
  operation. Gives `SealedAlwaysBindsWinner`, `OnlyClaimantSeals` and the
  refinement `RootsAreWriteOnce` to WriteOnce, in which `ReadersAlwaysAgree`.
* `ForwardInv`: at most one acquisition is past its exclusive mkdir
  (`AcquisitionSound`), manifests name verified Datasets (`WorldSound`), a scorer holds
  the seal record it checked and its own claim (`SealNoteSound`, `ScoringSound`).
  Gives `ForwardAlwaysSealed`.
* `ReplayInv`: a running loop has a solvent book and the last captured interval ends with
  the book as it is (`BookKept`), which the chain of intervals needs; without a lock and a
  lasting limit the remembered size is the intent's, whatever kind of bar was the last
  (`SizeFollows`). `UnlockedFollowsBudget` alone is not inductive: it looks only at
  bars on which the strategy decided, and the next bar keeps the size of any bar. Gives
  `MemoryAlwaysMatches`.

**Publication_proofs** (StudyStore, ArtifactStore, NormalizationReplication,
ComparisonAttempt, DecisionValueStudy).
* `StoreInv`: at most one process is past the lock, its request is well formed, and
  what it checked still holds until its rename. Every rename is then the step of the
  ledger and every other step a stutter: `StoreImplementsLedger`. With the theorems
  about the ledger, `StoreAlwaysReconstructs` holds of the tree that failing and killed processes
  leave. `StagingInv` (without a kill, a staging entry belongs to the process that is
  filling it) gives `ExceptionsNeverLeaveStaging`.
* `ArtifactInv`: between rename and pointer a run has one publisher and no pointer;
  what `latest.json` names, and what a power failure would restore, is synced
  (`PointerInv`). It is claimed only while no interrupt has struck after the
  replacement (`torn`). Gives `LatestAlwaysPublished`.
* `ReplicationInv`: one workflow run holds the tag and it alone fits (`ClaimInv`), a
  receipt that says "not consumed" is of the run with the tag and of an unfitted slot
  (`ReceiptInv`), verification binds results to replays (`VerifiedInv`). Gives
  `SlotsAlwaysOneShot`.
* `AttemptInv`: whoever is past mkdir owns the root (`OwnerInv`); the versions its arms
  ran under lie between its first look at the source and the present (`SourceInv`),
  which makes two equal looks mean one version; counted and reported rows are on disk
  (`RowsInv`). Gives `AttemptsAlwaysTrustworthy`.
* `ValueInv`: what a run of the decision-value study has behind it at its stage
  (`RunIsSound`: the blocks it evaluated were trained, or its evidence is that of the
  training), at most one process behind the directory with the files its stage says
  (`HoldersAgree`), and a result that outlives a killed process is whole as far as it goes
  (`RootIsSound`). The rest is about the checks: `TrainedIsOnThePast` derives from the
  protocol, the preflight and the checks of the training that no row later than the
  cutoff was read, which leaves the probe nothing to find, and `ReconciledMoney` that a
  reconciled ledger accounts for its fills. A largest element of a finite set of integers
  is found as a minimal counterexample (`LargestOf`). Gives `StudyDirectoryIsOneAttempt`.

**Tools_proofs** (ReviewGate, ProcessContainment, CoordinationRegistry, CheckpointPipeline).
* `ReviewInv`: packets precede the outputs of their attempt, one run of a commit at
  most is at the provider (`ProvidersApart`), and the answer a run carries, and every
  verdict, is that of the last call about its commit (`CallsSound`, `VerdictsSound`).
  Gives `AlwaysOneVerdictPerCommit`.
* `ContainmentInv`: what runs is of the family, alive only in the job, and nobody is
  alive once the job is closed (`MachineSound`); what the keeper holds or has given up at each
  program point (`KeeperSound`); an identity that was read is not newer than what was there
  when the roster was verified (`SampleSound`); a tree sample owns only the
  family and strangers reached through a parent in the same snapshot (`Descended` is
  the least closed set, `DescendedIsLeast`). Gives `FamilyContained`.
* `RegistryInv`: an epoch is at most the number of leases issued (`LeasesSound`), each
  registry of the chain differs from the one before by one lawful enrollment or by a
  writer that left (`ChainSound`), and a planner's projection was lawful on the tip
  it read (`PlannersSound`), so that a swap that finds this tip keeps the chain lawful;
  `VerifiedSwapWasTip` is part of it.
  Gives `RegistryRecords`. `SchedulerInv` says of two tasks in flight that clash that
  one was not yet known to be active when the other was selected. The selection takes a
  task, in order, unless it clashes with one that is active or was taken before; that such
  a set exists is shown over the finite set of tasks with a minimal counterexample
  (`GreedyExists`). Gives `SelectionAlwaysExact` and,
  with the registry, `TasksKeptApart`.
* `PipelineInv`: every artifact's tree names its own fits, was fitted under the review in
  its receipt and holds a comparison only over complete arms (`ArtifactSound`); two
  artifacts with the same fit are of the same review (`SameReview`); past the preflight a
  run works under a posted review of its own protocol, and its last command leaves the
  product (`StageSound`). Fits are numbered, so a merge whose paths agree takes cells and
  arms together with their fit (`MergeIsSound`), and a new fit is shared with nobody.
  Gives `MergedAlwaysWhole`.

**Orders_proofs** (StatefulOrders).
* `OrdersInv`: identifiers are drawn from a counter and no order of the book has one still
  to be drawn, so an order is written by its creation or by a transition of the order it
  was; an allocation that waits to be filled is part of what is left of an order that is
  still active (`PartOf`). What a queue is allocated is part of each order and of the pool
  because pool and inventory after n orders are whole and not negative for every n
  (`RemainingIsWhole`, with a least n as counterexample, `LeastNumber`). Gives
  `OrdersAlwaysLegal` and `SessionsHoldOneOrder`.
* `CapInv`: while a bar that opened within the cap is under way, the admission pass keeps a
  projection that satisfies the cap (`Bounded`) and the book is inside it symbol by symbol
  (`Inside`): an admitted order either closes part of its position or brings it no further
  than the projection, and both stay true of the rest of an order that is filled in part.
  The cap itself is not inductive: the next fill of an admitted order may use headroom that
  only the projection shows. The sums over the symbols (`Total`) are bounded and compared
  through their partial sums (`PartialSums`, `TotalGrows`, `TotalChanges`). The claim is for
  sessions without execution costs, which the projection does not charge, and for bars that
  reversed nothing: with a reversal it is false (section 6).
* `SettleInv`: in the reserved intervals each position has an active order that closes it
  (`Covered`) and no active order does anything else (`OnlyClosing`); such an order is
  admitted (`WillAdmit`), since closing is not refused while the book is worth something,
  and filled in full (`WillFill`), since it is alone in its symbol and finds the volume.
  "Flat at the stop" says nothing of earlier bars and needs all of it. With `LedgerInv` (a
  book that died stays dead, an active order has something left, a session's order is
  eligible after exactly the latency) these give `OrdersAlwaysSound`. It is about sessions
  that settle with market orders and without a market profile (`SettlesAtMarket`): with one, the closing order
  need not be reduce-only, and the cap may refuse it.

Only model-checked, and why:

* `CollectorEnds` and `SilenceIsNoticed`: liveness under fairness, and ENABLED.
* `MarketDataAccountsForItself`, `PublishedResultsAreTrue`: they compare a state with
  recursive aggregates of its data (bars, funding, ledgers, returns). Induction over data
  is outside the prover; only where a finite set has a minimal counterexample (the library's
  `WFMin`) do the proofs above get by without it.

## 6. Findings

Four runs are expected to fail. Each states what a comment or a document says of
the program; the counterexample is what the code does.

* `CleanEndNotCondemned` (watchdog.py:834). The terminal heartbeat is written once
  and a failed write is tolerated like any other; the child exits 0 and the
  supervisor, seeing no terminal heartbeat, records `CollectorExitedEarly`.
  watchdog.py:211 says a transient sharing violation cannot end a screen.
* `OwnerStatusUntouched` (watchdog.py:792). A supervisor that restarts its child and
  meets another one's lock overwrites the owner's status with "stopped", which
  watchdog.py:743 excludes.
* `StaysWithinCap` (order_transitions.py:256). A reversal is not a closing order, so
  the projection releases the gross of the position at once; an opening in another
  symbol uses that headroom and, if the reversal does not fill, the book leaves
  the cap. order_transitions.py:274 and docs/architecture/lean-core.md:562 say
  that no unfilled close releases headroom. `StaysWithinCapUnlessReversed` shows
  that, execution costs aside, reversals are the only way.
* `FailureRecordable` (experiments/store.py:204). A process killed while it builds a
  candidate leaves a staging entry that every later reconstruction refuses, so
  the experiment cannot be recorded as FAILED, as
  docs/architecture/controlled-experiment-loop.md:186 says it can, until the entry
  is removed by hand.

## 7. Observations

Behaviour met while modelling that no document excludes, kept in the models:

Paper, orders and Study:

* `cli run` started again after a screen has finished appends an observation gap
  to the finished journal; a "finished" reached inside a cycle leaves an empty
  acknowledged cycle.
* SIGTERM during the finishing steps marks a finished screen as failed.
* A second supervisor's child that is killed before it takes the lock makes its
  supervisor read the owner's open cycle as its own and record
  `CollectorDiedMidCycle`.
* A heartbeat writer gives up after 120 s, the supervisor calls a child hung after
  150 s: with more than 30 s between two beats the supervisor may be first.
* `check_collection` decides on a heartbeat it read earlier; a beat in between does
  not stop the marker.
* Without retained debt, orders of later symbols and allocations of the same symbol
  still fill on a book that died earlier in the bar, and each such fill is
  flattened at once.
* A direct caller that submits several closing sells without `reduce_only` can
  overshoot; reconciliation never does.
* A holding-duration Study with a FAILED or INVALID arm can never be frozen
  (documented). An I/O error in `define_experiment` after the sequence directory
  was made leaves a Study that no operation accepts.

Market data:

* An enforced export reads funding from the inclusive warm-up start (store.py:590),
  which the embargo (embargo.py:79) treats as exclusive. An exchangeInfo that returns
  to an earlier content after another one is stored once.
* Shared temporary names and two renames can leave a mixed or incomplete pair in the
  Vision cache: it is refused until a sync fetches it again. A sync that has already
  reported "complete" may have its pair unlinked by a sync that inspected earlier. The
  docstring of sync speaks of absent and empty archives; invalid ones are fetched
  too. Frozen metadata of two writers can disagree and is then refused for ever.
* STRICT admits a range whose first or last bars are missing (only inner regularity
  is checked), although dataset.py:49 says that any missing bar is rejected. A Vision
  funding range that ends exactly at a month start omits the event at its end, which
  REST includes, so that AUTO's fallback can change the last bar's funding.

Publications:

* Artifact store: an interrupt between the pointer's replacement and the return rolls
  the run back while `latest.json` names it (`torn`). Comparison attempts and candidate
  runs compare two provenance records: a source that changes and changes back is not
  seen. A Ridge attempt has no loader.
* FS1: a kill inside the write or a failed flush leaves an incomplete output that
  blocks the root; the receipt's code identity is read again without a second check;
  the manifest may carry a fetch time before settlement when the clock steps back.
* A failure receipt of the replication claims no tag when the answer that created the
  tag is lost.
* A candidate run reads the Dataset root twice (candidate.py:46). A shared-cash PPO
  replay that stops early is published and then refused by
  `load_candidate_run_artifact`. `has_verified_full_evaluation_coverage` ignores
  terminations. The family loader does not compare returns with ledger intervals.
* Decision value: with `label_prefix_bars` 0 every label is refused; the result root is
  three separate writes; a failed `os.link` leaves the root retryable; receipts of the
  causality probe cannot be reached; the shared replay refuses rows with late marks,
  so that the maturity checks of labels never refuse.
* Training may leave both `completion.json` and `failure.json` if the atomic write
  raises after its rename. The plain inference policy does not check its environment
  again; the scenario policy does.

Decisions:

* A single symbol's settlement passes through max_turnover; a protective exit is locked
  again by the minimum hold.
* A legacy_v1 proposal whose scores are all non-positive holds a position whose exit is
  in flight and cancels the exit; an exact-quantity HOLD cancels active orders, so that
  with latency of a bar or more entries of buy-and-hold and orders of the allocator are
  superseded at the next off-schedule bar. `_HoldQuantityPolicy` always uses legacy_v1.
* PreTradeRisk multiplies by the drawdown scale at every bar: a held position shrinks
  geometrically, and targets of TD8 are scaled twice. `compute_posture_cost_adjustment`
  is never used.

Review, coordination and tools:

* `_is_authorizing` is never called: a clear disposition beside a failed G0 is passed on
  as a pass. A malformed or truncated answer, and one lost with the runner, is asked
  again. Two runs' packet uploads can block each other for ever.
* Leases of tasks whose names have one slug share a branch.
* A push whose answer is lost, or whose readback differs, deletes branches without
  reporting them. The inventory's workflow names and open pull requests are not of one
  moment. Unfinished workflow runs are read status by status: a run that moves back is
  missed. A blocked source review is cleared only by dismissing it, and its reviewer
  may be the author of the pull request.
* ProcessTreeSampler can count a stranger through a parent whose PID was used again. A
  keeper that dies between Popen (suspended) and the assignment leaves a suspended
  process behind.

## 8. Abstractions and what is left out

* **StatefulOrders.** Every price is 1 and quantities are whole lots, so value and
  quantity coincide; profit and loss come in as `flows`. Order ids are triples of
  submission, symbol and number. Minimum notional, lot and tick rules are one
  refusal (`PrepareRefused`); a split cancels orders and does not rescale. A hold
  is a target equal to the position. Cross margin with one maintenance rate and a
  haircut of one; isolated margin, fractions, drawdown statistics and the poisoned
  flag of a session are left out. `expiry_index` None is one bar past the end.
  Market refusals, volumes, flows and costs are choices of the environment.
* **Study.** An EvidenceSet stands for everything computed from it (controlled,
  eligible, score). Configuration deltas, dataset provenance, digests and tamper
  detection are data. A caller's arguments are chosen when it takes the lock;
  `inspect_study` changes nothing and is the reader's predicate.
* **Paper.** A capture either returns or raises after any time; the market data in
  it, the account's funding, risk and fills are reduced to a pending decision,
  flatness and the quality failure.
* **External.** SQLite's locks and transactions, `os.replace`, advisory file locks
  and the process table are modelled from the way the code uses them.
  The same holds for PostgreSQL's statements and advisory locks, GitHub's references,
  runs and artifacts, the Gemini provider, Binance's publications, the Windows job and
  handle calls, and torch's optimizer: each map entry marked external.
* **Numbers.** Weights are permille, returns exact ratios, quantities lots, and money
  small integers; tolerances are equality. A digest is the content it digests.
* **One for all.** Cache URLs share no file, so VisionCache has one. MarketStore and
  MarketSource have one symbol, RidgeComparison two ridge arms for three. Answers of
  GitHub that come in pages are one answer or a failed call.
* **StrategyReplay** and **PortfolioPolicies** do not include the executor: they use its
  contract (a position moves some of the way to the target). Prices do not move there.
* **Not modelled.** Simulation diagnostics and objectives; feature arrays, causality
  masks and Dataset identities; Study analysis, codec and bootstrap; walk-forward,
  robustness, gates and comparisons of finished runs: deterministic functions without
  shared state, whose numbers the models take as inputs (score, eligibility, verdict).
  The exchangeInfo snapshots of the market store and the rules derived from them; the
  handoff packets of coordination; archive extraction limits and process-group kills of
  the checkpoint workflow; order-book, trade and profile archives of Binance; benchmarks,
  disposable end-to-end checks, documentation and deployment files.

## 9. Plan

Done: first the six central modules (PaperJournal, PaperCollector, PaperWatchdog,
StatefulOrders, StudyLedger, StudyStore) with the proofs of section 5; then the
modules of the second half of section 2.

Theorem still wanted: the cap of a session with execution costs, with the costs of a bar as slack.

Models still wanted: the exchangeInfo snapshots of the market store; the handoff packets
of coordination; a composition of PaperAccount with PaperCollector's commands.
