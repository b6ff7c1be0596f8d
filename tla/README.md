# Stateful Knowledge Learning in TLA+

A language model is trained to play games by *looking ahead*: in one episode it
describes the state it is in, names a few candidate moves, tries them out in
copies of the game, summarises what it saw, and moves. The episode is then
turned into tokens, masks and rewards for reinforcement learning and for
self-distillation (the understanding it had *before* simulating is trained
towards the summary it wrote *after*). The repository is this training system
on top of a vendored copy of verl, plus a server that hosts the ScienceWorld
games.

This directory holds TLA+ models of the parts where order, sharing and failure
matter, TLC configurations that check them on small instances, and TLAPS proofs
of the main theorems for every instance.

Paths below are relative to the repository root.

* [1 The system](#1-the-system): components, state, operations, interactions
* [2 The hazards](#2-the-hazards)
* [3 Modules and how they correspond to the code](#3-modules-and-how-they-correspond-to-the-code)
* [4 Runs](#4-runs): what is checked, bounds, fairness
* [5 Theorems](#5-theorems): what is proved, from what, how
* [6 Where code and documentation disagree](#6-where-code-and-documentation-disagree)
* [7 What is not modelled](#7-what-is-not-modelled)
* [8 Plan](#8-plan)
* [9 Running it](#9-running-it)

## 1 The system

### 1.1 Components

| component | source | state | operations | module |
|---|---|---|---|---|
| ScienceWorld environment server | `tasks/classic_games/scienceworld/scienceworld_env_server.py` | high and low queue, worker tasks, executor threads, pool semaphore, `_envs` | create, reset, reset_state, step, observe, get_key_stats, close; startup, shutdown | `EnvServer`, `EnvPool` |
| ScienceWorld environment client | `.../scienceworld_env_client.py` | `env_id`, `full_action_history`, the HTTP connection | the same calls, sent again when a connection fails | `EnvClient` |
| Value loop, environments | `src/agent_loop/game_value_lpm_loop.py` | the game, a simulator per move, one environment per simulated trajectory | `run_lpm`, `run_policy_centric_parallel_planning` | `Episodes` |
| Value loop, token streams | the same file | prompt, response, masks, rewards; the student's or teacher's version of them | `run_lpm`, `run_parallel_planning`, `run_policy_centric_parallel_planning`, the two-stage inferences, padding | `TokenStreams`, `PolicyStreams` |
| Inference loops | `src/agent_loop/game_value_infer_loop.py`, `game_local_infer_loop.py` | tokens, mask, rewards; the messages of every turn | `run_mdp`, `_two_stage_value_inference` | `InferLoops` |
| Local planning loop | `src/agent_loop/game_local_lpm_loop.py` | the planner's conversation, as messages and as tokens; one simulator per move | `run_lpm`, `run_independent_planning` | `LocalPlanner` |
| Training loop and checkpoints | `src/trainer/ray_trainer.py`, `verl/verl/utils/checkpoint/*.py` | step, data loader, fine-tuning buffer, shards, `data.pt`, tracker file | `fit`, `_save_checkpoint`, `_load_checkpoint`, rotation | `Trainer` |
| Batch of a training step | `src/trainer/ray_trainer.py`, `verl/verl/protocol.py`, `verl/verl/utils/seqlen_balancing.py`, `verl/verl/workers/actor/dp_actor.py` | the columns of a batch, the chunk of each device and its micro-batches | repeat, chunk, concat, reorder, balance, split, restore, compute, update | `BatchFlow`, `Balancing`, `Partitions` |
| Stockfish engine pool | `tasks/classic_games/chess/stockfish_server.py` | engines, a bounded queue of the free ones, `_started` | start, stop, lease, release | `StockfishPool`, `EngineLeases` |
| Global rate limiter | `src/agent_loop/global_rate_limiter.py` | a JSON file and a lock file shared by processes | get_token, cleanup | `RateLimiter` |
| Agent loop workers, server choice | `verl/verl/experimental/agent_loop/agent_loop.py` | counters per server, a sticky cache | choose a server, generate, pad a batch | `ServerChoice`; dispatch in `BatchFlow`, padding in `TokenLists` |
| Search loop, batch samplers, game environments (chess, FrozenLake, ALFWorld), rollout workers, chat schedulers, reward managers and functions, datasets, losses, prompts and parsing, entry points, offline evaluation, the rest of verl | `src/`, `tasks/`, `evaluation/`, `verl/` | | | not modelled, see [7](#7-what-is-not-modelled) |

### 1.2 How they interact

```
 trainer.fit ── one batch ──> agent loop workers ── one coroutine per sample ──> run_lpm
     │                                                                             │  │
     │ checkpoints                                             language model <────┘  │ one AsyncScienceWorldEnvClient
     ▼                                                                                ▼ per environment (HTTP)
 shards, data.pt, tracker                                       environment server: queues, workers, pool of games
```

* **Episodes and server.** All episodes of a batch run as coroutines of one
  process and share one server. Each opens a game, and for each move a
  simulator and one environment per trajectory, so an episode *holds*
  environments while it *waits* for more.
* **Server.** A FastAPI process with one event loop. A request becomes a job on
  the high queue (everything but create) or the low queue (create). 2 ·
  `pool_size` asyncio workers take jobs, high queue first. A create acquires the
  pool semaphore *inside* its job and so keeps its worker while it waits. Game
  code runs on executor threads.
* **Client and server.** Calls have no identity. A call that is sent again, or
  abandoned by a time-out, may be served twice or late.
* **Value loop and trainer.** What an episode returns is a handful of lists that
  only have their positions in common. The trainer pads them, masks the loss
  with one and reads rewards from another.
* **Trainer, workers and devices.** The driver holds the batch. Its columns come
  from agent loop workers, devices and a reward process, and are joined by
  position alone. The devices meet in collectives: every forward pass, every
  optimizer step, and the agreement on how many micro-batches there are.
* **Loops and inference servers.** A conversation goes to the server chosen for
  it as long as the worker's cache remembers it.
* **Trainer and disk.** A checkpoint is many files written by many processes;
  the tracker file says which checkpoint counts.

### 1.3 What makes each part correct

* *Server*: the pool is never over-used and no slot is ever lost, whatever
  fails; a game is taken down once; a create is not overtaken; every operation
  on an open environment is answered, because those operations are what frees
  slots for creates.
* *Episodes*: what is opened is closed; a trajectory is only stepped while its
  environment is open; episodes do not wait for each other in a circle.
* *Client*: after retries, the game on the server is where the client believes it
  to be; every environment nobody can close is accounted for by a lost call.
* *Token streams*: position k of every list is about the same token; the mask is
  1 on what the model wrote and nowhere else; student and teacher are compared
  on the same tokens in the same order.
* *Inference loops*: a reward is on the last token of its move; the prompt shows
  the last turns, all of them and nothing before.
* *Local planning*: the conversation is the same as messages and as tokens; no
  reward is lost or given twice.
* *Policy-centric planning*: what the model learns to say after some tokens it
  did say after those tokens.
* *Batch*: every response is learned from once per epoch, with its own
  log-probability, score and group; the devices always meet; the parts are
  balanced and none is empty.
* *Engine pool*: an engine has one user; none is lost; every call is answered.
* *Rate limiter*: slots are an interval apart.
* *Server choice*: a conversation stays with its server while the cache can hold it.
* *Training loop*: wherever a job dies, the tracker names a complete checkpoint
  (or none); model and data loader resume from the same step; nothing a finished
  save recorded is trained again.

## 2 The hazards

`PROJECT.json` lists each hazard at its line, with the properties that would
catch it. In short:

* **deadlock**: workers held by creates that wait for a slot (server, line 243);
  episodes that hold environments and wait for more (value loop, line 2394); devices that wait in
  a forward pass the others do not make (micro-batches, line 289).
* **interleaving**: two closes of one environment, a step that overtakes a close
  (server); a stop while engines are lent and
  callers wait (engine pool); two processes at one state file (limiter).
* **partial failure**: a game that does not start, a close that raises (server);
  any call that raises in the middle of an episode (value loop, line 633); an
  engine that does not start, or died (engine pool).
* **unreliable delivery, retry**: a create that was served before its connection
  broke; a step that is sent twice; a close that is answered 404 (client).
* **crash and restart**: between the files a rotation removes, between rotation
  and the first shard, between shards of
  two ranks, between opening and writing the tracker (trainer).
* **stale state**: `previous_saved_paths` and `has_sft` live in memory only
  (trainer); `full_action_history` of the client; an engine of the pool before the
  last stop; a list or a message that two names stand for (inference loops); the
  plan as a turn found it (policy-centric planning).
* **ordering**: columns joined by position (batch); a reset that is never awaited
  (local planning).
* **long protocols**: six lists that grow at some twenty places (token streams); a
  conversation kept twice (local planning).
* **numeric edges**: `is_last_step` looked at before the step is counted
  (trainer), `step > max_steps` after it (value loop), lists cut one by one at
  `response_length` (token streams), a division that leaves a part empty
  (balancing).

## 3 Modules and how they correspond to the code

Each model keeps the control (guards, early returns, error paths, order) and
abstracts the data. `PROJECT.json` maps every definition to the lines it
models. Definitions under a comment `[mutant]` are plausible wrong versions of
the definition that follows. They take no part in the specification: replacing
the definition by one of them breaks a property, which shows that the property
depends on that code.

### 3.1 `EnvPool` and `EnvServer`

`EnvPool` is what callers may rely on: each environment goes none → starting →
live → ending → gone, at most `PoolSize` are between the ends of that line, a
slot is granted, released, or handed straight to a waiting create, and after
`Shutdown` nothing happens.

`EnvServer` is the server. An action is what runs between two `await`s of one
task, since the event loop is single-threaded.

| variable | code |
|---|---|
| `kind`, `target`, `stage` | the requests: which handler, which `env_id`, how far it is |
| `high`, `low` | `PriorityScheduler._high`, `._low` |
| `worker` | the job each `_worker` task is in |
| `waiters`, `slots` | the FIFO waiters and the value of `asyncio.Semaphore(pool_size)` |
| `envs` | `_envs` |
| `running` | the scheduler has not been stopped by the lifespan's end |

| action | code |
|---|---|
| `SubmitLow`, `SubmitHigh` | the handlers put a job on a queue and await its future |
| `StartCreate` | `_do_create_env` up to `await semaphore.acquire()`: it gets a slot, or blocks its worker |
| `StartUse`, `AnswerRead` | reset, reset_state and step go to the executor; observe and get_key_stats are answered at once |
| `StartClose` | `_envs.pop`, then the executor |
| `AnswerMissing` | any operation on an id that is not in `_envs`: 404 |
| `FinishCreate`, `FailCreate` | the game is up and registered; it did not start and the slot is released |
| `FinishUse`, `FinishClose` | the thread is done; a close releases the slot in `finally`, however it went |
| `Stop` | the end of the lifespan: workers are cancelled, open games are closed, the futures of unanswered jobs stay unresolved |

`ReleaseSlot` is asyncio's semaphore: a release hands the slot to the first
waiter without raising the value, so a create that arrives in between cannot
take it.

Names of environments are the names of the creates that made them: the code
draws a fresh uuid. What a game computes is abstracted.

### 3.2 `Episodes`

Concurrent `run_lpm` episodes in the plan mode the ScienceWorld configurations
use, over an instance of `EnvPool` that is served first come, first served
(which `SlotsInOrder` of `EnvServer` justifies). `pc` is where the coroutine
awaits, `target` the environment it awaits, `after` where it goes then; `step`,
`n`, `turn`, `cursor` and `ended` are the loop variables of the code
(`ended` is `group_simulation_done`). Which environment an episode uses is a
triple of episode, role (game, simulator, trajectory i) and move.

A failure is any exception of an awaited call. It leaves the coroutine at that
point, because nothing in `run_lpm` catches it, while the server goes on with
what it was asked.

### 3.3 `EnvClient`

The clients of one episode and a server that serves one request at a time.
`Begin` sends a call, `Refuse` and `Break` are connection errors that
`_request` answers by sending the call again up to `MaxRetries` times,
`Timeout` is the read time-out it does not retry. What was sent and not
answered goes to `abandoned` and may be served at any later time. A game is the
number of moves made in it. `lostSteps` and `lostResets` keep account of what was
lost, so that `GameInStep` can bound what a step that is sent again, or comes late,
does to a game: without them it could only speak of runs in which nothing was lost.

### 3.4 `TokenStreams`

One episode of `run_lpm` with `run_parallel_planning` and self-distillation. The
lists are local to one coroutine, so nothing interleaves: the difficulty is a
long sequence of appends to lists that must stay aligned. An action is a whole
inference, or the moves of a whole turn. The inferences of a later turn run one
after the other and append when all are done; none reads what another appends,
so `Simulate` appends at once.

A token is a record: the text it belongs to (kind, move, turn, trajectory) and
its place in it. Texts of the environment have one token; texts of the model
have any length in `Lengths`. `plan` is the lists of the planner, `out` those
of the episode: `ids`, `mask`, `reward`, `alt` (the second version of the
tokens), `teacherMask`, `studentMask`. The six configuration switches that
change what is appended (mode, horizon, `include_turn2_simulation_in_response`,
`final_reward_readjustment`, `max_steps`, `response_length`) are one record,
chosen in the initial state from `Configs`, so that one run covers them together.

| action | code |
|---|---|
| `StartPlan` | the planner's system prompt and query |
| `Expand` | the root inference: understanding, then moves |
| `Execute` | the moves are made in the simulators, the results go to the lists |
| `Simulate` | one inference per trajectory that is still running |
| `Summarize` | the summary inference; the summary and the first understanding change places in the second version; the planner's prompt is dropped and its lists are joined to the episode's |
| `NoAction`, `LastMove`, `Move` | the answer is parsed, the move made, the reward placed |
| `Return` | each list is cut at `response_length` and padded |

### 3.5 `PolicyStreams`, `InferLoops`, `LocalPlanner`, `TokenLists`

The other ways an episode becomes tokens, each one coroutine with its own lists.
`TokenLists` has what all loops do to them: counting from the end, cutting,
padding, and the sums, selections and concatenations (`Sum`, `Chosen`, `Among`,
`Joined`) of models and properties, as recursive functions of the length, about
which `ListProofs` proves what the theorems need.

* `PolicyStreams` is the policy-centric planner. The model names the moves
  (`NameMoves`); each later turn makes one inference per trajectory of the plan as
  the turn found it (`MadeOf`), and adds all texts when the last is there
  (`ThinkOn`). `saw` remembers what each text was made of, which
  `LearnsAsWritten` compares with what stands before it in the response. The
  environments of the same planner are in `Episodes`.
* `InferLoops` is `run_mdp` of the value and of the local loop, with the prompt
  that is made of the last turns (`Merge`, `Shown`). Merging changes the message
  that is kept, and without a window the value inference extends the episode's
  own list (`Aliased`): the model does both as the code does.
* `LocalPlanner` is the local planning loop with the chess puzzles, whose
  environment alone has the coroutines the loop awaits. `talk` is the conversation as
  messages (`said`) and as tokens. `Restart` does not take the simulator back, as
  `reset_state` is not awaited; `SimulateFails` is what comes of it.

### 3.6 `Trainer`

`fit` with `_save_checkpoint` and `_load_checkpoint`, the FSDP checkpoint
manager of each rank, and jobs that die anywhere and are started again. A part
of the model (actor, critic) is the number of updates made to it, the data
loader the number of batches given, a file is absent, torn or whole, with the
job that wrote it. A save is `RemoveShard` for each file of the checkpoints that
make room, `Rotate` (they are off the list), `OpenShard`/`CloseShard` per rank,
`PartSaved` (the barrier), the same for the critic, `OpenData`/`CloseData`,
`OpenTracker`/`CloseTracker`, and `Crash` may come between any two.
`StartFresh`, `Resume` and `FailToStart` are the three outcomes of
`_load_checkpoint` with `resume_mode: auto`.

`Checkpoints` is what all this promises, with no files and no ranks: what a job
has learned (`memory`: batches, updates of each part, rounds of fine-tuning)
and what a job would start with (`kept`). A save replaces one by the other at one
instant; a job that starts has learned what was kept, and fine-tunes anew; a job
refuses to start only while nothing is kept, which is between `Replace` and `Save`.
`Trainer` implements it (`ImplementsCheckpoints`): `InMemory` is the lesson of the
job that runs, and `OnDisk` what its successor would load, nothing if the tracker
is torn or the files it names cannot be loaded. With one checkpoint to keep `OnDisk` is empty from
the first file a rotation removes, with more only while the tracker is written.

The actions of the ranks interleave freely between the barriers.
`TrainStep` is atomic: a job that dies in the middle of a step loses exactly
what it would lose by dying before it, as nothing of a step is persisted but
the save.

### 3.7 `Partitions`, `Balancing` and `BatchFlow`

`Balancing` is `karmarkar_karp`: `states` is the heap, a state has one part per
device or micro-batch, and `MergeFirstTwo` is a round of the loop.
`Partitions` is what `get_seqlen_balanced_partitions` asserts of the result. It is
proved of `Balancing`; `BatchFlow` takes *any* such division, so that it
does not depend on how one is found.

`BatchFlow` follows the rows of a batch through one step of `fit`. A response,
its log-probability and its score are named by the row of the generation batch
they belong to, so that a mix-up shows.

| variable | code |
|---|---|
| `driver` | where `fit` is |
| `returned` | the agent loop workers that are done, in that order |
| `batch` | the columns: `uid`, responses, log-probabilities, scores, advantages |
| `future`, `scored` | `future_reward` and whether it is done |
| `device` | of each device: its mini-batches, which it is in, the agreed count, the micro-batches to go, the rows it has seen |
| `taught` | (history) how often a response was learned from |

`AgreeOnCount`, `Forward` and `OptimizerStep` are collectives: they take all
devices at once, and a device that is elsewhere holds up the others.
`SplitMini` is what a device does alone. The configuration (`flow`: prompts, group
size, workers, devices, `parallel_mode`, `balance_batch`,
`launch_reward_fn_async`, `use_dynamic_bsz`, sizes, lengths) is chosen in the initial state.
`Ascending` is `sorted()` of a part, by rank: as many rows of the part are less than its
element at `i` as come before it.

### 3.8 `EngineLeases` and `StockfishPool`

`EngineLeases` is the promise: an engine comes up once, is lent to one caller at
a time and never runs again after it was quit. `StockfishPool` is the code: the
bounded queue of the current start (`queue[gen]`), older queues that callers may still
wait on, `start()` engine by engine, `stop()`, and the callers of `play` and
`analyse` with and without a timeout. An engine is named by the start that made it.

### 3.9 `RateLimiter` and `ServerChoice`

`RateLimiter`: processes that try a lock once (`TakeLock`, `FlockFails`), read,
empty and write the state file (`Truncate`, `WriteState`), stop anywhere
(`Stop`), and a `cleanup()` that removes both files under them. A lock file that is
opened after its removal is another file. A slot counts as given at the moment it
is written: a process that stops between that and its return is taken for one that
was answered. `ServerChoice`: `_choose_server`, with
the heap as its least element and the LRU cache as a sequence.

### 3.10 `MCRollout` and `MCTraining`

What serves a rollout (`TokenStreams`, `InferLoops`, `LocalPlanner`,
`PolicyStreams`, `StockfishPool`, `RateLimiter`, `ServerChoice`) and what makes a
training step (`Trainer`, `Balancing`, `BatchFlow`) share no variables in the
code, as far as the models go. One run checks the components of
each group: `part` (or `side`) is chosen in the initial state and never changes, the
component it names takes its steps, and the others stay in one initial
state. So every behaviour of each component is covered, and no interleaving of
two of them, which would only multiply states.

## 4 Runs

| run | instance | properties | what it shows |
|---|---|---|---|
| `envserver_safe` | 5 requests, 4 workers, 2 slots, at most 4 creates pending | `SlotAccounting`, `ClosedOnce`, `SlotsInOrder`, `ImplementsPool` | no interleaving of workers, threads and shutdown loses or mints a slot, takes a game down twice, or lets a create overtake; the server is a pool |
| `envserver_live` | 4 requests, 2 workers, 1 slot, at most 1 create pending | `SomeWorkerUnblocked`, `OperationsAnswered` | with fewer pending creates than workers, every operation is answered |
| `envserver_starved` | the same with 2 creates pending | `OperationsAnswered` fails | see [6](#6-where-code-and-documentation-disagree) |
| `episodes` | 2 episodes, 2 trajectories, horizon 2, 2 moves, 5 slots, 1 failure | `DoneHoldsNothing`, `SimulatesOpenEnvs`, `NoCircularWait`, `EpisodesEnd` | an episode that ends holds nothing, whatever happened to the other; only open environments are stepped; with more slots than episodes × trajectories every episode ends |
| `episodes_leak` | 1 episode, 3 slots, 1 failure | `FailedReturnAll` fails | see 6 |
| `envclient_calls` | the game and 2 simulators, 3 slots, 3 attempts, 2 lost connections, 1 move | `GameInStep`, `OrphansPaid`, `MissingOnlyWhenClosingAgain`, `CallsReturn` | refused attempts leave no trace; a game is ahead of its client by no more than the steps that were lost, behind it only after a lost reset; every environment nobody can close was paid for by a lost attempt; "not found" is only ever the answer to a repeated close; calls end |
| `envclient_replay` | the game and a simulator, no faults, 2 moves | `SimulatorsStartAtGame` fails | see 6 |
| `trainer_crash` | 2 ranks, actor and critic, 4 steps, a save every 2, keep 2 and 3, 3 jobs, fine-tuning; batches of up to 6 rows on 2 or 3 devices | `TrackedIsComplete`, `InStep`, `KeptPerRun`, `OverrunPaid`, `ImplementsCheckpoints`; `PartsBalanced`; `LearnsEachRowOnce`, `NoDeviceLeftBehind` | wherever a job dies the next one resumes from a complete checkpoint, with model and data loader in step; the files of a save, written one by one, are one snapshot of what was learned; divisions pass their assertions; the rows of a batch keep what belongs to them and the devices meet |
| `trainer_onlycopy` | keep 1 | `TrackerRestarts` fails | see 6 |
| `rollout` | the seven components of `MCRollout`, see below | `StreamsInStep`, `MaskMarksModelText`, `RewardsArrive`, `DistilledAlike`, `SwappedInPlace`; `MovesRewarded`, `ShownIsWindow`; `LearnsAsWritten`; `PlanInStep`, `HeardIsSaid`, `FailsOnlyAfterEnd`; `NoEngineLost`, `LeftOvers`, `ImplementsLeases`, `CallersAnswered`; `SlotsSpaced`; `ChosenEvenly`, `StickyUnlessCrowded` | the lists of every loop stay aligned and hold what was said; engines, slots and servers go to whom they should |
| `tokens_turn2` | op-sd, horizon 2, later turns in the response, 2 moves | `SameTokensDistilled` fails | see 6 |
| `infer_aliased` | the value inference loop without a window | `MaskIsOfModel` fails | see 6 |

The type invariants are in no run: each is proved of its component. So is
`NothingLost` of `Trainer`, which `ImplementsCheckpoints` says more of, and what
the theorems of 5.2 say of the claims that runs refute.

Every property of a passing run is broken by at least one `[mutant]` of the
code it depends on.

### 4.1 Bounds, and why they are enough

* **Server.** Four workers and two slots are the smallest pool in which two
  creates wait on the semaphore, and their order can be got wrong, while two
  workers are left. With five requests all workers are busy while one more
  waits in a queue; two closes of one environment and an operation on it fit.
  One slot and two workers are enough for starvation.
* **Episodes.** Two episodes are needed for a circle. Two trajectories: one may
  end while the other goes on. Horizon 2: the first turn (moves from the root)
  differs from later ones (which may fail to name a move). Two moves: the loop
  comes round. Five slots are the least that `2 · 2 < PoolSize`
  allows, and one less than both can hold at once, so that creates do wait.
* **Client.** Three attempts are what the code makes. Two lost connections allow
  a call that is lost twice, or one left behind that runs after a later one.
  Three slots hold the game and both simulators; orphans then fill the pool.
* **Trainer.** `KeepActor = 2` rotates in the second save of a job, `KeepCritic =
  3` in the third, so that parts rotate at different times. Four steps and
  three jobs give a save, a crash in the next, a restart, and a restart of a
  finished job. `Expires` adds saves at any step.
* **Balancing.** Every batch of three or four rows of three lengths, and some of
  six with a row longer than the rest together, in two and three parts, with
  equal sizes and without. Three parts and more than three rows are the least
  with which a part may stay empty for several rounds.
* **Batch.** Two and three devices and workers, groups of two and three, two
  epochs, a last mini-batch that is short, one micro-batch or several, counts
  the devices would choose differently (`limit` 4), rewards before and beside the
  log-probabilities. Up to six rows, so that each device has two or three.
* **Token streams.** Texts of 1 and 2 tokens make the summary longer and
  shorter than the understanding it replaces. Length 18 cuts within the second
  move, 60 never cuts. Two moves show whether an error in one is carried to the
  next; two trajectories and horizon 2 give turns that are counted but left out.
* **Policy-centric and local planning.** Two trajectories over two turns, three at
  once, one over three turns; two plans in a row; responses whole and cut.
* **Inference loops.** Four moves outgrow a window of three; windows of 2 and 3 are the
  least that show a message twice; lengths 5 and 9 cut within a move.
* **Engines.** Two engines and three callers, one with a timeout: one waits while
  two are lent. Two starts put an engine of the first into the queue of the second.
* **Limiter.** Two processes, three answers, an interval of 2 and a longest wait of 4
  on a clock of three instants: the third slot is further away than the longest wait.
* **Servers.** Four conversations on two servers with room for two in the cache.

`SYMMETRY` is used over the ranks (`trainer_crash`) and over requests and workers
(`envserver_safe`), which their specifications treat alike; never with liveness.

`CHECK_DEADLOCK FALSE` is set throughout: each system comes to rest. The server
runs out of requests or is stopped, the episodes end, the clients are done or
have raised, the jobs are used up or cannot start, the token streams return.
Where coming to rest would be wrong, a liveness property says so.

### 4.2 Fairness

* `EnvServer!FairSpec`: weak fairness of each worker's own steps and of its
  executor thread. The event loop polls every ready task, and the executor has
  as many threads as there are workers, so game code is never queued; that game
  code returns is an assumption. Nothing is assumed of the callers, nor of `Stop`.
* `Episodes!FairSpec`: weak fairness of each episode and of the head of the
  line. It is what `EnvServer` gives an operation as long as callers keep fewer
  creates pending than there are workers. Episodes × trajectories < slots
  implies this too: each episode has at most one create pending, and there are
  twice as many workers as slots.
* `EnginesFairness` (part of `MCRollout!MCSpec`): a caller of the engine pool that can
  go on does, an engine answers, a timeout expires. Nobody has to ask, start or
  stop. The other components of `MCRollout` and `MCTraining` have no fairness: their
  properties are safety.
* `EnvClient!FairSpec`: the client sends and receives, the server serves, and a
  time-out that no answer overtakes expires. Lost and refused attempts are not
  fair: they may or may not happen.

## 5 Theorems

TLC checks the instances above. The following hold for all values of the
constants that meet the modules' assumptions (`ServerAssumption` of `EnvServer` and that of `ServerChoice`, `EpisodesAssumption`,
`EnvClientAssumption`, `TrainerAssumption`, `CallsAssumption`, `FlowAssumption`,
`ConfigAssumption`, `PlanAssumption`, `PolicyAssumption`, `InferAssumption`,
`EnginesAssumption`, `LimiterAssumption`); TLC evaluates the assumptions on each run.

| module | theorem | states |
|---|---|---|
| `EnvServerProofs` | `TypeCorrect` | `TypeOK`; in particular the semaphore stays in `0..PoolSize` |
| | `SlotsConserved` | `SlotAccounting` |
| | `ClosesAreUnique` | `ClosedOnce` |
| | `NoWorkerStarvation` | `SomeWorkerUnblocked`: fewer pending creates than workers leave a worker free of the semaphore |
| | `StarvationLasts` | `StarvedForGood`: when all workers wait on the semaphore nothing that was sent is served any more |
| | `SlotsAreOrdered` | `SlotsInOrder` (an action property) |
| | `ServerImplementsPool` | `Spec => ImplementsPool`: the refinement of `EnvPool` |
| `EpisodesProofs` | `TypeCorrect` | `TypeOK` |
| | `NothingLeft` | `DoneHoldsNothing` |
| | `SimulationsOpen` | `SimulatesOpenEnvs` |
| | `CircularWait` | `NoCircularWait` for any number of episodes, trajectories, slots and failures |
| | `LeavesLittle` | `FailedOK`: what a failed episode leaves is its game with its simulator or with trajectories |
| | `LeakIsForGood` | `LeaksStay`: what it left open is never closed |
| | `EpisodesUsePool` | `Spec => UsesPool`: the episodes take no step `EnvPool` does not offer |
| `EnvClientProofs` | `ClientTypeCorrect` | `TypeOK` |
| | `OneMovePerLoss` | `GameInStep` |
| | `EveryOrphanIsPaid` | `OrphansPaid` |
| | `MissingMeansClosed` | `MissingOnlyWhenClosingAgain` |
| | `NothingIsReplayed` | `SimulatorsStartAgain`: a simulator starts with no move made, wherever its game is |
| `TrainingProofs` | `TypeCorrect` | `TypeOK` of `Trainer` |
| | `TrackedComplete` | `TrackedIsComplete` |
| | `Overrun` | `OverrunPaid` |
| | `ResumesAfterLast` | `NothingLost` (an action property) |
| | `SavesAreSnapshots` | `Spec => ImplementsCheckpoints`: the refinement of `Checkpoints` |
| | `RestartsUnlessOnlyCopy` | `TrackerRestarts`, unless a part keeps one checkpoint |
| | `StaysInStep` | `InStep` |
| | `RotationBounds` | `KeptPerRun` |
| | `BalanceTypeCorrect` | `BalanceTypeOK` |
| | `AssertionsHold` | `PartsBalanced`, for any lengths and any number of parts |
| | `CollectivesMatch` | `NoDeviceLeftBehind`, for any configuration |
| | `EachRowOnce` | `LearnsEachRowOnce`, for any configuration, lengths and division |
| `TokenStreamsProofs` | `TypeCorrect` | `TypeOK` |
| | `ListsStayInStep` | `StreamsInStep` |
| | `TrainsOnModelText` | `MaskMarksModelText` |
| | `RewardsReachTraining` | `RewardsArrive` |
| | `VersionsDistillAlike` | `DistilledAlike` |
| | `TextsSwappedInPlace` | `SwappedInPlace` |
| `LoopProofs` | `PlansAreBounded` | `PlanTypeOK` of `LocalPlanner` |
| | `PlanMasksFit` | `PlanInStep` |
| | `PlansAreHeard` | `HeardIsSaid` |
| | `FailuresFollowEnds` | `FailsOnlyAfterEnd` |
| | `PoliciesAreBounded` | `PolicyTypeOK` of `PolicyStreams` |
| | `PoliciesLearnAsWritten` | `LearnsAsWritten` |
| | `InferTypeCorrect` | `InferTypeOK` of `InferLoops` |
| | `MovesAreRewarded` | `MovesRewarded` |
| | `MaskTellsUnlessAliased` | `MaskIsOfModel`, unless the inference extends the episode's list |
| | `PromptsShowTheWindow` | `ShownIsWindow` |
| `ServiceProofs` | `EnginesTypeCorrect` | `EnginesTypeOK` of `StockfishPool` |
| | `NoneLost` | `NoEngineLost` |
| | `LeavesOnlyTheLent` | `LeftOvers` |
| | `PoolImplementsLeases` | `EnginesSpec => ImplementsLeases`: the refinement of `EngineLeases` |
| | `LimiterTypeCorrect` | `LimiterTypeOK` of `RateLimiter` |
| | `SlotsAreSpaced` | `SlotsSpaced` |
| | `ServerTypeCorrect` | `ServerTypeOK` of `ServerChoice`: among them that the cache keeps its size |
| | `ServersEven` | `ChosenEvenly` |
| | `ServersStick` | `StickyUnlessCrowded` (an action property) |

`ListProofs` has no theorem of a component. Its lemmas are about numbers (`LeastOf`,
`SetInduction`), functions defined by recursion (`RecursionIs`, `RecursionUnique`)
and what `TokenLists` does to sequences (`SumJoined`, `ChosenJoined`,
`AmongJoined`, `CopiesAre`, `CopiesInOne`).

### 5.1 The arguments

**Server.** `IInv` adds to the properties what they rest on. `LinesOK`: each
queue holds distinct requests of its kind, all at the stage of that queue;
without it the head of a queue might be a request already served. `WorkersOK`:
no two workers are in one job. `EnvsOK`: what is registered is an answered
create that no close has taken; this makes `ClosedOnce` inductive. `NoIdleSlot`:
nobody waits while a slot is free; with it a `StartCreate` that does not wait
overtakes nobody, which is `SlotsInOrder`. `CallersOK`: the bound callers keep.
`SlotAccounting` is preserved by counting: each action moves one request between
disjoint finite sets (lemmas `AddOne`, `RemoveOne`). `NoWorkerStarvation` is the
pigeonhole principle: `worker` maps workers one to one into blocked creates, of
which there are at most `MaxCreates`. The refinement maps a request to its
phase (`PhaseOf`). Each action is a step of the pool or leaves every phase
alone; that a granted slot was free in the pool is `SlotAccounting` again
(`RoomInPool`). `StarvationLasts` is a look at every action: those of a worker
need one without a job, those of a thread a job in a thread, and there is neither.

**Episodes.** `IInv` says for each episode which environments it may hold at its
place in the code (`Keeps`), which have had no life yet (`Unopened`), which are
open (`Opened`), and for the server's line that its entries are what their
episodes wait for (`LineOK`). `Frame` and `OthersKeep` show that one episode's
step leaves the facts of the others alone, as their environments have other
names. At `done` `Keeps` is empty, which is `NothingLeft`. For `CircularWait`:
an episode in line holds environments of at most `MaxTraj` roles (its game and
`MaxTraj − 1` of its trajectories, `HeldInLine`), a failed one of one more, so if
all that are active wait in line, at most episodes × `MaxTraj` + failed slots are
taken. The bound on failed ones is `FailedOK`, whose induction has to count what
they had in line, as the server still starts it (`HeldWasClaimed`); that an
episode holds so little when it raises is `IInv` again (`HoldsLittle`).
`StepServes` reads each step as one of the server's: a slot goes to the first in
line, or an environment moves on in its life, and none of a failed episode is
closed. `EpisodesUsePool` and `LeakIsForGood` follow from it.

**Client.** `ClientIInv` says who owns which environment (`OwnersOK`), that an
owned one is open unless its close is being sent again (`OpenOK`), and what was paid: the environments without an owner *and* the
abandoned creates together are at most the attempts lost (`PaidOK`). Counting the
abandoned creates is what makes `OrphansPaid` inductive, since one of them may
be served at any time (`ServedOne`, `Pays`). `DriftOK` compares a game with
what its client believes: its moves *and* the steps of it that may still be served
late are at most the moves played and the steps lost (`AtMost`), and unless a reset
was lost none is missing (`AtLeast`), give or take the request and the answer under way.
That is `OneMovePerLoss`. `ReplayOK`: the client's history is empty, a
`reset_state` replays nothing, and a simulator is only there while its game is; with
`DriftOK` that is `NothingIsReplayed`.

**Balancing.** `BalanceIInv` says nothing of which states are merged. A state is in
decreasing order, its parts are disjoint, they differ by at most one row, and
either all have a row or none has two (`FullOrSingle`). Merging the longest part
with the shortest keeps this (`MergeKeeps`): the difference of two sums is at most
the larger of the two differences. At the end, k − 1 parts of at most one row
could not hold all rows (`NoneEmpty`).

**Batch.** `Lockstep`: all devices have the same mini-batches, are in the same
one, have agreed on one count, and are in the same phase or on the two sides of
splitting. However a device divides its rows, the number of micro-batches is the
agreed count, or that of `split` on sequences of one length (`SameNumber`).
`LearnsEachRowOnce` only speaks of the end of a step; `FlowIInv` says what each stage
leaves to the next. `ColumnsOK`: the responses are the rows in some order, and
each column that is there is, position by position, what belongs to the
response. Cutting into equal parts and joining gives back the rows
(`CollectedIs`), balancing is an enumeration of an enumeration (`InOrderIs`,
`ReorderIs`), and what the devices computed is put back by position whatever
their micro-batches were (`RestoredIs`). `DevicesOK`: what a device has seen and
the micro-batches it has to go are together its mini-batch, nothing twice
(`Divides`; any division gives this, `PartsDivide` and `SplitDivides`, and a
forward pass keeps it, `ForwardDivides`). `TaughtOK`: after `e` epochs and `p`
mini-batches a response was learned from `e + 1` times if its position is in
one of the `p`, else `e`. At an optimizer step a response is at one place of one
device's rows or at none (`CountedOnce`), and the devices have come equally
far, which is `Lockstep` again.

**Engine pool.** `EnginesIInv`: an engine is in one place (`OnePlace`); in a queue
that was dropped, or of another start than its queue, is only what was lent at a stop
(`QueuesOK`); a caller waits on the current queue or on a dropped one (`CallersOK`).
That a release only waits after such an engine came back is counting: a full
queue of its own engines has them all (`FullQueue`). The refinement maps
the callers that hold an engine to its `holders`.

**Limiter.** As long as no files were removed and every slot given was saved
(`disturbed` is false), `LimiterIInv` says:
one process is inside the lock, and it has read the slot that was given last, or
will find it in the file (`LockOK`); an answer's wait is the way to its slot, cut at
the longest wait (`AnswersOK`); slots are an interval apart (`SpacedOK`). The
bound on the wait is counting: a slot is at most as far away as there are earlier
slots that are not yet due (`Crowded`).

**Servers.** `CacheOK` says that the cache has where the last turn of a conversation
went, and that those behind it in the cache had a turn since; `CrowdedOut`,
that a conversation which fell out was followed by at least as many others as
the cache holds. So a conversation that moves was crowded out.

**Training loop.** What makes rotation safe is `SavedOK`: in a job's list of
saved steps only the last can be the one the tracker names, and rotation with
`Keep ≠ 1` never removes the last. `WrittenOK` says what a save has written by
the time it reaches each stage, so that the tracker, written last, names a
complete one. `TrackerOK` ties the tracker to the last finished save. `InStep`
rests on two more: what a running job has learned agrees with its step
(`LearnedOK`), and the files of the checkpoint the tracker names say what was
learned by that step (`TrackedOK`), since saves write other steps and rotation
only takes files away. For `KeptPerRun`, `KeptOK` counts: each checkpoint of the
present job is on its list or is being written, the list leaves room for that
one, and those of former jobs are at most `Keep · (run − 1)`; a start makes the
present job's into former ones.

**Snapshots.** Nearly every step of a save leaves `InMemory` and `OnDisk` alone,
and the proof says why for each: rotation and the shards touch other
steps than the tracker names (`SavedOK`, `WrittenOK`), or nothing can be loaded
already. What `OnDisk` holds is read off one rank; `AgreedOK` says that the shards
of all ranks at a save that is tracked are the same, and `TrackedOK` ties them to the data
loader's position. Opening the tracker is `Replace`, closing it `Save`, and for
one checkpoint to keep the rotation is `Replace` already. A crash is `End`; that it leaves
what is kept alone is the point. `RestartsUnlessOnlyCopy` is `TrackedComplete` with the
type of the tracker: what is complete can be loaded.

**Token streams.** `IInv` of `TokenStreams` adds `Marked` to the lengths: the
mask of planner and of episode says of each token after the system prompt who
wrote it. `Followed` and `Marks` of the proofs are the two shapes a list and its
mask can have, with the system prompt before it and without; `MarksJoined` and
`FollowedOn` say that appending keeps them, so that every action comes down to
the texts it appends (`ToldKeeps`, `InferredAre`). Dropping the planner's own
prompt turns the one shape into the other (`PromptDropped`), and cutting both at
`response_length` keeps the latter (`MarksCut`), which is `MaskMarksModelText`.
`HoleOK` says that the hole for the summary is inside the list, without which
the student's tokens and mask would differ in length; `CountersOK` that a later
turn has a horizon of two or more, which is where the second version of op-sd
may lack texts (`TextsLeftOut`).

**Rewards.** `RewardsOK`: the rewards of the episode sum to what was granted, the
planner's are all zeros, so that joining its lists changes no sum (`SumJoined`),
and an episode that is about to act ends with a token of the model, where the
last reward is moved.

**Second version.** `VersionsOK` says of the episode's lists at every moment what
the properties say of the output. It is kept because lists fall into pieces: a
piece without texts to replace is the same in both versions, one with such a text
is exchanged for one with the other, and both joining and cutting keep what is
marked and which texts are kept. For the planner `PlanOK` names the pieces: before
the summary its second version is the response with one whole understanding
missing at `hole`, and the summary fills the hole.

**Local planner.** Its lists start with tokens that have no mask, so they are followed
counted from the end (`Fits`, `TalkFits`, `WholeFits`). `Thinking`: when the model is
asked, the last message has not been told yet and all others were, so telling
it makes `HeardIsSaid` true again. A simulator is only shut after the
game-over message of an earlier turn (`Ended`), which is `FailsOnlyAfterEnd`.

**Policy-centric planner.** `TurnsInOrder` says that until the end of a turn no text of
its trajectories is in the plan: they wait in `pending`, and are those of the
trajectories already asked. `WroteAfter`, of the plan and of the plan with what waits, is
that each text was made of what now stands before it.

**Inference loops.** For rewards `EndsOK` counts the places where a text of the
model ends. For the prompt `TurnsOK` says how often merging has put the query of a
turn into the feedback before it: as often as a prompt has shown both turns
(`Together`). A prompt is then a concatenation of a few messages per turn, and
how often it has a query is counted block by block (`CopiesInOne`, `CopiesInFew`).

**Lists.** The theorem modules cite no induction theorem with an operator parameter.
Induction is `SetInduction`: a set of numbers that has 0 and with each number the next
has all, as it has no least exception (`LeastOf`, from `NatLessThanWellFounded`).
`RecursionIs` gives the function a recursive definition means, by that
induction over the set of lengths for which there is one; `Sum`, `Chosen`, `Among` and
`Joined` are instances. `FlattenSeq` is a fold, and is unrolled in the same way (`FlattenIs`).

### 5.2 What is only model-checked

* Liveness (`OperationsAnswered`, `EpisodesEnd`, `CallsReturn`, `CallersAnswered`): the
  provers have no rules for fairness and ENABLED. What safety can say of the same
  is proved: `NoWorkerStarvation`, `CircularWait`, `NoneLost`.
* That the claims of section 6 fail: those are counterexamples, and hold of the
  instances. How far they fail, and where they hold, is proved:

| claim a run refutes | holds | fails |
|---|---|---|
| `OperationsAnswered` | its safety part with fewer pending creates than workers (`NoWorkerStarvation`) | for good, once all workers wait (`StarvationLasts`) |
| `FailedReturnAll` | of an episode that had nothing open | for good, of every environment that was open (`LeakIsForGood`); at most one plan's (`LeavesLittle`) |
| `SimulatorsStartAtGame` | before the first move of a game | after it: simulators start at its beginning (`NothingIsReplayed`) |
| `TrackerRestarts` | for every `Keep` but 1 (`RestartsUnlessOnlyCopy`) | |
| `SameTokensDistilled` | if no list is cut and no text is left out (`VersionsDistillAlike`) | |
| `MaskIsOfModel` | unless the inference extends the episode's list (`MaskTellsUnlessAliased`) | |

Every invariant and action property of a passing run, and the three refinements
(`ImplementsPool`, `ImplementsLeases`, `ImplementsCheckpoints`), are theorems.

## 6 Where code and documentation disagree

Each run ends in a counterexample that TLC prints. The findings in
`PROJECT.json` quote the lines.

* `envserver_starved`: the server says that a close is served before creates to
  free slots for them. A create waits for its slot inside a worker, so 2 ·
  `pool_size` creates that wait hold all workers and no close is ever taken.
  `NoWorkerStarvation` gives the bound under which this cannot happen.
* `episodes_leak`: the comment above the close of the game says it must happen;
  an exception anywhere before it skips it.
* `envclient_replay`: `reset_state` is said to reset a simulator to a state. The
  client's `full_action_history` is emptied on reset and never appended to, so
  the simulators of every move but the first start from the beginning of the game.
* `trainer_onlycopy`: the tracker is said to name the checkpoint to restart from.
  With one checkpoint to keep, which the trainer's own warning recommends,
  rotation removes it before the next is written.
* `tokens_turn2`: with op-sd and later turns in the response, the texts that say
  which move was found are missing from the teacher's tokens but counted in its
  mask, so the ones of all moves but the last fall on other tokens.
* `infer_aliased`: the mask is said to be 1 on what the model wrote. Without a
  window the value inference loop appends each response twice to the tokens and
  once to the mask.

Found on the way, with no run of their own: the local planning loop calls
`simulator.reset_state` without awaiting it (`game_local_lpm_loop.py:691`), while
it tells the model that the simulation has been restarted to the original game
state (702); `LocalPlanner` models it so, and `FailsOnlyAfterEnd` says where it
ends the episode. `rearrange_micro_batches` documents `max_token_len` as the
largest sum of a micro-batch; three rows of 3 with a limit of 5 give parts of 6
and 3. `PartsBalanced` bounds the excess by one row.

Found on the way and covered by a hazard only: an emptied tracker file keeps
every later job from starting (`FailToStart`); lists cut one by one give student and teacher different
numbers of tokens, which ends the job with the actor's `ValueError`; without
`final_reward_readjustment` the last reward is on a token GAE skips.

## 7 What is not modelled

* Inside the modelled parts: what a game computes, JSON, monitor pages and
  `pool_status`, the synchronous client; `resume_path`, HDFS, huggingface export,
  LoRA, validation; what texts say and how moves are parsed; the sequential mode of
  the value loop, and the policy mode with distillation, which raise before they
  return; critic, reference policy and REMAX (further columns of a batch); padding of
  batches that do not divide; sequence parallelism.
* After the server's shutdown nothing is claimed: callers whose jobs were dropped are
  not answered, and a game whose create was still in its thread is one nobody closes;
  `ImplementsPool` takes both for gone.
* Two threads that operate on one game object at once: the wrapper has no lock,
  and what interferes is inside the external ScienceWorld package.
* Reward managers and functions, datasets, prompts and parsers, entry points:
  functions from strings to numbers or strings, with no state and no order.
* Losses: arithmetic on tensors. What they compare is the subject of
  `TokenStreams`, and which rows reach them that of `BatchFlow`.
* The health of a Stockfish engine: the pool never looks at it, so a dead engine
  goes round like any other.
* Search loop: tool calls of one conversation, with lists that grow in the way of
  `InferLoops`. Batch samplers: nothing in the repository uses them. Chess
  and FrozenLake: wrappers of python-chess and of a grid, each used by one
  episode at a time. Rollout workers: calls of vLLM; the chat schedulers are the
  predecessors of the loops.
* ALFWorld: a thin wrapper of an external simulator. Offline evaluation: scripts
  that repeat an episode. The rest of verl: vendored, modelled where this
  system's behaviour rests on it (checkpoints, the batch of a step, agent loop workers).

The repository is large: most of its lines are the vendored framework, prompts,
evaluation scripts and second versions of the loops. The models cover the
parts that keep state or depend on order, which is a small share of the lines.

## 8 Plan

In the order of importance; all are done.

1. `EnvServer` over `EnvPool`, with refinement and proofs.
2. `Episodes` over `EnvPool`, with proofs that it uses nothing else.
3. `EnvClient`, with proofs.
4. `Trainer` over `Checkpoints`, with refinement and proofs.
5. `TokenStreams`, with proofs.
6. `StockfishPool` over `EngineLeases`, with refinement and proofs.
7. `InferLoops`, `PolicyStreams`, `LocalPlanner`, with proofs.
8. `RateLimiter`, `ServerChoice`, with proofs.
9. `Balancing` and `BatchFlow`, with proofs.

Left for later: the search loop, FrozenLake and chess puzzles, wake-up and sleep
around generation.

## 9 Running it

```
tlasany Module.tla
tlc -workers 2 -config EnvServer_safe.cfg MCEnvServer
tlapm EnvServerProofs.tla
```

Each `<Module>_<run>.cfg` belongs to `MC<Module>.tla`, `Rollout.cfg` to
`MCRollout.tla` and `Training.cfg` to `MCTraining.tla`. The largest runs are
`trainer_crash` (810,000 distinct states) and `rollout` (520,000); each run takes
two minutes or less. The proofs are checked by Z3, Zenon and LS4.
