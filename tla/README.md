# A specification of SplitFleet in TLA+

SplitFleet is a split-learning system: a model is cut into a *prefix* that a
client trains on its data and a *suffix* that the server trains for it, batch by
batch over RPC.  After a round the prefixes and suffixes of the clients are put
together into the next global model.  The code runs on threads (Flower's round
thread, its workers, the server's executor), on asyncio event loops (the suffix
service, the bidirectional Flower server) and on processes that may die, and most
of what makes it correct is the order in which these meet.  This directory
specifies those parts, model-checks them on small instances with TLC, and proves
the main properties for every instance with TLAPS.

Paths below are relative to `src/splitfleet/` unless they start with `src/` or
`experiments/` (which is `src/experiments/`).

## 1. Inventory

| Component | State it keeps | Operations | Meets |
|---|---|---|---|
| Suffix lease manager (`server/stage_runtime/leased_manager.py`) | sets of attempted, preparing, live, finishing, completed and failed identities; idle slots; instance counter | `acquire`, `finish`, `collect_server_fit_results`, `end_round`, `initialize_server_models` | RPC threads and the round thread, under one lock that is released while models are built and exported |
| Suffix service (`virtual/suffix_service.py`) | round tokens, replica locks, leases, slot semaphore, uploads, requests under way | `UnaryRequest` (acquire, commit, abort, train, upload), `prepare_round`, `reconcile`, `stop` | virtual clients by gRPC; lease manager on executor threads; round thread through `before_collect` |
| Shielded execution (`server/grpc/servicer.py`) | execution slots, request groups, events | `execute`, `_compute_response`, `StreamRequest` | suffix service, strategy |
| Request routing (`server/strategy/plain_strategy.py`, `server/server_model/utils.py`) | request groups per model and method, active clients | `route_client_request`, `mark_ready_requests`, `mark_client_as_done` | servicer |
| Flower bidi transport (`server/grpc/async_grpc_bridge.py`, `flower_servicer.py`) | status machine and wrappers of a bridge, event, registration | `Join`, `request`, `close` | a proxy's thread and the Join coroutine |
| Virtual client task (`virtual/client_adapter.py`, `client/autosplit_split_client.py`, `server/server_model/autosplit_tail_server_model.py`) | prefix, step counters, Flower context | `fit`: acquire, load, train, upload, commit, return, abort | suffix service by RPC, round thread through Flower |
| Round loop and aggregation (`server/server.py`, `virtual/server_adapter.py`, `server/strategy/autosplit_strategy.py`, `autosplit/state_ownership.py`) | round number, both parameter vectors, results, failures, pending updates | `fit`, `fit_round`, `aggregate_fit`, `aggregate_server_fit`, `finalize_round` | everything above |
| Greedy placement (`server/placement/greedy/`) | cost tables, cooldowns, exclusions, state file | `plan_round`, `observe_round`, `observe_failure`, `warm_start` | strategy |
| Round checkpoints (`virtual/checkpoint.py`) | pending directory, published files, pointer | `save_round_checkpoint` | placement's state file, round loop |
| Plain server-model manager (`server/stage_runtime/manager.py`) | persistent suffix models, exported states | `initialize_server_models`, `configure`, `collect_server_fit_results`, `end_round` | round thread, executor threads |
| Prefix context store (`runtime/prefix_context_store.py`) | contexts of unconsumed prefix steps | put, pop, `discard_round`, `clear` | the client's step loop |
| Run-time, configuration and evidence (`virtual/runtime.py`, `fedavg.py`, `config.py`, `telemetry.py`, `server_app.py`) | derived capacities, reports, service, store, Ray | `run_virtual`, `run_fedavg`, `_admit_resources`, `initialize_ray`, `Evidence` | builds and ends everything above |
| Asynchronous baselines (`experiments/baselines/fedcompass.py`, `async_fl.py`) | receipts, groups, buffers, model version | `receive`, `expire`, `_close`, `stop`, the coordinator's loop | their clients, by calls on threads |
| Physical comparison (`experiments/orchestrate_physical_multitask.py`, `physical_multitask.py`, `time_budget_server.py`) | processes on several hosts, the round barrier, the rounds committed | `run_matrix`, `_run_one`, `_serve`, validation, cleanup | ssh processes, sockets, the streaming server |
| Paired training campaign (`experiments/resnet50_quality/`) | campaign and queue files, claims, a directory for each job | `execute_campaign`, `run_controller`, `execute_queue`, `run_bounded`, `frozen_child`, `execute_frozen` | other controllers through the files, the processes of a job, `run_virtual` and `run_fedavg` |
| Client selection (`server/client_selection/`) | utilities, exploration, blacklist | `select`, feedback | strategy |
| Calibration and network probes (`server/placement/greedy/calibration.py`) | measured costs | measurement and admission of cuts | placement |
| Stage storage (`server/stage_runtime/storage.py`) | the files of a round | put, load, clear | tail model |
| Split planning and graph runtime (`autosplit/`, `split_engine/`) | plan cache, traced graphs | plan, trace, replay | strategy, clients |
| Framework adapters, tasks, transport envelopes, validation | none, or files | encoding, numerical work, I/O | |

### What is hard in this code

* **Two lock sections for one operation.** `acquire` admits, leaves the lock to
  build the model, and comes back; `finish` leaves it to export and release.
  Others acquire, finish and fail in between.
* **Cancellation of a handler whose work goes on.** A deadline or a reconcile
  cancels the coroutine; the executor thread computes on.  The slot, the lock and
  the model may be given up only when the thread is done.
* **Cleanups that are cancelled themselves**, and semaphores that must be released
  exactly once on every such path.
* **Two ways for the two halves of an update**, each of which can be lost alone, a
  task that goes on after its round was given up, and a task delivered twice.
* **Barriers**: a request group waits until its members are complete, while streams
  end early, fail or are cancelled.
* **A handshake between a blocking thread and a coroutine**, with timeouts and a
  disconnect at any await.
* **State that outlives its subject**: cost tables and cooldowns keyed by a
  connection, a state file that is one step behind the memory, files that are
  published in several renames.
* **A model that outlives its round.** The plain server configures the same suffix
  objects for every fit and evaluation, while the step of a client that left runs on.
* **A buffer or a group whose last member never comes**, and a deadline that passes in
  the middle of a merge.
* **Bounds that are applied one after the other** (configuration, two memories, native
  pool), and a cleanup of which every part may fail.
* **Files as the only memory of several processes.** A campaign is executed by whoever claims it; its
  controller may die while the processes of a job go on, and each of these says in files of its own how it ended.

`PROJECT.json` lists each of these hazards at its line with the properties that
would notice it going wrong.

## 2. Modules

| Module | Models | Extends / instantiates |
|---|---|---|
| `TaskLedger` | abstract: a task is started once, decided once, at most `Capacity` run | |
| `SuffixLease` | the lease manager | implements `TaskLedger` |
| `SuffixServicer` | the suffix service with the shielded execution, over the lease manager | `SuffixLease` |
| `SuffixLeaseProofs` | theorems about the manager and the service over it | `SuffixServicer`, TLAPS |
| `RequestGroups` | request handlers, request groups and the strategy's routing | |
| `FlowerBridge` | one client's bridge, Join coroutine and proxy thread | |
| `RequestProofs` | theorems about both | `RequestGroups`, `FlowerBridge`, TLAPS |
| `GlobalModel` | abstract: a round publishes whole pairs or keeps the model | |
| `SplitRound` | rounds, tasks, RPC failures, aggregation | implements `GlobalModel` |
| `SplitRoundProofs` | theorems about it | `SplitRound`, TLAPS |
| `Placement` | the Greedy policy, its feasibility filter and its state file | |
| `Checkpoint` | the publication of checkpoints, beside the placement | `Placement` |
| `CheckpointProofs` | theorems about both | `Checkpoint`, TLAPS |
| `PlainRound` | rounds of the streaming server on the plain manager: fits, evaluations, the client's step loop with its prefix contexts, the tail's steps | |
| `PlainRoundProofs` | theorems about it | `PlainRound`, TLAPS |
| `Arrivals` | the coordinator and the controllers of FedCompass, FedAsync and FedBuff | |
| `ArrivalsProofs` | theorems about it | `Arrivals`, TLAPS |
| `PhysicalRun` | the matrix of physical runs: coordinator, round barrier, server and client processes | |
| `PhysicalRunProofs` | theorems about it | `PhysicalRun`, TLAPS |
| `VirtualRun` | one call of `run_virtual` or `run_fedavg`: configuration, admission, native pool, reports, cleanup | |
| `TrainingQueue` | a campaign of paired trainings: files, claims, controllers, the processes of a job | `VirtualRun`, whose `Next` is what the child of a job does |
| `TrainingQueueProofs` | theorems about the campaign and the calls below it | `TrainingQueue`, TLAPS |
| `MC...` | instances for TLC (symmetry sets and values of constants) | |

Definitions that begin with `Mutant` are the mutated forms with which
`PROJECT.json` shows that each property can fail; no specification uses them.

### SuffixLease

One action is one `with self.lock` section; work between two sections touches only
the thread's own model and is folded into the section that publishes its result.
An identity is tried once per round, so a thread inside `acquire` or `finish` is
named by it: `pc[s]` is where that thread is.

| Code | Model |
|---|---|
| `_attempted`, `_preparing`, `_live`, `_finishing`, `_completed`, `_failed` | `attempted`, `preparing`, `live`, `finishing`, `completed`, `failed` |
| the model in `_live[sid]` or in the hands of a thread | `held[s]` |
| idle slots, `_next_model_instance_id` | `idle`, `created` |
| every model in memory | `native` (history) |
| `acquire`: first section, build, configure and publish, failure | `AcquireAdmit`, `AcquireBuild`, `AcquirePublish`, `AcquireFail` |
| `finish`: first section, export and retire, last section with or without an exception | `FinishTake`, `FinishStore`, `FinishCommit`, `FinishFail`, `FinishLeave` |
| collect, end of round | `CollectBegin`, `CollectAbort`, `FinishFails`, `CollectReturn`, `EndRound`, `EndRoundRaises` |

### SuffixServicer

A handler runs without interruption from one await to the next; each such stretch is
an action, and `req[r].at` names the await it is suspended in.  Executor threads
take the steps of `SuffixLease`.  `Deadline(r)` and `ReconcileBegin` cancel
handlers; `swallowed` holds those that noticed it while they were shielding an
execution (`servicer.py:188-203`).  `GiveUp` is the expiry of
`result(timeout=300)` in `virtual/runtime.py:575`.

### RequestGroups

A group is named by its leader, who has no other request meanwhile.  `config` is
chosen in `Init` and never changes: whether clients share a model, whether batches
are processed together, the number of execution lanes (0: no executor), and whether
the clients keep one `StreamRequest` open or make a `UnaryRequest` for each batch
(`_streams_`; the AutoSplit clients pass `False`,
`client/autosplit_split_client.py:1115`).  All combinations the strategy accepts are
explored in one run.

### FlowerBridge

The sections under the condition variable of `AsyncGrpcBridge` are the actions of
the caller's thread and of the Join coroutine; `wakeups` are the calls queued by
`call_soon_threadsafe`.  The parent class is Flower's and is modelled from its use.  The
names of its specification begin with `Bridge`, so that `RequestProofs` can speak of this
module and `RequestGroups` at once.

### SplitRound

A task is a client and a round; `at[t]` is the step its `fit` is in.  Every RPC of it may
be refused, lost, or lose its reply.  A state is abstracted to what the pairing
depends on: the global model it was trained from and the number of optimizer steps applied
and counted.  The lease service appears by the effects of its calls.

### Placement and Checkpoint

A cost is abstracted to the round that measured it, so that the cut which minimises
the score may be any feasible one.  `Virtual` selects the kind of run: Flower's
simulation, where a client keeps its identity and a failure names it, or the Flower
bidi server, where every connection is a new identity and a restarted server reads the
state file.  `Checkpoint` adds the files of `save_round_checkpoint`; its `Run` lets the
round loop go on only when the checkpoint of the round is published.

### PlainRound

| Code | Model |
|---|---|
| `Server.fit` and its phases: configure, fit, aggregate, evaluate | `phase`, actions of `RoundStep` |
| `_processed_steps`, `_inflight_steps`, `model_version`, loaded state | `processed`, `inflight`, `version`, `base`, `applied` |
| a step of the tail on an executor thread | `BeginStep`, `ApplyStep`, `ThreadStep`, `StepRaises` |
| the client's loop over its loader, `_context_store` | `at`, `seen`, `trained`, `context` |
| a stream that opens, ends or is lost | `Join`, `Leave` |

A client is a connection, as on Flower's bidi server, where a device that comes back is
somebody else.  The two replica scopes are chosen in `Init`; with a shared suffix the
executor has one lane, with per-client suffixes `Concurrency`.  A step is a
key `<<round, client, batch>>`, and both halves keep the set of keys they have taken, so
that a step which only one of them took is seen when the halves are aggregated.

### Arrivals

One module for the three controllers, chosen in `Init`; the coordinator's loop
is the same for them.  An assignment is an entry of `sent` with the receipt of
`dispatch_records`; `running` are the calls under way and `finished` is the queue
their threads put them in.  One action is one iteration of the loop or one visit of
`expire` to a group; `_close` assigns its members one at a time.  Step counts and speeds
only decide which group a client is assigned to, so a client may be assigned to any that
is expected.  Time is a number of ticks, and a merge may take as long as it pleases.

### PhysicalRun

The processes are the server, one client per worker, the barrier thread and the
coordinator; each may die, and each connection may break, between any two steps.  `gate`
and `socket` model `_serve` and the workers' connections to it, `linked` the Flower
stream, `pending` and `fits` the round of the server, `commits` the rounds that
became the model (a timed run takes its last one back, `time_budget_server.py:96`), and
`coord` where `_run_one` is.  `split` and `timed` are chosen in `Init`.

### VirtualRun

`cfg` is a whole configuration as its constructor accepts it.  `Constrain` is one of
the two memory bounds with the checks that follow it, `InitializeRay` the native
pool, `Build` the server with the slots and lanes that are left.  The training appears as
`Simulate`, which succeeds or raises.  `Write`, `Account` and `Cleanup` are the reports, the
`except` and the `finally` clause.  `run_fedavg` takes the same way without the suffixes: its store is opened before
its `try`, it has no service, and it either trained completely or raises (`Train`); `faults` counts writes that leave a truncated file and
stops that raise.  Memory is counted in model states: a resident suffix takes four, the
server three.

### TrainingQueue

| Code | Model |
|---|---|
| `campaign.json`, `queue.json` with its `controller_pid`, the two claim files | `campaign`, `queue`, `claims` |
| where a controller is, the queue it holds in memory and writes as a whole | `at`, `copy` |
| `execute_campaign` around `run_controller` around `execute_queue` | `Open` to `Announce`, `Close`; `Raises` and `Preserve`; `Read` to `SummariseQueue` |
| `run_bounded` | `Watched`; `left` is what outlived the watch |
| `frozen_child`, its child's `execute_frozen` | `Begin` and `Judged`; `Trained` to `Failing`, with `TrainStep` for the call itself |
| `result.json`, `summary.json`, `quality_validation.json`, `test_metrics.json` of a job | `dirs[j]` |

The child of a job takes the steps of `VirtualRun` with the configuration of `make_config`, for which the bounds on workers,
slots and lanes are fixed.  With `direct` there is no queue and the call has any configuration, so that
one run checks `VirtualRun` by itself and below the queue.  A controller may die, raise or be interrupted between any two steps, and so may
the child; a second controller may execute the same campaign at any time.

## 3. What is checked

### Runs that pass

| Run | Instance | Shows |
|---|---|---|
| `lease` | 3 identities, capacity 2, pooled slots, 2 rounds | registry, private slots, capacity, refinement of `TaskLedger` |
| `servicer` | 3 handlers, 2 replicas, 1 slot, 1 lane, all methods | admission agrees with the semaphore, executions on live replicas, nothing left at the collect |
| `servicer_live` | 2 handlers, per-client models, a round thread that may give up | executions owned, nothing survives the stop, handlers and service end |
| `groups` | 3 clients of up to 2 batches, by stream or by unary requests, every configuration with up to 2 lanes | nobody forgotten, ready groups frozen, lock step, streams end |
| `split_round` | 2 clients, one behind the paced channel, 1 batch, 2 rounds, complete rounds required or a round timeout | pairs match, contexts behind their suffix, refinement of `GlobalModel`, all or nothing, every run ends |
| `bridge` | 3 instructions, timeouts, a disconnect | handshake, own answers, every request returns, the end is noticed |
| `placement` | 2 clients, 2 cuts, cooldown 1; virtual runs of 3 rounds with a crash between any two file operations, bidi runs of 2 rounds with a reconnect or restart | failed cuts avoided, early end only without a cut (`FeasibilitySound`), checkpoints usable, measurements stay with their client |
| `plain_round` | 2 connections, 2 rounds of 2 batches, both scopes, 2 lanes, failing steps, clients that leave | halves in step, contexts consumed, evaluations of what was published, the run ends |
| `arrivals` | 2 clients, 3 methods, buffer of 2, deadline of 3 ticks | receipts and groups agree (`AccountsAgree`), nobody idle, the ledger settles |
| `physical` | 2 workers, 2 runs of 2 rounds, 2 deaths or broken connections in each | released together, only whole runs count, each run ends |
| `training_queue` | every configuration of 3 clients, memory for 1, 2 or 3 suffixes, just for none and in between, 2 failing writes or stops; or a campaign of 2 jobs (FedAvg and split), 2 controllers | what is built is backed, calls end in order, a job that passed earned it, jobs run alone, outcomes stay |

**Why the bounds are enough.** Two identities contend for one slot and a third waits
(`lease`, `servicer`); two rounds are what a late task, a stale token or a leftover
slot needs to meet the next round; in `plain_round` two batches are the least for which a
step can be missing or doubled inside a task, and in `split_round`, where the steps of a
task are proved about for any number, one is enough to be lost.  With three clients a
barrier can have one that is ahead, one behind and one that has ended; three instructions let an answer be one
or two requests late.  Three rounds with a cooldown of one let a cut fail, be avoided,
and return.  Two clients and a buffer of two make a group or a buffer that waits for the other;
three ticks let a group expire before the deadline of the run and an update arrive
after both.  Two runs let the remains of the first meet the second.  Three workers, slots and
lanes are the least for which each of the bounds in turn can be the one that holds.  Two jobs are one that comes after another, with the
other method; two controllers are one that owns the queue and one that finds it owned.  The constants
named `Max...` are bounds of the models, except `MaxRounds` in `SplitRound` and
`PlainRound`, which is the length of the run.

**Deadlock** is checked except in `groups`, `placement`, `physical` and
`training_queue`.  A placement run ends (`done`, `stopped`, `down`), and so does a matrix,
a call of `run_virtual` and a campaign.  In `groups` the
barrier stays shut when a client was cancelled without closing its stream, for
`mark_client_as_done` runs only on a normal end; when the batch
barrier is combined with a model per client, where each group has one member and is
compared with the number of clients (`plain_strategy.py:328`); and when clients with unequal
numbers of batches make unary requests, for `mark_client_as_done` is called by
`StreamRequest` alone.  These are behaviours of the code.  `AutoSplitStrategy` accepts
the last two, the shipped runtime never asks for the batch barrier; `StreamsEnd` exempts
them by `BarrierCanOpen` and says so.

**Symmetry** is used for safety only (`lease`, `servicer`, `servicer_timeout` and
`placement`); the constants it permutes are compared for equality alone.

**Fairness.**
* `SuffixServicer`: weak fairness of the loop, of each executor thread (building, exporting and
  executing return or raise) and of the round thread; of each deadline, because the clients pass a timeout with every RPC; strong
  fairness of obtaining a control slot, because asyncio's semaphores wake their waiters in order.
* `RequestGroups`: weak fairness of each handler, strong fairness of obtaining an execution slot, for the
  same reason; a client goes on until its batches are sent.  Nothing forces a cancellation.
* `FlowerBridge`: weak fairness of the loop, of the waiting thread and of the client's
  answer; a timeout and a disconnect are never forced.
* `SplitRound`: weak fairness of each task (its RPCs have deadlines) and of the round thread.
* `PlainRound`: weak fairness of the round thread, of each client that stays and of each executor thread.
* `Arrivals`: time passes, a call returns or times out, the event loop runs.
* `PhysicalRun`: weak fairness of every process and of the barrier thread, whose socket waits run
  out; none of the coordinator's deadlines.

### The run that finds a disagreement

`servicer_timeout`: `before_collect` stops waiting for reconcile after 300 seconds; the round is then ended and the live model of a running
`train_tail` is released, against `leased_manager.py:15` "It is never evicted between forward and backward" and `grpc/servicer.py:193`.

Further behaviours of the code that the models reproduce, and that no document contradicts or that a run is not needed to see:

* `aggregate_evaluate` passes `executions` to `observe_evaluation`, Greedy's method takes `feedback`: the first
  evaluation round with Greedy raises a `TypeError` (`Placement` with `Evaluates = TRUE`).  The test that covers the call uses
  a policy of its own.
* On the Flower bidi server a failure is a bare exception without a client identity; the policy is not told, and the same cut may
  be chosen in the next round.  `FailedCutsAvoided`, the first half of `FeasibilitySound`, is stated for virtual runs.
* A client that loses its stream and rejoins a running server gets a new identity, so its next cost table starts from the
  calibration or the restored file, and the next save replaces what this process had measured on it.  `LearningKept` is stated for the
  clients that did not rejoin.
* A step that outlives its client and its round is applied to a shared suffix which was configured for the next round meanwhile: the version
  is checked when the step begins (`PlainRound`).
* When every client of an evaluation fails, `aggregate_evaluate` divides by zero examples and the run ends.
* In `run_virtual` a service that cannot be stopped in the `finally` clause keeps the store and Ray (`VirtualRun`, `Cleanup`).
* A campaign whose controller died stays `running` for ever: nothing can claim it again, and the processes of its job go on
  to their own deadline (`TrainingQueue`, `Dies`).  The queue promises no recovery.

## 4. What is proved

With TLAPS, for every value of the constants that satisfies the named assumptions:

* **SuffixLease** (`LeaseAssumption`): `TypeCorrect`, `RegistryCorrect`, `SlotsPrivate`,
  `MemoryBounded` and `LeaseImplementsLedger`.  The inductive invariant is `LeaseInv ==
  TypeOK /\ RegistryOK /\ PrivateSlots /\ SlotsBounded`.  The capacity alone is not
  inductive: admission compares only the lease counts with it, so one needs that leases plus
  idle slots stay within it (`SlotsBounded`), which holds because a new model is built
  only when no slot is idle, which in turn needs that no slot is leased and idle at once
  (`PrivateSlots`) and that the registry sets name the threads' positions (`RegistryOK`).  The proof has one
  lemma per conjunct with one step per action, and lemmas on cardinalities.
* **SuffixServicer** (`ServicerAssumption` besides): `ServicerExecutionOwned`, `CollectIsAlone`, `ShutdownIsClean`, `SlotsNeverLost`,
  `CapacityStaysAgreed` and `ExecutesLiveReplica`, for any number of handlers, replicas, slots and lanes.  `ServicerInv` adds
  to `LeaseInv` that one handler at a time is past the lock of a replica (`Exclusive`), which future the
  thread of a replica works for (`Working`), that what the manager has is leased (`Leased`), who can still exist in which part of a
  round (`Phases`), and how many have taken each of the three semaphores (`Semaphores`).  That a slot is never lost is
  not inductive without `Working`: a cancelled handler gives its slot back only when the thread it shielded has returned.
  `CapacityStaysAgreed` and `ExecutesLiveReplica` assume `~Impatient`, that `before_collect` waits for reconcile to
  its end; without it both are false, and `servicer_timeout` shows the second one failing.  The other four hold for both.
* **SplitRound** (`RoundAssumption`): `RoundInvariant`, `PrefixesHaveSuffixes`, `ContextsBehindSuffixes`, `PairsBelongTogether` and
  `RoundsImplementGlobal`.  `RoundInv` says where the suffix, the upload and the registry of each task
  are at every step of it (`TasksInStep`), what was received from whom (`Received`), that
  tokens are of the current round (`TokensCurrent`), and that the tasks of other rounds hold nothing of
  this one (`RoundsSeparate`).  `PairsMatch` alone does not tell how a late task is kept off the next round's
  lease; the tokens and the separation of the rounds do.  `ContextsBehindSuffixes` needs, besides `RoundInv`, that no
  context has seen a round that has not begun (`ContextsPast`): otherwise a round would begin with a context that already says it is done.
* **RequestGroups** (`GroupAssumption`): `NobodyIsForgotten`, `ReadyInLockStep` and `ReadyGroupsAreFrozen`, for any number of
  clients, batches and lanes and every configuration.  `RoundInv` says that a request without an answer is in one open group
  (`Membership`, `Awaited`), that executions hold the lanes (`Lanes`), whom the strategy counts (`Counted`), and that with
  the batch barrier there is one group at a time, ready with a request of everybody who has not closed (`Everybody`).
  Lock step needs `Paced` as well: as long as nobody failed outside a group, all are at the same batch, in the group with it or
  about to send it.
* **FlowerBridge** (`BridgeAssumption`): `HandshakeHolds` and `AnswersAreOwn`, from `BridgeInv`, which adds what is in
  transit between the bridge and the client (`InTransit`): without it a late answer could be in
  `upstream` when a new instruction is sent.
* **PlainRound** (`PlainAssumption`): `StepsAreWhole`, `EvaluationIsOfPublished` and `NeverDiverged`, for any number of clients, rounds,
  batches and lanes and both scopes.  No lock is between the threads of the tail and the round thread; `PlainInv` says instead
  who can still be at work in which phase (`Placed`), which models hold the published state (`Configured`), and that within a step the
  suffix is ahead of the prefix by that step at most (`InStep`).
* **Placement and Checkpoint** (`PlacementAssumption`): `CheckpointInvariant`, `PointerUsable`, `LearningIsSound`, `CutsAreAvoided` and
  `FilterIsSound`, for any number of clients, cuts and rounds, any cooldown, and a crash between any two file operations.
  `PlacementInv` says what the filter of a virtual run knows of each failure, and when (`Remembered`), where the latest cost of a cut is
  kept, in the table of the connection, the restored one or the file (`Costed`), and what the file still lacks in which stage
  (`Saved`); `CheckpointInv` adds how far the checkpoint of the round has come (`Staged`).  That no more cuts of a client
  cool down than `Cooldown` is a count: a client fails at most once a round, so its failures have different rounds, and these are
  the rounds of one window.  `FilterIsSound` assumes `~Evaluates`: with `Evaluates` the first evaluation ends the run
  (section 3), whatever is feasible.  The other four need no such hypothesis.
* **Arrivals** (`ArrivalsAssumption`): `ArrivalsInvariant`, `AccountsKept`, `EveryClientWorks` and `LedgerIsKept`, the safety half of
  `LedgerSettles`, for any number of clients, groups, updates and ticks and the three controllers.  The receipts alone are not
  inductive: that no update is in two places needs that a call is under way or in the queue once (`Queued`), and that no client idles
  needs that it has one call, one waiting update or one place in a list of the loop (`Owned`, `InTurn`).  The proof
  states once what any way of dealing with an arrival does to the receipts (`Moves`) and to the groups (`Regroups`), and shows it of
  each: a first update, a late one, one in time with or without the close of its group, a buffer, an expiry.
* **PhysicalRun** (`PhysicalAssumption`): `RunInvariant`, `ReleasesTogether` and `CompletedIsWhole`, for any number of workers, rounds,
  attempts, deaths and broken connections.  Four accounts of a round are kept by different processes, and `RunInv` ties them to each other: what a
  worker does (`Fitting`), its connection to the barrier (`Barred`), the barrier thread (`Gated`), and the answers and commits of the
  server (`Counted`); `Ended` adds that when the coordinator reaps, the server has ended well and the barrier is over.
* **TrainingQueue** (`QueueAssumption`, and the assumptions of `VirtualRun`): `PassesEarned`, `JobsRunAlone` and `OutcomesKept`,
  for any number of jobs and controllers, any configuration and any deaths.  `QueueInv` rests on five facts.  One controller is ever past
  the claim of the campaign (`OneController`), so that its copy of the queue cannot be stale.  That copy and the file differ in one job at most, and
  only between two saves (`Owner`, `InTurn`).  What outlived a watch belongs to no job that is still to run or counts
  (`LeftBehind`, `Counted`).  The directory of a job says no more than how far its processes have come (`ChildTold`).  And a call that returned wrote
  a summary that passed and ended Ray (`CallTold`), which is why `exit0` leaves nothing behind and a job that crashed may.  The proof has one lemma
  for each step of a controller and of a job's processes; `LeastPending` says that jobs are taken in order.

* **VirtualRun**, by itself and below the campaign (proved in `TrainingQueueProofs`): `SlotsAreBacked` and `CallsEndInOrder`, for any memory,
  configuration and faults.  `RunInv` there says which bounds have been applied at each step of the call (`Sized`), what the reports say of
  the outcome (`Reported`) and what has been given back (`Released`).

In `SplitRound`, `AllIsAggregated` proves `AllOrNothing` besides: answers come from selected clients only, and `Collect` waits for all of them
(`Answered`).  And `EveryStepIsProgress` is the half of its `RunEnds` that needs no fairness: there is nothing a run could repeat for ever.  Every
step begins a round, takes the round thread further within one, takes a client off those whose answer is awaited, or brings a task further;
no round, and no task, ever goes back; and all of these are bounded.  The other half, that fairness leaves no state before the end
where nothing happens, stays with TLC.

Only model-checked: the liveness properties (`ServiceEnds`, `StreamsEnd`, `RequestsReturn`, the three `RunEnds`, and that a run of `Arrivals` ends,
which is the other half of `LedgerSettles`), but for what `EveryStepIsProgress` says of one of them.  Liveness under fairness and `ENABLED` are out of the prover's reach.  Every
invariant and every action property that a passing run checks is also a theorem.

## 5. What is not modelled

* Tensors, optimizers, graphs and their capture; a training step is one counted step.
* Calibration, network probes, the score of a cut, and the memory limits of the feasibility check, which no code
  of the repository supplies.
* The reassembly of states with tied weights; pipelining of a client's steps.
* The asynchronous queue of the server-model proxy; the contents of the round state store; telemetry rows and pacing.
* Client selection: `SplitRound`, `PlainRound` and `Placement` take any selection.  Oort's utilities are floating-point
  arithmetic over times and losses.
* The plan cache and the batch window; the framework adapters; encoding and validation of envelopes.
* The runner of `experiments/resnet50_backends`, which waits for other campaigns through their status files, and the analyses under
  `experiments/`; of the paired training its statistics, its data and hardware files, and the status command, which only reads.
* A process that outlives the watch over its job is only counted (`left`); what it could still write is not modelled, for its directory is gone.
* Power failures: a crash is the death of the process, and what was renamed stays.

## 6. Order of the work

The lease manager with its ledger came first, then the service above it, the rounds with `GlobalModel`, the request groups and the
bridge, placement and checkpoints, the plain rounds with the step loop, the asynchronous baselines, the physical comparison, the run-time, and the campaign above it.
The theorems followed, in about the same order.  What would come next: the client selection and the calibrated telemetry before
`Placement`, and the plan cache with its asynchronous writes.

## 7. Running

    tlc -workers 2 -config MCSuffixLease.cfg MCSuffixLease
    tlapm SuffixLeaseProofs.tla

`PROJECT.json` names the module, the configuration and the properties of every run, the lines of the
source that each definition models, and the mutated definition that breaks each property.
