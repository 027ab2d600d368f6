# A TLA+ development of ActServe

ActServe serves actions to robots: a scheduler takes perishable observations
from many robot sessions, orders them by deadline, batches compatible ones for
a policy backend and routes the answers back, dropping whatever has become
stale or late. This directory holds TLA+ models of its control logic, the TLC
configurations that check them, and proofs that TLAPS checks.

Paths below are relative to the package `src/actserve/` of the repository.

## 1. The system

| Component | State it keeps | Operations | What is hard about it |
|---|---|---|---|
| `scheduler.py` `Scheduler` | heap of envelopes, session -> queued envelope, session -> newest sequence number, accepting flag, worker task, futures | `enqueue`/`submit`, worker loop `_run` (sweep, wait, take a batch, execute), `start`, `close` | tasks interleave at every `await`; deadlines pass between steps; a condition variable with a timed wait; failures of the backend; restart |
| `types.py` requests, actions, outcomes | immutable records | constructors with validation | identity of an action, statuses of an outcome |
| `metrics.py` `SchedulerMetrics` | counters, bounded latency samples | `record_submit/dispatch/outcome`, `snapshot` | each request counted once; percentiles |
| `backend.py` protocol, `CallableBackend`, `SimulatedBackend` | none / calls | `batch_key`, `infer_batch`, `estimate_batch_latency_ms` | may fail, answer late, answer another request |
| `action_queue.py` `AsyncActionQueue` | deque of actions, newest sequence number, refill slot, closed flag, counters | `put`, `acquire_refill`, `finish_refill`, `get`, `get_nowait`, `close` | producers and consumers on one condition variable; timeouts that race a publication; a refill slot that must come back |
| `adapter_backend.py` `AdapterBackend` | routes | `route`, `batch_key`, `infer_batch` | unknown models, mixed batches |
| `adapter_planner.py` | none | `plan_adapter_residency` | a knapsack by dynamic programming with tie-breaking |
| `integrations/embodied_cpp.py` | one REQ socket on one thread, latency window, closed flag | `infer_batch`, `aclose`, `estimate_batch_latency_ms` | a reply after its timeout; closing while a request is in flight |
| `integrations/http_json.py` | latency windows, client, closed flag | `batch_key`, `infer_batch`, `aclose`, estimate | answers of a foreign server; an estimate that must grow with the batch |
| `integrations/smolvla.py` | policy, one thread, latency windows, closed flag | `batch_key`, `infer_batch`, `aclose`, estimate | observations that cannot be stacked; a thread that is joined on the event loop |
| `server.py` | none of its own | lifespan (start, close scheduler, close backend), `POST /v1/actions`, `/readyz` | order of closing; shutdown while requests wait; mapping outcomes to answers |
| `profiler.py` `StageProfiler` | bounded samples of each stage | `observe`, `span`, `snapshot` | percentiles of bounded samples |
| `training_profiler.py` | counters, bounded samples, open steps | `step`, `phase`, `record`, `finish`, `record_step`, `snapshot` | a step that is refused must leave no trace; bounded samples against unbounded counters |
| `training_tuner.py` | none | `generate_sweep`, `select_training_trial` | duplicates and a cut in one loop; a selection in four places |
| benchmarks, `replay.py`, command lines | none | generate load, print | none that matters here |

How they interact: a caller (or a handler of `server.py`) calls
`Scheduler.submit`, which queues an envelope under the condition's lock and
awaits its future; the worker task takes batches out of the queue and awaits
`backend.infer_batch`; `_finish` resolves the futures and the counters in
`metrics.py`. A robot's control loop may put the actions it gets into an
`AsyncActionQueue` and ask for the next chunk when it runs low. The training
profiler and tuner are apart from all this: a training loop records its steps,
and the measurements of several runs are compared. Serving runs
on one asyncio event loop: between two awaits nothing else runs, and at an
await anything may. Backends with a thread of their own hand results back to
the loop.

What makes each part correct:

- Scheduler: at most one queued observation per session, the newest one; the
  bound on the queue; no wake-up is lost; batches meet their deadlines as far
  as the estimates go; earliest deadline first; an action goes only to the
  request it names; every request has exactly one outcome, which agrees with
  what happened to it; close leaves nothing behind.
- Metrics: every submission counted once, under its outcome.
- Action queue: actions of newer observations only, in order; at most one
  refill in flight, and the slot comes back; nobody sleeps on a non-empty queue.
- Adapter planner: the optimum of the rounded problem, deterministically.
- Backends: an answer is matched to the request that is waiting for it; no batch
  mixes models; the estimate for a larger batch is not smaller.
- Server: every client has one answer; the scheduler is closed before the backend.
- Training: the snapshot is that of the steps recorded; the sweep is complete;
  the trial selected is the fastest of those that fit.

## 2. Modules

| Module | What it is |
|---|---|
| `Scheduler` | the scheduler: state, one action per handler or stretch between awaits |
| `SchedulerProps` | its properties and its inductive invariant |
| `RequestContract` | what a caller of `submit` may rely on, without queue or worker |
| `SchedulerProofs` | its inductive invariant, the theorems on queue, outcomes and contract |
| `SchedulerQueueProofs` | theorems on what is in the queue, on the workers that sleep, wake up and stop, on the counters and on the batches |
| `MCScheduler` | estimator tables and symmetry for TLC |
| `ActionQueue` | the action queue: chunks, the refill slot, getters with timeouts |
| `ActionQueueProps`, `ActionQueueProofs`, `MCActionQueue` | its properties and inductive invariant, its theorems, its configurations for TLC |
| `EmbodiedBackend` | the Embodied.cpp backend: event loop, thread, REQ socket, server |
| `InferenceService` | what the scheduler may rely on in a backend |
| `EmbodiedProps`, `EmbodiedProofs` | properties, inductive invariant and theorems of that backend |
| `AdapterPlanner` | the knapsack of the residency planner, one step per iteration |
| `AdapterPlannerProps`, `AdapterPlannerProofs` | the optimum by brute force, and the theorems |
| `Percentile` | the interpolated percentile of both profilers and of the estimates |
| `LatencyEstimator` | the latency windows and the estimate of the HTTP and the SmolVLA backend |
| `Serving` | the HTTP application over the contract of the scheduler and over each of three backends |
| `ServingProps`, `ServingProofs`, `MCServing` | its properties, theorems and configuration for TLC |
| `StageProfiler`, `TrainingProfiler` | the profilers: samples, steps, phases and snapshot |
| `TrainingTuner` | the sweep, one step per iteration, and the selection |
| `TrainingStudy` | the composition: sweep, one profiled run for each candidate, selection |
| `TrainingProps`, `TrainingProofs`, `MCTraining` | its properties, theorems and configuration for TLC |
| `DataLemmas` | folds, sums and products over finite sets, division, greatest and least elements, sorted sequences: what the proofs about data rest on |

What composes what: `Serving` uses `RequestContract` for the requests of the
scheduler and `LatencyEstimator` for its backends, and is itself shown to implement
`InferenceService`, which `EmbodiedBackend` implements too. `SchedulerProps` shows
that `Scheduler` implements `RequestContract`. `TrainingStudy` composes
`TrainingProfiler` (over `StageProfiler`) and `TrainingTuner`.

### Scheduler: state and actions

An envelope is a model value; `request[r]` is the request in it and
`outcome[r]` its future, reduced to the status, the request that the action
names, and the request it was replaced by. The heap is the set of its
envelopes: what the code gets out of the heap's order is the sort key, which is
`Before`. `active` and `dispatched` are the two fields of the envelope that
`enqueue` and the sweeps test. `pendingOf` and `latest` are the two
dictionaries, `handle` is `_worker`, and `tally`, `submitted` and `served` are
the counters.

asyncio runs a task undisturbed from one await to the next, so an action is one
such stretch:

- `Submit(r)` is `enqueue` up to the lock (the test of `_accepting`, the order
  drawn from the counter); `EnqueueLocked(r)` is the rest of it, one of
  `RejectOutOfOrder`, `RejectOverloaded` and `Admit`, each with its sweep, its
  pointers, its outcomes and its notification. `line` is the FIFO of the
  tasks that ask for the lock, and `parked` says whether they are suspended or the one
  that asked goes on at once. A request may have been made some time before it is
  submitted (`Ages`), so that it may be due at once.
- A pass of `_run` ends in one of `WorkerExit`, `WorkerIdle` (untimed wait),
  `WorkerHold` (timed wait for the batching window), `WorkerDispatch` (a batch
  is taken and handed to the backend) and `WorkerCrash` (`batch_key` raises).
  Every one of them contains the two sweeps the pass starts with.
- `BackendReturns`, `BackendFails` and `BackendCancelled` are the rest of
  `_execute`; `Routed` finishes slots in order until one names another request
  and then fails whatever is not finished.
- `Start`, `CloseBegin`, `CloseLocked`, `CloseReturn`, `CloseRaise` and
  `CloseCancelled` are the lifecycle; `Abandon` is a caller whose task is
  cancelled while it awaits its future; `Tick` is the clock.

Abstractions, and why they are sound for the properties:

- The clock is discrete and every comparison of the code is kept as it is. The
  clock is read several times within a pass; the model reads it once for the
  sweeps and the window and once more (up to `PassDelay` later) for the batch.
- The estimator answers from a table chosen anew for each pass from `Estimates`,
  the profile of a backend that moves under the scheduler.
- An estimator answers with a number that is not negative, or with `None`. One that raises
  (`scheduler.py:249`), or whose negative estimate makes the code raise, is left out: it would
  end the worker as a raising `batch_key` does.
- `LockYields` covers two generations of Python. Up to 3.11 `asyncio.wait_for` runs the
  `wait` of the batching window in a task of its own: the lock is held until that task has
  begun (a worker that is "settling"), and from the moment it has the lock back until the
  worker goes on ("holding"). Only then does anybody find the lock taken; who does is
  suspended, and so is whoever comes next, as long as the line is not empty. The worker
  takes its place in it like everybody (`WorkerQueues`), for its next pass and for the end
  of its timed wait ("waking"). From 3.12 on `wait_for` needs no task, no critical section has
  an await in it but the wait itself, and nobody ever finds the lock taken.
- A worker that is cancelled (`CloseCancelled`) ends at once, not after it has
  reacquired the lock.
- A caller that is cancelled while it waits for the lock is not modelled: it
  has no future yet and leaves no trace but a drawn order.
- `Alien` stands for any action whose four identity fields match no request of
  the batch; an action of another slot of the same batch is that request.
- Observations, errors' wording, latencies and the profiler are left out.

### The contract

`RequestContract` has two variables, the stage of each request and its answer.
A request is turned away or queued, a queued one is shed or executed, an
executing one is completed, missed or failed, and a caller may abandon it in
between; an answer appears only with completion (or with a miss, when late
actions are kept) and is the request's own; one step brings in one request at
most, though it may shed several. `SchedulerProps!Contract` is the refinement
mapping, `KeepsContract` says that the scheduler implements it.

### Action queue: state and actions

A getter is one call of `get` or `get_nowait`, a producer one task that asks for
the refill slot, infers, and finishes the refill, or just puts a chunk. An
action is its chunk's sequence number and its index in the chunk; `got[g]` is
what a getter was given and `sent[p]` the chunk a producer published last.

- `Put`, `FinishRefill` (both over `Publish`, which accepts or rejects a chunk and
  trims or replaces the queue by the policy), `Acquire`, `Claim`, `AwaitRefill`,
  `GetNowait`, `Get`, `TryGet` and `Close` are the methods, cut at their awaits.
  Except for the wait on the condition nothing in a critical section awaits, so
  the lock is free whenever a task runs and needs no variable.
- `Woken` is `notify_all`: every waiter is ready to look again; each one finds out
  in a step of its own what is left for it.
- `Timeout` lets the timer of a waiting getter fire and `TimedOut` is what the getter
  does then, so that a put can come between them. `GetCancelled` and
  `ProducerCancelled` are callers that are cancelled; a producer cancelled between
  `acquire_refill` and `finish_refill` keeps the slot, as in the code.
- `config` is chosen in `Init` and stays, so that a run covers every
  configuration. Closing again changes nothing. The profiler is left out.

### Embodied.cpp backend: state and actions

A call of `infer_batch` stands for its one request and for its wire id (two ids
that collide are not considered; they are 64 bits of a hash). Batches of other
sizes are left out: `max_batch_size` is 1, and the code refuses them before it does
anything.

- On the loop: `Infer` and `Resume` are the two sides of the await of `infer_batch`,
  `Aclose` and `AcloseResumes` those of `aclose`; `CancelCall` and `CancelAclose`
  cancel the task at it, which also withdraws a job that has not started.
- On the thread: `TakeJob`, then `Send` and one of `Receive` and `ReceiveFails`, or
  `BuildFails` or `SendFails`; `CloseTransport` for a closer.
- A socket is its number, the last one opened is the current one. `Reconnect`
  replaces it, and is assumed to succeed: `connect` of ZeroMQ is asynchronous. The
  server may answer any request it was sent, at any time, with the id of any call
  or of none, with or without an error; what goes to a replaced socket is lost.
- The latencies are values from `Durations`; what matters is how many are kept.

`InferenceService` is the contract: an open backend accepts a call and a closed one
refuses it, an accepted call ends once, with an action of its own request or with
none. The scheduler assumes less: it checks the identity of every action itself.

### Adapter planner: state and actions

`Consider` is one iteration of the outer loop and builds the next table from the
last one (the inner loop reads only `states` and writes only `additions`, and meets
every amount of memory once, so its order does not matter); `Finish` is the final
`max`. Sizes and the budget are whole parts of a MiB, `Unit` of them to the MiB,
so that both roundings are in the model; gains are natural numbers where the code
adds floats. `plans` is a history variable: every selection that fits.

### Serving: state and actions

`Serving` is `server.py` with what is behind it. Of the scheduler it has the stage and
the action of each request, as in `RequestContract`; that one worker executes
one batch at a time and compares the batch key of everything queued with that of its
leader; and what `close` waits for. `kind`, chosen in `Init`, says which of three
backends the service has.

- `Post` and `Respond` are the two sides of the await in the handler of
  `POST /v1/actions`; `StatusOf` is its mapping from outcomes to status codes. A
  scheduler that does not accept raises, which becomes a 500. `Startup`, `Shutdown`,
  `SchedulerCloses` and `ClientCloses` are `lifespan`, cut at its awaits;
  `SmolVLACloses` joins the thread of that backend without an await, as
  the code does.
- `Shed` is whatever takes a queued request out (a newer observation, time, the
  estimate: without one nothing is unserviceable). `Dispatch` takes a batch of one
  `BatchKey`; `WorkerDies` is the `ValueError` of a model without a route, which ends
  the worker with the request it had popped.
- `Chunks` is what `infer_batch` may return: any identities from a policy server or a
  callable, the right ones from `SmolVLABackend`, which puts them itself and refuses
  a batch of another model or of observations that cannot be stacked. `Answered` is
  the scheduler's loop over the slots. `BackendRaises` covers every exception.
- `LatencyEstimator` has the windows of the last latencies, one for each batch size; the
  estimate is the greatest of their scaled 90th percentiles, each times the safety
  factor, and of the initial latency. Latencies are whole numbers, estimates
  hundredths of them rounded down, percentages where the code has factors.

Abstractions: `deadline_ms` is finite (an infinite one makes `with_timeout` raise,
`types.py:60`, and is answered with a 500 by an open service too); a payload is its request's
identity; `authorize`, `/healthz`,
`/readyz` and `/metrics` change no state and are left out; the server itself never
cancels a handler; `Durations` are what may be measured. The estimator of an
`AdapterBackend` is the caller's, so `Shed` may happen at any time with it.

### Training: state and actions

Phases, configuration keys and values are numbers in the order of their names, since
the code compares them only; 0 is the empty name, which `record_step` refuses and `phase`
does not. `StepName` is the phase called `step`: the stage profiler keeps it under
`training.step`, the key of the time of the whole step (`training_profiler.py:130` and
`135`), so that the two add up there, while `phaseSamples` and `stepSamples` keep them
apart. `ProfileIsTrue` says what each holds, and that the recommendations are for the phases
that took their share of the time, and for no others. `open` holds the `TrainingStep` objects, `phaseSamples` and `stepSamples` the
bounded samples, `stages` those of the `StageProfiler` behind; `history` is a history
variable, every step recorded.

- `Begin`, `Phase`, `Record` and `Finish` are the methods of a step, `RecordDirectly` is
  `record_step` called with a framework's own measurements. `RecordStep` validates
  everything before it records anything. `Snapshot` and `Recommendations` are operators.
- `Generate` is one iteration of `generate_sweep`; `Decision` is
  `select_training_trial`. Throughput is kept as a fraction and compared exactly: the code
  divides and rounds floats.
- In `TrainingStudy` `Measured` and `Breaks` end the run of a candidate with what its
  profiler measured, or with none; who runs the trials is not code of the package (the map
  says external). `truth` is what really went by, whatever the profiler kept.

## 3. What is checked

| Run | Question | Bounds |
|---|---|---|
| `sched_core` | Is the EDF queue right: pointers, newest frames, capacity, wake-ups, windows, batches, order, draining on close? | 3 requests, up to 3 sessions, 2 sequence numbers, 2 timeouts, room for 2, batches of 2, clock 0..4; about 1.6 million states |
| `sched_faults` | Are outcomes final, single, safe and counted when everything fails? | 2 requests of one session, 2 workers, 2 closers, bad batch key, backend errors and cancellation, wrong actions, abandoned calls, requests made a tick ago, cancelled close, a lock that is found taken around a timed wait; about 465 thousand states |
| `sched_live` | Is every request answered, does close return? | FIFO, 2 requests, some made a tick ago, no coalescing, moving estimates, backend failures; about 97 thousand states |
| `action_queue` | One refill at a time, no lost wake-up, actions in order and none lost, every waiting call ends? | 2 getters, 2 producers, 2 sequence numbers, chunks of 0 to 2 actions, both policies, watermarks 0 and 1 |
| `embodied` | Does the socket recover, is the shutdown clean, does every call end, is the contract of a backend kept? | 3 calls, 2 closers, a window of 2 latencies; about 288 thousand states |
| `planner` | Is the plan the optimum, does it fit, are ties broken by name? | 3 adapters, sizes of 0 to 3 halves of a MiB, gains of 0 to 2, six budgets; every input |
| `serving` | Is the backend closed last, has every client one answer of its own, are all answered, do estimates grow with the batch? | 2 requests, 3 backends, 3 models of which one has no route, 2 adapters of one backbone, batches of 2, windows of 2, latencies 1 and 5, initial latency 3, safety factor 1.1; 84,641 states |
| `training` | Is the snapshot that of the steps, the sweep complete, the selection the fastest? | one open step and steps recorded directly, the phases `forward` and `step` and the empty name, `sample_limit` 2 with up to 3 steps, sweeps of up to 2 of 1 to 4 combinations, 3 latencies and headrooms; 568,128 states |

The bounds are chosen so that the cases that matter occur. Three requests let
one be replaced or expire while another is executed and a third one arrives at a
full queue; two fill a batch; two workers, two closers and a restart are what
overlapping `close` calls need. Symmetry is used for safety only. In the action
queue two producers contend for the slot and two getters for an action, and two
sequence numbers make a chunk old, equal or new. In the backend three calls let one
wait for a reply, one be queued and one come late. In the planner two adapters can
tie and the third extends or displaces them; halves of a MiB make both roundings
bite. In the service two requests share a batch, or are kept apart by their models, or
one kills the worker while the other waits; one is executed while the other one arrives
during the shutdown; windows of two let a slow latency leave, and the initial latency lies
between the measured ones so that either may be the greatest. In the
study three steps exceed the sample limit by one; an axis with a value listed twice
meets the baseline, and four combinations exceed `max_trials`; in a sweep of two
trials each run has one step (`LongSweep`): what two trials need is two different measurements,
and the profiler with several steps is covered by the sweep of one.

Each run has only the properties that are worth its time: the type invariants, and
`OutcomeFinal` and `SequenceMonotonic` of the scheduler, are proved and no longer
checked by TLC as well.

Fairness (`FairSpec`): the event loop runs every task that can run, time goes
on, timers fire, and the backend answers or fails in the end (`infer_batch` is
assumed to terminate; the scheduler has no timeout on it). Nothing obliges
anybody to submit, to give up, or to close. The faults that end the worker for
good are off in `sched_live`: with them the property is false, which is what
`lost_failures` shows.

In `action_queue` every task that can run does, and timers fire; nobody needs to
call, to publish or to close, which is why a getter without a timeout is only
promised to end when the queue is closed, and only a timed one to end anyway. In
`embodied` the loop and the thread go on (and `recv` has its timeout, so
`ReceiveFails` is a step the thread can take); the server need not answer at all.

In `serving` the worker, the lifespan and each handler go on, and `infer_batch` ends: the
HTTP client has its timeout and the others compute. Nobody needs to post or to
shut down. `EveryoneAnswered` excepts a service whose worker has died, which is
what `/readyz` reports. `training` is about safety only.

### Where the code and its documentation disagree

Each of these runs checks one sentence of the documentation or of the source
and ends with a counterexample.

| Run | Sentence | What happens |
|---|---|---|
| `fails_closed` | `docs/ARCHITECTURE.md:64` "The whole backend call fails closed on an identity mismatch" | slots before the mismatch are already completed |
| `lost_failures` | `scheduler.py:298` "backend failures become per-request outcomes" | an exception of `batch_key` (`AdapterBackend` raises one for an unknown model) ends the worker and leaves a popped request pending for ever |
| `late_admission` | `scheduler.py:95` "scheduler is not accepting requests" | on Python 3.10 and 3.11 a request that finds the lock taken, around the timed wait in which the worker holds another one, is queued behind `close` and the last worker and stays pending for ever |
| `orphaned_worker` | `scheduler.py:79` `is_accepting` | a second, overlapping `close` forgets the worker of a restart |

`SleepEndsBeforeGuard` checks what `docs/ARCHITECTURE.md:38` says of the batching window
("without intentionally waiting past the leader's dispatch guard"), and it holds: a worker sleeps
until the guard at the latest. With no guard and no estimate that is the deadline itself,
so a lone request may be found expired when the worker wakes up; the sentence
promises no more.

## 4. What is proved

Every safety property that a run checks and expects to hold is proved, for every value
of the constants that the named assumptions admit. The tables name the theorem and the
definition it is about.

### The scheduler

`SchedulerProofs` proves, for every number of requests, sessions, workers and
closers, every configuration and every failure the model knows:

| Theorem | Property |
|---|---|
| `TypeCorrect` | `TypeOK` |
| `OnePerSession` | `QueuedIsPointed` |
| `NewestOnly` | `QueuedIsNewest` |
| `ResolvedOnce` | `OutcomeFinal` |
| `LatestNeverGoesBack` | `SequenceMonotonic` |
| `ExecutedOnce` | `DispatchedOnce` |
| `ActionsSafe` | `ActionsAreSafe` |
| `Refinement` | `KeepsContract` |

Assumed is `ConfigAssumption` of `Scheduler` only: distinct values are distinct,
the requests are finitely many, the configuration is one that
`SchedulerConfig` accepts, estimates are not negative.

None of the properties is inductive alone. `QueuedIsNewest` needs that the
session remembers a bound of what it admitted (`LatestOK`) and, for the one
arrival that is not newer than a queued frame in the model's eyes, that the
queued frame is found through the pointer (`QueuedIsPointed`) and so replaced.
`QueuedIsPointed` needs that pointers name requests of their own session
(`QueueOK`). Both need that a request does not change while its call waits for
the lock (`CallsOK`) and that nobody is in the line twice, or without asking for the lock (`LineOK`). `IInv` is
the conjunction, and it is what every theorem rests on.

The proof is organised by effect rather than by property: `OutcomeStep` says how
any step changes the futures, `CallStep` how it changes the calls, `QueueStep`
that it admits one request or only takes some away, `DispatchStep` what is
executed. The invariants and the refinement follow from these four.

`SchedulerQueueProofs` adds to `IInv` what each of its theorems needs:

| Theorem | Property | Assumed besides | Invariant added |
|---|---|---|---|
| `ReplacedOnlyByNewer` | `ReplacedByNewer` | | `OrderOK`: callers are in the line in the order they drew |
| `CapacityIsKept` | `CapacityRespected` | | `PointerOK`: an active pointer names something queued |
| `MetricsAreRight` | `MetricsAgree` | | `SubmittedOK`, `ServedOK`: the counters count sets of requests |
| `NoneIsLost` | `NothingLost` | `WorkersSurvive` | `ActiveOK`: an envelope is active until its call has passed the lock |
| `NobodySleepsOnWork` | `NoSleepOnWork` | `WorkersSurvive`, no `LockYields` | `AwakeOK`: who has the lock found the scheduler accepting, and an accepting scheduler has a worker |
| `CloseLeavesNothing` | `CloseDrains` | the same, no `RestartInClose` | `DrainOK`: one worker runs, `_worker` names it and every `close` on its way waits for it, and it stops with an empty queue |
| `WakesInTime` | `SleepEndsBeforeGuard` | the same, no `RestartInClose` | `AwakeOK`, `DrainOK` |
| `DispatchedInOrder` | `EarliestDispatched` | | |
| `BatchesOnTime` | `BatchOnTime` | | `OrderOK`, `DrawnOnce`: no order is drawn twice |

`WorkersSurvive` excludes what ends a worker for good: a `batch_key` that raises, a
cancelled `infer_batch`, a `close` cancelled while it waits. Without it a request can be lost,
which `lost_failures` shows. `LockYields` is
Python up to 3.11; there a request can be queued after `close` and after the last worker
(`late_admission`, with two requests: one that the worker holds and one that comes late). `RestartInClose` is a step, a `start` while
a call of `close` is on its way: the two theorems are about the behaviours without
it, with any number of calls of `close`, one after the other or together, and any number of
restarts between them (`orphaned_worker` shows such a step: the late `close` forgets the
new worker). None of them is a limit of the proof alone: the
violation runs show what happens without. `CapacityRespected` and the count of `served`
are stated up to the first failure of a worker: they claim nothing after it.

The counters are cardinalities of sets of requests. `Book` pairs each status with the
requests that have it, and the lemmas say that a step moves requests from
one set of it to another by as many as it counts.

`BatchOnTime` is about a batch and the code tests one newcomer at a time. The argument is
that a batch has a last request in the order of the queue (`LastOfBatch`: the sort
key is a total order, since no order number is drawn twice, and a finite set has a
greatest element), and that this one was tested together with all the others.

### The action queue

`ActionQueueProofs` proves, for any number of getters and producers, any chunks,
watermark and policy, from `QueueAssumption` only:

| Theorem | Property |
|---|---|
| `TypeCorrect` | `TypeOK` |
| `OneRefillAlways` | `OneRefill` |
| `NoLostWakeUp` | `NobodySleepsOnWork` |
| `NeverGoesBack` | `ServedInOrder` |
| `HandoffHonoured` | `HandoffKept` |
| `CountersAreRight` | `CountersAgree` |
| `NothingIsLost` | `ActionsConserved` |

`IInv` adds to the first three that the queue is sorted, follows everything that was
served, and holds nothing newer than the newest chunk (`InOrder`); that only the
newest chunk is queued, or everything published has been given or is queued,
whichever the policy says (`HandoffOK`); and that a getter with its action is done
(`Answered`). The two action properties need these, since a step alone does not
tell what was served long before. The lemma `StreamStep`
carries the argument: each step publishes a chunk, serves the first action, or
leaves the stream of actions as it is. For the two theorems on counters the same three
cases say which set grows by one or by a chunk (`CountedOK`, `ConservedOK`): a chunk that is
accepted is newer than everything published, so that its actions are new and disjoint from the rest,
and what is served is the first of a sorted queue, so that it leaves the queue
for good.

### The Embodied.cpp backend

`EmbodiedProofs` proves, for any number of calls and closers and whatever the
server sends, from `EmbodiedAssumption` only:

| Theorem | Property |
|---|---|
| `TypeCorrect` | `TypeOK` |
| `SocketRecovers` | `NotPoisoned` |
| `ShutdownNeverBlocks` | `CleanShutdown` |
| `GoneIsGone` | `NoWorkForTheGone` |
| `Implements` | `KeepsService` |

`NotPoisoned` is inductive alone. The others rest on how the queue of the executor is
ordered: every job is there once, a queued call still waits and has no result
(`JobsOK`), a closer is the last job and the thread that runs it has an empty queue
(`JobsOK`, `ThreadOK`), so that its result leaves an idle thread (`ClosedOK`); and a
result is of its own call or a failure (`ResultsOK`).

### The planner

`AdapterPlannerProofs` proves, for any number of adapters, any sizes, gains and
budget, from `PlannerAssumption` only:

| Theorem | Property |
|---|---|
| `TableOptimal` | `TypeOK` and `TableIsBest` |
| `PlanOptimal` | `PlanBeatsAll` |
| `TiesByName` | `FirstOfEquals` |
| `OptimalForEverySet` | `PlanIsOptimal` |
| `PlanWithinBudget` | `PlanFits` |

The first three compare with `plans`, the history of fitting selections, which grows by the
extension of every selection with the adapter the loop is at. `OptimalForEverySet` leaves the
history behind: its invariant (`SelectionsOK`) says that `plans` has a
selection for every set of the adapters passed so far that fits, with the sums of
its weights and gains, so that being best among them is being best among all sets. A
set has one selection because a selection is sorted. `PlanWithinBudget` needs
besides that a weight is the rounded size, and rounding up never lets the bytes
exceed the budget. `TiesByName` needs that a
selection that is a part of another one uses or gains less (`ExtensionsGrow`):
otherwise appending an adapter could turn their order round, which it does for
adapters that weigh and gain nothing, the exception the property makes.

### The service

`ServingProofs` proves, for any number of requests, any routes and models, each of the
backends and whatever their servers answer, from `ServingAssumption` and
`EstimatorAssumption` only:

| Theorem | Property |
|---|---|
| `ClosesLast` | `BackendClosedLast` |
| `Homogeneous` | `BatchesAreHomogeneous` |
| `ServesItsClients` | `KeepsService` |
| `EstimateGrows` | `LargerNeverCheaper` |

`IInv` has the types, how the worker and the lifespan go together (`WorkerOK`: a worker
that is done has left nothing queued, because nothing is accepted any more), that the
backend follows the worker (`ClosedOK`), and what is known of a request and its reply
(`RequestsOK`). `BatchesAreHomogeneous` is proved only:
it follows from the comparison of keys, and what it says is that
the keys tell apart what they must. `EstimateGrows` is about
`LatencyEstimator` in every state: what a window says of a batch grows with the batch
(`ScaledGrows`, on both sides of the size the window is for), and the estimate is the greatest of
what all of them say (`CandidatesFacts`, `MaxFacts`).

### Training

`TrainingProofs` proves, for any number of steps, phases, axes and trials, from
`LimitAssumption`, `TrainingAssumption`, `TunerAssumption` and `StudyAssumption` only:

| Theorem | Property | Invariant |
|---|---|---|
| `ProfileTrue` | `ProfileIsTrue` | `ProfilerInv`: the counters are those of the history; the samples of each stage are the first of it, up to the limit, and add up to its time as long as none is missing (`Keeps`); no phase has the empty name |
| `SweepComplete` | `SweepIsComplete` | `SweepOK`: the candidates are, once each, the combinations the loop has taken |
| `FastestPicked` | `PicksTheFastest` | `StudyOK`: each trial is of its candidate, its throughput is the true one unless samples were dropped, and the decision is about all of them |

None of the properties is inductive: they speak of sums over a history, of a finished
sweep and of a decision. `ProfilerInv` says how the kept samples and the sums move
together when a step is recorded (`RecordStepKeeps`), and nothing of a step that is refused.

That a sweep is complete is a statement about numbers: `Size` is the product of the
lengths of the axes, and `EveryTurn` that any choice of a place on every axis is made by
one number below that product. It removes the first axis of those left: the number of
the rest, and the place on the first one times their size. Since the size of fewer axes
divides that of more (`SizeDivides`), the axes that were placed before keep their turns.

For the selection `OutranksOrders` shows that the four places of the key make a strict
order, whatever was measured: fractions are compared crosswise (`Crosswise`), and two
configurations with the same keys differ at a first key (`JsonOrder`). Candidates
differ, so the trials are ordered totally and one of those that fit outranks all the
others (`BestIsOne`); it is the same one when the list is reversed.

The assumptions say that names and keys are finitely many, that keys, names and values
are natural numbers (their places in the order of their names or JSON), that an axis has a value,
as `generate_sweep` demands, and that `Nobody` is no trial.

### Data

`DataLemmas` has no variables. The folds of the community modules are defined by a
choice among recursive functions on the subsets of a set, and the induction theorems of
the library cannot be instantiated, so that each lemma takes a smallest
counterexample (`SmallestSubset`, from the theorem on well-founded orders) and shows that it
is none: a fold exists and is unique (`FoldExists`, `FoldsAgree`), does not depend on the
order in which elements are chosen when the operation swaps (`FoldInAnyOrder`), and so is
the sum or the product (`SumIsFold`, `FoldMultiplies`). The rest is about renaming and bounding
sums, `\div` and `%`, `Max` and `Min`.

`Ascending` in `Percentile` sorts by counting for each value how many go before it. It stands
for Python's `sorted`; `AscendingFacts` proves that it is a
permutation.

### Model-checked only

All liveness, as the prover has neither fairness nor `ENABLED`:
`EveryRequestResolved`, `CloseReturns`, `CloseReleasesAll`, `TimedGetReturns`, `CallsEnd`
and `EveryoneAnswered`. The violation runs are what they are: counterexamples.

## 5. The plan

Done, in this order: the scheduler and its contract, the action queue, the Embodied.cpp backend,
the planner, the service with its backends and estimates, training, and the proofs of
section 4. What is left:

1. A robot's control loop over the action queue: `async_benchmark.py` shows the
   intended use, a consumer on a timer and producers that refill. A stream of
   actions of increasing sequence numbers, as an abstract specification of the queue,
   would let it be checked without the queue's details.
2. The latency samples of `SchedulerMetrics`, which need the time between
   submission and outcome in the model of the scheduler.
3. Proofs: the theorems about `close` for Python up to 3.11 (`LockYields`), where it has
   to be stated first what a request queued after `close` may still expect.

## 6. What is not modelled, and why

- `benchmark.py`, `serial_benchmark.py`, `adapter_benchmark.py`,
  `cuda_benchmark.py`, `replay.py` generate load and report; the command lines
  parse arguments and start processes.
- The tensors of `smolvla.py` and loading its weights, the wire formats of the transports,
  the fields of the JSON; the simulated backend's sleeping.
- `authorize`, `/healthz`, `/readyz`, `/metrics`: they read only.
- The latency percentiles of `SchedulerMetrics` (`Percentile` is the operator; its
  samples are not in the model), `GPU` sampling of `profile_cli.py` and its wait for the sampler's process.
- The rounding of floats: sums, shares and throughputs are exact.
- Known hazards without a property: an `aclose` of the Embodied.cpp backend that is
  cancelled at its await leaves the socket open, as the code does not undo `_closed`
  (`integrations/embodied_cpp.py:160`); a request that has timed out still occupies its
  server (`integrations/embodied_cpp.py:43`); the window of a batch size that is no longer
  dispatched is never refreshed, so one slow batch rules that size out
  (`integrations/http_json.py:83`); after `sample_limit` outcomes the
  percentiles of `/metrics` stay what they were (`metrics.py:108`). Each is what the code
  does and no sentence of the repository promises otherwise. Past the limit,
  `TrainingProfiler.snapshot` divides the sum of a limited sample by the count of all
  steps: `ProfileIsTrue` and `PicksTheFastest` are about runs within it.
