# Studio backend: formal models

TLA+ models of the concurrent core of this repository's Studio backend
(`studio/backend`): the parts where several threads, an event loop, a worker
process and a user's cancel meet on shared state. TLC checks each module on
small instances; TLAPS proves theorems about each component's module for every value of
its constants.

Paths are relative to `studio/backend` unless they start with `src/`.

## 1. Inventory

The backend is a FastAPI process. Long work runs in child processes (inference
worker, training worker, export worker, download workers, data-recipe workers,
`llama-server`); the parent keeps a record of each job and talks to the child over
queues, signals or HTTP. Every manager has the same three actors: coroutines of
the event loop (the routes), threads of the parent (readers, pumps, watchdogs,
dispatchers) and the child. Almost all the difficulty lies in what each of them
may do between two looks of another one.

| Component | State it keeps | Operations | Interacts through | What is hard | What makes it correct |
|---|---|---|---|---|---|
| llama-server admission (`core/inference/llama_admission.py`) | slots in use, capacity, FIFO of waiters, a future and a lease per request | reserve, poll/wait, cancel, release, grant | the queue's lock; callbacks scheduled on each request's loop | cancel between grant and delivery; double release; capacity lowered under running requests | no slot is lost or returned twice; no free slot beside a waiter; first come first served; everyone is served |
| Inference orchestrator (`core/inference/orchestrator.py`) and worker (`worker.py`) | process handle, active/loading model, `_gen_lock`, mailboxes, dispatcher, cancel/drain events | locked and compare generation, load, cancel_load, unload | one command queue, one response queue, two shared events | four kinds of readers of one queue; replacing the worker under its readers; cancel beside load | nobody reads another's answers; streams, loads and unloads end; a cancelled load leaves nothing |
| Download registry (`hub/utils/download_registry.py`, `hub/services/download_lifecycle.py`) | job states, generations, slot per repository, pending cancels, processes, deletes, cancel markers on disk | start, cancel, watch, HTTP retry, begin/end delete, terminate_all | the registry's lock; signals to workers; marker files | an XET job that falls back to HTTP is between two processes; cancel of an earlier run; shutdown in that gap | writers stay apart; a cancel stops its own run only; deletes are alone; shutdown leaves no worker |
| Training backend (`core/training/training.py`) | current job, process, event/stop queues, stop and cancel flags, progress, the run's row | start, stop, pump, watchdog, respawn without XET, finalize, reset | two queues, the database | stop during a respawn; pump and watchdog finalizing one run; a late thread meeting the next run | a stop ends the run; one terminal status per run, the right one |
| Data-recipe jobs (`core/data_recipe/jobs/manager.py`) | current job, event log, subscribers, the job's API key | start, cancel, pump, subscribe | one queue, event sequence numbers | an old pump finishing the next job; an event between its append and its delivery; events across cancel | the key lives as long as its job; no event is lost to a subscriber; a job ends for its own reason |
| Export orchestrator (`core/export/orchestrator.py`) | worker, current checkpoint, active operation, cancel flag, last outcome | load checkpoint, export, cleanup, cancel; teardown by training and chat loads | command and response queues; other routes stop its worker without its lock | lost or late cancel; late answer of a timed-out operation; two threads in one shutdown | an operation's outcome is its own and is there when it looks over; a worker is not lost; an operation ends |
| Keep-warm, idle unload (`core/inference/llama_keepwarm.py`) | in-flight and pending counts, last activity, what to reload, saved KV slots | request begin/end, idle unload, switch, reload, settings | the lifecycle gate | unload racing an arriving request; a request whose load failed; who deletes the saved files | a stream keeps its model; the counters are the requests; each saved file has one owner |
| Accelerator coordinator (`features/comfy/coordinator.py`, `router.py`) | the slot chat and images share, whether ComfyUI holds a checkpoint | chat middleware, `prepare_chat_model_load`, image generation | keep-warm's gate, routes | partial failure of a hand-over; lock order of slot and gate | a load finds the memory free; the gate is never left held |
| Tool approvals (`state/tool_approvals.py`) and cancel registry (`routes/inference.py`) | pending approval slots; runs under their keys, cancels that came early | begin, wait, resolve, abort; track, cancel, stash | an event per slot and per run; the tool loop's thread and the stream on the event loop | answer against timeout against cancel; a cancel before its run; two runs of one session; a client that leaves while the thread waits | an acknowledged answer decides; a cancel reaches its run and no other; no slot is left behind |
| llama.cpp backend (`core/inference/llama_cpp.py`) | server process, ports, loaded model | load, unload, health, restart | HTTP to `llama-server` | crash and restart; load beside unload | what the two modules above need of it |
| RAG, auth, storage, plugins, MCP, tool parsers, other routes, frontend, desktop shell, `src/unsloth` | see `PROJECT.json` | | | | |

`PROJECT.json` lists every component with its status, and under `hazards` what a
test would hardly reach, each at the line where it bites, with the properties
that would catch it.

## 2. Modules

    SlotPool              what admission control promises
    LlamaAdmission        the admission queue; implements SlotPool
    LlamaAdmissionProofs  theorems about it
    InferenceWorker       the worker process and its channel
    InferenceOrchestrator the parent's threads, composed with InferenceWorker (EXTENDS)
    InferenceOrchestratorProofs  theorems about the two
    DownloadRegistry      registry, watcher threads, workers, deletes, shutdown
    DownloadRegistryProofs  theorems about it
    TrainingBackend       the parent of the training worker, its threads and the worker
    TrainingBackendProofs theorems about it
    DataRecipeJobs        the job manager with its pumps, its subscribers and the worker
    DataRecipeJobsProofs  theorems about it
    CancelRegistry        the runs in progress and the cancels posted to them
    ToolApprovals         tool stream, tool loop and approval gate, composed with
                          CancelRegistry (EXTENDS)
    ToolApprovalsProofs   theorems about it
    KeepWarm              keep-warm, idle unload, accelerator slot, load and unload routes
    KeepWarmProofs        theorems about it
    ExportOrchestrator    export operations, cancel, teardown and the export worker
    ExportOrchestratorProofs  theorems about it
    MC*                   one small instance of each

In a component's module an action is what a thread does between two places where
another one can overtake it: a section under a lock, one `get` or `put` on a shared
queue, one callback. Definitions keep the names of the source where they can, and
`PROJECT.json`'s `map` gives the lines of each. A definition under a comment that
begins with "Mutant:" is a deliberately wrong variant, used by no action: it stands
next to the definition it corrupts and serves to show that a property can fail.

### LlamaAdmission

State: `active`, `capacity`, `waiters` are the fields of `LlamaAdmissionQueue`; `ticket`
is the place in the deque (a set ordered by tickets is the deque with removals);
`future`, `cancelled`, `granted` are the waiter's fields, `lease` the lease's, `callbacks` what
`call_soon_threadsafe` holds; `phase` is the reservation as its route sees it.

Actions: `Reserve` (with its three outcomes `AdmitAtOnce`, `Enqueue`, `Reject`),
`Poll` (`lease_nowait`), `CancelLease` and `CancelWaiter` (`cancel`), `Finish` (the route's own release),
`ReturnSlot` (the second half of a release: `release` marks the lease under its own
lock and returns the slot under the queue's; between the two is a state),
`Deliver` and `CancelFuture` (the scheduled callbacks) and `ExternalCancel` (the
request's task is cancelled in `wait`). Each section that
frees or finds slots promotes waiters at its end, as part of the same action. `Idle` models no code: it is
the stutter of an instance whose requests are all through, so that deadlock can be checked for.

The routes that drive a reservation are in `routes/inference.py` (1215-1288: the
wait of the OpenAI routes and the release in `finally`).

`SlotPool` knows only who holds a slot, who ever held one, and the limit.
`PoolSpec` is its specification under the mapping at the end of `LlamaAdmission`.

### InferenceWorker and InferenceOrchestrator

One worker process is behind the parent's handle. `proc` numbers handles so that
"`self._proc is not initial_proc`" can be asked, and `queue` is the process whose queues are installed: a spawn
makes new ones, while a shutdown that finds its process dead drops the handle only
(`orchestrator.py:267-269`) and `_send_cmd` refuses only when there is no queue (374), so that `queue` may name a
process that `proc` does not. A stream latches both (`latched`, `latchedQueue`). The worker's `job` is idle, loading, about to
generate (`dequeued`: it has passed its look at the drain event and has not
cleared the cancel event yet), running or wedged.

Parent threads: a locked generation (`BeginLocked`, `SeeIdle`, `StopIdle`,
`LockAndSend`), a compare generation (`BeginCompare`, `StartDispatcher`, `Register`,
`StopOwn`, `SendCompare`), both then in `_consume_token_stream` (`ReadEvent`, `LoseWorker`,
`DrainEvent`, `CloseStream`), the dispatcher (`DispatchOne`, `DispatcherEnds`),
`load_model` (`BeginLoad` ... `Publish`), `cancel_load` (`BeginCancel`, `CancelTeardown`,
`CancelClearsAgain`) and `unload_model` (`BeginUnload` ... `ClearDrain`). `seen` and `stopped` are
history variables: whose events a request took for its own, and which load was
last cancelled.

The constant `Faults` names the disturbances a run lets happen, so that each run
has those its questions need: `cancel` (a client cancels), `close` (a client
disconnects: the route calls `reset_generation_state` and closes the generator,
`routes/inference.py` 5768-5808), `unload`, `stop` (an unload of the model that is
loading, i.e. `cancel_load`), `crash`, `survive` (the worker outlives SIGKILL), `stall` (a
download stalls and is retried once), `repair` (a sidecar repair holds its reservation), `timeout`
(waits expire) and `oneload` (a restriction: no second load).

Assumptions about timing, each smaller than what the code's real durations give:
a load begins only after `cancel_load` of the previous one has returned; `Kill`, which
is terminate, join, kill, join, is one step; one token of a request is unread at a time; the five-second
deadline of `_drain_until_gen_done` always passes once the worker it drains was lost; a stream sends its command
and latches the handles in one step.

Not modelled: audio generation, `share_object` and the distributed MLX loop, which
use the queue the way a locked generation does; `CancelClearsAgain` waits for a load
that is at its publish step when the teardown met a live worker.

### DownloadRegistry

One repository. A key is a GGUF variant or `Whole`. The registry's fields keep
their names without the underscore. Starts, cancels and delete reservations are coroutines without
an await between their registry calls, so `loop` holds the one under way and
others wait for it; a start is `Start`, `ClearMarker`, `Launch`, a cancel is `FindProcess`,
`ArmCancel` or `RequestCancel`, `Kill`, `LeaveToWatcher`. What can overtake them are the threads that watch
workers, one per worker (`Register`, `KillRefused`, `AskCancel`, `DropProcess`, `Classify`,
`WriteMarker`, and for the HTTP retry `LookForCancel`, `Reclaim`, `Relaunch`), the exits of the
workers (`Exit`) and the shutdown (`Snapshot`, `KillAndReap`). `stopped` is a history variable:
the last run of each key that was told to stop.

Left out: eviction of terminal jobs past `max_terminal` (the instance has fewer),
breadcrumbs and the reaping of orphans at start-up, blob hashes, the watcher's
own crash handler, the admission check against a model load. HTTP is always available as the second transport.

### TrainingBackend

`worker` holds every training worker ever spawned, each with its event and stop
queue and its stop watchdog; `proc` is `_proc`, `chan` the worker whose queues are installed, `flags`
the fields of the backend that describe the current run (`job` is `current_job_id`,
`stop` is `_should_stop`, `cancel` is `_cancel_requested`, `training` is
`_progress.is_training`, `created`, `finalized`, `dir`, `inLoad`, `xetUsed`, `respawn` the
fields of similar names), `payload` is `_terminal_finalize_payload`, `row` the table
`training_runs`, whose `cancelled` is the `resume_blocked` that a stop without save
sets. `history` notes which runs were stopped, disturbed, given a second worker or
left without an ending by the database.

Actors: the event loop (`Start` ... `Install`, `StopAndSave` or `Cancel` ... `StartWatchdog`,
`Reset`, `ClearState`; a route runs to its end before the next begins), the
pump (`HandleEvent`, `Persist`, `SeeExit`, `MarkDone` ... `PumpFinish`, `BeginRespawn` ... `Respawn`),
a watchdog per worker (`WatchEnds`, `Escalate`, `WatchFinal` ... `WatchDrop`), the workers, and the
pollers (`EnsurePumpAlive`). One pump is alive at a time: a respawn hands over to its
successor, and `Start` is refused while one is there. Each watchdog is identified by the worker it
watches, which is what `_start_stop_watchdog` compares.

The constant `Faults` names what may go wrong: `crash`, `wedge` (a worker that hangs in
its driver and outlives SIGKILL), `stall`, `sidecar` (a spawn is refused or fails), `reset`,
`db`. `MaxStops` and `MaxFaults` bound how often; an error a worker reports itself is always possible.

Left out: resuming an earlier run, metrics and their flushes, progress and
status events (they write what the pump's last look at the worker settles again), cleanup of checkpoints. Whether a
current checkpoint exists is a choice.

### DataRecipeJobs

Requests to start a job are numbered; `worker`, `queue` and `pump` of a job carry the
number of the request that started it. `job` and `handle` are `_job` and `_proc`/`_mp_q`. A pump takes the
current handles anew on each turn, as `_pump_loop` does, so that the pump of an old job can
go on with the handles of the next one. `_emit` numbers and appends in one step and delivers in
another; `Subscribe` replays and joins between any two of them, and a subscriber whose queue
is full is dropped. `events` is the whole stream of the current job, and `Gone` how much of its beginning the replay
buffer no longer holds: `_events` is a deque of 5000 (`manager.py:124`), of `MaxEvents` here. `key` is the API key that `create_job` mints before `start` and
that the pump revokes.

Left out: the job's fields that log lines update, result pages read from disk, recipe validation. `_emit` appends without
the lock, so that the comprehension with which `subscribe` reads the buffer of a client that comes back (`manager.py:403`) may
meet an append, which raises; that request fails and the client comes again, so it is left out. A
subscriber that stays when a job follows is given the new one's events; the point from which its own stream counts (`after`) is not moved.

### CancelRegistry and ToolApprovals

`registered`, `stash` and `cancelEvent` are `_CANCEL_REGISTRY`, `_PENDING_CANCELS` and the events of
`_TrackedCancel`; a run is found under its own key or its session's. `CancelById` stashes a cancel that
finds no run, `Prune` lets the stash lapse.

A run is two actors: `stream`, the coroutine that asks for the next event of the loop, and `loop`, the
generator that runs in a thread while asked and stands at a yield otherwise. The gate's places are
those of the code: slot registered (`begin_tool_decision`), announced to the client, waiting, timed out but
before the slot's removal (`looked`), removed (`pop`). `Resolve` is `POST /tool-confirm` from another connection; it
may come at any of them. `Abandon` is the client's leaving and `Watch` the stream's notice of
it; `Raise` is an exception of the loop. `posted`, `lapsed`, `wanted`, `told`, `tired`, `ran` are history
variables, that say who wanted a run cancelled and what was answered.

### KeepWarm

The composition of the keep-warm middleware, the idle loop, the coordinator and the routes. A step is
what an actor does between two awaits, or one call of a thread. `req` is where a request
is, from the coordinator's middleware (`Arrive`) through the keep-warm one, the
route's auto-switch under the gate, and the stream, to its end; `slot` and `gate` are the two
asyncio locks with their holders; `load` is the load that runs under the gate,
`idle` the place of `idle_unload_loop` with its `seen` model and the manifest it saved,
`stash` and `resume` what an alias request would reload, and from which saved slots. `loader` and `image` are the load
and the image routes. Time is one bit, `rested`.

`MaxOps` bounds what the user does (loads, unloads, images, settings), `MaxSaves` the saves of slots.

Left out: the sweep of old slot files at start-up, the contents of the files, models that are not GGUF. Coarser than the code:
`CancelLoad` is one step, where the route looks whether the load is done (`routes/inference.py:5562`), unloads in a
thread (5572) and notes it (5573), so a load that becomes ready in between is not seen; `Switch` drops the old model at
once, which the code keeps when the load fails before its teardown; `ImageUnloads` does not fail.

### ExportOrchestrator

An operation holds `_lock` from its first line to its last, so `op` is the one there is. Its
places follow `load_checkpoint`, `_run_export` and `cleanup_memory`: stop the worker there is, spawn, send,
wait, record, announce. `_shutdown_subprocess` is a procedure that the operation and a teardown of another
route (`routes/training.py`, `routes/inference.py`) may run at once, each at its own place of `stop`; `canceller` is
`cancel_export` between its look at the handle and its kill. A worker has its command queue and its response queue; `Work` is its
command loop. `late` and `amid` are history variables: operations whose wait ended before their answer came,
and workers started while a teardown ran.

Left out: the log buffer and its cursor, and what an export does. `StopAsks` is one step from the look at the worker to
the use of its command queue (`core/export/orchestrator.py:264-271`); a teardown that clears the queue in between would make that
line raise.

## 3. Runs

Passing runs. All but `admission` turn deadlock checking off: a finished instance of
the others really stops (all requests done, all runs used up).

| Run | Instance | Shows | States |
|---|---|---|---|
| `admission` | 3 requests, 2 places in the queue, capacities 0 (unknown), 1, 2 | `ActiveCountsHolders`, `NoSlotWasted`, `Fifo`, `QueuedIsServed`, and that the queue implements `SlotPool` (`PoolSpec`) | 16 thousand |
| `orch_locked` | 2 locked requests, 1 model, 2 spawns; cancel, unload, crash, stall | `OwnEvents`, `UnloadEnds`, `LostWorkerEndsStream` | 60 thousand |
| `orch_compare` | 2 compare requests, 1 model, 1 spawn; cancel, crash, close, unload | `StreamsEnd` | 225 thousand |
| `orch_load` | 1 locked, 1 compare request, 2 models, 2 spawns; stop, repair, survive, unload, timeout | `UnloadSoleReader`, `ActiveIsHeld`, `CancelledIsGone`, `NoSecondWorker` | 632 thousand |
| `registry` | 2 variants, 2 runs in total over either transport, one cancellable, a delete of a variant or of the whole, shutdown | `OneWriter`, `CancelsHitTheirRun`, `StoppedStaysStopped`, `DeleteAlone`, `ShutdownIsClean`, `JobEnds` | 562 thousand |
| `training` | 2 runs, 1 stop of either kind, 2 disturbances of any kind | `RowIsTrue`, `OneTrainer` | 2.6 million |
| `training_ends` | 1 run, 2 stops, 1 disturbance | `RunEnds` | 574 thousand |
| `recipes` | 2 requests, 1 subscriber, a replay buffer of 2 events, 1 disturbance (crash, cancel, failed handler, drain, spawn) | `StreamIsComplete`, `EndsForItsReason`, `JobsAreSettled` | 4.5 million |
| `approvals` | 2 runs of one session, 1 gated call each | `CancelsReachTheirRun`, `SlotsAreWaitedFor`, `AnswersDecide`, `CancelledRunEnds` | 356 thousand |
| `keepwarm` | 1 chat and 1 other request, 2 models, 3 operations of the user, 2 saves | `BooksAreTrue`, `AcceleratorIsShared`, `SavedContextIsOwned` | 1.9 million |
| `export` | 3 operations over 2 checkpoints and 2 export types, 2 disturbances (cancel, teardown, crash, wedge, refusal, timeout) | `WorkerIsHeld`, `OutcomeIsTrue`, `OperationEnds` | 1.2 million |

Each component's type invariant is among the invariants of its run, by itself (`TypeOK`) or as a
part of `JobsAreSettled`, `BooksAreTrue` and `WorkerIsHeld`.

One violation: `orch_wrong_model` (section 6).

What a name of several parts stands for is stated beside it in its module:
`NoSlotWasted` is "none lost, none idle", `CancelsHitTheirRun` "no stale cancel, and only stopped runs are
cancelled", and so on. The parts keep names of their own, so that a counterexample can be read.

Why the bounds are enough for what is asked. Admission: a promotion and a newcomer
that must not overtake it need two requests, a cancelled waiter in front of a live one a third;
capacity 2 lowered to 1 under two holders is reached. Orchestrator: all hand-overs are
between two readers, so two requests beside a load or an unload; `MaxSpawns` 2
gives each stream a successor of its worker to block on, and a stalled load's retry
one more. Registry: sibling conflicts need two variants; a stale cancel needs a second
run of its key; the HTTP fallback doubles the workers. No run has three compare requests or a third
load; nothing in the code distinguishes a third from a second. Training: a late pump
or watchdog needs a second run to disturb; a respawn needs a stall, and what goes
wrong with it a second disturbance; a save that is tightened to a cancel needs two
stops. Recipes: what a late pump does, it does to the next job; two events in the replay buffer
instead of 5000, so that a short job overflows it before, between and after the joins. Approvals: a cancel by session needs
two runs of it, one that it is meant for and one that it is not; the theorems of section 5 lift the bounds.
Keep-warm: the idle loop and the switch guard look at whether anybody else is there, so
two requests, one on each kind of path; two models for a switch; two saves so that an old
manifest can be met by a new one. Export: a late answer needs an operation that timed out, the one that takes
it, and one in between; a fourth is left to the theorems. With two stops or three disturbances in two runs of training, three jobs or
two disturbances of recipes, two chats, or four exports, the instances grow past ten million states.

Symmetry is used only in `orch_load`, which checks no liveness.

## 4. Fairness

- Admission, `FairSpec`: a queued request's route polls (`wait` is an await with a
  timeout, after which the route cancels: either way it acts), a route that
  holds a slot releases it (`finally`), a release in progress finishes, and scheduled callbacks run. Arrivals and
  early cancels are not forced.
- Orchestrator, `Threads`: each parent thread keeps running, and the worker's loop
  takes commands and finishes loading. Clients, operators, crashes and stalls are
  never forced. `EndlessSpec` adds only that a generation whose cancel event is
  set ends, so that `UnloadEnds` cannot lean on `max_new_tokens`; `FairSpec` says that every generation ends.
- Registry, `FairSpec`: the event loop runs its coroutine on, each watcher thread
  runs, and a worker ends sooner or later (the hub library times out on a dead
  connection). Nothing forces a start, a cancel, a delete to end, or a shutdown to begin.
- Training, `FairSpec`: the pump, the event loop's route and each watchdog run on (a
  watchdog's deadline passes), and a worker that has sent its last event exits
  unless it is wedged. No worker is forced to finish training, to read a stop, or to report anything.
- Approvals, `Fairness`: an admitted stream is served, its thread runs (`wait` of a slot polls the cancel event
  and has a timeout), and a run that entered is started or dropped. No answer, cancel or leaving is forced.
- Export, `Fairness`: the operation, each shutdown and the cancel run on, a worker that
  is neither dead nor wedged handles its commands, and a wait has a deadline. Nothing else is forced.
- Recipes and keep-warm have no liveness property of their own; `Settled` in `DataRecipeJobs` says what
  must hold when no pump is left to act, and `GateIsHeldForWork` in `KeepWarm` that the gate is
  never held by someone who is not at the work it guards.

## 5. Proofs

All theorems are of the specification the runs check, for every value of the constants
that satisfies the modules' assumptions, and every proof is checked to its last leaf.

### LlamaAdmissionProofs

For any finite or infinite set of requests, any set of natural capacities and any positive bound of the queue
(`CapacitiesAssumption`, `MaxQueueAssumption`, as `LlamaAdmissionConfig` guarantees; nothing is
assumed of `Requests`):

| Theorem | Statement |
|---|---|
| `TypeCorrect` | `Spec => []TypeOK` |
| `ActiveIsExact` | `Spec => []ActiveCountsHolders`: the counter equals the number of leases not given back |
| `NoneWasted` | `Spec => []NoSlotWasted`: no closed reservation keeps a slot, none is free beside a waiter |
| `FirstComeFirstServed` | `Spec => Fifo` |
| `GrantsRespectCapacity` | `Spec => GrantWithinCapacity` |
| `ImplementsPool` | `Spec => PoolSpec` |

`ActiveCountsHolders` is not inductive: a step that grants the waiters of a
set G adds `Cardinality(G)` to the count, which is right only if none of G holds a
lease already, and if the holders are finite (a cardinality of an infinite set says
nothing). Hence `IInv` adds

- `FiniteInv`: waiters and holders are finite sets;
- `FreshInv`: whoever waits was never given a lease, and who has not come yet has none;
- `DeliveryInv`: a live lease whose request cannot take it any more still has its
  delivery scheduled, where it will be released. "No slot lost" follows from it;
  alone it is not inductive, because a grant happens while the
  request is still queued and the cancel comes later.

There is one lemma per action, and under it one step per conjunct the action
disturbs. "No slot idle" rests on `FullWhenWaiting`: the section that promotes
takes as many of the waiters as there is room for, so that either none is left or the pool is
full; `Fifo` on `GrantsAreInOrder`, that it takes them in the order of their
tickets. `GrantsRespectCapacity` and the refinement use one lemma (`GrantedAreNew`) about
what a granting section does to the holders. The refinement maps a granting section to a step of the
pool that hands slots to G (and takes one back when the section was a release), and every
other action to a stutter.

### InferenceOrchestratorProofs

For any locked and compare requests, any models, any number of processes and, but for what a theorem excludes by
name, any disturbances (`StreamsAssumption`, `ModelsAssumption`, `OwnersAssumption`, `FaultsAssumption`, `MaxSpawnsAssumption`):

| Theorem | Statement | Excluded |
|---|---|---|
| `TypesAreRight` | `Spec => []TypeOK` | nothing |
| `UnloadReadsAlone` | `Spec => []UnloadSoleReader` | nothing |
| `WorkersAreAlone` | `Spec => NoSecondWorker` | `stall` together with `survive` |
| `AdvertisedIsHeld` | `Spec => []ActiveIsHeld` | `stall`, `survive` and `repair`, all three together |
| `CancelLeavesNoWorker` | `Spec => []CancelledLeavesNoWorker` | nothing |
| `CancelledLoadsAreGone` | `Spec => []CancelledIsGone` | `crash` |
| `EventsAreOwn` | `Spec => []OwnEvents` | `close`; `cancel` together with `timeout`; compare requests |

An exclusion is a flaw of the code that section 6 tells of: TLC finds a counterexample to the property on a small
instance that lets it in (`crash` with `stop`, the others by themselves), and the proof shows that there is no other.
`OwnEvents` leaves one more out by its own statement: requests sent after the handle of a crashed worker was dropped. The disturbances of the runs are among those allowed.

Each property speaks of a moment at which nobody is at work, and what makes it true happens while somebody is. `IInv` adds

- `LockInv`: a living process is the one behind the handle, with its own queues, and so is what a stream latched unless it latched no
  process at all (`Handled`); `_gen_lock` is with the one locked request that reads, or with the unload from its wait for the dispatcher to its
  reply; a dispatcher that the unload has stopped stays stopped because `_unload_pending` is up until later. `UnloadSoleReader`
  follows from it;
- `GateInv`: who is in the lifecycle gate, and that the marker in `loading_models` is that of the load in it, so that what
  a cancel takes away is this load's;
- `SpawnInv`: a load on its way to a spawn has nothing alive behind the handle;
- `ActiveInv`: what an unload command still in the queue, a load in the worker's hands and its answer not yet read
  allow the mirrors to say. A worker changes its model when it takes a command, long after the thread that sent it looked;
- `CancelInv`: after a cancel's teardown the worker is gone, or it is one that the load has spawned and not looked at again yet, which it will
  end itself; a load that comes to its publication has a living worker, so that the cancel waits for it;
- `PhaseInv` and `OwnInv`: only a cancelled request drains, and one that was not sent has seen nothing; the queues and the hands of the current process have events of the request in the lock only, at most one
  `generate` of it, and its `gen_done` or `gen_error` comes after all its other events. Hence a reader that has seen one
  leaves nothing to the next, and one whose process was replaced leaves it in queues that nobody reads.

The actions are grouped by thread (worker, request, dispatcher, load, cancel, unload). A lemma per group says what its actions
leave alone and do to the worker's queues, and then there is one lemma per part of `IInv`, with a step per group or action.

### ToolApprovalsProofs

For any runs, sessions, mapping of runs to sessions, and any positive number of calls
(`SessionAssumption`, `KeysAssumption`, `MaxCallsAssumption`):

| Theorem | Statement |
|---|---|
| `TypeCorrect` | `Spec => []TypeOK` |
| `CancelIsExact` | `Spec => []CancelsReachTheirRun` |
| `NoSlotIsLost` | `Spec => []SlotsAreWaitedFor` |
| `ApprovalDecides` | `Spec => []AnswersDecide` |

The invariant `IInv` joins the types with

- `RegistryInv`: a run is registered from its entry to the end of its stream, and has a clear event and its own
  posted cancels in the stash before; needed because a cancel by session acts on all runs that are registered at that moment,
  and must find only such as are under way;
- `PlaceInv`: a loop past its first registration has a current call, and one between the two ends of its wait, or
  in a tool, is in its thread. Without it a stream could be closed over a loop that waits at its gate, and leave its slot behind;
- `SlotsAreWaitedFor` itself;
- `AnswerInv`: a slot's decision is what was acknowledged, an allowing verdict comes from the slot, one that
  differs from it from a cancel or a timeout, and only what the slot allowed has run.

The fairness of `Spec` plays no part in them; `CancelledRunEnds` stays with TLC.

### DownloadRegistryProofs

For any variants, scopes, choice of cancellable keys and numbers of runs and deletes, with or without a shutdown:

| Theorem | Statement |
|---|---|
| `TypeCorrect` | `Spec => []TypeOK`: in particular no number of runs ever needs more than two workers each |
| `WritersAreApart` | `Spec => []OneWriter` |
| `CancelsAreExact` | `Spec => []CancelsHitTheirRun` |
| `NoneStartsAfterAStop` | `Spec => StoppedStaysStopped` |
| `ShutdownLeavesAllClean` | `Spec => []ShutdownIsClean` |
| `ReservationsHold` | what is reserved has no writer but the whole repository's download while a variant is reserved |
| `DeletesAreAlone` | `Spec => []DeleteAlone`, if `Whole` is no key and `MaxDeletes <= 1` |

A run is carried from hand to hand: the handler that launches it, the worker, the thread that watches
it, the thread that retries it over HTTP. Its slot in the registry is given away and claimed again on the way.
`OneWriter` speaks of workers only, and says nothing of a run that is between two of them. `IInv` therefore adds

- `RunInv`: a run has at most one carrier, whose generation is the job's; a live worker has a thread that
  waits for it or will kill it; the registered process of a key is its carrier's worker;
- `SlotInv`: a thread whose worker may write has its key in the slot, over its worker's transport, slots held
  together are of variants over one transport, and a thread on its way to the HTTP retry claims again before it spawns;
- `CancelInv`: whoever carries a run that was told to stop can see it, by an armed cancel or by the job's
  state, and what a watcher noted when it looked is true of its run;
- `RoomInv`: the workers there are, the launches under way and the retries to come fit in
  the bound on workers. This is the part of type correctness that takes an argument: that the sequence of workers
  is long enough follows from the number of claims, not from any guard;
- `ShutdownInv`: after the snapshot a run under way was told to stop, or its worker ended so that no retry follows, and
  a registered worker that lives is in the snapshot. With `CancelInv` no worker is accepted between the snapshot and the kills;
- `DeleteInv`: no run is under way for what is reserved. It holds through a retry's gap because the job
  stays active there. That a delete keeps its reservation needs the condition that deletes of one scope do not overlap.

The proof looks at each action through what it does to the workers (one worker moves, exits,
is asked, some are killed, one is added: the first lemmas), so that the parts need no expansion of
the whole state. There is one lemma per part of `IInv`, and under it one step per action.

The conditions of `DeletesAreAlone` exclude the two flaws of section 6 and nothing else; `ReservationsHold` says
what is true without them. `JobEnds` is liveness and stays with TLC.

### KeepWarmProofs

For any finite sets of chats and other requests, any set of models, and any number of user operations and saves
(`RequestsAssumption`, `ModelAssumption`, `BoundsAssumption`):

| Theorem | Statement |
|---|---|
| `BooksStayTrue` | `Spec => []BooksAreTrue`: types, counters, who holds the gate |
| `StreamsKeepTheirModel` | `Spec => []AcceleratorIsShared` |
| `SavesHaveAnOwner` | `Spec => []SavedContextIsOwned` |

The code decides by two counters, and the promises are about requests. `CountersAreTrue` ties them
together as cardinalities, which is why the requests must be finitely many; from it come the two steps that
could take a model from a stream. The idle loop reads an in-flight count of zero, so nobody is tracked; a request
that switches counts no more than itself and those that wait for the same switch, so that these are all who are
counted (`OnlySwitchers`: a subset of the same cardinality is the whole), and none of them streams. `IInv` adds

- `RequestInv`: how far a request is agrees with whether its last frame was seen and whether it was dropped from the count, so that
  the last frame and the return of the handler, in either order, take it off once;
- `ModelInv`: what the idle loop and a load know of the model while they hold the gate, in particular that the
  count the idle loop read as zero is still zero when it unloads;
- `SlotInv`: each of the two routes has the slot for as long as it runs;
- `FilesInv`: a manifest is in the idle loop's or a load's hands only between its save and its use, and the
  next one is new.

There is one lemma per part, and under it one step per action that touches the part's variables.

### ExportOrchestratorProofs

For any checkpoints and export types, any number of operations, and any number of cancels, teardowns, crashes,
wedges, refusals and deadlines (`CheckpointAssumption`, `MaxOpsAssumption`; nothing is assumed of `MaxFaults`):

| Theorem | Statement |
|---|---|
| `WorkerStaysHeld` | `Spec => []WorkerIsHeld`: types, no lost worker, the checkpoint on show is the worker's |
| `OutcomesAreTrue` | `Spec => []OutcomeIsTrue` |

Nothing in an answer says whose it is, so that what an operation may take for its own is decided by what can
be in the queues when it looks. `IInv` therefore says what is in them:

- `QueueInv`: in the queues an operation reads, or may come to read, answers and then commands stand in the order in which they
  were sent, each once, and each is the waiting operation's or was left behind by one whose wait had ended. With the
  order, taking an answer that is the operation's own shows that nothing else of it is left in the queues;
- `LateInv`: those whose wait ended came before the operation that waits now;
- `LoadInv`: a load reads a queue of its own, so that it cannot take a late answer at all. Without it a load could
  take the answer of a load of another checkpoint, which `Expected` does not tell apart;
- `NameInv`: the worker holds what is on show unless an operation is changing it, has no command that
  would change it later, and has it done when a load's answer can be read;
- `HandleInv` and `WorkerInv`: a worker is started only when none is on show, the queue on show is that of the handle,
  and when a shutdown lets go of the handle its worker is dead, or was started meanwhile; `PlaceInv` and `RecordInv` tie the
  operation to its shutdown, its flag and its record.

The steps of the workers are first reduced to three effects (some die or wedge, one is sent a
command, one answers the first of its commands), and the queue facts are proved of these. There is one lemma per
part, and under it one step per action that touches its variables. The chain of late answers (section 6) needs a
fourth operation and is out of the run's reach: that `OwnAnswer` allows for it is shown by the proof.

### TrainingBackendProofs

For any number of runs and stops, any number of disturbances and any kinds of them
(`MaxRunsAssumption`, `MaxStopsAssumption`, `FaultsAssumption`):

| Theorem | Statement |
|---|---|
| `TypesAreRight` | `Spec => []TypeOK`: in particular no run is given a third worker |
| `RowsAreTrue` | `Spec => []RowIsTrue`: the row says what happened, whoever wrote it |
| `TrainersAreAlone` | `Spec => []OneTrainer` |

The row is written at the end of a chain: a stop sets flags and puts a message, the worker answers with an event,
the pump makes a payload of it, claims the row and finalizes, or a watchdog does. By then the flags may be the next run's.
`IInv` therefore follows the blame from link to link:

- `BlameInv`: every flag, message, event, payload, watchdog and finalization that says "stopped" belongs to a run that
  somebody stopped, and every one that says "error" to a run that broke or was cut off by a stop. It is what makes `RowIsTrue` inductive;
- `EndInv`: the end of the current worker is accounted for, by an event in its queue, by the
  payload, or by the blame of its run. The error that the pump writes when it finds a dead worker, an
  empty queue and no payload is true for this reason alone (`LastTruth`);
- `HandleInv`: the handle and the queue are one worker's, the current run's unless a start is between two
  of its assignments; `StartInv`: a start has no pump and no watchdog beside it;
- `AliveInv`: a worker the parent has let go of is dead or wedged, from which `OneTrainer` follows;
- `CountInv`: a run to come has no worker but the one its start has just spawned, and a second one comes
  with the one respawn that `xetUsed` allows. The type of the workers rests on it.

The proof first says what each action does to the workers, the parent and the row (one lemma per action), and then has
one lemma per part of `IInv` with one step per action.

### DataRecipeJobsProofs

For any number of jobs, any subscribers, and any number of cancels, crashes and failures
and any size of the replay buffer (`MaxJobsAssumption`, `MaxFaultsAssumption`, `MaxEventsAssumption`; nothing is assumed of `Subs`):

| Theorem | Statement |
|---|---|
| `StreamsAreComplete` | `Spec => []StreamIsComplete` |
| `JobsEndForTheirReason` | `Spec => []EndsForItsReason` |
| `AllJobsAreSettled` | `Spec => []JobsAreSettled`, types included |

A pump takes the handles anew on each turn, so that the pump of an old job may end a later one. `IInv` adds

- `PumpInv`: which queues a pump may be reading (its own job's or a later one's), and that it comes to its last look only when its
  own worker is dead;
- `RunInv`: somebody will still look at a running job; `KeyInv`: the key of an ended job is
  revoked or about to be, by the pump that is appending the ending;
- `AloneInv`: a job that found no other pump when it started has none while it is current, and nothing in its queue or its
  pump's hand ends it before its worker reported or died. `EndsForItsReason` speaks of these jobs only, and this part says that
  the condition lasts;
- `CancelInv`: such a job, once cancelled, is on its way to "cancelled" unless an event of the worker came after the cancel;
- `RoomInv`: a queue has room for what its worker has still to send; `LifeInv`: the
  records of a job (request, worker, pump) agree on how far it is.

`StreamIsComplete` is inductive beside them: an event is appended and delivered in two steps, and a subscriber that joins
between them gets it by replay. That the buffer still holds it is a matter of its bound: `NoEventLost` speaks of the events after
those that the buffer had dropped when the subscriber joined, and the bound never cuts off what is appended from then on.

### Only model-checked

The liveness properties (`QueuedIsServed`, `UnloadEnds`, `LostWorkerEndsStream`, `StreamsEnd`, `JobEnds`, `RunEnds`,
`CancelledRunEnds`, `OperationEnds`): liveness under fairness and `ENABLED` are out of the prover's reach. Every safety property of
the passing runs is stated by a theorem. What compare requests read is model-checked only (`StreamsEnd`).

## 6. What the models found

`orch_wrong_model` (`orchestrator.py:1571`). A generation waited for the lock
through a load that has not published yet; its recheck compares with the old name, which still stands,
and the command goes to the worker that loads another model. The run's counterexample shows it.

Seen while modelling, without a run of their own. Where one of these limits a passing
run, the property's comment or the instance says so.

Inference:

- A locked generation waits for the dispatcher to be idle before it takes `_gen_lock` and ignores the
  answer (`orchestrator.py:1561`); a compare request then starts a dispatcher beside it. The comment at
  1563-1565 says two readers would drop each other's events, and that holding the lock prevents it.
  `OwnEvents` is checked with locked requests only.
- `_wait_dispatcher_idle` finds no mailbox, a compare request registers one, the
  dispatcher is stopped: nobody fills its mailbox, which the recheck at
  `orchestrator.py:784-788` is there to prevent. It needs a locked request beside a compare
  one: `orch_compare`, where every stream ends, has none.
- A load that finds the worker dead drops its handle and keeps its queues (`orchestrator.py:267-269`), and `_send_cmd` looks for
  a queue only (374). A locked generation that waited for `_gen_lock` meanwhile sends its command to the dead worker's queue and reads
  what the generation before it left there unread, as its own text. The docstring says "Serialized by _gen_lock (one generation at
  a time) so concurrent readers don't consume each other's tokens off the shared resp_queue." (1548-1549). TLC finds this trace
  within the faults of `orch_locked` when `OwnEvents` is stated of all requests; it is stated of those that were sent to a process.
- A stalled worker that outlives SIGKILL is retried over without a look at the
  answer of the shutdown (`orchestrator.py:1099`; comment 1034-1037). `NoSecondWorker` is checked without `stall`.
  If a sidecar repair then refuses the retry's spawn (`orchestrator.py:212`), the handler takes the survivor for the previous
  model's worker (1166-1169) and the parent goes on advertising that model. Hence the exclusion in `AdvertisedIsHeld`.
- A client that disconnects does not drain: the next locked generation may read the
  tokens left behind (`OwnEvents` fails with `close`; docstring 465-466). The same follows when the five
  seconds of a cancelled request's drain pass before the worker's `gen_done` comes (`cancel` with `timeout`).
- If a load's `_wait_response` reads the `gen_done` of a generation that was sent to the
  loading worker, that generation waits until the worker is replaced (follows from `orch_wrong_model`).
- If the worker crashes after it queued "loaded" and a cancel lands between the
  marker check and the publish, the cancelled model is advertised: `orch_load` runs without `crash`.

Downloads:

- A cancel that looked for the process before the HTTP retry registered its worker is armed after it
  (`download_lifecycle.py:664`, `download_registry.py:983-984`); nobody looks at it until the
  download is complete. `JobEnds` still holds: the run ends, if not soon.
- `claim` lets a whole-repository download in while one of its variants is being removed
  (`download_registry.py:1050`; `_deleting` is looked at in 1256-1260), and two deletes of one scope may
  overlap, where the end of the first lifts the reservation of the second. `DeleteAlone` is
  checked without both: `Whole` is a scope but no key of the instance, and `MaxDeletes` is 1.
- The watcher writes or clears the cancel marker after the terminal state, so a run
  started in between may get the earlier run's marker: `ShutdownMarksStopped` speaks of a key's first run.
- A worker whose clean exit falls between `drop_process` and the terminal state while
  `terminate_all` takes its snapshot leaves a completed download with a marker.
- A refused worker lives for a moment after its slot was given away: `OneWriter` and `DeleteAlone` leave it out.

Training:

- A stop that falls into a respawn is lost (`training.py:1081`): it is put on the queue of
  the worker that is being replaced, `_respawn_worker_disable_xet` looks neither at
  `_should_stop` nor at an ending already recorded, and the watchdog of the stop ends
  because its worker is gone. `routes/training.py:530` has answered "Training will stop
  at the next safe step." The same happens when a stalled load fails by itself before it is
  terminated: the run is recorded as an error and then trained on. Hence the exemption in `RunEnds`.
- With two runs and two database errors the watchdog of the first run may claim the row between its
  creation and the next start's reset of the shared fields, and the ending is not written: `training_ends` has one run.
- `reset` clears `_should_stop`; the pump of a cancelled run that has not seen the
  worker's last event by then records "completed" or "error" (`routes/training.py:569`).
- `_finalize_stopped_after_escalation` clears the output directory before it looks whether
  the run is still current (`training.py:1230`); a new run has no directory that early, but a
  resumed one has, and those are left out of the model.

Recipes: an event the worker had queued before a cancel moves the job from cancelling back to
active (`manager.py:543`); `CancelIsHonoured` exempts it. A client
that joins a job, or comes back to it, after more than 5000 events gets the last 5000 and nothing tells it of the gap
(`manager.py:124`, 400-403); if the ending is followed by as many, that is among what is gone. An event may reach a subscriber twice.
The pump of an ended job may end the next one, started within its last poll, as an error and revoke its key (`manager.py:503`):
`NothingEndsEarly` speaks of jobs that started with no other pump beside them.

Keep-warm:

- An auto-switch loads through `_load_model_impl` (`routes/inference.py:3756`); only `/api/inference/load` runs
  `prepare_chat_model_load`, whose docstring says "Release Comfy before upstream inference
  begins a local model load." (`coordinator.py:62`). `LoadFindsRoom` speaks of the load route.
- Turning keep-KV off while an idle unload is in its thread keeps the context it saves (`settings.py:227`).
- A request that read the stash before a deliberate unload loads the model again, and image
  generation with nothing loaded leaves the stash of the last idle unload in place.

Export:

- A cancel that arrives before the operation's reset of the flag is lost: the worker is killed and the
  outcome recorded is an error (`orchestrator.py:184`). `CancelIsRecorded` speaks of cancels after the reset.
- After a cancel `current_checkpoint` stays although its worker is gone, which the comment at
  `orchestrator.py:482-484` means to rule out; `NameIsHeld` asks for a live worker.
- `cleanup_memory` does not reset the cancel flag, and records an old cancel as its own.
- The late answer of an export that timed out is taken by the next export of the same type (`orchestrator.py:366`), whose own
  answer is then left for the one after it, and so on; an error it reports ends the wait of any operation. `OwnAnswer` says what remains.
- A teardown runs without the lock: a worker spawned while it waits can lose its handle. `NoLostWorker` exempts those.

## 7. Not modelled

Numerics, parsing, formatting, argument building, SQL and file layout: `src/unsloth`,
most of `llama_cpp.py` and of the routes, the tool and chat parsers, inventory scans, the
frontend, installers and CI. They hold no protocol between actors, or one whose
other side is a third-party program whose behaviour is not in this repository. The share of the repository's lines
behind the models is small for that reason: the models cover the managers that own shared state, and those are a few
thousand lines of it. Each part has an entry and a reason in `PROJECT.json`.

Parts of the modelled components that are left out are named in their sections above.
The main ones: resumed training runs, the orphan reaping of the registry at start-up, audio generation and
`share_object` of the orchestrator, start and probing of `llama-server`.

## 8. What is next

Candidates, in order:

1. A resumed training run, with the output directory it shares with the run it resumes.
2. `RunLedger`, an abstract specification of `TrainingBackend` (each run gets at most one
   terminal status, one that fits what was asked of it), shown to be implemented; `RowsAreTrue`
   already proves the second half.
3. The start-up of the registry: breadcrumbs, orphans and markers across a crash of the server.
4. Job bookkeeping of RAG ingestion.
5. Theorems: what compare requests read when no locked one is beside them (needs an invariant of
   the mailboxes), and the refinement of item 2.
