# Sagittarius Engine in TLA+

A verification project for `sagittarius_engine`: TLA+ modules translated from
the source, TLC runs that check them on small instances, and theorems that
TLAPS proves for every value of the constants. Paths below are relative to
`src/sagittarius_engine/`.

To check: `tlc -config <cfg> <module>` with the pairs of the table under
[Runs](#3-runs); to prove: `tlapm <module>` with each `*Proofs.tla`.

## 1. The system

The engine is a Python application framework: an `App` is assembled from
extensions, booted, and then gives its extensions a container, an event bus, a
task manager, an event loop on a thread of its own, a scheduler, hosted
services, and, in desktop applications, presenters and a workbench in Qt. What
makes it hard is that nearly every part is called from several threads at once,
that user code (hooks, callbacks, tasks, handlers, guards) runs inside the calls
and may raise, call back or never return, and that parts are stopped with a
timeout and may be started again.

### Components

| Component (source) | State | Operations | Hard | Correct if |
|---|---|---|---|---|
| Task manager (`runtime/tasks/`) | `tasks`, finished ids, two pools, counters, each task's status and future | `spawn`, `cancel`, `cancel_all`, `shutdown`, the wrappers | `spawn()` registers, submits and publishes in separate steps while the worker runs; callbacks run on whichever thread ends a future | what runs is tracked, retention is bounded, counters are exact, an ended task stays ended, callers return |
| Thread manager (`infrastructure/thread_manager.py`) | an executor, two counters, a lock | `submit`, `shutdown`, `stats` | the order of its lock and the executor's | counters are exact, calls return, nothing is taken up after a shutdown |
| Scheduler (`runtime/scheduler/`) | `jobs`, `_running`, `_thread`; per job `next_run`, runs left, cancelled | `start`, `stop(timeout)`, `add_job`, `cancel`, the loop | a stop that times out leaves a loop alive (BUG-014); jobs are taken out and put back | one loop, no job lost or run twice, due jobs run, loops end |
| Extension manager (`kernel/extension_manager.py`) | registered, sorted and initialized lists | `register`, `initialize_and_start`, `stop_and_dispose`, rollback | hooks raise, handled or not, and the lists outlive a failed boot | dependency order up and down, through failures and reboots |
| Lifecycle, bootstrap, app (`kernel/`), hosted services (`runtime/hosted/`) | one state, ready callbacks, what is on | `use`, `boot`, `when_ready`, `stop` | no lock; boots fail half-way; stop steps hang and run on; callbacks raise | "ready" and "stopped" are true, callbacks run once, stop returns |
| Async runtime (`runtime/async_runtime/`) | loop, thread, shutdown flag | `start`, `submit`, `stop` | drain, loop stop and join share a deadline; a failed stop is retried; stop on the loop's thread | no closed loop under a live thread, clean-ups run |
| Exclusive actions, resource scopes (`runtime/tasks/`) | a slot; a stack | `try_start`, `submit`, `finish`; `add`, `dispose_all` | late callbacks, a submit that raises, overlapping disposal | one run at a time; each resource released once, last in first out |
| Container (`infrastructure/container/`) | factories, singletons, scoped instances | `register`, `singleton`, `resolve`, scopes | lazy singletons asked for by two threads, constructors that raise, cycles | registrations survive, shared is shared |
| Event buses (`infrastructure/event_bus/`) | subscriptions, retry table, dead letters | `on`, `off`, `emit`, `reprocess`, `shutdown` | subscriptions change during delivery; two maps to keep in step | each delivery is made once, or parked, and never lost |
| IPC bus and broker (same place) | queues, listener threads, subscribers | `emit`, `start`, `stop`, broker's copies | stop markers, full queues, restarts | order, no repeats, listeners end |
| Dispatch, middleware, tracing (`kernel/`, `extensions/audit/`) | the trace's ring buffer, taps, open spans | dispatch, `span_begin/end`, attach, snapshot | nested, concurrent and raising dispatches; a client attaches while rows come and go | spans close, parents are recovered, gaps are told, the wire is faithful |
| State machines (`extensions/fsm/`) | state, event queue | `dispatch`, `transition_to` | callbacks that transition or dispatch; several threads | events in order, transitions form a path |
| Settings: configuration, UI state (`infrastructure/config/`, `extensions/ui_state/`) | layered sources, a file, dirty slices | `get`, `set`, `save`, debounce, flush, discard | failed and torn writes, restarts, screens not built | what was set or shown is there in the next run |
| Persistence (`extensions/persistence/`) | sessions per thread, engines, shard files | commands, dispose, `remove_shard`, `vacuum` | open sessions of other threads, files removed under them, nested commands | all or nothing, a shard is its file |
| Diagnostics, health, console, log viewer (`extensions/diagnostics`, `health`, `state_console`, `infrastructure/logging`) | counters, reports, caches, a queue | inspect, observe, collect, send | what they watch changes under them | what they say is so, nothing twice, they stop |
| Desktop (`extensions/pyside_mvc/`) | presenters, bridge queue, modes, commands, layouts, views | show, navigate, confirm, apply, restore, sort | reentrancy through dialogs, queued calls across threads, late signals | screen and state agree, teardown is complete |

Also there, and not modelled: triggers, domain events, module loading,
adapters, examples and tools ([section 7](#7-not-modelled)). `PROJECT.json` lists every component with its
status, and under `hazards` what can go wrong at which line.

### How the parts interact

`App.boot()` → `Bootstrap.boot()`: async runtime → extension manager → hosted
services → scheduler → lifecycle; a failure runs a cleanup in the opposite order that
leaves the extensions out. `App.stop()`: scheduler → hosted services →
extensions → task manager → async runtime → event bus. The scheduler calls
`TaskManager.spawn()` from its loop with its lock held; `spawn()` submits to one
of two executors or to the loop and emits events on the bus. Futures call done
callbacks on the thread that completes or cancels them: this is where locks of
the engine meet locks of `concurrent.futures`. A command goes through the
dispatcher, its middleware (transactions) and its handler, and leaves trace
rows; the trace server and the console read recorder and collectors on threads
of their own. The Qt bridge turns bus events of any thread into queued calls on
the GUI thread; UI state saves through a configuration manager.

## 2. Modules

| Module | Models |
|---|---|
| `TaskManager` | `TaskManager`, `BackgroundTask.cancel`, both wrappers, the two executors and the loop as far as it runs or drops coroutines |
| `ThreadManager` | `ThreadManager` and the executor's queue and lock |
| `Scheduler` | `Scheduler`, `ScheduledJob` |
| `Extensions` | `ExtensionManager` |
| `Engine` (extends `Extensions`) | `Bootstrap`, `EngineLifecycle`, `App.stop`, hosted services |
| `EventDelivery` | `MemoryEventBus`, `ThreadPoolEventBus`, `AsyncioEventBus`, bare or in a `ResilientEventBus` |
| `Delivery` | the abstract specification that `EventDelivery` refines |
| `IpcBus` | `IPCQueueEventBus`, `IPCBroker` |
| `TraceCapture` | dispatch, middleware, `ctx.trace`, spans of the recorder, the exporters' pairing |
| `TraceStream` | ring buffer and taps, `TraceServer`, the command line client |
| `WireCodec` | `to_dict`/`from_dict` of the stream's messages, masking |
| `AsyncRuntime`, `TrackedWork` (extends `AsyncRuntime`) | `AsyncRuntime`; `ExclusiveAction` and `ResourceScope` |
| `Container` | `Container` with `ScopeContext` |
| `ShardManager`, `Database` (extends `ShardManager`) | shards; databases, sessions and `TransactionMiddleware` |
| `Config`, `UiState` (extends `Config`) | `ConfigManager` and its sources; coordinator and store |
| `StateMachine` | `StateMachine`, `DeclarativeStateMachine`, the console's watcher |
| `WiringDoctor`, `RuntimeMonitor`, `Health`, `StateConsole`, `LogViewer` | what observes an application |
| `Workbench`, `Options`, `Layouts`, `ItemView`, `DisplayOrder`, `OutputPane` | the Qt workbench |
| `UiThread`, `Presenters` | watchdog and `@ui_mutator`; presenters and `QtEventBridge` |
| `Observers`, `Desktop` | what observes an application, and what it shows on a desktop, each side by side: the specifications and properties of the parts, conjoined |
| `*Proofs` | theorems about the module of the name; `MessagesProofs` about what `MCMessages` extends, `ServicesProofs` about the eight modules from `AsyncRuntime` to `UiState` and `StateMachine` above, `ObserversProofs` and `DesktopProofs` about `Observers` and `Desktop` |
| `MC*` | instances for TLC: `MCMessages` extends `EventDelivery`, `IpcBus`, the three tracing modules and `ThreadManager`; `MCServices` extends `TrackedWork`, `StateMachine`, `Container`, `Database`, `UiState`, `Observers` and `Desktop`, and instantiates `WiringDoctor`; the others extend the module of the name |

Definitions named `X_Something`, just before a definition `X`, are `X` with a
plausible bug. They are used by nothing; putting one in the place of `X` must
make the named property fail (`mutants` in `PROJECT.json`).

### Correspondence

`map` in `PROJECT.json` gives the lines of every definition. What follows is
what a reader needs beside it. In general, one action is one step that another
thread can observe: a critical section, or an access to a field that is not
guarded; a program counter (`pc`, `worker`, `cpc`, ...) per thread says
where it is. Variables without a field behind them are history for the properties
(`given`, `expected`, `handled`, `due`, ...) and no guard reads them, except to
bound a counter.

**TaskManager.** `tasks`, `finished`, `status`, `published`, `submitted` and
`completed` are fields; `fut`, `callback` and `closed` are the futures and
executors. `cancel_all()` copies the running tasks under the lock and cancels
them outside it, so `SnapshotRunning` and the three steps of
`BackgroundTask.cancel()` are apart, and `cancel()` marks CANCELLED whatever
`future.cancel()` answered. A future that is cancelled runs its done callback
in the canceller; one that ends does so on the worker; one that had ended before
`add_done_callback()` does so in `spawn()`. A pool thread takes an item off the
executor's queue (`WorkerTakes`) and marks its future as running
(`WorkerStart`) in two steps, and `shutdown(wait=False)` may come between them:
it cancels what is queued and not what is in a thread's hand. A callable is
reduced to how it ends: it returns, raises an Exception, or raises what
`except Exception` does not catch and leaves no status; a coroutine function may
also raise when `spawn()` calls it, outside of every `try` (`SpawnCallRaises`).

**ThreadManager.** `lock` is `self._lock`, `shutdownLock` the executor's.
`SubmitCounts` takes the first and `ExecutorAccepts` needs the second;
`PoolShutdown` takes the second and `CancelQueued`/`CloserCallback` need the first.
A worker takes a job and marks it as running in two steps here too.

**Scheduler.** `Host` threads call, `Loop` threads are the thread objects ever
created. `Start` is the part of `start()` under the lock, `CreateThread` and
`LaunchThread` what follows without it, and `stop()` is cut the same way. A tick
takes the due jobs into `batch` with the lock held, and each is dispatched by a
step of its own, since `cancel()` takes no lock. `Broken` are the jobs whose
trigger may raise, or answer None, when they are rescheduled: `TickDies` is what
that does to the loop, and `lost` remembers the jobs of its tick. Time is reduced
to whether a job's next run is later, due or none.

**Extensions, Engine.** A hook that runs to its end, or raises, is one step. The
orders are computed as the code does: `InitOrder` is the fixpoint loop of
`_try_initialize_available()`, `BuildAndSort` the depth-first search,
`ByPriority` the stable sort. An exception is one that the manager's handlers
name ("usual") or another ("other"). `set_ready()` swaps `waiting` for `batch`
and calls one callback per step; one that raises loses the rest of the batch
and leaves `boot()`. What may happen in a behaviour is an *environment*, a
record chosen in `Init` and kept in `env`: extensions, faults, threads, whether
steps hang and callbacks raise, how often the app is booted. One run then
covers several environments, and a property names those it is about.

**EventDelivery.** A registration is a handler or, on the resilient bus, a
numbered retry wrapper; a delivery is an emission and a registration. `on()`
and `off()` of the resilient bus are two steps, its own table under its lock
and then the inner bus. `emit()` reads the tuple once. A pool that is closed
refuses, and the exception loses the deliveries not submitted (`refused`).

**IpcBus.** The nodes are the buses' processes and the broker, all with the
same listener loop; `held` is the message in its hands with the targets left.
A subscriber queue that is full loses the message after the put's timeout. Stop
sets a flag, puts a marker and joins; start tests for a live thread (`Start`) and
then clears the flag and starts one (`StartThread`). Both come in any order and
between each other's steps: the application is taken to have one thread that starts
a node and one that stops it, since two concurrent starts of one bus would both find
no thread.

**TraceCapture, TraceStream, WireCodec.** A thread's `stack` holds the spans it is
in: of a dispatch, its middlewares and its handler, and of the application, which
may begin another dispatch or a span of `ctx.trace` wherever its code runs, in a
handler or a middleware; a middleware may end without calling on, or call on again.
Spans of `ctx.trace` have no correlation id (0), as `tracing.py:98-108` passes
none. `CountUnclosed`, `Drawn` and `ParentOf` are what the exporters make of the
rows. The recorder's capture is cut into compare, append and tell, as
the code takes no lock. A client goes through tap, backlog and live. In
`WireCodec` a field is None, empty or a value, and a schema says for each
field of a message when it is left out and what it defaults to.

**AsyncRuntime.** Coroutines are pending, cancelled once or twice, in their
`finally`, ended or destroyed with the loop; drain, stop and join can each time
out. **TrackedWork**: `key` is what a caller of an exclusive action still has to
release; `scope` is the stack of a resource scope.
**Container**: `_resolve()` is recursive, so every thread has a stack of
frames; only the call of a factory holds the lock. What a callable asks for goes
through `resolve()`, where an open scope may answer (`ScopeAnswers`). **ShardManager**: files have
generations, so a connection on a deleted file can be told, and a name's engine may
be on a file elsewhere, or on another name's, by the URL of `add_database()`
(`urls`). **Database**: a command's writes carry its number; a command may be left by
an Exception (`Rollback`) or by another BaseException, which is not rolled back
(`Abort`). **Config**: a file is read, merged, written
with an intermediate truncated state; one that cannot be read is taken to be empty
(`SaveUnread`). **UiState**: a `capture_state()` that raises ends a flush, `refused` are
the screens whose capture did and `givenUp` those behind them; `coordinated` says whether a
behaviour is that of the coordinator's own configuration manager, or of one that
has none and more sources. **StateMachine**: the re-entrant lock's
owner has a stack of calls. A callback that makes a transition while the state
is being left, or told, leaves the outer transition to go through after it:
`overtaken` records it, since the path told is then no path, and the view's mode
is the outer one.

**WiringDoctor** chooses registrations, parameters and extensions, inspects them,
and compares with `Resolves`, which is what the container does. **RuntimeMonitor**
counts against `due`, and compares what `shutdown()` logged with what the report
names, for which it remembers who was being told when it stopped (`tellingAtStop`). **Health** takes the steps of a report apart: resolving the session, asking it, and
the sweep over the registrations; `meanwhile` is what was so since the request.
**StateConsole** has a clock for its cache. **UiThread** chooses
what a method is (named like a mutator, wrapped, a slot, opted out), so that what
`unprotected_mutators()` reports can be compared with the calls that did run on
another thread. **LogViewer** has a viewer that goes away and torn lines.
**Workbench** keeps a stack of open guards (`asking`), as other calls come in the
event loop of a guard's dialog, and the checks of the bars' commands beside what Qt
and `restore_state()` do to the bars. **Layouts** restarts the application under
another layout version, or with an entry that is corrupt or no mapping. **DisplayOrder** compares values as
Python does, NaN and mixed types included.

## 3. Runs

| Run | Module, cfg | States | Checks |
|---|---|---|---|
| `tasks` | `MCTaskManager`, `TaskManager_tasks.cfg` | 1.06 M | `TypeOK LiveTaskTracked FinishedOnce RetentionBounded InFlightConserved TerminalStays NothingTakenAfterShutdown` |
| `tasks_live` | `MCTaskManager`, `TaskManager_live.cfg` | 139 k | `CallersReturn TasksSettle` |
| `scheduler` | `Scheduler`, `Scheduler_jobs.cfg` | 531 k | `LoopIsTracked JobsKept DroppedByNextTick SchedulerProgresses` |
| `engine` | `MCEngine`, `Engine_engine.cfg` | 638 k | `StateIsTrue CallbacksRunOnce ExtensionsInOrder StartedInOrder StopCompletes` |
| `messages` | `MCMessages`, `Messages_messages.cfg` | 640 k | `DeliveredOnce MappedIsSubscribed KeepsPromise ReceivedInOrder StopEndsLoop UnclosedAreOpen ParentsRecovered NoSilentGap WireIsFaithful PoolTypeOK InFlightCounts NoneTakenAfterShutdown PoolSettles` |
| `services` | `MCServices`, `Services_services.cfg` | 1.23 M | `WorkKept ContainerKept PersistenceKept SettingsKept MachineKept DoctorIsRight ObserversAreRight WorkbenchKept ScreenKept` |
| `grace` | `MCTaskManager`, `TaskManager_grace.cfg` | | refutes `CriticalGetsGrace` |
| `pool_locks` | `ThreadManager`, `ThreadManager_locks.cfg` | | refutes `NoCircularWait` |
| `sched_loops` | `Scheduler`, `Scheduler_loops.cfg` | | refutes `OneLoop` |
| `sched_cancel` | `Scheduler`, `Scheduler_cancel.cfg` | | refutes `CancelledStaysOut` |
| `engine_stranded` | `MCEngine`, `Engine_stranded.cfg` | | refutes `NoCallbackStranded` |
| `engine_cleanup` | `MCEngine`, `Engine_cleanup.cfg` | | refutes `FailedBootCleansUp` |

Some properties are conjunctions of named parts, each stated beside its code:
`JobsKept` of `OneShotRunsOnce` and `NoJobLost`; `SchedulerProgresses` of `LoopsEnd`
and `DueJobsRun`; `StateIsTrue` of `ReadyIsUp` and `StoppedIsDown`;
`ExtensionsInOrder` of `InitializedInOrder`, `DependentsStopFirst` and
`NothingStranded`. `JobsKept` and `StateIsTrue` include the module's `TypeOK`.

### What they show, and why the bounds are enough

* `tasks`: three interchangeable tasks on one worker, so one runs, one is
  queued and one is half-way through `spawn()` at the same time; a retention
  limit of one, so that the third end evicts; one caller with all three
  operations. Two callers add nothing that one and the workers do not do to the
  shared fields; the theorems of section 5 hold for any number of both.
* `tasks_live`: a critical task on its own pool and a coroutine, with a loop
  that may stop, a limit of 0 and fairness.
* `scheduler`: two thread objects are enough for one loop to outlive a stop
  beside its successor; a one-shot job and a recurring one, whose trigger may
  fail, with `MaxRuns` 2 show the rescheduling. `LoopIsTracked` and `DueJobsRun` are about one host, the others
  about both.
* `engine`: three extensions with a required and an optional dependency and two
  priorities, two boots with every fault, or three boots with late `use()`;
  and, over two boots, concurrent stops and a waiter, a stop and two callbacks
  that may raise, or hanging steps. The orders themselves are evaluated on more: `OrdersAssumption`,
  that what the two searches return is complete, without repetition and has
  dependencies first, for every order in which the four extensions can be registered
  and every list of initialized ones; `OrdersOfAnyGraph` the same for the 64 graphs
  of three extensions, with and without optional dependencies, cycles included.
* `messages`: six components, of which each behaviour picks one (`part`), so
  that their state spaces add up and do not multiply. Two handlers, two callers and a pool thread with a retry; a bus and a broker
  with a queue of one, two messages and three start or stop calls each, which is
  start, stop, start; two threads that dispatch, and nest dispatches and spans, within a bound of rows; a ring buffer of
  one with two rows, so that it evicts; each schema of the stream with
  its fields None, empty or full; in the pool (19 k of the states), three jobs and one
  worker, so that one runs, one is queued and one is submitted, and two closers, one of
  which waits, in every order.
* `services`: twenty-three parts in the same way. `MCServices` takes a step of one
  part, and restricts some: `UiThread` is checked with the watchdog alone and with
  every kind of method, `Workbench` with commands and modes, and with bars and
  restored state. `WorkKept` is of `AsyncRuntime` and `TrackedWork`; `PersistenceKept`
  of `ShardManager` and `Database`; `SettingsKept` of `Config` and `UiState`;
  `DoctorIsRight` of `WiringDoctor`; `ObserversAreRight` of `RuntimeMonitor`,
  `Health`, `StateConsole` and `LogViewer`; `WorkbenchKept` of `Workbench`,
  `Options` and `Layouts`; `ScreenKept` of `UiThread`, `Presenters`, `ItemView`,
  `DisplayOrder` and `OutputPane`. Each has two of whatever
  races, conflicts or replaces another (threads, keys, modes, hosts, runs,
  sources), queues and limits small enough to overflow, and at least one
  fault and one restart where the code handles them. The theorems of section 5 are about
  the parts without these restrictions.

Deadlock is checked in `tasks`, `tasks_live` and `scheduler`. It is not checked
in `engine`, `messages` and `services`, whose calls are bounded and which may come to
rest. In the pool the circular wait of `pool_locks` is a real deadlock, which
`PoolSettles` shows to be the only one.

### Fairness

A thread inside a call keeps running, so each of these is weakly fair: a begun
`spawn()`, a wrapper on its worker, `cancel()`, `cancel_all()` and `shutdown()`
in `TaskManager`; `submit()`, `shutdown()` and the workers in `ThreadManager`
(its calls are finitely many, so a thread that waits for a lock is in the end
alone with it); `start()` and `stop()` in `Scheduler`; `App.stop()` in
`Engine`, whose joins time out; the listener threads in `IpcBus`, whose waits
all have timeouts, and a `stop()` there, whose put waits for room that stays. A scheduler loop competes for the lock with hosts
and other loops and is strongly fair: no holder keeps the lock for ever, but that a
waiter gets it in the end is an assumption about the platform's locks.

Callables need not end, except under the hypothesis `BodiesEnd` of `TasksSettle`
and in `ThreadManager`. Step threads of `App.stop()` and `boot()` get no
fairness, since hooks may hang. Nobody is obliged to call anything.

## 4. What the code does not keep

Refuted by a run (`findings` in `PROJECT.json` quotes the documents):

1. `shutdown()` grants critical tasks no time: `cancel_all()` has marked them
   CANCELLED before it lists the RUNNING ones (`grace`).
2. `ThreadManager.submit()` and `shutdown()` can wait for each other's lock
   (`pool_locks`).
3. Two hosts that start and stop the scheduler can have two loops
   (`sched_loops`).
4. A job cancelled between the collection of a batch and its dispatch is spawned
   once more (`sched_cancel`).
5. A ready callback can be appended after `set_ready()` took the list, and is
   then not called (`engine_stranded`).
6. The cleanup of a failed boot leaves started extensions running
   (`engine_cleanup`).

Stated in a module and false there; no run lists them, and a run of the
module's instance with one as its invariant shows why:
`NotStartedIsCancelled` (`ThreadManager`: a `shutdown(wait=False)` leaves a job that a
worker has in hand neither started nor cancelled, and it starts afterwards, against
`thread_manager.py:71`; the executors of the task manager are shut down the same way),
`LoopDiesStopped` (`Scheduler`: a trigger that raises, or answers None, when a job is
rescheduled ends the thread with `_running` set and the rest of the batch lost,
against `scheduler.py:223-225`), `RolledBackOnAnyException` (`Database`: after a
BaseException that is no Exception, the next command of the thread commits what the
one before wrote, against `transaction_middleware.py:13-14`), `QuitIsNotLost`
(`UiState`: a `capture_state()` that raises in the flush of a quit loses the slices of
the screens behind it, against `ui_state_coordinator.py:105`), `OnlyAccumulates`
(`Config`: a `save()` that cannot read the file overwrites what it held, against
`config_manager.py:169-170`), `SingletonIsShared` (`Container`: a lazy singleton can be built twice, against
`std_container.py:90-92`), `SnapshotPrinted` (`TraceStream`: the snapshot client
reads one message, which may be a row, against `cli.py:276-284`) and
`EvictionsCounted` (`TraceStream`: two threads compare before either appends,
against `recorder.py:69`).

Met while modelling. The models do what the code does, and the properties are
stated so as not to claim the contrary:

* *Tasks.* A task cancelled while queued is never recorded as finished and stays
  in `tasks` for ever, and one whose future an executor's shutdown cancels stays
  RUNNING: `RetentionBounded` bounds the finished list, not `tasks`, and
  `TasksSettle` excludes pools that are shut down. A coroutine function that
  raises when `spawn()` calls it (`task_manager.py:258`) leaves the task PENDING in
  `tasks`, and a callable left by a BaseException that is no Exception leaves it
  RUNNING, though recorded: `TasksSettle` names both. A submission the executor
  refuses stays counted, in both managers.
* *Scheduler.* `spawn()` emits `TaskStarted` under the
  scheduler's lock, which is not re-entrant: a subscriber that calls `add_job()`
  or `stop()` on that thread waits for itself (not modelled).
* *Engine.* `register()` on a running engine answers a failing `initialize()`
  with a rollback that disposes running extensions. A failed boot leaves the
  lifecycle at BOOTING; an engine booted again has a task manager and an event
  bus that were shut down for good; `stop()` of an engine that never booted
  disposes nothing; a `stop()` that overlaps a boot may leave parts running. An extension
  that a failed boot left started gets its `start()` a second time in the next boot,
  with no `stop()` between (`extension_manager.py:278`). A
  ready callback that raises loses those after it, and `app.ready` is not
  emitted.
* *Async runtime.* `stop()` on the loop's own thread makes `join()` raise; a
  `start()` after a stop that timed out does nothing and says nothing.
* *Exclusive action.* A `submit()` that raises leaks the slot.
* *Container.* A thread that meets a lazy singleton while it is being built may
  be told that the class is abstract. Scoped dependencies injected through
  `__init__` bypass the scope. A cycle through a callable factory is not detected.
* *Event buses.* `on()` and `off()` of the resilient bus that race leave a
  wrapper that the table does not know. `on()`/`off()` and `emit()` spell a class
  differently (`__name__` or `event_name`), so some events meet no handler.
  `report_handler_failure` tells observers before it logs, against its own comment
  (`handler_reporting.py:48-50`). A stop marker left in a queue ends the
  listener of the next start.
* *Tracing.* A snapshot without thread pools and one with an empty list arrive
  the same. The exporters take an end row of duration 0 for a begin.
  `TraceServer.stop()` right after `start()` loses the stop.
* *State machines.* An `on_exit` callback that transitions is overridden by the
  transition it is part of; a queued event that is rejected raises in another
  caller and drops the rest of the queue.
* *Settings.* `add_source()` drops values of `set()` from the cache. A failed
  save leaves a truncated file, and the next save loses what it held; `SettingsKept`
  leaves out what such saves, and flushes that a capture ended, lose. A file
  with a newer schema is ignored, until the first write declares it to be old and
  its slices are read. `discard_keys()` leaves a pending write pending.
* *Persistence.* `vacuum()` re-creates a shard that was removed meanwhile;
  sessions open on a removed shard write to a deleted file. A shard that
  `add_database()` was given the file of another name for loses it when that one is
  removed. A nested command
  commits what the outer one has written so far. `DatabaseExtension.register`
  swallows errors.
* *Observers.* The inspector passes over parameters without annotation though
  the container raises, and never reports a binding to an abstract class. Health
  says "ok" of a database manager it can resolve and does not ask, also when a session
  is bound that cannot be resolved, and "not configured", healthy, when there is none.
  The signals collector iterates over a dictionary that `watch_state_machine()`
  changes. The watchdog keeps a freeze as going on if a heartbeat
  comes between its two critical sections, and a stop that gives up may leave
  two monitors. A record that cannot be serialised ends the log viewer's worker;
  one whose connection failed is dropped and not retried.
* *Desktop.* `navigation_service.py:77` reads the mode to leave before it asks
  the guard, so a navigation from the guard is overtaken, and a guard that raises
  leaves the wrong button checked. A refused confirmation restores the check it
  read before the dialog (`action_registry.py:340`). The destroyed signal of a
  replaced host unregisters the new one (`perspective_store.py:63`). A page whose
  `apply()` raises leaves the dialog's buttons stale. A table that is emptied
  and filled again is fitted again, against `configure_item_view.py:182-183`.
  Deliveries on their way through the Qt bridge arrive after `off()` and
  `dispose()`.

## 5. Proofs

Every theorem is checked from the assumptions on the constants named with it;
where none is named, from none or from the `ASSUME` of the module.

**`TaskManagerProofs`**, for any tasks, callers and limits:

* `TypeCorrect`: `TypeOK` is inductive as it stands.
* `TrackingCorrect`: `TrackingInv` is an invariant. `LiveTaskTracked` and
  `FinishedOnce` are not inductive, since nothing in them says which ids are in
  the finished list. `TrackingInv` adds that a recorded id belongs to a task
  whose wrapper or `spawn()` is past recording, that ids are distinct, and that
  a registered task is tracked until it is recorded. The step that matters is
  the eviction (`CleanupKeepsSuffix`, `CleanupTracks`): dropping a prefix of a
  list of distinct ids drops no id that stays in it.
* `LiveTasksAreTracked`, `RecordedOnce`: consequences of it.
* `InFlightIsConserved`: `submitted - completed` of a pool is the cardinality of
  the set of counted submissions whose callback has not run, by `CountingInv`
  (a callback belongs to a counted submission); each step leaves the set alone
  or adds or removes one member.
* `TerminalStatusStays`: from `StatusInv` (nobody can cancel a task before
  `spawn()` has published it).
* `FinishedListBounded`: `RetentionBounded`. A record lengthens the list by one
  as its thread joins those that have yet to clean up (`RecordStaysBounded`), and a
  cleanup leaves at most the limit (`CleanupBounds`), so that threads may leave
  the set in any order.
* `ClosedExecutorTakesNothing` (`NothingTakenAfterShutdown`): from `ClosedInv`, that
  a closed executor has nothing in its queue.

**`ThreadManagerProofs`**: `TypeCorrect` (`PoolTypeOK`); `PlacesCorrect`, that `PlaceInv` relates
where a job is to the step of whoever holds it; `CountersAreExact`
(`InFlightCounts`) from both, one member of `Uncounted` per step;
`NothingTakenLate` (`NoneTakenAfterShutdown`) from `ClosedInv` (past its queue, a
`shutdown()` leaves nothing queued and lets nothing in, and one that joined leaves no
thread busy).

**`SchedulerProofs`**: `JobsCorrect`, where `LockInv` (a tick that dispatches
has the lock) and `JobsInv` (a batch is disjoint from the jobs, with runs left)
make `JobsKept` inductive, the jobs excepted that were with a loop that died (`lost`); `SpawnedOnceAfterCancel` (`DroppedByNextTick`) from `JobsInv`; `LoopTracked`
from `HostInv`, what the one host's step says of `thread` and its loops.

**`EngineProofs`**, for any extensions, graph, services, callers and environments.

* `CallbacksCalledOnce`, from `WaitInv`: a callback is still with its
  `when_ready()`, or once in `waiting` or `batch`, or called. The swap empties
  one list into the other, which is empty unless `set_ready()` is under way;
  taking the head of the batch preserves that its members are distinct.
* `UpAndDownInOrder` (`ExtensionsInOrder`), from `ListInv`: what is sorted is
  registered, enabled and in order, and the list that a stop still has to take
  down has dependents first. A loop that goes through the sorted list, a rollback
  that keeps a prefix of the initialized one, and the reversal of either preserve
  it, whichever hooks raise.
* `StartedAfterDeps` (`StartedInOrder`): the next extension to start has all it
  requires before it in the list (`HeadIs`), and `WorkInv` says what the loop has visited.
  It covers the second `start()` of what a failed boot left started.
* `EngineStateIsTrue` (`StateIsTrue`) needs the whole of `EngInv`. `FlowInv`: a
  stop takes extensions down only inside its third step, and works on one step at a
  time unless steps hang. For environments where one thread calls everything
  (`alone`): `TurnInv`, that `boot()` and `stop()` take turns and the state says
  whose turn it is; `UpInv`, what is up at each step of `boot()`; `WorkInv`, what
  its loops have initialized and started; `PhaseInv`, that what is started is
  still to be stopped; and `DownInv`, that what a stop has taken down stays down. The
  last two are about faults that the manager's handlers name, as the property is.

Assumed: `ExtensionsAssumption` and `EngineAssumption` (finitely many extensions and
services, a graph on them, and that an environment in which calls do not overlap
has no step that hangs, since a hanging step runs on beside the next call), and
`OrdersAssumption`. This one is no restriction of the constants but what
`BuildAndSort` and `InitOrder` compute: they are recursive functions, about which the
installed provers can show nothing for every input, so their contract is an
assumption that TLC evaluates in every run of the module (section 3), while all
that is done with the orders is proved from it.

**`MessagesProofs`**, for any handlers, callers, processes, threads, middlewares, clients and
capacities.

* `PlacesCorrect`, that `IInv` (an accepted delivery is in a place, and the places
  are disjoint) and `CallInv` (only a call that emits or reprocesses has deliveries
  left) are invariants, with one lemma for each move; `NothingLost`
  (`DeliveredOnce`); `MapsCorrect` (`MappedIsSubscribed`) from `WrapperInv`, that
  wrappers are numbered and none that an `off()` is taking back is still in the
  table. `BusesKeepPromise` is the refinement: under `pending <- Pending, parked <-
  dlq, done <- Done` every step is an `Accept`, `Finish`, `Park` or `Reprocess` of
  `Delivery` or changes nothing it speaks of.
* `MessagesInOrder` (`ReceivedInOrder`), if the stop marker is no message number and
  the broker is no bus. `OrderInv` says that from a bus's handlers back over its
  thread and inbox, the broker's hands and inbox, and to the publishers, messages
  get newer; a bus that the broker has yet to copy to has only older ones. It rests
  on lemmas about `Append` and `Tail` of increasing queues.
* `CodecCorrect` (`WireIsFaithful`): each schema's messages come back as they
  were, by cases over what a field holds and when it is left out.
* `StreamCorrect` (`NoSilentGap`). `CoverInv`: each row recorded so far has reached a
  client that follows, or is on its wire, in its tap, or in the hands of a recording
  thread that has yet to tell the taps, or is gone and the client knows. The recorder
  appends, evicts and tells without a lock, so this is what each of those steps
  must preserve; `TapInv` says that the tap is there before the backlog is read.
* `CaptureCorrect`: `CaptureInv`, over the one stack of open spans a thread has, its
  own dispatches, those within them and the user's spans with cid 0 alike. `StackInv`:
  every open span has its begin row, those of a thread nest, and a dispatch is on one
  thread; `RowInv`: a begin row is known by its time, and a begun span is open or has
  one end row, not both; `NestInv`: containment in time agrees with who called;
  `CountInv`: as many are counted as unclosed as are open.
  `UnclosedStillRun` (`UnclosedAreOpen`) and `CallTreeRecovered` (`ParentsRecovered`)
  follow from it without a further step.

**`ServicesProofs`**, for any of the constants; bounds are any natural numbers.

* `SlotCorrect` (`OneRunAtATime`), if `Free` (None) is no key. `SlotInv`: the
  slot's holder is a caller that reserved it (`CallerInv`) or a run in flight
  (`RunInv`), and one of them only, so a late callback cannot free another's slot.
* `CleanUpCorrect` (`TasksCleanUp`). `LoopInv`: the loop is known as long as its
  thread is, and is closed after the join; `StopInv`: from the moment the loop has to
  stop, every task on it is excused, and until then the drain has it.
* `ScopeCorrect` (`ResourcesReleasedOnce`). `PlaceInv`: a resource is in the scope,
  in one hand, or disposed of; `OrderInv`: the stack is in the order of `add()`
  unless something has overlapped.
* `WorkCorrect`: the three parts of `WorkKept`.
* `MachineCorrect` (`MachineKept`), if `Nobody` is no thread and the matrix leads to
  states. `HoldInv`: the lock is held by whoever is in a call, and a queue that is
  not empty has a `dispatch()` that works on it; `NumberInv`: the queue is in the order
  of dispatch, after the last event taken; `PathInv`: unless a callback interrupted,
  every call around the innermost waits for its `on_enter`, and the path told
  ends where the innermost transition begins.
* `ContainerCorrect` (`ContainerKept`). `CallsInv`: a call stays in every closed set of
  types that a call around it is in (`LeadInv`), it makes what its caller waits for
  (`MakesInv`), and factories run on one thread at a time (`MutexInv`). `FactoryInv`:
  a registered singleton has its factory, its instance, or is being made; `OnceInv`
  and `AskInv`: what a callable makes is made once, and who asks gets it; `ScopesInv`:
  what scopes hold. `OneWayAssumption`: a type is registered in one way.
  `CallableAssumption`: what a callable factory resolves does not come back to
  its own type; there the code recurses for ever.
* `ShardsCorrect` (`ShardIsItsFile`). `EngineInv`: engines are of one shard
  each, a session is on its shard's place, and files about to be deleted are of no
  registered shard, while the lock keeps others from registering one.
* `DatabasesCorrect` (`DatabaseKept`). `RunningInv`: a thread is in commands of its
  own that have not ended, nested if they are several; `WritesInv`: what a thread has
  not committed was written by the command it is in or left by one that a
  BaseException ended, and of the one it is in nothing is committed.
* `PersistenceCorrect`: both parts of `PersistenceKept`.
* `SettingsCorrect` (`SettingsKept`), if `Absent` (None) is no value. `DirtyInv`: a key
  reported as set is unsaved or saved, and what a truncation has not lost is still
  to be saved; that the last source wins rests on `Greatest`, that a set of indices has
  a greatest, so that the CHOOSE in `Winner` is one. `PendingInv`, `RememberedInv` and `ForgottenInv`
  say, of the screens: what is pending is what the screen shows; what `save()` would
  write is what the next run should find, but for what is pending, was refused by
  `capture_state()`, or was given up with the rest of that flush; and a discarded
  slice has no write pending.

**`ObserversProofs`**, for any emitters, events, requesters, sources and capacities.

* `MonitorCorrect` (`MonitorKept`), for finitely many emitters. `CountInv`: one thread
  is between reading a count and writing it (the lock's mutual exclusion, and that the
  count it read is still there); `DueInv`: a count lacks exactly the threads that are
  still telling of it; `StoppedInv`: once the monitor is stopped, what is being told
  was begun before.
* `HealthCorrect` (`ReportsAreMeasured`). `ThreadInv`: a thread that makes a report
  has in `meanwhile` what was so of the bound session and of the registrations since
  the request, its sweep has yet to try each registration that resolved all along, and
  its verdict is one that some of this justifies.
* `ConsoleCorrect` (`ConsoleKept`), for sources that have collectors. `HistoryInv`:
  counters grow; `CollectInv`: the request at the head is older than the collection
  that will answer it, and what was read so far is between what had happened when it
  began and now; `CacheInv` and `AnswerInv` say the same of the cached snapshot, which
  is answered while it is younger than the interval, and of the answers.
* `LogsCorrect` (`LogsKept`). `QueueInv`, `LineInv`: the numbers grow from the lines
  that were read over the record in hand to the queue, through reconnections and
  records that cannot be serialised; `SockInv`: a connection with a torn line is not
  written to again; `FaultlessInv`: without a fault each record is read, in hand,
  queued, or was dropped.
* `ObserversCorrect` (`ObserversAreRight`): all four.

**`DesktopProofs`**, for any pages, widths, channels, screens, workers, panels, modes
and commands.

* `OptionsCorrect` (`OptionsKept`). `OptionsInv`: pages are children of the dialog
  that is open, and call that one and no other; while `apply()` runs, no page has a
  problem.
* `ViewCorrect` (`ViewKept`), for integer widths: each overwritten width is paid for
  by a fit that is still scheduled, a reset, or first rows (`Budgeted`), and the
  column is filled after every step that changes a width.
* `OrderCorrect` (`RowsSort`): `LessThan` is asymmetric on the values of a column, and
  not-after is transitive over the kinds of value (numbers, moments, texts, unknown),
  so that of the rows out of order with one above them, the first would be out of
  order with its neighbour. Assumed (`DisplayValuesAssumption`): numbers, offsets and
  moments are integers, texts stand in some order, and only a float or a decimal is NaN.
* `OutputCorrect` (`OutputKept`). `Newest`: a buffer is the newest lines since it was
  cleared; the rows selected name the lines that were picked, though an append to a
  full buffer moves every row.
* `ScreensCorrect` (`PresentersKept`). `ManagingInv`: the bus holds each forwarder
  once, and a teardown under way still has every ready presenter before it.
  `DeliveryInv`: for each emission some thread is its origin, and what one screen
  hears of one thread gets newer from what was delivered over the queue to the calls
  still to come.
* `GuiCorrect` (`UiThreadKept`). `GapsAreOwed`: a freeze that is being counted, or is
  yet to be seen, is owed to a gap between heartbeats that was not counted, while
  there is one monitor (`OneMonitor`). `QueueInv`: what was posted is of other threads
  and newer than what was performed of the same, and as many calls were performed or
  posted as were not refused; `StrayInv`: a guarded method never strays.
* `LayoutsCorrect` (`LayoutsKept`). `HostsInv`: a host that is registered, restored or
  has a callback is whole, and until a host is replaced there is only the first, so
  that the slice on disk is what the user had (`kept = disk`); with it, each restored
  host that is not arranged since is `AsKept`.
* `BenchCorrect` (`ShellKept`). `KeysInv`: two commands that can be on screen together
  do not share a key, those of modes that are not shown included, and what is live or filled into a menu belongs to the
  mode that shows, as `_sync_live_actions()` removes the rest. `AskingInv`: a guard
  that is asked alone is asked of the current mode, and nested guards leave a fault or
  a closed window behind; `ToggleInv`: what a confirmation restores is the opposite of
  what was clicked; `StatusInv`, `BarsInv`. Assumed (`ModesAssumption`): the values
  that stand for no mode, all modes and the close event are no mode ids.
* `WorkbenchCorrect` (`WorkbenchKept`) and `ScreenCorrect` (`ScreenKept`): the parts
  side by side.

### Only model-checked

* All liveness, which is out of the prover's reach under fairness, as is ENABLED:
  `CallersReturn`, `TasksSettle`, `PoolSettles`, `SchedulerProgresses`,
  `StopCompletes`, `StopEndsLoop`.
* `DoctorIsRight`. `WiringDoctor` walks the graph of dependencies depth first
  (`_cycles()`) and compares with what the container resolves; both are RECURSIVE,
  and that they agree on every graph needs induction over data. The same holds of what
  the recursive `InitOrder` and `BuildAndSort` return, stated as `OrdersAssumption`.
  The induction theorems of the library take an operator as a parameter, which the
  provers cannot instantiate.

Every other invariant and action property that a run checks is a theorem.

## 6. Plan

1. Compose the scheduler and the task manager with the synchronous bus, to show
   the self-deadlock of a subscriber of `TaskStarted`.
2. The validation middleware and the command loop of `app_runner`.
3. `Triggers` as an algorithm against a reference.
4. `ExitIsHonest` of `WiringDoctor` as a theorem, with its walk in a module of its own.

## 7. Not modelled

* `runtime/scheduler/triggers.py`: sums of a time and an interval, which
  `Scheduler` replaces by a choice.
* `domain/`: a registry filled at import. `kernel/module_loader.py`,
  `module_auto_discovery.py`, `context.py`: imports and wiring; what discovery
  finds is `App.use()` in `Engine`.
* `middleware/pydantic_validation_middleware.py`: it validates by calls to a
  library and passes the unvalidated object on; no state.
* `adapters/`, `infrastructure/storage`, the plain logger: calls to libraries.
* Painting, styling, dialogs and plain construction of widgets under
  `extensions/pyside_mvc`; printing of the command line tools.
* Wording and content of events, time other than order and timeouts.
* Examples and tools, applications of the engine.
