---------------------------- MODULE TaskManager ----------------------------
(***************************************************************************)
(* runtime/tasks/task_manager.py and background_task.py: spawn(), the pool *)
(* and coroutine wrappers, cancel(), cancel_all(), shutdown(), retention   *)
(* of finished tasks and the pool counters.                                *)
(*                                                                         *)
(* Every task has the thread that spawns it and, once its future has been  *)
(* picked up, the thread (or event loop) that runs it.  Callers are the    *)
(* threads that cancel or shut down, each performing one operation.  A     *)
(* step is what runs between two points where another thread can be seen:  *)
(* a critical section of self._lock, a call into the executor, or an       *)
(* unlocked assignment of a field that other threads read.                 *)
(***************************************************************************)
EXTENDS Integers, Sequences, FiniteSets

CONSTANTS
  Task,               \* the tasks that may be spawned
  Critical,           \* those spawned with critical=True
  Async,              \* those whose callable is a coroutine function
  Caller,             \* threads that call cancel(), cancel_all() or shutdown()
  Operations,         \* the operations those threads, and the host, may start
  MaxRetained,        \* task_manager.max_retained_tasks
  BackgroundWorkers,  \* _BACKGROUND_MAX_WORKERS
  CriticalWorkers,    \* _CRITICAL_MAX_WORKERS
  NoTask              \* no task: not a member of Task

ASSUME ConstantsAssumption ==
  /\ IsFiniteSet(Task) /\ NoTask \notin Task
  /\ Critical \subseteq Task /\ Async \subseteq Task
  /\ Operations \subseteq {"cancel", "cancel_all", "shutdown", "stop_loop"}
  /\ MaxRetained \in Nat
  /\ BackgroundWorkers \in Nat \ {0} /\ CriticalWorkers \in Nat \ {0}

VARIABLES
  tasks,      \* ids in self.tasks
  finished,   \* self._finished_task_ids, oldest first
  submitted,  \* _background_submitted and _critical_submitted
  completed,  \* _background_completed and _critical_completed
  lock,       \* is self._lock held across a step (only a caller does that)
  status,     \* BackgroundTask._status
  published,  \* is BackgroundTask._future set
  fut,        \* the state of the concurrent future the executor made
  callback,   \* the pool's done callback on that future
  closed,     \* executors (and the event loop) that refuse new work
  pc,         \* where the thread inside spawn() is, for each task
  worker,     \* where the thread running the wrapped callable is
  cpc,        \* where each caller is
  op,         \* the operation a caller performs
  todo,       \* cancel_all's `running` snapshot, then shutdown's critical futures
  cur,        \* the task a caller is cancelling
  counted     \* history: tasks whose submission has been counted

mgrVars    == <<tasks, finished, submitted, completed, lock>>
taskVars   == <<status, published>>
execVars   == <<fut, callback, closed>>
threadVars == <<pc, worker>>
callerVars == <<cpc, op, todo, cur>>
vars == <<mgrVars, taskVars, execVars, threadVars, callerVars, counted>>

-----------------------------------------------------------------------------
Executor == {"background", "critical"}
Pool     == Executor \cup {"loop"}

PoolOf(t) == IF t \in Async THEN "loop"
             ELSE IF t \in Critical THEN "critical" ELSE "background"

MaxWorkers(p) == IF p = "critical" THEN CriticalWorkers ELSE BackgroundWorkers

Status   == {"PENDING", "RUNNING", "COMPLETED", "FAILED", "CANCELLED"}
Terminal == {"COMPLETED", "FAILED", "CANCELLED"}

FutureDone(t) == fut[t] \in {"FINISHED", "CANCELLED"}

\* The done callback has been added to a future that has ended, and has not run.
CallbackDue(t) == callback[t] = "added" /\ FutureDone(t)

\* Tasks holding a thread of executor p.
Busy(p) ==
  {t \in Task : PoolOf(t) = p /\ worker[t] \in {"taken", "body", "record", "clean"}}

\* Work items in an executor's queue, no thread of which has taken them.
Queued(p) == {t \in Task : PoolOf(t) = p /\ fut[t] = "PENDING" /\ worker[t] = "none"}

-----------------------------------------------------------------------------
Init ==
  /\ tasks = {} /\ finished = <<>> /\ lock = FALSE
  /\ submitted = [p \in Executor |-> 0] /\ completed = [p \in Executor |-> 0]
  /\ status = [t \in Task |-> "PENDING"]
  /\ published = [t \in Task |-> FALSE]
  /\ fut = [t \in Task |-> "none"] /\ callback = [t \in Task |-> "none"]
  /\ closed = [p \in Pool |-> FALSE]
  /\ pc = [t \in Task |-> "idle"] /\ worker = [t \in Task |-> "none"]
  /\ cpc = [c \in Caller |-> "idle"] /\ op = [c \in Caller |-> "none"]
  /\ todo = [c \in Caller |-> {}] /\ cur = [c \in Caller |-> NoTask]
  /\ counted = {}

-----------------------------------------------------------------------------
(* Retention of finished tasks.                                            *)

\* Mutant: the limit is off by one.
Excess_OffByOne ==
  IF Len(finished) > MaxRetained + 1 THEN Len(finished) - MaxRetained - 1 ELSE 0

\* How many ids are over the limit.
Excess == IF Len(finished) > MaxRetained THEN Len(finished) - MaxRetained ELSE 0

\* One critical section: the id joins the finished ones.
RecordFinished(t) ==
  /\ ~lock
  /\ finished' = Append(finished, t)
  /\ UNCHANGED <<tasks, submitted, completed, lock>>

\* Mutant: any tracked task is dropped, not the oldest finished one.
CleanupOldTasks_AnyTask ==
  /\ ~lock
  /\ IF Cardinality(tasks) > MaxRetained
     THEN \E t \in tasks : tasks' = tasks \ {t}
     ELSE UNCHANGED tasks
  /\ UNCHANGED <<finished, submitted, completed, lock>>

\* _cleanup_old_tasks: the oldest finished ids over the limit are dropped.
CleanupOldTasks ==
  /\ ~lock
  /\ tasks' = tasks \ {finished[i] : i \in 1..Excess}
  /\ finished' = SubSeq(finished, Excess + 1, Len(finished))
  /\ UNCHANGED <<submitted, completed, lock>>

-----------------------------------------------------------------------------
(* spawn(), run by the thread that asks for the task.                      *)

GotoSpawn(t, from, to) == pc[t] = from /\ pc' = [pc EXCEPT ![t] = to]

\* The task is created PENDING, enters self.tasks, TaskStarted is emitted.
SpawnRegister(t) ==
  /\ ~lock
  /\ GotoSpawn(t, "idle", "registered")
  /\ tasks' = tasks \cup {t}
  /\ UNCHANGED <<counted, finished, submitted, completed, lock, worker,
                 taskVars, execVars, callerVars>>

SpawnMarkRunning(t) ==
  /\ GotoSpawn(t, "registered", IF t \in Async THEN "submit" ELSE "count")
  /\ status' = [status EXCEPT ![t] = "RUNNING"]
  /\ UNCHANGED <<counted, published, worker, mgrVars, execVars, callerVars>>

\* A coroutine function is called before anything is tried: what it raises leaves
\* spawn() with the task PENDING in self.tasks, and never recorded.
SpawnCallRaises(t) ==
  /\ t \in Async
  /\ GotoSpawn(t, "registered", "abandoned")
  /\ UNCHANGED <<counted, worker, mgrVars, taskVars, execVars, callerVars>>

\* inspect.signature raises, before the submission is counted: FAILED.
SpawnUnreadable(t) ==
  /\ GotoSpawn(t, "count", "record_failure")
  /\ status' = [status EXCEPT ![t] = "FAILED"]
  /\ UNCHANGED <<counted, published, worker, mgrVars, execVars, callerVars>>

\* Synchronous callables are counted before they are handed to the executor.
SpawnCount(t) ==
  /\ ~lock
  /\ GotoSpawn(t, "count", "submit")
  /\ submitted' = [submitted EXCEPT ![PoolOf(t)] = @ + 1]
  /\ counted' = counted \cup {t}
  /\ UNCHANGED <<tasks, finished, completed, lock, worker,
                 taskVars, execVars, callerVars>>

\* executor.submit, or async_runtime.run_coroutine, accepts the work ...
SpawnSubmit(t) ==
  /\ ~closed[PoolOf(t)]
  /\ GotoSpawn(t, "submit", IF t \in Async THEN "publish" ELSE "add_callback")
  /\ fut' = [fut EXCEPT ![t] = "PENDING"]
  /\ UNCHANGED <<counted, callback, closed, worker, mgrVars, taskVars, callerVars>>

\* ... or raises once it has been shut down: FAILED, and TaskFailed is emitted.
SpawnRejected(t) ==
  /\ closed[PoolOf(t)]
  /\ GotoSpawn(t, "submit", "record_failure")
  /\ status' = [status EXCEPT ![t] = "FAILED"]
  /\ UNCHANGED <<counted, published, worker, mgrVars, execVars, callerVars>>

SpawnAddCallback(t) ==
  /\ GotoSpawn(t, "add_callback", "publish")
  /\ callback' = [callback EXCEPT ![t] = "added"]
  /\ UNCHANGED <<counted, fut, closed, worker, mgrVars, taskVars, callerVars>>

\* Mutant: RUNNING is assigned once the future is there, not before the submit.
SpawnPublish_MarksRunning(t) ==
  /\ ~CallbackDue(t)
  /\ GotoSpawn(t, "publish", "returned")
  /\ published' = [published EXCEPT ![t] = TRUE]
  /\ status' = [status EXCEPT ![t] = "RUNNING"]
  /\ UNCHANGED <<counted, worker, mgrVars, execVars, callerVars>>

\* bg_task.future = future; a callback added to an ended future ran first.
SpawnPublish(t) ==
  /\ ~CallbackDue(t)
  /\ GotoSpawn(t, "publish", "returned")
  /\ published' = [published EXCEPT ![t] = TRUE]
  /\ UNCHANGED <<counted, status, worker, mgrVars, execVars, callerVars>>

SpawnRecordFailure(t) ==
  /\ RecordFinished(t)
  /\ GotoSpawn(t, "record_failure", "clean_failure")
  /\ UNCHANGED <<counted, worker, taskVars, execVars, callerVars>>

SpawnCleanFailure(t) ==
  /\ CleanupOldTasks
  /\ GotoSpawn(t, "clean_failure", "raised")
  /\ UNCHANGED <<counted, worker, taskVars, execVars, callerVars>>

SpawnProgress(t) ==
  \/ SpawnMarkRunning(t) \/ SpawnCallRaises(t) \/ SpawnUnreadable(t)
  \/ SpawnCount(t) \/ SpawnSubmit(t) \/ SpawnRejected(t) \/ SpawnAddCallback(t) \/ SpawnPublish(t)
  \/ SpawnRecordFailure(t) \/ SpawnCleanFailure(t)

-----------------------------------------------------------------------------
(* The thread or event loop that runs the wrapped callable.                *)

GotoWorker(t, from, to) == worker[t] = from /\ worker' = [worker EXCEPT ![t] = to]

\* A pool thread takes an item off the queue ...
WorkerTakes(t) ==
  /\ \E p \in Executor : t \in Queued(p) /\ Cardinality(Busy(p)) < MaxWorkers(p)
  /\ GotoWorker(t, "none", "taken")
  /\ UNCHANGED <<counted, pc, mgrVars, taskVars, execVars, callerVars>>

\* ... and runs it, marking its future as one that cannot be cancelled any more.
WorkerStart(t) ==
  /\ fut[t] = "PENDING"
  /\ GotoWorker(t, "taken", "body")
  /\ fut' = [fut EXCEPT ![t] = "RUNNING"]
  /\ UNCHANGED <<counted, pc, callback, closed, mgrVars, taskVars, callerVars>>

\* An item whose future has been cancelled meanwhile is dropped.
WorkerDrops(t) ==
  /\ fut[t] = "CANCELLED"
  /\ GotoWorker(t, "taken", "dropped")
  /\ UNCHANGED <<counted, pc, mgrVars, taskVars, execVars, callerVars>>

\* The loop starts a coroutine, whose future stays cancellable while it runs.
CoroutineStart(t) ==
  /\ t \in Async /\ fut[t] = "PENDING"
  /\ GotoWorker(t, "none", "body")
  /\ UNCHANGED <<counted, pc, mgrVars, taskVars, execVars, callerVars>>

\* The callable returns or raises an Exception: the status is assigned with no
\* lock held and no look at its present value, then TaskCompleted or TaskFailed is
\* emitted.  Any other BaseException passes `except Exception`: no status.
BodyEnds(t) ==
  /\ GotoWorker(t, "body", "record")
  /\ \/ \E s \in {"COMPLETED", "FAILED"} : status' = [status EXCEPT ![t] = s]
     \/ UNCHANGED status
  /\ UNCHANGED <<counted, pc, published, mgrVars, execVars, callerVars>>

\* A coroutine is cancelled through its future, or by the loop as it stops.
\* CancelledError passes `except Exception`, so no status is assigned.  (The
\* future follows once the wrapper is left, which nobody looks at before then.)
CoroutineCancelled(t) ==
  /\ t \in Async
  /\ fut[t] = "CANCELLED" \/ closed["loop"]
  /\ GotoWorker(t, "body", "record")
  /\ fut' = [fut EXCEPT ![t] = "CANCELLED"]
  /\ UNCHANGED <<counted, pc, callback, closed, mgrVars, taskVars, callerVars>>

\* A coroutine cancelled by the stopping loop before its first step never enters
\* the wrapper: no status, and no entry among the finished tasks.
CoroutineDropped(t) ==
  /\ t \in Async /\ closed["loop"]
  /\ fut[t] = "PENDING" /\ worker[t] = "none"
  /\ fut' = [fut EXCEPT ![t] = "CANCELLED"]
  /\ UNCHANGED <<counted, callback, closed, mgrVars, taskVars, threadVars, callerVars>>

WorkerRecord(t) ==
  /\ RecordFinished(t)
  /\ GotoWorker(t, "record", "clean")
  /\ UNCHANGED <<counted, pc, taskVars, execVars, callerVars>>

\* The rest of the `finally`; then the executor or the loop ends the future.
WorkerClean(t) ==
  /\ CleanupOldTasks
  /\ GotoWorker(t, "clean", "done")
  /\ fut' = [fut EXCEPT ![t] = IF @ = "CANCELLED" THEN @ ELSE "FINISHED"]
  /\ UNCHANGED <<counted, pc, callback, closed, taskVars, callerVars>>

\* Mutant: only callables that ran release their slot (a `finally` in the wrapper).
DoneCallback_OnlyFinished(t) ==
  /\ ~lock
  /\ CallbackDue(t)
  /\ callback' = [callback EXCEPT ![t] = "ran"]
  /\ completed' = [completed EXCEPT ![PoolOf(t)] =
                      IF fut[t] = "FINISHED" THEN @ + 1 ELSE @]
  /\ UNCHANGED <<counted, tasks, finished, submitted, lock, fut, closed,
                 taskVars, threadVars, callerVars>>

\* _on_done: runs once, on whichever thread ended the future or added the
\* callback to an ended one; that thread goes no further until it has run.
DoneCallback(t) ==
  /\ ~lock
  /\ CallbackDue(t)
  /\ callback' = [callback EXCEPT ![t] = "ran"]
  /\ completed' = [completed EXCEPT ![PoolOf(t)] = @ + 1]
  /\ UNCHANGED <<counted, tasks, finished, submitted, lock, fut, closed,
                 taskVars, threadVars, callerVars>>

WorkerProgress(t) ==
  \/ WorkerTakes(t) \/ WorkerStart(t) \/ WorkerDrops(t) \/ CoroutineStart(t)
  \/ WorkerRecord(t) \/ WorkerClean(t) \/ DoneCallback(t)

-----------------------------------------------------------------------------
(* cancel(), cancel_all() and shutdown(), run by callers.                  *)

GotoCaller(c, from, to) == cpc[c] = from /\ cpc' = [cpc EXCEPT ![c] = to]

\* task.cancel() on a handle got from spawn(), or from get_active_tasks().
BeginCancel(c, t) ==
  /\ "cancel" \in Operations
  /\ t \in tasks
  /\ GotoCaller(c, "idle", "cancelling")
  /\ op' = [op EXCEPT ![c] = "cancel"]
  /\ todo' = [todo EXCEPT ![c] = {t}]
  /\ UNCHANGED <<counted, cur, mgrVars, taskVars, execVars, threadVars>>

\* cancel_all, which shutdown calls first: with self._lock held ...
BeginCancelAll(c, o) ==
  /\ o \in Operations \cap {"cancel_all", "shutdown"}
  /\ ~lock
  /\ GotoCaller(c, "idle", "locked")
  /\ op' = [op EXCEPT ![c] = o]
  /\ lock' = TRUE
  /\ UNCHANGED <<counted, tasks, finished, submitted, completed, todo, cur,
                 taskVars, execVars, threadVars>>

\* Mutant: the tasks are cancelled inside the `with self._lock` block.
SnapshotRunning_KeepsLock(c) ==
  /\ GotoCaller(c, "locked", "cancelling")
  /\ todo' = [todo EXCEPT ![c] = {t \in tasks : status[t] = "RUNNING"}]
  /\ UNCHANGED <<counted, op, cur, mgrVars, taskVars, execVars, threadVars>>

\* ... the RUNNING tasks are listed; the lock is released before any is cancelled.
SnapshotRunning(c) ==
  /\ GotoCaller(c, "locked", "cancelling")
  /\ todo' = [todo EXCEPT ![c] = {t \in tasks : status[t] = "RUNNING"}]
  /\ lock' = FALSE
  /\ UNCHANGED <<counted, tasks, finished, submitted, completed, op, cur,
                 taskVars, execVars, threadVars>>

\* BackgroundTask.cancel: the token, which only callables look at, is set, and the
\* future is looked up.  A task whose spawn() has not published it is left at that.
CancelToken(c) ==
  /\ \E t \in todo[c] :
       /\ IF published[t]
          THEN /\ GotoCaller(c, "cancelling", "future")
               /\ cur' = [cur EXCEPT ![c] = t]
               /\ UNCHANGED todo
          ELSE /\ cpc[c] = "cancelling"
               /\ todo' = [todo EXCEPT ![c] = @ \ {t}]
               /\ UNCHANGED <<cpc, cur>>
  /\ UNCHANGED <<counted, op, taskVars, mgrVars, execVars, threadVars>>

\* future.cancel(): of no effect on one that is running or has ended.
CancelFuture(c) ==
  /\ GotoCaller(c, "future", "mark")
  /\ fut' = [fut EXCEPT ![cur[c]] = IF @ = "PENDING" THEN "CANCELLED" ELSE @]
  /\ UNCHANGED <<counted, callback, closed, op, todo, cur, mgrVars, taskVars, threadVars>>

\* Mutants of CancelMark: a status that TaskState does not have; no status at
\* all; the task also recorded as finished, which its worker does as well.
CancelMark_Unknown(c) ==
  /\ GotoCaller(c, "mark", "cancelling")
  /\ ~CallbackDue(cur[c])
  /\ status' = [status EXCEPT ![cur[c]] = "STOPPED"]
  /\ todo' = [todo EXCEPT ![c] = @ \ {cur[c]}]
  /\ cur' = [cur EXCEPT ![c] = NoTask]
  /\ UNCHANGED <<counted, op, published, mgrVars, execVars, threadVars>>

CancelMark_NoStatus(c) ==
  /\ GotoCaller(c, "mark", "cancelling")
  /\ ~CallbackDue(cur[c])
  /\ todo' = [todo EXCEPT ![c] = @ \ {cur[c]}]
  /\ cur' = [cur EXCEPT ![c] = NoTask]
  /\ UNCHANGED <<counted, op, taskVars, mgrVars, execVars, threadVars>>

CancelMark_Records(c) ==
  /\ GotoCaller(c, "mark", "cancelling")
  /\ ~CallbackDue(cur[c])
  /\ RecordFinished(cur[c])
  /\ status' = [status EXCEPT ![cur[c]] = "CANCELLED"]
  /\ todo' = [todo EXCEPT ![c] = @ \ {cur[c]}]
  /\ cur' = [cur EXCEPT ![c] = NoTask]
  /\ UNCHANGED <<counted, op, published, execVars, threadVars>>

\* CANCELLED, whatever future.cancel() returned; done callbacks ran inside it.
CancelMark(c) ==
  /\ GotoCaller(c, "mark", "cancelling")
  /\ ~CallbackDue(cur[c])
  /\ status' = [status EXCEPT ![cur[c]] = "CANCELLED"]
  /\ todo' = [todo EXCEPT ![c] = @ \ {cur[c]}]
  /\ cur' = [cur EXCEPT ![c] = NoTask]
  /\ UNCHANGED <<counted, op, published, mgrVars, execVars, threadVars>>

CancelReturns(c) ==
  /\ todo[c] = {}
  /\ GotoCaller(c, "cancelling",
               IF op[c] = "shutdown" THEN "collect" ELSE "returned")
  /\ UNCHANGED <<counted, op, todo, cur, mgrVars, taskVars, execVars, threadVars>>

\* shutdown: the futures of critical tasks that are still RUNNING ...
CollectCritical(c) ==
  /\ ~lock
  /\ GotoCaller(c, "collect", "wait")
  /\ todo' = [todo EXCEPT ![c] =
       {t \in tasks \cap Critical : status[t] = "RUNNING" /\ published[t]}]
  /\ UNCHANGED <<counted, op, cur, mgrVars, taskVars, execVars, threadVars>>

\* ... are waited for until all have ended, or until the timeout has passed.
CriticalEnded(c) ==
  /\ \A t \in todo[c] : FutureDone(t)
  /\ GotoCaller(c, "wait", "close_critical")
  /\ todo' = [todo EXCEPT ![c] = {}]
  /\ UNCHANGED <<counted, op, cur, mgrVars, taskVars, execVars, threadVars>>

WaitTimesOut(c) ==
  /\ GotoCaller(c, "wait", "close_critical")
  /\ todo' = [todo EXCEPT ![c] = {}]
  /\ UNCHANGED <<counted, op, cur, mgrVars, taskVars, execVars, threadVars>>

\* Mutant: queued items are left in the queue (no cancel_futures).
CloseExecutor_KeepsQueue(p) ==
  /\ closed' = [closed EXCEPT ![p] = TRUE]
  /\ UNCHANGED <<fut, callback>>

\* executor.shutdown(wait=False, cancel_futures=True) cancels what is queued: not
\* an item that a thread has taken and is about to run.
CloseExecutor(p) ==
  /\ closed' = [closed EXCEPT ![p] = TRUE]
  /\ fut' = [t \in Task |-> IF t \in Queued(p) THEN "CANCELLED" ELSE fut[t]]
  /\ UNCHANGED callback

CloseCritical(c) ==
  /\ GotoCaller(c, "close_critical", "close_background")
  /\ CloseExecutor("critical")
  /\ UNCHANGED <<counted, op, todo, cur, mgrVars, taskVars, threadVars>>

CloseBackground(c) ==
  /\ \A t \in Task : PoolOf(t) = "critical" => ~CallbackDue(t)
  /\ GotoCaller(c, "close_background", "closing")
  /\ CloseExecutor("background")
  /\ UNCHANGED <<counted, op, todo, cur, mgrVars, taskVars, threadVars>>

ShutdownReturns(c) ==
  /\ \A t \in Task : PoolOf(t) = "background" => ~CallbackDue(t)
  /\ GotoCaller(c, "closing", "returned")
  /\ UNCHANGED <<counted, op, todo, cur, mgrVars, taskVars, execVars, threadVars>>

CallerProgress(c) ==
  \/ SnapshotRunning(c) \/ CancelToken(c) \/ CancelFuture(c) \/ CancelMark(c)
  \/ CancelReturns(c) \/ CollectCritical(c) \/ CriticalEnded(c) \/ WaitTimesOut(c)
  \/ CloseCritical(c) \/ CloseBackground(c) \/ ShutdownReturns(c)

-----------------------------------------------------------------------------
\* App.stop's next step: AsyncRuntime.stop refuses and cancels coroutines.
StopLoop ==
  /\ "stop_loop" \in Operations
  /\ ~closed["loop"]
  /\ closed' = [closed EXCEPT !["loop"] = TRUE]
  /\ UNCHANGED <<counted, fut, callback, mgrVars, taskVars, threadVars, callerVars>>

\* No thread of the manager has anything left to do.
AtRest ==
  /\ \A t \in Task : /\ pc[t] \in {"idle", "returned", "raised", "abandoned"}
                     /\ worker[t] \in {"none", "dropped", "done"}
                     /\ fut[t] # "PENDING"
                     /\ ~CallbackDue(t)
  /\ \A c \in Caller : cpc[c] \in {"idle", "returned"}

\* Nothing more is asked of the manager.
Terminated == AtRest /\ (\A t \in Task : pc[t] # "idle") /\ UNCHANGED vars

Next ==
  \/ \E t \in Task :
       \/ SpawnRegister(t) \/ SpawnProgress(t)
       \/ WorkerProgress(t) \/ BodyEnds(t)
       \/ CoroutineCancelled(t) \/ CoroutineDropped(t)
  \/ \E c \in Caller :
       \/ \E t \in Task : BeginCancel(c, t)
       \/ \E o \in Operations : BeginCancelAll(c, o)
       \/ CallerProgress(c)
  \/ StopLoop
  \/ Terminated

Spec == Init /\ [][Next]_vars

(* Threads that are inside the manager keep running; a caller's wait has a *)
(* timeout, so it needs no help from the task bodies, which may never end. *)
Fairness ==
  /\ \A t \in Task : WF_vars(SpawnProgress(t)) /\ WF_vars(WorkerProgress(t))
  /\ \A c \in Caller : WF_vars(CallerProgress(c))

\* The application's callables end: assumed only for TasksSettle.
BodiesEnd == \A t \in Task : WF_vars(BodyEnds(t))

FairSpec == Spec /\ Fairness

-----------------------------------------------------------------------------
(* Every variable holds a value of its kind.                               *)
TypeOK ==
  /\ tasks \subseteq Task /\ finished \in Seq(Task) /\ lock \in BOOLEAN
  /\ submitted \in [Executor -> Nat] /\ completed \in [Executor -> Nat]
  /\ status \in [Task -> Status]
  /\ published \in [Task -> BOOLEAN]
  /\ fut \in [Task -> {"none", "PENDING", "RUNNING", "FINISHED", "CANCELLED"}]
  /\ callback \in [Task -> {"none", "added", "ran"}]
  /\ closed \in [Pool -> BOOLEAN]
  /\ pc \in [Task -> {"idle", "registered", "count", "submit", "add_callback",
                      "publish", "returned", "record_failure", "clean_failure",
                      "raised", "abandoned"}]
  /\ worker \in [Task -> {"none", "taken", "dropped", "body", "record", "clean", "done"}]
  /\ cpc \in [Caller -> {"idle", "locked", "cancelling", "future", "mark", "collect",
                         "wait", "close_critical", "close_background", "closing",
                         "returned"}]
  /\ op \in [Caller -> {"none", "cancel", "cancel_all", "shutdown"}]
  /\ todo \in [Caller -> SUBSET Task] /\ cur \in [Caller -> Task \cup {NoTask}]
  /\ counted \subseteq Task

(* A task whose callable is executing is in self.tasks: retention drops    *)
(* only finished tasks, so cancel_all(), shutdown() and get_active_tasks() *)
(* see everything that is still running.                                   *)
LiveTaskTracked == \A t \in Task : worker[t] = "body" => t \in tasks

(* The inductive strengthening of LiveTaskTracked and FinishedOnce: how    *)
(* far a task has come says whether it is recorded, and a registered task  *)
(* stays tracked until it is recorded and then evicted.                    *)
Recorded(t) == worker[t] \in {"clean", "done"} \/ pc[t] \in {"clean_failure", "raised"}

TrackingInv ==
  /\ \A t \in Task : /\ fut[t] = "none" => worker[t] = "none"
                     /\ fut[t] # "none" => pc[t] \in {"add_callback", "publish", "returned"}
                     /\ pc[t] # "idle" /\ ~Recorded(t) => t \in tasks
  /\ \A i \in 1..Len(finished) : Recorded(finished[i]) /\ finished[i] \in tasks
  /\ \A i, j \in 1..Len(finished) : finished[i] = finished[j] => i = j

(* And of TerminalStays: the future is published when spawn() is done with *)
(* the status, so nobody can have ended a task that is still PENDING.      *)
StatusInv ==
  /\ \A t \in Task : /\ pc[t] \in {"idle", "registered", "abandoned"} => status[t] = "PENDING"
                     /\ published[t] => pc[t] = "returned"
  /\ \A c \in Caller : cpc[c] \in {"future", "mark"} => cur[c] \in Task /\ published[cur[c]]

(* No task is recorded as finished twice, by its worker and by a failing   *)
(* spawn(), and what is recorded is still tracked: the eviction loop never *)
(* pops an id in vain.                                                     *)
FinishedOnce ==
  /\ \A i, j \in 1..Len(finished) : finished[i] = finished[j] => i = j
  /\ \A i \in 1..Len(finished) : finished[i] \in tasks

(* pool_stats(): in_flight counts exactly the submissions whose done       *)
(* callback has not run, whichever way their futures end or are cancelled, *)
(* and whichever thread runs the callback.                                 *)
InFlight(p) == submitted[p] - completed[p]

Holding(p) == {t \in counted : PoolOf(t) = p /\ callback[t] # "ran"}

InFlightConserved == \A p \in Executor : InFlight(p) = Cardinality(Holding(p))

(* What InFlightConserved rests on: a done callback belongs to a counted   *)
(* submission, and only synchronous callables are counted.                 *)
CountingInv ==
  \A t \in Task :
    /\ callback[t] # "none" => pc[t] \in {"publish", "returned"} /\ t \in counted
    /\ pc[t] = "add_callback" \/ (pc[t] = "submit" /\ t \notin Async) => t \in counted
    /\ pc[t] \in {"idle", "registered", "count"} => t \notin counted
    /\ pc[t] \in {"count", "add_callback"} => t \notin Async

(* The finished list is over max_retained_tasks only by the ids of threads *)
(* between their append and their own cleanup.                             *)
RetentionBounded ==
  Len(finished) <= MaxRetained
    + Cardinality({t \in Task : worker[t] = "clean" \/ pc[t] = "clean_failure"})

(* A status that says the task is over is never replaced by one that says  *)
(* it is not, however fast the worker finishes under the running spawn().  *)
TerminalStays ==
  [][\A t \in Task : status[t] \in Terminal => status'[t] \in Terminal]_vars

(* Once shutdown() has shut an executor down, a callable starts on it only *)
(* if a thread of the pool had taken it off the queue by then: what was    *)
(* queued, and what is submitted later, never runs.                        *)
NothingTakenAfterShutdown ==
  [][\A t \in Task \ Async :
       closed[PoolOf(t)] /\ worker[t] = "none" => worker'[t] = "none"]_vars

(* cancel(), cancel_all() and shutdown() return even if no callable ever   *)
(* does: no caller waits for a callback that needs the lock it holds.      *)
CallersReturn == \A c \in Caller : cpc[c] # "idle" ~> cpc[c] = "returned"

(* If callables end, a spawned task ends up COMPLETED, FAILED or CANCELLED *)
(* for good, also when cancel() meets a spawn() that is half-way, but for  *)
(* the three cases that the code leaves open: the pool it was spawned on   *)
(* is shut down, the call of its coroutine function raised inside spawn(), *)
(* or its callable was left by a BaseException that is no Exception.       *)
Escaped(t) == worker[t] = "done" /\ fut[t] = "FINISHED" /\ status[t] = "RUNNING"

TasksSettle ==
  BodiesEnd =>
    \A t \in Task : [](pc[t] = "registered" =>
                         \/ <>[](status[t] \in Terminal) \/ <>closed[PoolOf(t)]
                         \/ <>(pc[t] = "abandoned") \/ <>Escaped(t))

-----------------------------------------------------------------------------
(* What the docs say and the code does not keep: a run refutes it.         *)

(* shutdown()'s doc: critical tasks are given up to `timeout` seconds.     *)
(* A critical callable that is executing, and that spawn() has returned,   *)
(* is among those shutdown() waits for.                                    *)
CriticalGetsGrace ==
  [][\A c \in Caller, t \in Critical :
       cpc[c] = "collect" /\ cpc'[c] = "wait" /\ pc[t] = "returned" /\ worker[t] = "body"
         => t \in todo'[c]]_vars
=============================================================================
