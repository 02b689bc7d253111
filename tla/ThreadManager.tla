---------------------------- MODULE ThreadManager ----------------------------
(***************************************************************************)
(* infrastructure/thread_manager.py: a counted thread pool.  submit() and  *)
(* the done callback take self._lock; the executor behind them has a lock  *)
(* of its own, which its submit() takes and which its shutdown() holds     *)
(* while it cancels the queued futures and so runs their done callbacks.   *)
(* Both locks are modelled by their holder, as what matters here is the    *)
(* order in which threads take them.                                       *)
(***************************************************************************)
EXTENDS Integers, FiniteSets

CONSTANTS
  Job,         \* calls of submit(), each made by a thread of its own
  Closer,      \* threads that call shutdown()
  Waiting,     \* the closers that pass wait=True
  MaxWorkers,  \* max_workers of the pool
  Free         \* nobody holds the lock

ASSUME ConstantsAssumption ==
  /\ IsFiniteSet(Job) /\ Job \cap Closer = {} /\ Free \notin Job \cup Closer
  /\ Waiting \subseteq Closer
  /\ MaxWorkers \in Nat \ {0}

VARIABLES
  lock,          \* holder of self._lock
  shutdownLock,  \* holder of the executor's lock
  submitted,     \* self._submitted
  completed,     \* self._completed
  accepting,     \* has the executor not been shut down
  fut,           \* state of each job's future
  attached,      \* futures whose done callback is registered and has not run
  spc,           \* where each submit() is
  worker,        \* where the pool thread running a job is
  cpc            \* where each shutdown() is

locks == <<lock, shutdownLock>>
pool  == <<accepting, fut, attached>>
poolVars == <<locks, submitted, completed, pool, spc, worker, cpc>>

PoolTypeOK ==
  /\ lock \in Job \cup {Free} /\ shutdownLock \in Closer \cup {Free}
  /\ submitted \in Nat /\ completed \in Nat /\ accepting \in BOOLEAN
  /\ fut \in [Job -> {"none", "pending", "running", "done", "cancelled"}]
  /\ attached \subseteq Job
  /\ spc \in [Job -> {"idle", "counted", "attach", "callback", "returned", "refused"}]
  /\ worker \in [Job -> {"idle", "taken", "body", "callback", "gone"}]
  /\ cpc \in [Closer -> {"idle", "cancelling", "callback", "joining", "returned"}]

PoolInit ==
  /\ lock = Free /\ shutdownLock = Free
  /\ submitted = 0 /\ completed = 0
  /\ accepting = TRUE /\ fut = [j \in Job |-> "none"] /\ attached = {}
  /\ spc = [j \in Job |-> "idle"]
  /\ worker = [j \in Job |-> "idle"]
  /\ cpc = [c \in Closer |-> "idle"]

-----------------------------------------------------------------------------
(* submit() *)

\* `with self._lock:` counts the job before the executor has seen it.
SubmitCounts(j) ==
  /\ spc[j] = "idle" /\ lock = Free
  /\ lock' = j
  /\ submitted' = submitted + 1
  /\ spc' = [spc EXCEPT ![j] = "counted"]
  /\ UNCHANGED <<shutdownLock, completed, pool, worker, cpc>>

\* executor.submit() takes the executor's lock with self._lock held; leaving
\* the `with` releases self._lock.
ExecutorAccepts(j) ==
  /\ spc[j] = "counted" /\ shutdownLock = Free /\ accepting
  /\ fut' = [fut EXCEPT ![j] = "pending"]
  /\ lock' = Free
  /\ spc' = [spc EXCEPT ![j] = "attach"]
  /\ UNCHANGED <<shutdownLock, submitted, completed, accepting, attached, worker, cpc>>

\* A pool that has been shut down raises, and nothing takes the count back.
ExecutorRefuses(j) ==
  /\ spc[j] = "counted" /\ shutdownLock = Free /\ ~accepting
  /\ lock' = Free
  /\ spc' = [spc EXCEPT ![j] = "refused"]
  /\ UNCHANGED <<shutdownLock, submitted, completed, pool, worker, cpc>>

\* A future that is done by now is left without a callback.
AttachCallback_OnlyPending(j) ==
  /\ spc[j] = "attach"
  /\ attached' = IF fut[j] \in {"done", "cancelled"} THEN attached ELSE attached \cup {j}
  /\ spc' = [spc EXCEPT ![j] = "returned"]
  /\ UNCHANGED <<locks, submitted, completed, accepting, fut, worker, cpc>>

\* add_done_callback() calls back at once when the future is already done.
AttachCallback(j) ==
  /\ spc[j] = "attach"
  /\ \/ /\ fut[j] \in {"done", "cancelled"}
        /\ spc' = [spc EXCEPT ![j] = "callback"]
        /\ UNCHANGED attached
     \/ /\ fut[j] \notin {"done", "cancelled"}
        /\ attached' = attached \cup {j}
        /\ spc' = [spc EXCEPT ![j] = "returned"]
  /\ UNCHANGED <<locks, submitted, completed, accepting, fut, worker, cpc>>

(* _on_done(), on whichever thread runs the callback *)

OnDone ==
  /\ lock = Free
  /\ completed' = completed + 1
  /\ UNCHANGED <<locks, submitted, pool>>

SubmitterCallback(j) ==
  /\ spc[j] = "callback" /\ OnDone
  /\ spc' = [spc EXCEPT ![j] = "returned"]
  /\ UNCHANGED <<worker, cpc>>

WorkerCallback(j) ==
  /\ worker[j] = "callback" /\ OnDone
  /\ worker' = [worker EXCEPT ![j] = "gone"]
  /\ UNCHANGED <<spc, cpc>>

\* A cancelled job does not give its slot back.
CloserCallback_NotCounted(c) ==
  /\ cpc[c] = "callback" /\ lock = Free
  /\ cpc' = [cpc EXCEPT ![c] = "cancelling"]
  /\ UNCHANGED <<locks, submitted, completed, pool, spc, worker>>

CloserCallback(c) ==
  /\ cpc[c] = "callback" /\ OnDone
  /\ cpc' = [cpc EXCEPT ![c] = "cancelling"]
  /\ UNCHANGED <<spc, worker>>

-----------------------------------------------------------------------------
(* The executor's threads *)

Busy == {j \in Job : worker[j] \in {"taken", "body", "callback"}}

\* Accepted jobs that no thread has taken off the queue.
Queued == {j \in Job : fut[j] = "pending" /\ worker[j] = "idle"}

\* A thread takes a job off the queue ...
WorkerTakesJob(j) ==
  /\ j \in Queued /\ Cardinality(Busy) < MaxWorkers
  /\ worker' = [worker EXCEPT ![j] = "taken"]
  /\ UNCHANGED <<locks, submitted, completed, pool, spc, cpc>>

\* ... and runs it, marking its future as one that cannot be cancelled any more.
WorkerStarts(j) ==
  /\ worker[j] = "taken"
  /\ fut' = [fut EXCEPT ![j] = "running"]
  /\ worker' = [worker EXCEPT ![j] = "body"]
  /\ UNCHANGED <<locks, submitted, completed, accepting, attached, spc, cpc>>

\* The callable returns or raises: the future is done and its callback, if
\* registered by now, runs on this thread.
TaskEnds(j) ==
  /\ worker[j] = "body"
  /\ fut' = [fut EXCEPT ![j] = "done"]
  /\ worker' = [worker EXCEPT ![j] = IF j \in attached THEN "callback" ELSE "gone"]
  /\ attached' = attached \ {j}
  /\ UNCHANGED <<locks, submitted, completed, accepting, spc, cpc>>

-----------------------------------------------------------------------------
(* shutdown(): self._executor.shutdown(wait=wait, cancel_futures=True) *)

\* As it was before EPIC-007B: the whole call under self._lock.
PoolShutdown_UnderLock(c) ==
  /\ cpc[c] = "idle" /\ shutdownLock = Free /\ lock = Free
  /\ shutdownLock' = c /\ lock' = c
  /\ accepting' = FALSE
  /\ cpc' = [cpc EXCEPT ![c] = "cancelling"]
  /\ UNCHANGED <<submitted, completed, fut, attached, spc, worker>>

PoolShutdown(c) ==
  /\ cpc[c] = "idle" /\ shutdownLock = Free
  /\ shutdownLock' = c
  /\ accepting' = FALSE
  /\ cpc' = [cpc EXCEPT ![c] = "cancelling"]
  /\ UNCHANGED <<lock, submitted, completed, fut, attached, spc, worker>>

\* One queued future is cancelled, and its callback runs on this thread.  A job
\* that a worker has taken, and not yet marked as running, is not in the queue.
CancelQueued(c, j) ==
  /\ cpc[c] = "cancelling" /\ j \in Queued
  /\ fut' = [fut EXCEPT ![j] = "cancelled"]
  /\ attached' = attached \ {j}
  /\ cpc' = [cpc EXCEPT ![c] = IF j \in attached THEN "callback" ELSE "cancelling"]
  /\ UNCHANGED <<locks, submitted, completed, accepting, spc, worker>>

\* cancel_futures=False: the queue is left to the workers.
QueueDrained_KeepsQueue(c) ==
  /\ cpc[c] = "cancelling"
  /\ shutdownLock' = Free
  /\ cpc' = [cpc EXCEPT ![c] = IF c \in Waiting THEN "joining" ELSE "returned"]
  /\ UNCHANGED <<lock, submitted, completed, pool, spc, worker>>

QueueDrained(c) ==
  /\ cpc[c] = "cancelling" /\ Queued = {}
  /\ shutdownLock' = Free
  /\ cpc' = [cpc EXCEPT ![c] = IF c \in Waiting THEN "joining" ELSE "returned"]
  /\ UNCHANGED <<lock, submitted, completed, pool, spc, worker>>

\* wait=True: every worker thread is joined.
Joined(c) ==
  /\ cpc[c] = "joining" /\ Busy = {} /\ Queued = {}
  /\ cpc' = [cpc EXCEPT ![c] = "returned"]
  /\ UNCHANGED <<locks, submitted, completed, pool, spc, worker>>

-----------------------------------------------------------------------------
SubmitProgress(j) ==
  \/ ExecutorAccepts(j) \/ ExecutorRefuses(j) \/ AttachCallback(j) \/ SubmitterCallback(j)
WorkerProgress(j) == WorkerTakesJob(j) \/ WorkerStarts(j) \/ WorkerCallback(j)
CloserProgress(c) ==
  \/ \E j \in Job : CancelQueued(c, j)
  \/ CloserCallback(c) \/ QueueDrained(c) \/ Joined(c)

\* Every submission has been answered and every shutdown has returned.
Terminated ==
  /\ \A j \in Job : spc[j] \in {"returned", "refused"} /\ j \notin Busy
  /\ \A c \in Closer : cpc[c] = "returned"
  /\ UNCHANGED poolVars

PoolNext ==
  \/ \E j \in Job :
       SubmitCounts(j) \/ SubmitProgress(j) \/ WorkerProgress(j) \/ TaskEnds(j)
  \/ \E c \in Closer : PoolShutdown(c) \/ CloserProgress(c)
  \/ Terminated

PoolSpec == PoolInit /\ [][PoolNext]_poolVars

\* Threads run and a submitted callable ends; nobody is obliged to make a call.
\* Weak fairness is enough for the locks: there are finitely many calls, so a
\* thread that waits for a lock is in the end the only one that does.
PoolFairness ==
  /\ \A j \in Job : /\ WF_poolVars(SubmitProgress(j))
                     /\ WF_poolVars(WorkerProgress(j)) /\ WF_poolVars(TaskEnds(j))
  /\ \A c \in Closer : WF_poolVars(CloserProgress(c))

-----------------------------------------------------------------------------
\* A submission, its future, its callback and its worker move together, and only
\* the holder of the executor's lock cancels.
PlaceInv ==
  /\ \A j \in Job :
       /\ (fut[j] = "none") <=> spc[j] \in {"idle", "counted", "refused"}
       /\ fut[j] \in {"none", "cancelled"} => worker[j] = "idle"
       /\ fut[j] = "pending" => worker[j] \in {"idle", "taken"}
       /\ worker[j] = "taken" => fut[j] = "pending"
       /\ worker[j] = "callback" => spc[j] = "returned" /\ fut[j] = "done"
       /\ j \in attached => spc[j] = "returned" /\ fut[j] \in {"pending", "running"}
  /\ \A c \in Closer : cpc[c] \in {"cancelling", "callback"} => shutdownLock = c

\* Once a shutdown() is past the queue, nothing is queued and nothing gets in, and
\* one that joined the threads has left none of them busy.
ClosedInv ==
  \A c \in Closer :
    /\ cpc[c] # "idle" => ~accepting
    /\ cpc[c] \in {"joining", "returned"} => Queued = {}
    /\ c \in Waiting /\ cpc[c] = "returned" => Busy = {}

\* Jobs that are counted in and not counted out.
Uncounted ==
  {j \in Job :
     \/ spc[j] \in {"counted", "attach", "callback", "refused"}
     \/ j \in attached \/ worker[j] = "callback"}

\* stats(): in_flight is the number of jobs that submit() has counted and no
\* thread has called _on_done() for, one more for each shutdown() that is just
\* about to.  Each job is counted out once, by the submitter, a worker or the
\* closer, whichever of them found the future done.
InFlightCounts ==
  submitted - completed =
    Cardinality(Uncounted) + Cardinality({c \in Closer : cpc[c] = "callback"})

\* shutdown(): once a call with cancel_futures=True has returned, no thread takes
\* another job, also one whose submit() was under way; and once a call that waits
\* has returned, none is running or starts.  A call that does not wait may return
\* before a job that a thread has in hand starts.
NoneTakenAfterShutdown ==
  [][\A c \in Closer, j \in Job :
       /\ cpc[c] = "returned" /\ worker[j] = "idle" => worker'[j] = "idle"
       /\ c \in Waiting /\ cpc'[c] = "returned" => worker'[j] \in {"idle", "gone"}]_poolVars

\* A submitter that holds self._lock waits for the executor's lock, whose
\* holder, inside shutdown(), waits for self._lock in _on_done().
CircularWait ==
  \E j \in Job, c \in Closer :
    /\ lock = j /\ spc[j] = "counted"
    /\ shutdownLock = c /\ cpc[c] = "callback"

\* The doc of shutdown(): "`ThreadPoolExecutor.shutdown()` is thread-safe on
\* its own and never needed the lock for correctness".
NoCircularWait == ~CircularWait

\* And the same doc: "`cancel_futures=True` cancels every not-yet-started future".
\* When shutdown() has returned, no future is left that is neither started nor
\* cancelled.
NotStartedIsCancelled ==
  \A c \in Closer, j \in Job : cpc[c] = "returned" => fut[j] # "pending"

\* The circular wait is the only way to get stuck.  Unless it happens, every
\* submit() and every shutdown() that began returns, and the pool ends up reporting
\* exactly the refused submissions as in flight: every accepted job, also a cancelled
\* one and one that was done before add_done_callback(), has given its slot back.
PoolSettles ==
  <>[](\/ CircularWait
       \/ /\ \A j \in Job : spc[j] \in {"idle", "returned", "refused"}
          /\ \A c \in Closer : cpc[c] \in {"idle", "returned"}
          /\ submitted - completed = Cardinality({j \in Job : spc[j] = "refused"}))
=============================================================================
