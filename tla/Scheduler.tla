------------------------------ MODULE Scheduler ------------------------------
(***************************************************************************)
(* runtime/scheduler/scheduler.py: a loop thread that holds self._lock for *)
(* a whole tick, and host threads that start and stop it, add jobs and     *)
(* cancel them.  start() and stop() use self._lock for self._running only: *)
(* self._thread is created, started, inspected and forgotten without it.   *)
(* A start() that returns early, and a stop() of a stopped scheduler,      *)
(* change nothing and are not steps.                                       *)
(***************************************************************************)
EXTENDS Integers, FiniteSets

CONSTANTS
  Host,       \* threads that call the scheduler
  Users,      \* sets of hosts, one of which uses it in each behaviour
  Loop,       \* the Thread objects that start() may create; bounds the starts
  Job,        \* jobs that may be added, each once
  OneShot,    \* the jobs made by after(): max_runs=1; the others run for ever
  Broken,     \* jobs whose trigger may fail, or answer None, when asked again
  MaxRuns,    \* bound of the model: a job comes due at most this many times
  NoLoop      \* self._thread is None, or nobody holds the lock

ASSUME ConstantsAssumption ==
  /\ IsFiniteSet(Host) /\ IsFiniteSet(Loop) /\ NoLoop \notin Loop
  /\ Users \subseteq SUBSET Host /\ OneShot \subseteq Job /\ Broken \subseteq Job
  /\ MaxRuns \in Nat \ {0}

VARIABLES
  running,    \* self._running
  thread,     \* self._thread
  jobs,       \* self.jobs
  next,       \* where a job's next_run is with respect to now
  cancelled,  \* jobs whose _cancelled event is set
  runs,       \* job.runs
  late,       \* spawns of a job after its cancel() returned (history)
  lost,       \* jobs of a tick that died of an exception (history)
  lock,       \* the loop thread inside a tick, which holds self._lock
  batch,      \* its jobs_to_run, less those dispatched
  loop,       \* state of each Thread object
  user,       \* the hosts that use the scheduler in this behaviour
  pc,         \* where each host is
  was         \* hosts inside stop() that found the scheduler running

jobVars == <<jobs, next, cancelled, runs, late, lost, batch>>
vars == <<running, thread, jobVars, lock, loop, user, pc, was>>

TypeOK ==
  /\ running \in BOOLEAN /\ thread \in Loop \cup {NoLoop}
  /\ jobs \subseteq Job /\ cancelled \subseteq Job /\ batch \subseteq Job /\ lost \subseteq Job
  /\ next \in [Job -> {"new", "later", "due", "none"}]
  /\ runs \in [Job -> 0..MaxRuns] /\ late \in [Job -> 0..MaxRuns]
  /\ lock \in Loop \cup {NoLoop}
  /\ loop \in [Loop -> {"none", "created", "waiting", "tick", "dead"}]
  /\ user \in Users
  /\ pc \in [Host -> {"idle", "create", "launch", "stop", "join", "forget"}]
  /\ was \subseteq Host

Init ==
  /\ running = FALSE /\ thread = NoLoop
  /\ jobs = {} /\ cancelled = {} /\ batch = {} /\ lost = {}
  /\ next = [j \in Job |-> "new"]
  /\ runs = [j \in Job |-> 0] /\ late = [j \in Job |-> 0]
  /\ lock = NoLoop
  /\ loop = [l \in Loop |-> "none"]
  /\ user \in Users
  /\ pc = [h \in Host |-> "idle"] /\ was = {}

Alive == {l \in Loop : loop[l] \in {"waiting", "tick"}}   \* Thread.is_alive()

Goto(h, label) == pc' = [pc EXCEPT ![h] = label]

-----------------------------------------------------------------------------
(* start() *)

Start(h) ==
  /\ pc[h] = "idle" /\ lock = NoLoop
  /\ ~running /\ thread \notin Alive
  /\ Cardinality({l \in Loop : loop[l] = "none"})   \* the bound on starts
       > Cardinality({g \in Host : pc[g] = "create"})
  /\ running' = TRUE
  /\ Goto(h, "create")
  /\ UNCHANGED <<thread, jobVars, lock, loop, was, user>>

\* A new Thread object: any that has not been used yet will do.
CreateThread(h) ==
  /\ pc[h] = "create"
  /\ thread' = CHOOSE l \in Loop : loop[l] = "none"
  /\ loop' = [loop EXCEPT ![thread'] = "created"]
  /\ Goto(h, "launch")
  /\ UNCHANGED <<running, jobVars, lock, was, user>>

\* self._thread.start() reads self._thread again: another host may have
\* replaced it, started it or set it to None, and the last two raise.
LaunchThread(h) ==
  /\ pc[h] = "launch"
  /\ loop' = [l \in Loop |-> IF l = thread /\ loop[l] = "created" THEN "waiting" ELSE loop[l]]
  /\ Goto(h, "idle")
  /\ UNCHANGED <<running, thread, jobVars, lock, was, user>>

-----------------------------------------------------------------------------
(* stop() *)

Stop(h) ==
  /\ pc[h] = "idle" /\ lock = NoLoop
  /\ was' = IF running THEN was \cup {h} ELSE was \ {h}
  /\ running' = FALSE
  /\ Goto(h, "stop")
  /\ UNCHANGED <<thread, jobVars, lock, loop, user>>

\* Nothing to join when the scheduler was stopped and its thread is gone, or
\* there is no thread; join() of a thread that was not started raises.
StopChecks(h) ==
  /\ pc[h] = "stop"
  /\ Goto(h, IF /\ h \in was \/ thread \in Alive
                /\ thread # NoLoop /\ loop[thread] # "created"
             THEN "join" ELSE "idle")
  /\ UNCHANGED <<running, thread, jobVars, lock, loop, was, user>>

\* BUG-014: self._thread = None whether or not the join succeeded.
StopJoined_AlwaysForgets(h) ==
  /\ pc[h] = "join"
  /\ Goto(h, "forget")
  /\ UNCHANGED <<running, thread, jobVars, lock, loop, was, user>>

\* join(timeout) returned, with the thread ended or not: what counts is the
\* self._thread found now.  Alive, it stays; None (another stop()), it raises.
StopJoined(h) ==
  /\ pc[h] = "join"
  /\ Goto(h, IF thread \in Alive \cup {NoLoop} THEN "idle" ELSE "forget")
  /\ UNCHANGED <<running, thread, jobVars, lock, loop, was, user>>

StopForgets(h) ==
  /\ pc[h] = "forget"
  /\ thread' = NoLoop
  /\ Goto(h, "idle")
  /\ UNCHANGED <<running, jobVars, lock, loop, was, user>>

-----------------------------------------------------------------------------
(* Jobs: add_job(), ScheduledJob.cancel(), and the passing of time *)

AddJob(h, j) ==
  /\ pc[h] = "idle" /\ lock = NoLoop
  /\ next[j] = "new"
  /\ \E when \in {"later", "due", "none"} : next' = [next EXCEPT ![j] = when]
  /\ jobs' = jobs \cup {j}
  /\ UNCHANGED <<running, thread, cancelled, runs, late, lost, batch, lock, loop, pc, was, user>>

\* No lock: an event of the job is set.
Cancel(j) ==
  /\ next[j] # "new" /\ j \notin cancelled
  /\ cancelled' = cancelled \cup {j}
  /\ UNCHANGED <<running, thread, jobs, next, runs, late, lost, batch, lock, loop, pc, was, user>>

TimePasses(j) ==
  /\ next[j] = "later" /\ runs[j] < MaxRuns
  /\ next' = [next EXCEPT ![j] = "due"]
  /\ UNCHANGED <<running, thread, jobs, cancelled, runs, late, lost, batch, lock, loop, pc, was, user>>

-----------------------------------------------------------------------------
(* _run() *)

\* The loop looks at self._thread, which a stop() that times out leaves set.
LoopEnds_WhenForgotten(l) ==
  /\ loop[l] = "waiting" /\ lock = NoLoop /\ thread # l
  /\ loop' = [loop EXCEPT ![l] = "dead"]
  /\ UNCHANGED <<running, thread, jobVars, lock, pc, was, user>>

LoopEnds(l) ==
  /\ loop[l] = "waiting" /\ lock = NoLoop /\ ~running
  /\ loop' = [loop EXCEPT ![l] = "dead"]
  /\ UNCHANGED <<running, thread, jobVars, lock, pc, was, user>>

\* The due jobs stay in self.jobs.
TickBegins_KeepsReady(l) ==
  /\ loop[l] = "waiting" /\ lock = NoLoop /\ running
  /\ batch' = {j \in jobs \ cancelled : next[j] = "due"}
  /\ jobs' = {j \in jobs \ cancelled : next[j] # "none"}
  /\ lock' = l /\ loop' = [loop EXCEPT ![l] = "tick"]
  /\ UNCHANGED <<running, thread, next, cancelled, runs, late, lost, pc, was, user>>

\* A cancelled job is dropped only when it is not due.
TickBegins_RunsCancelled(l) ==
  /\ loop[l] = "waiting" /\ lock = NoLoop /\ running
  /\ batch' = {j \in jobs : next[j] = "due"}
  /\ jobs' = {j \in jobs : next[j] = "later"}
  /\ lock' = l /\ loop' = [loop EXCEPT ![l] = "tick"]
  /\ UNCHANGED <<running, thread, next, cancelled, runs, late, lost, pc, was, user>>

\* Cancelled jobs and those without a next run are dropped; the due ones leave
\* self.jobs for this tick's batch.
TickBegins(l) ==
  /\ loop[l] = "waiting" /\ lock = NoLoop /\ running
  /\ batch' = {j \in jobs \ cancelled : next[j] = "due"}
  /\ jobs' = {j \in jobs \ cancelled : next[j] = "later"}
  /\ lock' = l /\ loop' = [loop EXCEPT ![l] = "tick"]
  /\ UNCHANGED <<running, thread, next, cancelled, runs, late, lost, pc, was, user>>

\* tasks.spawn() of a job of the batch, which may raise; either way it has run.
\* Its cancel() may have come since the tick began: it is not looked at again.
Spawns(l, j) ==
  /\ lock = l /\ j \in batch
  /\ \/ late' = [late EXCEPT ![j] = @ + IF j \in cancelled THEN 1 ELSE 0]
     \/ UNCHANGED late
  /\ runs' = [runs EXCEPT ![j] = @ + 1]
  /\ UNCHANGED <<running, thread, cancelled, pc, was, user>>

\* The job is rescheduled only when its spawn did not fail.
Dispatch_DropsFailed(l, j) ==
  /\ Spawns(l, j)
  /\ batch' = batch \ {j}
  /\ \/ UNCHANGED <<jobs, next>>
     \/ /\ jobs' = IF j \in OneShot THEN jobs ELSE jobs \cup {j}
        /\ next' = IF j \in OneShot THEN next ELSE [next EXCEPT ![j] = "later"]
  /\ UNCHANGED <<lock, loop, lost>>

\* A job with runs left is rescheduled.
Dispatch(l, j) ==
  /\ Spawns(l, j)
  /\ batch' = batch \ {j}
  /\ jobs' = IF j \in OneShot THEN jobs ELSE jobs \cup {j}
  /\ next' = IF j \in OneShot THEN next ELSE [next EXCEPT ![j] = "later"]
  /\ UNCHANGED <<lock, loop, lost>>

\* trigger.get_next_run() raises, or returns None, which self.jobs gets and the
\* comparison that follows does not take: the exception ends the thread, and
\* with it what is left of the batch, while self._running stays set.
TickDies(l, j) ==
  /\ j \in Broken \ OneShot /\ Spawns(l, j)
  /\ \/ UNCHANGED <<jobs, next>>
     \/ jobs' = jobs \cup {j} /\ next' = [next EXCEPT ![j] = "none"]
  /\ lost' = lost \cup batch
  /\ batch' = {} /\ lock' = NoLoop
  /\ loop' = [loop EXCEPT ![l] = "dead"]

\* A sleep in place of the condition variable keeps the lock.
TickEnds_Sleeps(l) ==
  /\ lock = l /\ batch = {}
  /\ loop' = [loop EXCEPT ![l] = "waiting"]
  /\ UNCHANGED <<running, thread, jobVars, lock, pc, was, user>>

\* _cond.wait() releases the lock; it always has a timeout.
TickEnds(l) ==
  /\ lock = l /\ batch = {}
  /\ lock' = NoLoop /\ loop' = [loop EXCEPT ![l] = "waiting"]
  /\ UNCHANGED <<running, thread, jobVars, pc, was, user>>

-----------------------------------------------------------------------------
LoopProgress(l) ==
  \/ LoopEnds(l) \/ TickBegins(l) \/ TickEnds(l)
  \/ \E j \in Job : Dispatch(l, j) \/ TickDies(l, j)
HostProgress(h) ==
  CreateThread(h) \/ LaunchThread(h) \/ StopChecks(h) \/ StopJoined(h) \/ StopForgets(h)

Next ==
  \/ \E h \in user : Start(h) \/ Stop(h) \/ HostProgress(h) \/ \E j \in Job : AddJob(h, j)
  \/ \E j \in Job : Cancel(j) \/ TimePasses(j)
  \/ \E l \in Loop : LoopProgress(l)

Spec == Init /\ [][Next]_vars

\* Threads run.  A loop that waits for self._lock while hosts use it, or while
\* another loop ticks, gets it in the end (strong); hosts need not do anything.
FairSpec ==
  /\ Spec
  /\ \A l \in Loop : SF_vars(LoopProgress(l))
  /\ \A h \in Host : WF_vars(HostProgress(h))

-----------------------------------------------------------------------------
\* The loop in a tick holds self._lock, and there is a Thread object left for
\* every host about to create one.
LockInv ==
  /\ \A l \in Loop : lock = l <=> loop[l] = "tick"
  /\ lock = NoLoop => batch = {}
  /\ Cardinality({h \in Host : pc[h] = "create"}) <= Cardinality({l \in Loop : loop[l] = "none"})

\* Where a job is, by its next run, its runs and its cancel().
JobsInv ==
  /\ jobs \cap batch = {}
  /\ \A j \in Job :
       /\ next[j] = "new" => j \notin jobs \cup cancelled /\ runs[j] = 0
       /\ j \in batch => next[j] = "due"
       /\ j \in jobs \cup batch /\ next[j] = "due" => runs[j] < MaxRuns
       /\ j \in OneShot /\ j \in jobs \cup batch => runs[j] = 0
       /\ late[j] > 0 => late[j] = 1 /\ j \in cancelled \ batch

\* One host: no loop is alive while it is about to make or forget one, and only
\* the thread it is about to launch is not started yet.
HostInv ==
  \A h \in Host : user = {h} =>
    /\ \A g \in Host \ {h} : pc[g] = "idle"
    /\ Alive \subseteq {thread}
    /\ pc[h] \in {"create", "launch", "forget"} => Alive = {}

\* The comment in start(): it refuses "to start a second thread" while the
\* previous one is alive, so there is at most one loop.
OneLoop == Cardinality(Alive) <= 1

\* stop() after BUG-014, when one thread does all starting and stopping: a loop
\* that is alive is the one in self._thread, so there is one at most, whatever
\* start() and stop() calls, timed out or not, came before.
LoopIsTracked == Cardinality(user) = 1 => Alive \subseteq {thread}

\* A job of after() runs at most once, also when two loops are alive and in
\* whatever order it is added, dispatched and cancelled.
OneShotRunsOnce == \A j \in OneShot : runs[j] <= 1

\* No job is lost by the rebuilding of self.jobs in a tick: one that was added,
\* has a next run and runs left, and was not cancelled, is in self.jobs or in
\* the batch of the tick under way, if no tick that had it died of an exception.
NoJobLost ==
  \A j \in Job \ (cancelled \cup lost) :
    next[j] \in {"later", "due"} /\ (j \in OneShot => runs[j] = 0) => j \in jobs \cup batch

\* ScheduledJob.cancel(), "it will not be spawned or rescheduled again": it is,
\* when cancel() meets a tick that has the job in its batch and has not come to
\* it yet.
CancelledStaysOut == \A j \in Job : late[j] = 0

\* What is left of that promise, "at most one polling tick away": a cancelled job
\* is in one tick at most, and spawned by it once, also when two loops are alive
\* and each takes jobs out of self.jobs and puts them back.
DroppedByNextTick == \A j \in Job : late[j] <= 1

\* A test of a job without a next run says it no longer ends the thread: a loop
\* ends because the scheduler was stopped and for no other reason.
LoopDiesStopped ==
  [][\A l \in Loop : loop[l] # "dead" /\ loop'[l] = "dead" => ~running]_vars

\* Every loop thread, also one that start() lost track of, ends once the
\* scheduler has been stopped for good.
LoopsEnd == <>[]~running => <>[](Alive = {})

\* A due job of a scheduler that is not stopped is dispatched, unless it is
\* cancelled first: no tick is missed for good.  (One host: two that start and
\* stop at once may leave a scheduler running without a loop, and so may a tick
\* that dies of an exception.)
DueJobsRun ==
  \A j \in Job :
    (Cardinality(user) = 1 /\ j \in jobs /\ next[j] = "due" /\ running)
      ~> (j \notin jobs \/ j \in cancelled \/ ~running \/ lost # {})

\* However ticks, hosts and failing spawns overlap, a job is where it belongs:
\* neither lost nor run twice.
JobsKept == TypeOK /\ OneShotRunsOnce /\ NoJobLost

\* What has to happen in the end does: loops end, due jobs run.
SchedulerProgresses == LoopsEnd /\ DueJobsRun
=============================================================================
