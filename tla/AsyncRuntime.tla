---------------------------- MODULE AsyncRuntime ----------------------------
(***************************************************************************)
(* AsyncRuntime: an asyncio loop on a thread of its own.  One host thread  *)
(* calls start() and stop(), any thread submits coroutines, and a          *)
(* coroutine may call stop() from the loop's own thread.                   *)
(***************************************************************************)
EXTENDS Integers

CONSTANTS Coros,    \* coroutines
          MaxHostCalls  \* bound: start() and stop() calls of the host

VARIABLES
    loop,       \* is self.loop set
    thread,     \* the loop's thread: "none", "starting", "running" or "exited"
    stopAsked,  \* loop.stop() is scheduled
    stopPc,         \* where the host's stop() is
    drained,    \* the tasks the drain waits for
    task,       \* state of each coroutine's task
    excused,    \* tasks no drain could bring to an end
    hostCalls       \* calls of the host so far

control == <<loop, thread, hostCalls>>
tasks == <<task, excused>>
asyncVars == <<control, stopAsked, stopPc, drained, tasks>>

AsyncInit ==
    /\ loop = FALSE /\ thread = "none" /\ stopAsked = FALSE /\ hostCalls = 0
    /\ stopPc = "idle" /\ drained = {}
    /\ task = [k \in Coros |-> "new"]
    /\ excused = {}

Pending == {k \in Coros : task[k] \in {"running", "cleaning"}}
----------------------------------------------------------------------------
\* start(): nothing to do as long as a thread is known, even one that exited.
Start ==
    /\ stopPc = "idle" /\ hostCalls < MaxHostCalls /\ thread = "none"
    /\ hostCalls' = hostCalls + 1
    /\ loop' = TRUE /\ thread' = "starting"
    /\ UNCHANGED <<stopAsked, stopPc, drained, tasks>>

\* _run_loop()
LoopRuns ==
    /\ thread = "starting"
    /\ thread' = "running"
    /\ UNCHANGED <<loop, hostCalls, stopAsked, stopPc, drained, tasks>>

LoopStops ==
    /\ thread = "running" /\ stopAsked
    /\ thread' = "exited"
    /\ stopAsked' = FALSE
    /\ UNCHANGED <<loop, hostCalls, stopPc, drained, tasks>>

\* run_coroutine(): refused unless the loop is running.  What comes after the
\* drain has listed the tasks, or before a loop that was asked to stop, is late.
RunCoroutine(k) ==
    /\ task[k] = "new" /\ loop /\ thread = "running"
    /\ task' = [task EXCEPT ![k] = "running"]
    /\ excused' = IF stopAsked \/ stopPc \notin {"idle", "draining"}
                  THEN excused \cup {k} ELSE excused
    /\ UNCHANGED <<control, stopAsked, stopPc, drained>>

\* A coroutine returns, or one that was cancelled ends its finally clause.
TaskEnds(k) ==
    /\ thread = "running" /\ k \in Pending
    /\ task' = [task EXCEPT ![k] = "ended"]
    /\ UNCHANGED <<control, stopAsked, stopPc, drained, excused>>

\* A coroutine calls stop(): no drain on the loop's own thread, the stop is
\* scheduled, and join() raises, since a thread cannot join itself.
StopOnLoop ==
    /\ thread = "running" /\ Pending # {}
    /\ stopAsked' = TRUE
    /\ excused' = excused \cup Pending
    /\ UNCHANGED <<control, stopPc, drained, task>>
----------------------------------------------------------------------------
AfterCall_NoDrain == "asking"

\* stop(): a loop that runs is drained first.
AfterCall == IF thread = "running" THEN "draining" ELSE "asking"

StopCalled ==
    /\ stopPc = "idle" /\ loop /\ hostCalls < MaxHostCalls
    /\ hostCalls' = hostCalls + 1
    /\ stopPc' = AfterCall
    /\ UNCHANGED <<loop, thread, stopAsked, drained, tasks>>

\* drain(): a task that is cancelling already is not cancelled again, which
\* would abort the await inside its finally clause.
CancelledAgain(k) == FALSE

DrainStarts ==
    /\ stopPc = "draining" /\ thread = "running"
    /\ drained' = Pending
    /\ task' = [k \in Coros |->
                   IF task[k] = "running" THEN "cleaning"
                   ELSE IF task[k] = "cleaning" /\ CancelledAgain(k) THEN "aborted"
                   ELSE task[k]]
    /\ stopPc' = "waiting"
    /\ UNCHANGED <<control, stopAsked, excused>>

DrainEnds ==
    /\ stopPc = "waiting" /\ drained \cap Pending = {}
    /\ stopPc' = "asking" /\ drained' = {}
    /\ UNCHANGED <<control, stopAsked, tasks>>

DrainTimesOut ==
    /\ stopPc \in {"draining", "waiting"}
    /\ stopPc' = "asking" /\ drained' = {}
    /\ excused' = excused \cup Pending
    /\ UNCHANGED <<control, stopAsked, task>>

AskToStop ==
    /\ stopPc = "asking"
    /\ stopAsked' = (thread # "exited")
    /\ stopPc' = "joining"
    /\ UNCHANGED <<control, drained, tasks>>

JoinReturns ==
    /\ stopPc = "joining" /\ thread = "exited"
    /\ thread' = "none"
    /\ stopPc' = "closing"
    /\ UNCHANGED <<loop, hostCalls, stopAsked, drained, tasks>>

\* The thread is still alive at the deadline: it and the loop stay known, and
\* a later stop() can retry.
JoinTimesOut ==
    /\ stopPc = "joining" /\ thread # "exited"
    /\ stopPc' = "idle"
    /\ UNCHANGED <<control, stopAsked, drained, tasks>>

\* What is still pending is cancelled, which a stopped loop never delivers.
Close ==
    /\ stopPc = "closing"
    /\ loop' = FALSE
    /\ task' = [k \in Coros |-> IF k \in Pending THEN "destroyed" ELSE task[k]]
    /\ stopPc' = "idle"
    /\ UNCHANGED <<thread, hostCalls, stopAsked, drained, excused>>

AsyncNext ==
    \/ Start \/ LoopRuns \/ LoopStops \/ StopOnLoop
    \/ \E k \in Coros : RunCoroutine(k) \/ TaskEnds(k)
    \/ StopCalled \/ DrainStarts \/ DrainEnds \/ DrainTimesOut \/ AskToStop
    \/ JoinReturns \/ JoinTimesOut \/ Close

AsyncSpec == AsyncInit /\ [][AsyncNext]_asyncVars
----------------------------------------------------------------------------
\* BUG-014 and BUG-017: over timeouts, retries and restarts, a loop is not
\* closed while its thread lives, and a coroutine's finally clause is neither
\* aborted by a second cancel nor dropped with the loop, unless the drain ran
\* out of time or the coroutine came too late for it.
TasksCleanUp ==
    /\ ~loop => thread = "none"
    /\ \A k \in Coros : /\ task[k] # "aborted"
                        /\ task[k] = "destroyed" => k \in excused
=============================================================================
