-------------------------------- MODULE Engine -------------------------------
(***************************************************************************)
(* kernel/bootstrap.py, kernel/lifecycle.py and App.stop() in              *)
(* kernel/app.py, composed with the extension manager (module Extensions)  *)
(* and the hosted services (runtime/hosted/hosted_service_manager.py).     *)
(* One host thread boots.  Stoppers are threads that call App.stop(), whose *)
(* five steps run on threads of their own that it stops waiting for after  *)
(* step_timeout.  Waiters are threads that call when_ready().  The         *)
(* scheduler, the task manager and the event loop are on or off here.      *)
(***************************************************************************)
EXTENDS Extensions

CONSTANTS
  Service,  \* the hosted services, in an order that does not matter here
  Waiter    \* threads that call when_ready()

(* Beside exts and faults, an environment says                             *)
(*   alone    stop() is called between boots, never during one or another, *)
(*            and its steps end before it does                             *)
(*   late     App.use() may also come after the first boot()               *)
(*   hangs    a step of App.stop() may exceed step_timeout                 *)
(*   raises   a callback of when_ready() may raise                         *)
(*   boots    how often boot() is called, a bound of the model             *)
(*   callers  the stoppers and waiters there are                           *)
ASSUME EngineAssumption ==
  /\ IsFiniteSet(Service) /\ Stopper \cap Waiter = {}
  /\ \A v \in Envs : /\ {v.alone, v.late, v.hangs, v.raises} \subseteq BOOLEAN
                     /\ v.alone => ~v.hangs
                     /\ v.boots \in Nat /\ v.callers \subseteq Stopper \cup Waiter

VARIABLES
  state,      \* lifecycle.state
  asyncOn,    \* does async_runtime have a loop
  schedulerOn,\* scheduler._running
  tasksOpen,  \* has tasks.shutdown() not been called
  busOpen,    \* has the event bus not been shut down
  services,   \* hosted services between start() and stop()
  bpc,        \* where boot() is
  boots,      \* calls of boot()
  waiting,    \* lifecycle._ready_callbacks
  batch,      \* the callbacks set_ready() has taken out of it
  wpc,        \* where each when_ready() is
  ran,        \* how often each waiter's callback was called
  spc,        \* where each App.stop() is
  step,       \* the step it runs
  live        \* its step threads that have not ended

runVars  == <<asyncOn, schedulerOn, tasksOpen, busOpen, services>>
bootVars == <<bpc, boots>>
waitVars == <<waiting, batch, wpc, ran>>
stopVars == <<spc, step, live>>
vars == <<extVars, state, runVars, bootVars, waitVars, stopVars>>

Steps == <<"scheduler", "hosted services", "extensions", "task manager", "async runtime",
           "event bus">>

TypeOK ==
  /\ ExtTypeOK
  /\ state \in {"created", "booting", "booted", "ready", "stopping", "stopped"}
  /\ asyncOn \in BOOLEAN /\ schedulerOn \in BOOLEAN /\ tasksOpen \in BOOLEAN
  /\ busOpen \in BOOLEAN
  /\ services \subseteq Service
  /\ bpc \in {"idle", "async", "extensions", "starting", "hosted", "scheduler",
              "set booted", "set ready", "swap", "callbacks", "cleanup 1", "cleanup 2", "cleanup 3"}
  /\ boots \in Nat
  /\ waiting \in Seq(Waiter) /\ batch \in Seq(Waiter)
  /\ wpc \in [Waiter -> {"idle", "append", "done"}] /\ ran \in [Waiter -> Nat]
  /\ spc \in [Stopper -> {"idle", "mark", "steps", "end", "returned"}]
  /\ step \in [Stopper -> 0..Len(Steps)]
  /\ live \in [Stopper -> SUBSET (1..Len(Steps))]

Init ==
  /\ ExtInit
  /\ state = "created"
  /\ asyncOn = FALSE /\ schedulerOn = FALSE /\ tasksOpen = TRUE /\ busOpen = TRUE
  /\ services = {}
  /\ bpc = "idle" /\ boots = 0
  /\ waiting = <<>> /\ batch = <<>>
  /\ wpc = [w \in Waiter |-> "idle"] /\ ran = [w \in Waiter |-> 0]
  /\ spc = [s \in Stopper |-> "idle"] /\ step = [s \in Stopper |-> 0]
  /\ live = [s \in Stopper |-> {}]

NoStop == \A s \in Stopper : spc[s] \in {"idle", "returned"}

\* App.use() of an extension, by the host thread between two boots.
Use(e) ==
  /\ bpc = "idle" /\ (boots > 0 => env.late)
  /\ env.alone => NoStop
  /\ Register(e)
  /\ UNCHANGED <<state, runVars, bootVars, waitVars, stopVars>>

-----------------------------------------------------------------------------
(* Bootstrap.boot() *)

\* set_booting(): from CREATED and STOPPED, and from BOOTING, where a boot that
\* failed has left it; from any other state it raises.
BootBegins ==
  /\ bpc = "idle" /\ boots < env.boots
  /\ env.alone => NoStop
  /\ state \in {"created", "stopped", "booting"}
  /\ state' = "booting"
  /\ bpc' = "async" /\ boots' = boots + 1
  /\ UNCHANGED <<extVars, runVars, waitVars, stopVars>>

AsyncStarts ==
  /\ bpc = "async"
  /\ asyncOn' = TRUE
  /\ bpc' = "extensions"
  /\ UNCHANGED <<extVars, state, busOpen, schedulerOn, tasksOpen, services, boots, waitVars, stopVars>>

ExtensionsBegin ==
  /\ bpc = "extensions"
  /\ SortExtensions
  /\ bpc' = "starting"
  /\ UNCHANGED <<state, runVars, boots, waitVars, stopVars>>

ExtensionsStep ==
  /\ bpc = "starting" /\ StartUp
  /\ UNCHANGED <<state, runVars, bootVars, waitVars, stopVars>>

\* A failure of the extensions does not end the boot.
ExtensionsEnd_GoesOn ==
  /\ bpc = "starting" /\ Return
  /\ bpc' = "hosted"
  /\ UNCHANGED <<state, runVars, boots, waitVars, stopVars>>

\* The exceptions boot() names are cleaned up after.  An unresolved dependency
\* is none of them, and another exception of a hook may or may not be (OSError).
ExtensionsEnd ==
  /\ bpc = "starting" /\ Return
  /\ \/ xpc = "done" /\ bpc' = "hosted"
     \/ xpc = "usual" /\ bpc' = "cleanup 1"
     \/ xpc = "other" /\ bpc' \in {"cleanup 1", "idle"}
     \/ xpc = "unresolved" /\ bpc' = "idle"
  /\ UNCHANGED <<state, runVars, boots, waitVars, stopVars>>

\* HostedServiceManager.start(), and its rollback when a start() raises: every
\* started service is stopped again and the exception goes on to boot().
HostedStart ==
  /\ bpc = "hosted"
  /\ \/ services' = Service /\ bpc' = "scheduler"
     \/ /\ Service # {} /\ env.faults # {}
        /\ services' = {}
        /\ \/ "usual" \in env.faults /\ bpc' = "cleanup 1"
           \/ "other" \in env.faults /\ bpc' \in {"cleanup 1", "idle"}
  /\ UNCHANGED <<extVars, state, busOpen, asyncOn, schedulerOn, tasksOpen, boots, waitVars, stopVars>>

SchedulerStarts ==
  /\ bpc = "scheduler"
  /\ schedulerOn' = TRUE
  /\ bpc' = "set booted"
  /\ UNCHANGED <<extVars, state, busOpen, asyncOn, tasksOpen, services, boots, waitVars, stopVars>>

\* set_booted() raises, out of boot() and of its try, unless the state is
\* still BOOTING.
SetBooted ==
  /\ bpc = "set booted"
  /\ IF state = "booting" THEN state' = "booted" /\ bpc' = "set ready"
     ELSE UNCHANGED state /\ bpc' = "idle"
  /\ UNCHANGED <<extVars, runVars, boots, waitVars, stopVars>>

SetReady ==
  /\ bpc = "set ready"
  /\ IF state = "booted" THEN state' = "ready" /\ bpc' = "swap"
     ELSE UNCHANGED state /\ bpc' = "idle"
  /\ UNCHANGED <<extVars, runVars, boots, waitVars, stopVars>>

\* The callbacks are copied and stay in the list.
SwapCallbacks_Copies ==
  /\ bpc = "swap"
  /\ batch' = waiting
  /\ bpc' = "callbacks"
  /\ UNCHANGED <<extVars, state, runVars, boots, waiting, wpc, ran, stopVars>>

SwapCallbacks ==
  /\ bpc = "swap"
  /\ batch' = waiting /\ waiting' = <<>>
  /\ bpc' = "callbacks"
  /\ UNCHANGED <<extVars, state, runVars, boots, wpc, ran, stopVars>>

\* What a callback raises leaves boot() at once, with the callbacks after it lost.
RunCallbacks ==
  /\ bpc = "callbacks"
  /\ \/ batch = <<>> /\ bpc' = "idle" /\ UNCHANGED <<batch, ran>>
     \/ /\ batch # <<>>
        /\ ran' = [ran EXCEPT ![Head(batch)] = @ + 1]
        /\ \/ batch' = Tail(batch) /\ UNCHANGED bpc
           \/ env.raises /\ batch' = <<>> /\ bpc' = "idle"
  /\ UNCHANGED <<extVars, state, runVars, boots, waiting, wpc, stopVars>>

\* The cleanup of a failed boot, after which boot() raises: the extensions and
\* the lifecycle are not part of it.
CleanupScheduler ==
  /\ bpc = "cleanup 1" /\ schedulerOn' = FALSE /\ bpc' = "cleanup 2"
  /\ UNCHANGED <<extVars, state, busOpen, asyncOn, tasksOpen, services, boots, waitVars, stopVars>>

CleanupHosted ==
  /\ bpc = "cleanup 2" /\ services' = {} /\ bpc' = "cleanup 3"
  /\ UNCHANGED <<extVars, state, busOpen, asyncOn, schedulerOn, tasksOpen, boots, waitVars, stopVars>>

CleanupAsync ==
  /\ bpc = "cleanup 3" /\ asyncOn' = FALSE /\ bpc' = "idle"
  /\ UNCHANGED <<extVars, state, busOpen, schedulerOn, tasksOpen, services, boots, waitVars, stopVars>>

-----------------------------------------------------------------------------
(* EngineLifecycle.when_ready() *)

WhenReady(w) ==
  /\ wpc[w] = "idle"
  /\ IF state = "ready"
     THEN ran' = [ran EXCEPT ![w] = @ + 1] /\ wpc' = [wpc EXCEPT ![w] = "done"]
     ELSE wpc' = [wpc EXCEPT ![w] = "append"] /\ UNCHANGED ran
  /\ UNCHANGED <<extVars, state, runVars, bootVars, waiting, batch, stopVars>>

WhenReadyAppends(w) ==
  /\ wpc[w] = "append"
  /\ waiting' = Append(waiting, w)
  /\ wpc' = [wpc EXCEPT ![w] = "done"]
  /\ UNCHANGED <<extVars, state, runVars, bootVars, batch, ran, stopVars>>

-----------------------------------------------------------------------------
(* App.stop() *)

\* The state is tested first and set afterwards.
StopBegins(s) ==
  /\ spc[s] = "idle" /\ state \notin {"stopping", "stopped"}
  /\ env.alone => bpc = "idle" /\ NoStop
  /\ spc' = [spc EXCEPT ![s] = "mark"]
  /\ UNCHANGED <<extVars, state, runVars, bootVars, waitVars, step, live>>

LaunchStep(s, n) ==
  /\ step' = [step EXCEPT ![s] = n]
  /\ live' = [live EXCEPT ![s] = @ \cup {n}]

\* set_stopping() raises when another stop() has ended in the meantime.
StopMarks(s) ==
  /\ spc[s] = "mark"
  /\ \/ /\ state = "stopped"
        /\ spc' = [spc EXCEPT ![s] = "returned"]
        /\ UNCHANGED <<state, step, live>>
     \/ /\ state # "stopped"
        /\ state' = "stopping"
        /\ spc' = [spc EXCEPT ![s] = "steps"]
        /\ LaunchStep(s, 1)
  /\ UNCHANGED <<extVars, runVars, bootVars, waitVars>>

\* A step is waited for as long as it takes.
StepReturns_NoTimeout(s) ==
  /\ spc[s] = "steps" /\ step[s] \notin live[s]
  /\ \/ /\ step[s] < Len(Steps) /\ LaunchStep(s, step[s] + 1)
        /\ UNCHANGED spc
     \/ /\ step[s] = Len(Steps) /\ spc' = [spc EXCEPT ![s] = "end"]
        /\ UNCHANGED <<step, live>>
  /\ UNCHANGED <<extVars, state, runVars, bootVars, waitVars>>

\* The loop over the steps goes on once more than there are steps.
StepReturns_OneMore(s) ==
  /\ spc[s] = "steps" /\ (step[s] \notin live[s] \/ env.hangs)
  /\ \/ /\ step[s] <= Len(Steps) /\ LaunchStep(s, step[s] + 1)
        /\ UNCHANGED spc
     \/ /\ step[s] > Len(Steps) /\ spc' = [spc EXCEPT ![s] = "end"]
        /\ UNCHANGED <<step, live>>
  /\ UNCHANGED <<extVars, state, runVars, bootVars, waitVars>>

\* _run_stop_step() returns: the step's thread has ended or, past the timeout,
\* is left to itself.
StepReturns(s) ==
  /\ spc[s] = "steps" /\ (step[s] \notin live[s] \/ env.hangs)
  /\ \/ /\ step[s] < Len(Steps) /\ LaunchStep(s, step[s] + 1)
        /\ UNCHANGED spc
     \/ /\ step[s] = Len(Steps) /\ spc' = [spc EXCEPT ![s] = "end"]
        /\ UNCHANGED <<step, live>>
  /\ UNCHANGED <<extVars, state, runVars, bootVars, waitVars>>

\* set_stopped() is allowed from every state.
StopEnds(s) ==
  /\ spc[s] = "end"
  /\ state' = "stopped"
  /\ spc' = [spc EXCEPT ![s] = "returned"]
  /\ UNCHANGED <<extVars, runVars, bootVars, waitVars, step, live>>

(* The step threads *)

StepEnds(s, name) ==
  \E n \in live[s] : Steps[n] = name /\ live' = [live EXCEPT ![s] = @ \ {n}]

SchedulerStops(s) ==
  /\ StepEnds(s, "scheduler") /\ schedulerOn' = FALSE
  /\ UNCHANGED <<extVars, state, busOpen, asyncOn, tasksOpen, services, bootVars, waitVars, spc, step>>

HostedStops(s) ==
  /\ StepEnds(s, "hosted services") /\ services' = {}
  /\ UNCHANGED <<extVars, state, busOpen, asyncOn, schedulerOn, tasksOpen, bootVars, waitVars, spc, step>>

\* The step is skipped.
ExtensionsStop_Skips(s) ==
  /\ StepEnds(s, "extensions")
  /\ UNCHANGED <<extVars, state, runVars, bootVars, waitVars, spc, step>>

ExtensionsStop(s) ==
  /\ 3 \in live[s]
  /\ \/ StopAndDispose(s) /\ UNCHANGED live
     \/ ShutDown(s) /\ IF dpc'[s] = "idle" THEN StepEnds(s, "extensions") ELSE UNCHANGED live
  /\ UNCHANGED <<state, runVars, bootVars, waitVars, spc, step>>

TasksShutDown(s) ==
  /\ StepEnds(s, "task manager") /\ tasksOpen' = FALSE
  /\ UNCHANGED <<extVars, state, busOpen, asyncOn, schedulerOn, services, bootVars, waitVars, spc, step>>

AsyncStops(s) ==
  /\ StepEnds(s, "async runtime") /\ asyncOn' = FALSE
  /\ UNCHANGED <<extVars, state, busOpen, schedulerOn, tasksOpen, services, bootVars, waitVars, spc, step>>

EventBusStops(s) ==
  /\ StepEnds(s, "event bus") /\ busOpen' = FALSE
  /\ UNCHANGED <<extVars, state, asyncOn, schedulerOn, tasksOpen, services,
                 bootVars, waitVars, spc, step>>

-----------------------------------------------------------------------------
Boot ==
  \/ AsyncStarts \/ ExtensionsBegin \/ ExtensionsStep \/ ExtensionsEnd
  \/ HostedStart \/ SchedulerStarts \/ SetBooted \/ SetReady \/ SwapCallbacks \/ RunCallbacks
  \/ CleanupScheduler \/ CleanupHosted \/ CleanupAsync
StopProgress(s) == StopMarks(s) \/ StepReturns(s) \/ StopEnds(s)
StepThread(s) ==
  \/ SchedulerStops(s) \/ HostedStops(s) \/ ExtensionsStop(s) \/ TasksShutDown(s) \/ AsyncStops(s)
  \/ EventBusStops(s)

Next ==
  \/ \E e \in Ext : Use(e)
  \/ BootBegins \/ Boot
  \/ \E w \in Waiter \cap env.callers : WhenReady(w) \/ WhenReadyAppends(w)
  \/ \E s \in Stopper \cap env.callers : StopBegins(s) \/ StopProgress(s) \/ StepThread(s)

Spec == Init /\ [][Next]_vars

\* The thread in App.stop() runs, and its joins time out.  The threads of the
\* steps need not get anywhere: a hook may hang.
FairSpec == Spec /\ \A s \in Stopper : WF_vars(StopProgress(s))

-----------------------------------------------------------------------------
\* is_ready: "Booted **and** everything that should have come up did", whatever
\* boots failed or were stopped before.  (A stop() that overlaps a boot can take
\* it all down again, and an extension used late is initialized and not started.)
ReadyIsUp ==
  state = "ready" /\ env.alone /\ ~env.late =>
    /\ asyncOn /\ schedulerOn /\ services = Service
    /\ \A e \in ToSet(registered) \cap Enabled : phase[e] = "started"

\* App.stop(): "Stops the scheduler, hosted services, extensions, task manager,
\* and async runtime".  A stopped app has nothing of these running, however
\* the boots before it ended.
StoppedIsDown ==
  state = "stopped" /\ env.alone /\ "other" \notin env.faults =>
    /\ ~asyncOn /\ ~schedulerOn /\ ~tasksOpen /\ ~busOpen /\ services = {}
    /\ \A e \in Ext : phase[e] # "started"

\* What the lifecycle says of the engine is so.
StateIsTrue == TypeOK /\ ReadyIsUp /\ StoppedIsDown

\* "`App.stop()` has to always complete", also when hooks hang and while a boot
\* is under way.
StopCompletes == \A s \in Stopper : (env.hangs /\ spc[s] = "mark") ~> spc[s] = "returned"

\* when_ready(): "Callbacks run once", however when_ready(), boot() and stop()
\* interleave and however often the app is booted.
CallbacksRunOnce == \A w \in Waiter : ran[w] <= 1

\* when_ready(): "Runs `callback` when the engine is ready, immediately if it
\* already is".
NoCallbackStranded ==
  state = "ready" /\ bpc = "idle" => \A w \in Waiter : wpc[w] = "done" => ran[w] = 1

\* The cleanup in boot(): "Clean up what was started".
FailedBootCleansUp ==
  state = "booting" /\ bpc = "idle" =>
    /\ ~asyncOn /\ ~schedulerOn /\ services = {}
    /\ \A e \in Ext : phase[e] # "started"
=============================================================================
