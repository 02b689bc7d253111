----------------------------- MODULE UiThread ------------------------------
(***************************************************************************)
(* What guards the GUI thread: @ui_mutator, through which other threads    *)
(* reach the objects that live there, the scan for methods that lack it,   *)
(* and UIWatchdog, whose thread looks for a heartbeat while the event loop *)
(* may be blocked.                                                         *)
(***************************************************************************)
EXTENDS Integers, Sequences, FiniteSets

CONSTANTS Workers,   \* threads that call mutators
          Methods,   \* methods of a view model, each the set of what it is:
                     \* "named" like a mutator, "mutator", "slot", "optout"
          Threshold, \* freeze_threshold_sec
          MaxTime,   \* bound: the clock
          MaxMutations,  \* bound: calls of mutators
          MaxStarts  \* bound: start() calls

ASSUME WatchAssumption == Threshold \in Nat /\ MaxStarts \in Nat

Monitors == 1 .. MaxStarts

VARIABLES
    now, blocked,  \* the clock, and whether the GUI thread is busy
    method,        \* the method that is called
    dev,           \* the process-wide dev mode
    posted,         \* calls marshalled to the GUI thread: <<caller, number>>
    performed,           \* the calls that ran, in order
    mutations,         \* calls made, with what became of them: "ran", "raised", "queued", "stray"
    offThread,     \* _off_thread_mutation_count
    watching,       \* _is_running
    beat, frozen,  \* _last_heartbeat_time and _is_frozen
    monitor,       \* [monitor thread -> where its loop is]
    stopping,      \* does stop() wait for the monitor it started last?
    starts, count, \* start() calls, and freeze_count
    gaps,          \* how often no heartbeat came for longer than the threshold
    overtaken      \* a heartbeat came, or a stop() gave up, at a bad moment

mutators == <<method, dev, posted, performed, mutations, offThread>>
watch == <<watching, beat, frozen, monitor, stopping, starts, count, gaps, overtaken>>
guiVars == <<now, blocked, mutators, watch>>

GuiInit ==
    /\ now = 0 /\ blocked = FALSE
    /\ method \in Methods /\ dev \in BOOLEAN
    /\ posted = <<>> /\ performed = <<>> /\ mutations = <<>> /\ offThread = 0
    /\ watching = FALSE /\ beat = 0 /\ frozen = FALSE
    /\ monitor = [m \in Monitors |-> "none"] /\ stopping = FALSE
    /\ starts = 0 /\ count = 0 /\ gaps = 0 /\ overtaken = FALSE

\* The GUI thread is in its event loop, and not in a join either.
Responsive == ~blocked /\ ~stopping

Late == now - beat > Threshold

Tick ==
    /\ now < MaxTime
    /\ now' = now + 1
    /\ gaps' = gaps + (IF now' - beat = Threshold + 1 THEN 1 ELSE 0)
    /\ UNCHANGED <<blocked, mutators, watching, beat, frozen, monitor, stopping, starts, count, overtaken>>

\* A slot that takes long, or returns.
Block == ~stopping /\ blocked' = ~blocked /\ UNCHANGED <<now, mutators, watch>>
----------------------------------------------------------------------------
Marshalled_Prepends(c) == <<c>> \o posted

\* QTimer.singleShot(0, self, ...)
Marshalled(c) == Append(posted, c)

Noted(c, how) == mutations' = Append(mutations, <<c, how>>)

\* What the wrapper's mark says.
Guarded == "mutator" \in method

\* not_a_ui_mutator()
OptedOut == "optout" \in method

\* _registered_slot_names(): Qt queues what reaches a slot through a signal of
\* another thread; a plain call of it is no such thing.
IsSlot == "slot" \in method

Unprotected_Marked == "named" \in method /\ ~IsSlot /\ ~OptedOut /\ Guarded

\* unprotected_mutators()
Unprotected == "named" \in method /\ ~OptedOut /\ ~Guarded /\ ~IsSlot

\* The wrapper: on the object's own thread the call passes straight through, and
\* without a wrapper it does so on any thread.
CallMutator(t) ==
    /\ Len(mutations) < MaxMutations
    /\ LET c == <<t, Len(mutations) + 1>> IN
         IF t = "gui"
         THEN /\ Responsive
              /\ performed' = Append(performed, c) /\ Noted(c, "ran") /\ UNCHANGED <<posted, offThread>>
         ELSE IF ~Guarded
         THEN performed' = Append(performed, c) /\ Noted(c, "stray") /\ UNCHANGED <<posted, offThread>>
         ELSE /\ offThread' = offThread + 1 /\ UNCHANGED performed
              /\ IF dev THEN Noted(c, "raised") /\ UNCHANGED posted
                 ELSE Noted(c, "queued") /\ posted' = Marshalled(c)
    /\ UNCHANGED <<now, blocked, method, dev, watch>>

RunQueued ==
    /\ Responsive /\ posted # <<>>
    /\ performed' = Append(performed, Head(posted)) /\ posted' = Tail(posted)
    /\ UNCHANGED <<now, blocked, method, dev, mutations, offThread, watch>>
----------------------------------------------------------------------------
StartWatch ==
    /\ ~watching /\ Responsive /\ starts < MaxStarts
    /\ starts' = starts + 1
    /\ watching' = TRUE /\ frozen' = FALSE /\ beat' = now
    /\ monitor' = [monitor EXCEPT ![starts'] = "sleeping"]
    /\ UNCHANGED <<now, blocked, mutators, stopping, count, gaps, overtaken>>

\* stop() joins the monitor for two intervals ...
StopWatch ==
    /\ watching /\ Responsive
    /\ watching' = FALSE /\ stopping' = TRUE
    /\ UNCHANGED <<now, blocked, mutators, beat, frozen, monitor, starts, count, gaps, overtaken>>

\* ... and forgets it, even when its callback has not returned by then.
StopWatchReturns ==
    /\ stopping /\ monitor[starts] \in {"ended", "callback"}
    /\ stopping' = FALSE
    /\ overtaken' = (overtaken \/ monitor[starts] = "callback")
    /\ UNCHANGED <<now, blocked, mutators, watching, beat, frozen, monitor, starts, count, gaps>>

\* record_heartbeat(), when the timer's slot runs.
Heartbeat ==
    /\ watching /\ Responsive
    /\ beat' = now /\ frozen' = FALSE
    /\ overtaken' = (overtaken \/ \E m \in Monitors : monitor[m] = "late")
    /\ UNCHANGED <<now, blocked, mutators, watching, monitor, stopping, starts, count, gaps>>

Unreported_EveryTime == Late

\* A freeze is reported once.
Unreported == Late /\ ~frozen

\* _monitor_loop(): the time is read under the lock ...
CheckBeat(m) ==
    /\ monitor[m] = "sleeping"
    /\ monitor' = [monitor EXCEPT ![m] = IF ~watching THEN "ended"
                                         ELSE IF Unreported THEN "late" ELSE "sleeping"]
    /\ UNCHANGED <<now, blocked, mutators, watching, beat, frozen, stopping, starts, count, gaps, overtaken>>

\* ... and the flag set under the lock taken again, ...
SetFrozen(m) ==
    /\ monitor[m] = "late"
    /\ frozen' = TRUE /\ monitor' = [monitor EXCEPT ![m] = "counting"]
    /\ UNCHANGED <<now, blocked, mutators, watching, beat, stopping, starts, count, gaps, overtaken>>

\* ... then the freeze is counted, and the callback told.
HandleFreeze(m) ==
    /\ monitor[m] = "counting"
    /\ count' = count + 1 /\ monitor' = [monitor EXCEPT ![m] = "callback"]
    /\ UNCHANGED <<now, blocked, mutators, watching, beat, frozen, stopping, starts, gaps, overtaken>>

CallbackReturns(m) ==
    /\ monitor[m] = "callback"
    /\ monitor' = [monitor EXCEPT ![m] = IF watching THEN "sleeping" ELSE "ended"]
    /\ UNCHANGED <<now, blocked, mutators, watching, beat, frozen, stopping, starts, count, gaps, overtaken>>

GuiNext ==
    \/ Tick \/ Block \/ RunQueued \/ \E t \in Workers \cup {"gui"} : CallMutator(t)
    \/ StartWatch \/ StopWatch \/ StopWatchReturns \/ Heartbeat
    \/ \E m \in Monitors : CheckBeat(m) \/ SetFrozen(m) \/ HandleFreeze(m) \/ CallbackReturns(m)

GuiSpec == GuiInit /\ [][GuiNext]_guiVars
----------------------------------------------------------------------------
\* No freeze is counted that was not one, nor one twice, and one that is over
\* is not kept as going on -- unless a heartbeat came between the monitor's two
\* locks, or a stop() gave up on a monitor that went on with the next start().
FreezesAreReal ==
    ~overtaken =>
        /\ count <= gaps
        /\ frozen /\ watching => Late

\* What other threads asked of a guarded method runs on the GUI thread, in the
\* order one thread asked, nothing twice; each such call was counted, and in dev
\* mode none ran.
MutatorsRunInOrder ==
    Guarded =>
        /\ offThread = Cardinality({i \in DOMAIN mutations : mutations[i][1][1] # "gui"})
        /\ \A i, j \in DOMAIN performed :
             i < j => performed[i] # performed[j] /\ (performed[i][1] = performed[j][1] => performed[i][2] < performed[j][2])
        /\ \A i \in DOMAIN performed : dev => performed[i][1] = "gui"
        /\ posted = <<>> => Len(performed) = Cardinality({i \in DOMAIN mutations : mutations[i][2] # "raised"})

\* A method with a mutator's name that ran on the thread of a plain caller is one
\* the scan reports, a slot, or one that was opted out; and the scan reports no
\* method whose calls from other threads are caught.
StraysAreReported ==
    /\ \A i \in DOMAIN mutations :
         mutations[i][2] = "stray" /\ "named" \in method => Unprotected \/ IsSlot \/ OptedOut
    /\ offThread > 0 => ~Unprotected

\* The GUI thread does what others asked for, and its freezes are told.
UiThreadKept == FreezesAreReal /\ MutatorsRunInOrder /\ StraysAreReported
=============================================================================
