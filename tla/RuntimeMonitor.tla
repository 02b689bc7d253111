--------------------------- MODULE RuntimeMonitor ---------------------------
(***************************************************************************)
(* The RuntimeMonitor as a bus observer: threads emit, handlers come, go   *)
(* and fail, while the monitor is started, stopped and reset, by its owner *)
(* or by the DiagnosticsExtension, which logs what it found at shutdown.   *)
(* What another observer raises is contained, and changes nothing here.    *)
(***************************************************************************)
EXTENDS Integers, Sequences, FiniteSets

CONSTANTS Emitters,   \* threads that emit
          EventNames,    \* event names
          Expected,  \* expected_unheard
          Engine,    \* events the engine itself declares
          MaxEmits,  \* bound: emits
          MaxMonitorCalls   \* bound: calls that change observers, handlers or counts

ASSUME EmittersAssumption == IsFiniteSet(Emitters)

VARIABLES
    observers,  \* how often the monitor is among _observers
    handlers,   \* [event -> handlers subscribed: 0 or 1]
    emitterPc,         \* [thread -> <<what it does, the event it emits>>]
    telling,    \* how often the monitor is in the tuple the thread loops over
    monitorLock,       \* the threads that hold the monitor's _lock
    entry,      \* the count a thread has read under the lock
    counts,     \* <<"R1" or "R2", event>> -> entry.count
    due,        \* what counts has to be once no thread is telling
    emits, monitorCalls,
    phase,      \* of the extension: "new", "up", "stopped" or "down"
    tellingAtStop,       \* what threads were telling the monitor when it was stopped
    logged      \* what shutdown() logged

threads == <<emitterPc, telling, monitorLock, entry>>
ending == <<phase, tellingAtStop, logged>>
monitorVars == <<observers, handlers, threads, counts, due, emits, monitorCalls, ending>>

Checks == {"R1", "R2"} \X EventNames
Resting == <<"idle", "">>

MonitorInit ==
    /\ observers = 0 /\ handlers \in [EventNames -> {0, 1}]
    /\ emitterPc = [t \in Emitters |-> Resting] /\ telling = [t \in Emitters |-> 0]
    /\ monitorLock = {} /\ entry = [t \in Emitters |-> 0]
    /\ counts = [c \in Checks |-> 0] /\ due = [c \in Checks |-> 0]
    /\ emits = 0 /\ monitorCalls = 0
    /\ phase = "new" /\ tellingAtStop = {} /\ logged = {}

Called == monitorCalls < MaxMonitorCalls /\ monitorCalls' = monitorCalls + 1 /\ UNCHANGED <<threads, emits>>

Added_Twice == observers + 1

\* add_bus_observer(): once, however often start() is called.
Added == IF observers = 0 THEN 1 ELSE observers

\* What comes of a start() after the extension's shutdown nobody logs.
StartMonitor ==
    /\ Called /\ observers' = Added
    /\ tellingAtStop' = IF phase \in {"stopped", "down"} THEN Checks ELSE tellingAtStop
    /\ UNCHANGED <<handlers, counts, due, phase, logged>>

Removed_NotYet == observers

\* remove_bus_observer()
Removed == 0

\* What was seen is kept, and a thread that has read the tuple still tells.
StopMonitor == Called /\ observers' = Removed /\ UNCHANGED <<handlers, counts, due, ending>>

\* reset(), under the lock: what is being told counts from zero.
ResetCounts ==
    /\ monitorLock = {} /\ Called
    /\ counts' = [c \in Checks |-> 0]
    /\ due' = [c \in Checks |-> Cardinality({t \in Emitters : emitterPc[t] = c /\ telling[t] > 0})]
    /\ UNCHANGED <<observers, handlers, ending>>

\* on() and off() of the event's handler.
Subscribe(e) ==
    /\ Called
    /\ handlers' = [handlers EXCEPT ![e] = 1 - @]
    /\ UNCHANGED <<observers, counts, due, ending>>
----------------------------------------------------------------------------
\* findings(): what the report names, the engine's own unheard events left out.
Findings == {c \in Checks : counts[c] > 0 /\ ~(c[1] = "R1" /\ c[2] \in Engine)}

\* The extension's boot() starts the monitor: what is emitted during boot counts.
Boot ==
    /\ phase = "new" /\ phase' = "up"
    /\ Called /\ observers' = Added
    /\ UNCHANGED <<handlers, counts, due, tellingAtStop, logged>>

\* Its shutdown() stops the monitor first ...
ShutdownStops ==
    /\ phase = "up" /\ phase' = "stopped"
    /\ Called /\ observers' = Removed
    /\ tellingAtStop' = {emitterPc[t] : t \in {x \in Emitters : telling[x] > 0}}
    /\ UNCHANGED <<handlers, counts, due, logged>>

\* ... then reads the report under the lock, and logs it unless it is empty.
ShutdownReports ==
    /\ phase = "stopped" /\ monitorLock = {} /\ phase' = "down"
    /\ logged' = Findings
    /\ UNCHANGED <<observers, handlers, threads, counts, due, emits, monitorCalls, tellingAtStop>>
----------------------------------------------------------------------------
\* A thread loops over the observers that are registered when it begins; the
\* monitor is interested in what failed, and in what nobody hears or expects.
Notify(t, what, e) ==
    LET told == IF what = "R2" \/ (what = "R1" /\ e \notin Expected) THEN observers ELSE 0 IN
    /\ emitterPc' = [emitterPc EXCEPT ![t] = <<what, e>>]
    /\ telling' = [telling EXCEPT ![t] = told]
    /\ due' = [c \in Checks |-> IF c = <<what, e>> THEN due[c] + (IF told > 0 THEN 1 ELSE 0) ELSE due[c]]

\* emit(): the observers are told how many handlers there are before those run.
EmitUnderWatch(t, e) ==
    /\ emitterPc[t] = Resting /\ emits < MaxEmits
    /\ emits' = emits + 1
    /\ Notify(t, IF handlers[e] = 0 THEN "R1" ELSE "heard", e)
    /\ UNCHANGED <<observers, handlers, monitorLock, entry, counts, monitorCalls, ending>>

Unlocked_Always == TRUE

\* with self._lock
Unlocked == monitorLock = {}

\* event_emitted() and handler_failed(): the entry's count is read ...
TellMonitor(t) ==
    /\ telling[t] > 0 /\ t \notin monitorLock /\ Unlocked
    /\ monitorLock' = monitorLock \cup {t}
    /\ entry' = [entry EXCEPT ![t] = counts[emitterPc[t]]]
    /\ UNCHANGED <<observers, handlers, emitterPc, telling, counts, due, emits, monitorCalls, ending>>

\* ... and written back.
Count(t) ==
    /\ t \in monitorLock
    /\ counts' = [counts EXCEPT ![emitterPc[t]] = entry[t] + 1]
    /\ monitorLock' = monitorLock \ {t}
    /\ telling' = [telling EXCEPT ![t] = @ - 1]
    /\ UNCHANGED <<observers, handlers, emitterPc, entry, due, emits, monitorCalls, ending>>

\* The handler raises: report_handler_failure() tells the observers.
HandlerFails(t) ==
    /\ emitterPc[t][1] = "heard"
    /\ Notify(t, "R2", emitterPc[t][2])
    /\ UNCHANGED <<observers, handlers, monitorLock, entry, counts, emits, monitorCalls, ending>>

EmitEnds(t) ==
    /\ emitterPc[t] # Resting /\ telling[t] = 0
    /\ emitterPc' = [emitterPc EXCEPT ![t] = Resting]
    /\ UNCHANGED <<observers, handlers, telling, monitorLock, entry, counts, due, emits, monitorCalls, ending>>

MonitorNext ==
    \/ StartMonitor \/ StopMonitor \/ ResetCounts \/ Boot \/ ShutdownStops \/ ShutdownReports
    \/ \E e \in EventNames : Subscribe(e)
    \/ \E t \in Emitters : \/ \E e \in EventNames : EmitUnderWatch(t, e)
                          \/ TellMonitor(t) \/ Count(t) \/ HandlerFails(t) \/ EmitEnds(t)

MonitorSpec == MonitorInit /\ [][MonitorNext]_monitorVars
----------------------------------------------------------------------------
\* Once no thread is telling the monitor, it has counted each emit that nobody
\* heard and each handler that failed exactly once, if it was among the
\* observers at the time and not reset since, however calls overlap; and the
\* report names no event that was expected to be unheard.
CountsAreExact ==
    (\A t \in Emitters : telling[t] = 0) =>
        counts = due /\ \A c \in Findings : c[1] = "R2" \/ c[2] \notin Expected

\* What the report names after the extension's shutdown, but its log does not,
\* was being told by an emitter that had begun before the monitor was stopped.
NothingUnlogged == phase = "down" => Findings \ logged \subseteq tellingAtStop

\* What the monitor counts and what is logged of it.
MonitorKept == CountsAreExact /\ NothingUnlogged
=============================================================================
