---------------------------- MODULE StateConsole ----------------------------
(***************************************************************************)
(* StateConsoleExtension and its server: clients ask for snapshots, which  *)
(* are collected section by section on the server's thread while the       *)
(* application goes on.                                                    *)
(***************************************************************************)
EXTENDS Integers, Sequences, SequencesExt, FiniteSets

CONSTANTS Sources,     \* the parts of the application that change
          Interval,    \* _min_interval_seconds, 0 when every request is to be answered anew
          MaxClock,     \* bound: the clock
          MaxRequests, \* bound: frames clients send
          MaxActivity  \* bound: changes of the application

VARIABLES
    clock,        \* time.monotonic()
    server,     \* its thread: "none", "starting", "listening", "exited"
    started,    \* has boot() reached readiness, how _start() ended, and what shutdown() left
    parts,       \* [source -> how often it has changed]
    attached,   \* the machines watched when the collectors were built
    history,    \* [time -> part at that time]
    requests,   \* frames not answered yet, by the time they were sent
    collecting, \* what has been read so far, or NotCollecting
    began,      \* when the collection began
    lastSnapshot,      \* _last_snapshot and _last_collected_at
    consoleAnswers     \* <<time of the request, time of the answer, snapshot>>

consoleVars == <<clock, server, started, parts, attached, history, requests, collecting, began, lastSnapshot, consoleAnswers>>

\* What each section reads, in this order: the counts of one section are no
\* more taken together than those of two.
LifecycleCollector == <<"extensions", "services", "jobs">>
EventCollector == <<"events", "subscriptions">>
ContainerCollector == <<"registrations", "scopes">>
TaskCollector == <<"tasks">>
ThreadPoolCollector == <<"tasks", "pool">>
BoundedStructuresCollector == <<"recorder", "tasks", "subscriptions">>
ConfigCollector == <<"config">>
SignalsCollector == <<"letters", "machines", "health">>

\* collect(): every section, in the order of the snapshot's fields.
Reads ==
    LifecycleCollector \o EventCollector \o ContainerCollector \o TaskCollector
        \o ThreadPoolCollector \o BoundedStructuresCollector \o ConfigCollector \o SignalsCollector

Sections == ToSet(Reads)

ASSUME ConsoleAssumption == Sources \subseteq Sections /\ Interval \in Nat

NotCollecting == <<-1>>
NoSnapshot == [at |-> -1, snapshot |-> <<>>]
Asked == Cardinality(consoleAnswers) + Len(requests)

ConsoleInit ==
    /\ clock = 0 /\ server = "none" /\ started = "no"
    /\ parts = [s \in Sections |-> 0] /\ attached = 0
    /\ history = <<parts>>
    /\ requests = <<>> /\ collecting = NotCollecting /\ began = 0
    /\ lastSnapshot = NoSnapshot /\ consoleAnswers = {}

app == <<parts, history>>
request == <<requests, collecting, began, lastSnapshot, consoleAnswers>>

ClockTicks ==
    /\ clock < MaxClock
    /\ clock' = clock + 1
    /\ history' = Append(history, parts)
    /\ UNCHANGED <<server, started, parts, attached, request>>

\* A task ends, a job is added, ... or a machine is watched, which a readiness
\* callback may do before or after _start().
Activity(s) ==
    /\ FoldFunction(LAMBDA x, y : x + y, 0, parts) < MaxActivity
    /\ parts' = [parts EXCEPT ![s] = @ + 1]
    /\ UNCHANGED <<clock, server, started, attached, history, request>>

\* What watch_*() adds to is the container the collector was handed.
Seen_AtStart(s) == IF s = "machines" THEN attached ELSE parts[s]

Seen(s) == parts[s]
----------------------------------------------------------------------------
\* _start(), when the engine is ready: collectors are built, the server starts.
StartConsole ==
    /\ started = "no"
    /\ started' = "waiting" /\ server' = "starting"
    /\ attached' = parts["machines"]
    /\ UNCHANGED <<clock, app, request>>

Listen ==
    /\ server = "starting"
    /\ server' = "listening"
    /\ UNCHANGED <<clock, started, app, attached, request>>

\* ready_event.wait(): set, or not within two seconds.
Waited ==
    /\ started = "waiting"
    /\ started' = IF server = "listening" THEN "ready" ELSE "unconfirmed"
    /\ UNCHANGED <<clock, server, app, attached, request>>

StopAsked_BeforeReady == FALSE

\* TraceServer.stop() reaches a loop that runs and has made its stop event.
StopAsked == server = "listening"

\* shutdown(): the server is told to stop, joined, and forgotten.
ShutdownConsole ==
    /\ started \in {"ready", "unconfirmed"}
    /\ started' = IF started = "ready" THEN "stopped" ELSE "abandoned"
    /\ server' = IF StopAsked THEN "exited" ELSE server
    /\ UNCHANGED <<clock, app, attached, request>>
----------------------------------------------------------------------------
\* Any frame asks for a snapshot.
Request ==
    /\ server = "listening" /\ Asked < MaxRequests
    /\ requests' = Append(requests, clock)
    /\ UNCHANGED <<clock, server, started, app, attached, collecting, began, lastSnapshot, consoleAnswers>>

Recent_OffByOne == lastSnapshot.at # -1 /\ clock - lastSnapshot.at <= Interval

\* collect(): younger than the interval?
Recent == lastSnapshot.at # -1 /\ clock - lastSnapshot.at < Interval

Answered(snapshot) ==
    /\ consoleAnswers' = consoleAnswers \cup {<<Head(requests), clock, snapshot>>}
    /\ requests' = Tail(requests)

AnswerFromCache ==
    /\ server = "listening" /\ requests # <<>> /\ collecting = NotCollecting
    /\ Recent
    /\ Answered(lastSnapshot.snapshot)
    /\ UNCHANGED <<clock, server, started, app, attached, collecting, began, lastSnapshot>>

BeginCollect ==
    /\ server = "listening" /\ requests # <<>> /\ collecting = NotCollecting
    /\ ~Recent
    /\ collecting' = <<>> /\ began' = clock
    /\ UNCHANGED <<clock, server, started, app, attached, requests, lastSnapshot, consoleAnswers>>

Collecting == collecting # NotCollecting
NextRead == Reads[Len(collecting) + 1]

CollectNext ==
    /\ server = "listening" /\ Collecting /\ Len(collecting) < Len(Reads)
    /\ collecting' = Append(collecting, Seen(NextRead))
    /\ UNCHANGED <<clock, server, started, app, attached, requests, began, lastSnapshot, consoleAnswers>>

\* A watch_state_machine() while the machines are iterated over: collect() raises
\* and that client's connection ends; nothing is cached.
CollectRaises ==
    /\ server = "listening" /\ Collecting /\ Len(collecting) < Len(Reads)
    /\ NextRead = "machines"
    /\ parts["machines"] < MaxActivity /\ parts' = [parts EXCEPT !["machines"] = @ + 1]
    /\ requests' = Tail(requests) /\ collecting' = NotCollecting
    /\ UNCHANGED <<clock, server, started, attached, history, began, lastSnapshot, consoleAnswers>>

CollectEnds ==
    /\ server = "listening" /\ Collecting /\ Len(collecting) = Len(Reads)
    /\ lastSnapshot' = [at |-> began, snapshot |-> collecting]
    /\ Answered(collecting)
    /\ collecting' = NotCollecting
    /\ UNCHANGED <<clock, server, started, app, attached, began>>

ConsoleNext ==
    \/ ClockTicks \/ StartConsole \/ Listen \/ Waited \/ ShutdownConsole
    \/ \E s \in Sources : Activity(s)
    \/ Request \/ AnswerFromCache \/ BeginCollect \/ CollectNext \/ CollectRaises \/ CollectEnds

ConsoleSpec == ConsoleInit /\ [][ConsoleNext]_consoleVars
----------------------------------------------------------------------------
\* How much older than the request the last snapshot may be that answers it.
Staleness == IF Interval = 0 THEN 0 ELSE Interval - 1

\* An answer is stale by less than the interval: each reading shows all that had
\* happened, watch_*() calls made after the start included, an interval before
\* the client asked, and nothing that had not happened when it was answered.
AnswersAreFresh ==
    \A a \in consoleAnswers : \A i \in DOMAIN Reads :
        LET limit == a[1] - Staleness IN
        /\ limit >= 0 => a[3][i] >= history[limit + 1][Reads[i]]
        /\ a[3][i] <= parts[Reads[i]]

\* shutdown() leaves no server behind once the server had been seen ready.
ServerIsStopped == started = "stopped" => server = "exited"

\* The console shows the application as it was, and goes when it goes.
ConsoleKept == AnswersAreFresh /\ ServerIsStopped
=============================================================================
