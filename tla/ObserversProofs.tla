--------------------------- MODULE ObserversProofs ---------------------------
(***************************************************************************)
(* What watches an application is right about it, for any constants: the   *)
(* monitor's counts (RuntimeMonitor), the health reports (Health), the     *)
(* console's snapshots and its end (StateConsole), the records a viewer    *)
(* reads (LogViewer).                                                      *)
(***************************************************************************)
EXTENDS Observers, SequenceTheorems, FiniteSetTheorems, TLAPS

(***************************************************************************)
(* RuntimeMonitor                                                          *)
(***************************************************************************)

\* The threads that are telling the monitor of a check.
Telling(c) == {t \in Emitters : emitterPc[t] = c /\ telling[t] > 0}

MonitorTypeInv ==
    /\ observers \in {0, 1} /\ telling \in [Emitters -> {0, 1}]
    /\ handlers \in [EventNames -> {0, 1}]
    /\ emitterPc \in [Emitters -> {Resting} \cup ({"heard"} \X EventNames) \cup Checks]
    /\ monitorLock \subseteq Emitters /\ entry \in [Emitters -> Nat]
    /\ counts \in [Checks -> Nat] /\ due \in [Checks -> Nat]
    /\ phase \in {"new", "up", "stopped", "down"}

\* One thread at a time is between the reading of a count and its writing.
CountInv ==
    /\ \A t, u \in monitorLock : t = u
    /\ \A t \in monitorLock : telling[t] = 1 /\ entry[t] = counts[emitterPc[t]]

\* The monitor is told of checks only, and of no event that may be unheard.
InterestInv ==
    /\ \A t \in Emitters : telling[t] = 1 =>
         emitterPc[t] \in Checks /\ (emitterPc[t][1] = "R1" => emitterPc[t][2] \notin Expected)
    /\ \A c \in Checks : c[1] = "R1" /\ counts[c] > 0 => c[2] \notin Expected

\* A count lacks what is being told.
DueInv == \A c \in Checks : due[c] = counts[c] + Cardinality(Telling(c))

\* After shutdown() stopped the monitor, it hears of nothing new.
StoppedInv ==
    phase \in {"stopped", "down"} =>
        \/ Checks \subseteq tellingAtStop
        \/ observers = 0 /\ \A t \in Emitters : telling[t] = 1 => emitterPc[t] \in tellingAtStop

LoggedInv == phase = "down" => Findings \subseteq logged \cup tellingAtStop

MonitorInv == MonitorTypeInv /\ CountInv /\ InterestInv /\ DueInv /\ StoppedInv /\ LoggedInv

\* Those telling are finitely many; one more, one less, none.
LEMMA TellingCounts ==
    ASSUME NEW c
    PROVE  /\ IsFiniteSet(Telling(c)) /\ Cardinality(Telling(c)) \in Nat
           /\ \A t \in Emitters \ Telling(c) :
                Cardinality(Telling(c) \cup {t}) = Cardinality(Telling(c)) + 1
           /\ \A t \in Telling(c) :
                /\ Cardinality(Telling(c) \ {t}) = Cardinality(Telling(c)) - 1
                /\ Cardinality(Telling(c)) > 0
           /\ (\A t \in Emitters : ~(telling[t] > 0)) => Cardinality(Telling(c)) = 0
<1>1. IsFiniteSet(Telling(c)) /\ Cardinality(Telling(c)) \in Nat
    BY EmittersAssumption, FS_Subset, FS_CardinalityType DEF Telling
<1>2. \A t \in Emitters \ Telling(c) :
         Cardinality(Telling(c) \cup {t}) = Cardinality(Telling(c)) + 1
    BY <1>1, FS_AddElement
<1>3. \A t \in Telling(c) : Cardinality(Telling(c) \ {t}) = Cardinality(Telling(c)) - 1
    BY <1>1, FS_RemoveElement
<1>4. \A t \in Telling(c) : Cardinality(Telling(c)) > 0
    BY <1>1, FS_EmptySet
<1>5. (\A t \in Emitters : ~(telling[t] > 0)) => Telling(c) = {}
    BY DEF Telling
<1> QED
    BY <1>1, <1>2, <1>3, <1>4, <1>5, FS_EmptySet

\* What a thread tells the monitor of, and what it does otherwise.
LEMMA KindsOfWork ==
    /\ Resting \notin Checks /\ Resting[1] = "idle"
    /\ \A c \in Checks : c[1] \in {"R1", "R2"}
    /\ \A c \in {"heard"} \X EventNames : c[1] = "heard" /\ c[2] \in EventNames
<1>1. \A c \in Checks : c[1] \in {"R1", "R2"}
    BY DEF Checks
<1>2. Resting[1] = "idle"
    BY DEF Resting
<1> QED
    BY <1>1, <1>2

LEMMA MonitorStarts == MonitorInit => MonitorInv
<1> SUFFICES ASSUME MonitorInit PROVE MonitorInv
    OBVIOUS
<1>0. Resting \in {Resting} \cup ({"heard"} \X EventNames) \cup Checks
    OBVIOUS
<1>1. MonitorTypeInv
    BY <1>0 DEF MonitorInit, MonitorTypeInv
<1>3. CountInv /\ InterestInv /\ StoppedInv /\ LoggedInv
    BY DEF MonitorInit, CountInv, InterestInv, StoppedInv, LoggedInv
<1>2. DueInv
    BY TellingCounts DEF MonitorInit, DueInv
<1> QED
    BY <1>1, <1>2, <1>3 DEF MonitorInv

\* Calls of the owner and of the extension leave the threads where they are.
LEMMA CallsKeep ==
    ASSUME MonitorInv,
           StartMonitor \/ StopMonitor \/ Boot \/ ShutdownStops \/ ShutdownReports
             \/ \E e \in EventNames : Subscribe(e)
    PROVE  MonitorInv'
<1> USE DEF StartMonitor, StopMonitor, Boot, ShutdownStops, ShutdownReports, Subscribe, Called,
            threads, ending
<1>1. UNCHANGED <<emitterPc, telling, monitorLock, entry, counts, due>> /\ Findings' = Findings
    BY DEF Findings
<1>2. MonitorTypeInv'
    BY DEF MonitorInv, MonitorTypeInv, Added, Removed
<1>3. CountInv' /\ InterestInv' /\ DueInv'
    BY <1>1 DEF MonitorInv, CountInv, InterestInv, DueInv, Telling
<1>4. StoppedInv'
  <2>1. CASE StartMonitor
      BY <2>1 DEF MonitorInv, StoppedInv, MonitorTypeInv
  <2>2. CASE StopMonitor \/ \E e \in EventNames : Subscribe(e)
      BY <2>2 DEF MonitorInv, StoppedInv, Removed
  <2>3. CASE Boot
      BY <2>3 DEF StoppedInv
  <2>4. CASE ShutdownStops
    <3>1. observers' = 0 /\ telling' = telling /\ emitterPc' = emitterPc
        BY <2>4 DEF Removed
    <3>2. \A t \in Emitters : telling[t] = 1 => emitterPc[t] \in tellingAtStop'
        BY <2>4
    <3> QED
        BY <3>1, <3>2 DEF StoppedInv
  <2>5. CASE ShutdownReports
      BY <2>5 DEF MonitorInv, StoppedInv
  <2> QED
      BY <2>1, <2>2, <2>3, <2>4, <2>5
<1>5. LoggedInv'
  <2>1. CASE StartMonitor
    <3>1. Findings \subseteq Checks
        BY DEF Findings
    <3> QED
        BY <1>1, <2>1, <3>1 DEF MonitorInv, LoggedInv
  <2>2. CASE ~StartMonitor
      BY <1>1, <2>2 DEF MonitorInv, LoggedInv
  <2> QED
      BY <2>1, <2>2
<1> QED
    BY <1>2, <1>3, <1>4, <1>5 DEF MonitorInv

\* reset() starts the counts anew, and those of the threads that are telling.
LEMMA ResetKeeps ==
    ASSUME MonitorInv, ResetCounts
    PROVE  MonitorInv'
<1>1. /\ UNCHANGED <<observers, handlers, emitterPc, telling, monitorLock, entry, phase, tellingAtStop, logged>>
      /\ monitorLock = {} /\ counts' = [c \in Checks |-> 0]
      /\ due' = [c \in Checks |-> Cardinality(Telling(c))]
    BY DEF ResetCounts, Called, threads, ending, Telling
<1>2. \A c \in Checks : Cardinality(Telling(c)) \in Nat /\ Telling(c)' = Telling(c)
    BY <1>1, TellingCounts DEF Telling
<1>3. MonitorTypeInv' /\ CountInv' /\ DueInv'
    BY <1>1, <1>2 DEF MonitorInv, MonitorTypeInv, CountInv, DueInv
<1>4. Findings' = {}
    BY <1>1 DEF Findings
<1>5. InterestInv' /\ StoppedInv' /\ LoggedInv'
    BY <1>1, <1>4 DEF MonitorInv, InterestInv, StoppedInv, LoggedInv
<1> QED
    BY <1>3, <1>5 DEF MonitorInv

\* A thread that is not telling begins to loop over the observers.
LEMMA NotifyKeeps ==
    ASSUME MonitorInv, NEW t \in Emitters, NEW e \in EventNames, NEW what \in {"heard", "R1", "R2"},
           Notify(t, what, e), telling[t] = 0,
           UNCHANGED <<observers, handlers, monitorLock, entry, counts, phase, tellingAtStop, logged>>
    PROVE  MonitorInv'
<1> DEFINE told == IF what = "R2" \/ (what = "R1" /\ e \notin Expected) THEN observers ELSE 0
<1>1. /\ emitterPc' = [emitterPc EXCEPT ![t] = <<what, e>>]
      /\ telling' = [telling EXCEPT ![t] = told]
      /\ due' = [c \in Checks |-> IF c = <<what, e>> THEN due[c] + (IF told > 0 THEN 1 ELSE 0) ELSE due[c]]
    BY DEF Notify
<1>2. /\ told \in {0, observers} /\ told \in {0, 1}
      /\ told = 1 => <<what, e>> \in Checks /\ (what = "R1" => e \notin Expected)
    BY DEF MonitorInv, MonitorTypeInv, Checks
<1> HIDE DEF told
<1>3. <<what, e>> \in {Resting} \cup ({"heard"} \X EventNames) \cup Checks
    BY DEF Checks
<1>4. /\ emitterPc' \in [Emitters -> {Resting} \cup ({"heard"} \X EventNames) \cup Checks]
      /\ telling' \in [Emitters -> {0, 1}]
      /\ emitterPc'[t] = <<what, e>> /\ telling'[t] = told
      /\ \A u \in Emitters \ {t} : emitterPc'[u] = emitterPc[u] /\ telling'[u] = telling[u]
    BY <1>1, <1>2, <1>3 DEF MonitorInv, MonitorTypeInv
<1>5. \A c \in Checks : due'[c] = due[c] + (IF c = <<what, e>> /\ told = 1 THEN 1 ELSE 0)
    BY <1>1, <1>2 DEF MonitorInv, MonitorTypeInv
<1>6. MonitorTypeInv'
  <2>1. due' \in [Checks -> Nat]
      BY <1>1 DEF MonitorInv, MonitorTypeInv
  <2> QED
      BY <1>4, <2>1 DEF MonitorInv, MonitorTypeInv
<1>7. t \notin monitorLock
    BY DEF MonitorInv, CountInv
<1>8. CountInv' /\ InterestInv'
    BY <1>2, <1>4, <1>7 DEF MonitorInv, MonitorTypeInv, CountInv, InterestInv
<1>9. DueInv'
  <2> SUFFICES ASSUME NEW c \in Checks PROVE due'[c] = counts[c] + Cardinality(Telling(c)')
      BY DEF DueInv
  <2>0. due[c] = counts[c] + Cardinality(Telling(c)) /\ t \notin Telling(c)
      BY DEF MonitorInv, DueInv, Telling
  <2>1. CASE c = <<what, e>> /\ told = 1
    <3>1. Telling(c)' = Telling(c) \cup {t}
        BY <1>4, <2>1 DEF Telling
    <3> QED
        BY <1>5, <2>0, <2>1, <3>1, TellingCounts DEF MonitorInv, MonitorTypeInv
  <2>2. CASE ~(c = <<what, e>> /\ told = 1)
    <3>1. Telling(c)' = Telling(c)
        BY <1>2, <1>4, <2>0, <2>2 DEF Telling
    <3> QED
        BY <1>5, <2>0, <2>2, <3>1 DEF MonitorInv, MonitorTypeInv
  <2> QED
      BY <2>1, <2>2
<1>10. StoppedInv'
    BY <1>2, <1>4 DEF MonitorInv, StoppedInv
<1>11. LoggedInv'
    BY DEF MonitorInv, LoggedInv, Findings
<1> QED
    BY <1>6, <1>8, <1>9, <1>10, <1>11 DEF MonitorInv

\* A count is read under the lock.
LEMMA TellKeeps ==
    ASSUME MonitorInv, NEW t \in Emitters, TellMonitor(t)
    PROVE  MonitorInv'
<1> USE DEF TellMonitor, ending
<1>1. MonitorTypeInv'
    BY DEF MonitorInv, MonitorTypeInv, InterestInv
<1>2. CountInv'
    BY DEF MonitorInv, MonitorTypeInv, CountInv, Unlocked
<1>3. InterestInv' /\ DueInv' /\ StoppedInv' /\ LoggedInv'
    BY DEF MonitorInv, InterestInv, DueInv, Telling, StoppedInv, LoggedInv, Findings
<1> QED
    BY <1>1, <1>2, <1>3 DEF MonitorInv

\* It is written back, one more, before another thread can read it.
LEMMA CountKeeps ==
    ASSUME MonitorInv, NEW t \in Emitters, Count(t)
    PROVE  MonitorInv'
<1> DEFINE d == emitterPc[t]
<1>1. /\ t \in monitorLock /\ telling[t] = 1 /\ d \in Checks /\ entry[t] = counts[d]
      /\ (d[1] = "R1" => d[2] \notin Expected)
      /\ UNCHANGED <<observers, handlers, emitterPc, entry, due, phase, tellingAtStop, logged>>
    BY DEF MonitorInv, MonitorTypeInv, CountInv, InterestInv, Count, ending
<1>2. /\ counts' = [counts EXCEPT ![d] = @ + 1] /\ monitorLock' = monitorLock \ {t}
      /\ telling' = [telling EXCEPT ![t] = 0]
    BY <1>1 DEF Count, MonitorInv, MonitorTypeInv
<1> HIDE DEF d
<1>3. MonitorTypeInv'
    BY <1>1, <1>2 DEF MonitorInv, MonitorTypeInv
<1>4. monitorLock' = {}
    BY <1>1, <1>2 DEF MonitorInv, CountInv
<1>5. CountInv'
    BY <1>4 DEF CountInv
<1>6. InterestInv'
    BY <1>1, <1>2 DEF MonitorInv, MonitorTypeInv, InterestInv
<1>7. DueInv'
  <2> SUFFICES ASSUME NEW c \in Checks PROVE due[c] = counts'[c] + Cardinality(Telling(c)')
      BY <1>1 DEF DueInv
  <2>0. due[c] = counts[c] + Cardinality(Telling(c)) /\ counts[c] \in Nat
      BY DEF MonitorInv, DueInv, MonitorTypeInv
  <2>1. CASE c = d
    <3>1. t \in Telling(c) /\ Telling(c)' = Telling(c) \ {t}
        BY <1>1, <1>2, <2>1 DEF MonitorInv, MonitorTypeInv, Telling, d
    <3>2. counts'[c] = counts[c] + 1
        BY <1>2, <2>1 DEF MonitorInv, MonitorTypeInv
    <3> QED
        BY <2>0, <3>1, <3>2, TellingCounts
  <2>2. CASE c # d
    <3>1. Telling(c)' = Telling(c)
        BY <1>1, <1>2, <2>2 DEF MonitorInv, MonitorTypeInv, Telling, d
    <3>2. counts'[c] = counts[c]
        BY <1>2, <2>2 DEF MonitorInv, MonitorTypeInv
    <3> QED
        BY <2>0, <3>1, <3>2
  <2> QED
      BY <2>1, <2>2
<1>8. StoppedInv'
    BY <1>1, <1>2 DEF MonitorInv, MonitorTypeInv, StoppedInv
<1>9. LoggedInv'
  <2>1. Findings' \subseteq Findings \cup {d}
      BY <1>2 DEF MonitorInv, MonitorTypeInv, Findings
  <2>2. phase \in {"stopped", "down"} => d \in tellingAtStop
      BY <1>1 DEF MonitorInv, StoppedInv, d
  <2> QED
      BY <1>1, <2>1, <2>2 DEF MonitorInv, LoggedInv
<1> QED
    BY <1>3, <1>5, <1>6, <1>7, <1>8, <1>9 DEF MonitorInv

\* emit() returns.
LEMMA EndKeeps ==
    ASSUME MonitorInv, NEW t \in Emitters, EmitEnds(t)
    PROVE  MonitorInv'
<1>1. /\ telling[t] = 0 /\ emitterPc' = [emitterPc EXCEPT ![t] = Resting]
      /\ UNCHANGED <<observers, handlers, telling, monitorLock, entry, counts, due, phase, tellingAtStop, logged>>
    BY DEF EmitEnds, ending
<1>2. MonitorTypeInv'
    BY <1>1 DEF MonitorInv, MonitorTypeInv
<1>3. \A u \in Emitters : telling[u] = 1 => emitterPc'[u] = emitterPc[u]
    BY <1>1 DEF MonitorInv, MonitorTypeInv
<1>4. CountInv' /\ InterestInv' /\ StoppedInv' /\ LoggedInv'
    BY <1>1, <1>3 DEF MonitorInv, MonitorTypeInv, CountInv, InterestInv, StoppedInv, LoggedInv, Findings
<1>5. \A c : Telling(c)' = Telling(c)
    BY <1>1, <1>3 DEF Telling, MonitorInv, MonitorTypeInv
<1>6. DueInv'
    BY <1>1, <1>5 DEF MonitorInv, DueInv
<1> QED
    BY <1>2, <1>4, <1>6 DEF MonitorInv

\* Each step keeps the monitor's invariant.
LEMMA MonitorStep == MonitorInv /\ [MonitorNext]_monitorVars => MonitorInv'
<1> SUFFICES ASSUME MonitorInv, [MonitorNext]_monitorVars PROVE MonitorInv'
    OBVIOUS
<1>1. CASE \E t \in Emitters, e \in EventNames : EmitUnderWatch(t, e)
  <2>1. PICK t \in Emitters, e \in EventNames : EmitUnderWatch(t, e)
      BY <1>1
  <2>2. Resting \notin Checks /\ telling[t] = 0
      BY <2>1, KindsOfWork DEF EmitUnderWatch, MonitorInv, InterestInv, MonitorTypeInv
  <2> QED
      BY <2>1, <2>2, NotifyKeeps DEF EmitUnderWatch, ending
<1>2. CASE \E t \in Emitters : HandlerFails(t)
  <2>1. PICK t \in Emitters : HandlerFails(t)
      BY <1>2
  <2>2. emitterPc[t][2] \in EventNames /\ telling[t] = 0
      BY <2>1, KindsOfWork DEF HandlerFails, MonitorInv, InterestInv, MonitorTypeInv
  <2> QED
      BY <2>1, <2>2, NotifyKeeps DEF HandlerFails, ending
<1>3. CASE UNCHANGED monitorVars
    BY <1>3 DEF monitorVars, threads, ending, MonitorInv, MonitorTypeInv, CountInv, InterestInv,
                DueInv, Telling, StoppedInv, LoggedInv, Findings
<1> QED
    BY <1>1, <1>2, <1>3, CallsKeep, ResetKeeps, TellKeeps, CountKeeps, EndKeeps DEF MonitorNext

\* Once no thread is telling, the counts are what they have to be.
LEMMA MonitorIsExact == MonitorInv => MonitorKept
<1> SUFFICES ASSUME MonitorInv PROVE MonitorKept
    OBVIOUS
<1>1. CountsAreExact
  <2> SUFFICES ASSUME \A t \in Emitters : telling[t] = 0
               PROVE  counts = due /\ \A c \in Findings : c[1] = "R2" \/ c[2] \notin Expected
      BY DEF CountsAreExact
  <2>1. \A c \in Checks : Cardinality(Telling(c)) = 0
      BY TellingCounts
  <2>2. \A c \in Checks : due[c] = counts[c]
      BY <2>1 DEF MonitorInv, DueInv, MonitorTypeInv
  <2>3. counts = due
      BY <2>2 DEF MonitorInv, MonitorTypeInv
  <2>4. \A c \in Findings : c[1] = "R2" \/ c[2] \notin Expected
      BY DEF Findings, Checks, MonitorInv, InterestInv
  <2> QED
      BY <2>3, <2>4
<1>2. NothingUnlogged
    BY DEF MonitorInv, LoggedInv, NothingUnlogged
<1> QED
    BY <1>1, <1>2 DEF MonitorKept

\* For any emitters, events and sets of expected events: the monitor counts each
\* emit that nobody heard and each handler that failed exactly once, and shutdown
\* logs all that was counted before it (RuntimeMonitor, DiagnosticsExtension).
THEOREM MonitorCorrect == MonitorSpec => []MonitorKept
<1>1. MonitorSpec => []MonitorInv
    BY MonitorStarts, MonitorStep, PTL DEF MonitorSpec
<1> QED
    BY <1>1, MonitorIsExact, PTL

(***************************************************************************)
(* Health                                                                  *)
(***************************************************************************)

Unmeasured == <<"healthy", "unknown">>
Ok == <<"healthy", "ok">>
Unhealthy == <<"unhealthy", "failed">>
Unconfigured == <<"healthy", "not configured">>

Missed(was) == \E x \in was.bindings : x # "resolves"

\* What a report says is so of what was true while it was made.
IsMeasured(report, was) ==
    /\ report[2] = "ok" => ("resolves" \in was.bindings /\ TRUE \in was.reachable) \/ (Missed(was) /\ was.ever # {})
    /\ report[2] = "failed" <=> report[1] = "unhealthy"
    /\ report[2] = "failed" => "resolves" \in was.bindings /\ FALSE \in was.reachable
    /\ report[2] = "not configured" => Missed(was) /\ was.always = {}

Truths == [bindings : SUBSET Bindings, reachable : SUBSET BOOLEAN, ever : SUBSET Managers, always : SUBSET Managers]

HealthTypeInv ==
    /\ binding \in Bindings /\ reachable \in BOOLEAN /\ manager \in [Managers -> Conditions]
    /\ healthPc \in [Requesters -> {"idle", "session", "ask", "list", "sweep", "publish"}]
    /\ status \in [Requesters -> {Unmeasured, Ok, Unhealthy, Unconfigured}]
    /\ meanwhile \in [Requesters -> Truths]
    /\ known \in [Requesters -> SUBSET Managers]

\* A thread that makes a report has seen what is, and reports what it saw: the sweep
\* has yet to try every registration that resolved all along.
ThreadInv(t) ==
    /\ healthPc[t] # "idle" =>
         /\ binding \in meanwhile[t].bindings /\ reachable \in meanwhile[t].reachable
         /\ meanwhile[t].always \subseteq Working /\ Working \subseteq meanwhile[t].ever
    /\ healthPc[t] = "ask" => "resolves" \in meanwhile[t].bindings
    /\ healthPc[t] \in {"list", "sweep"} => Missed(meanwhile[t])
    /\ healthPc[t] = "sweep" => meanwhile[t].always \subseteq known[t]
    /\ healthPc[t] = "publish" => IsMeasured(status[t], meanwhile[t])

HealthInv == HealthTypeInv /\ (\A t \in Requesters : ThreadInv(t)) /\ ReportsAreMeasured

\* Which of the verdicts were measured.
LEMMA Verdicts ==
    ASSUME NEW was
    PROVE  /\ ("resolves" \in was.bindings /\ TRUE \in was.reachable) \/ (Missed(was) /\ was.ever # {}) =>
                IsMeasured(Ok, was)
           /\ "resolves" \in was.bindings /\ FALSE \in was.reachable => IsMeasured(Unhealthy, was)
           /\ Missed(was) /\ was.always = {} => IsMeasured(Unconfigured, was)
<1>1. /\ Ok[1] = "healthy" /\ Ok[2] = "ok"
      /\ Unhealthy[1] = "unhealthy" /\ Unhealthy[2] = "failed"
      /\ Unconfigured[1] = "healthy" /\ Unconfigured[2] = "not configured"
    BY DEF Ok, Unhealthy, Unconfigured
<1> QED
    BY <1>1 DEF IsMeasured

\* What is true now, as a report that begins takes it.
LEMMA NowIs ==
    ASSUME HealthTypeInv
    PROVE  /\ Now \in Truths /\ Now.bindings = {binding} /\ Now.reachable = {reachable}
           /\ Now.ever = Working /\ Now.always = Working
<1>1. Working \subseteq Managers
    BY DEF Working
<1> QED
    BY <1>1 DEF HealthTypeInv, Now, Truths

LEMMA HealthStarts == HealthInit => HealthInv
<1> SUFFICES ASSUME HealthInit PROVE HealthInv
    OBVIOUS
<1>1. Now \in Truths
  <2>1. Working \subseteq Managers
      BY DEF Working
  <2> QED
      BY <2>1 DEF HealthInit, Now, Truths
<1>2. HealthTypeInv
    BY <1>1 DEF HealthInit, HealthTypeInv, Unmeasured
<1>3. (\A t \in Requesters : ThreadInv(t)) /\ ReportsAreMeasured
    BY DEF HealthInit, ThreadInv, ReportsAreMeasured
<1> QED
    BY <1>2, <1>3 DEF HealthInv

\* What is measured changes: more has been seen, and less was so all along.
LEMMA SwitchKeeps ==
    ASSUME HealthInv, Switch
    PROVE  HealthInv'
<1>1. /\ UNCHANGED <<healthPc, known, status, published>>
      /\ binding' \in Bindings /\ reachable' \in BOOLEAN /\ manager' \in [Managers -> Conditions]
    BY DEF Switch, HealthInv, HealthTypeInv
<1>2. ASSUME NEW t \in Requesters
      PROVE  /\ meanwhile'[t] \in Truths
             /\ meanwhile'[t].bindings = meanwhile[t].bindings \cup {binding'}
             /\ meanwhile'[t].reachable = meanwhile[t].reachable \cup {reachable'}
             /\ meanwhile'[t].ever = meanwhile[t].ever \cup Working'
             /\ meanwhile'[t].always = meanwhile[t].always \cap Working'
  <2>1. meanwhile'[t] = [bindings |-> meanwhile[t].bindings \cup {binding'},
                         reachable |-> meanwhile[t].reachable \cup {reachable'},
                         ever |-> meanwhile[t].ever \cup Working', always |-> meanwhile[t].always \cap Working']
      BY DEF Switch
  <2>2. meanwhile[t] \in Truths /\ Working' \subseteq Managers
      BY DEF HealthInv, HealthTypeInv, Working
  <2> QED
      BY <1>1, <2>1, <2>2 DEF Truths
<1>3. HealthTypeInv'
  <2>1. meanwhile' = [t \in Requesters |-> meanwhile'[t]]
      BY DEF Switch
  <2>2. meanwhile' \in [Requesters -> Truths]
      BY <1>2, <2>1
  <2> QED
      BY <1>1, <2>2 DEF HealthInv, HealthTypeInv
<1>4. \A t \in Requesters : ThreadInv(t)'
  <2> SUFFICES ASSUME NEW t \in Requesters PROVE ThreadInv(t)'
      OBVIOUS
  <2>1. ThreadInv(t) /\ (Missed(meanwhile[t]) => Missed(meanwhile'[t]))
      BY <1>2 DEF HealthInv, Missed
  <2>2. healthPc'[t] = "publish" => IsMeasured(status'[t], meanwhile'[t])
    <3>1. ASSUME healthPc[t] = "publish" PROVE IsMeasured(status[t], meanwhile'[t])
      <4>1. IsMeasured(status[t], meanwhile[t])
          BY <2>1, <3>1 DEF ThreadInv
      <4>2. meanwhile[t].ever # {} => meanwhile'[t].ever # {}
          BY <1>2
      <4>3. meanwhile[t].always = {} => meanwhile'[t].always = {}
          BY <1>2
      <4> QED
          BY <1>2, <2>1, <4>1, <4>2, <4>3 DEF IsMeasured
    <3> QED
        BY <1>1, <3>1
  <2> QED
      BY <1>1, <1>2, <2>1, <2>2 DEF ThreadInv
<1>5. ReportsAreMeasured'
    BY <1>1 DEF HealthInv, ReportsAreMeasured
<1> QED
    BY <1>3, <1>4, <1>5 DEF HealthInv

\* A thread that goes on with its report leaves those of the others alone.
LEMMA OneReport ==
    ASSUME HealthInv, NEW t \in Requesters,
           \A u \in Requesters \ {t} : /\ healthPc'[u] = healthPc[u] /\ status'[u] = status[u]
                                       /\ meanwhile'[u] = meanwhile[u] /\ known'[u] = known[u],
           HealthTypeInv', ThreadInv(t)', UNCHANGED <<binding, reachable, manager, published>>
    PROVE  HealthInv'
<1>1. Working' = Working
    BY DEF Working
<1>2. \A u \in Requesters \ {t} : ThreadInv(u)'
    BY <1>1 DEF HealthInv, ThreadInv
<1>3. ReportsAreMeasured'
    BY DEF HealthInv, ReportsAreMeasured
<1> QED
    BY <1>2, <1>3 DEF HealthInv

LEMMA RequestKeeps ==
    ASSUME HealthInv, NEW t \in Requesters, RequestHealth(t)
    PROVE  HealthInv'
<1> USE DEF RequestHealth
<1>1. HealthTypeInv'
    BY NowIs DEF HealthInv, HealthTypeInv, Unmeasured
<1>2. /\ healthPc'[t] = "session" /\ meanwhile'[t] = Now
      /\ UNCHANGED <<binding, reachable, manager, known, published>>
      /\ \A u \in Requesters \ {t} : healthPc'[u] = healthPc[u] /\ status'[u] = status[u] /\ meanwhile'[u] = meanwhile[u]
    BY DEF HealthInv, HealthTypeInv
<1>3. ThreadInv(t)'
  <2>1. Working' = Working
      BY <1>2 DEF Working
  <2> QED
      BY <1>2, <2>1, NowIs DEF HealthInv, ThreadInv
<1> QED
    BY <1>1, <1>2, <1>3, OneReport

\* ISession resolves and is asked, or the registrations are listed.
LEMMA ResolveKeeps ==
    ASSUME HealthInv, NEW t \in Requesters, ResolveSession(t) \/ ListRegistrations(t)
    PROVE  HealthInv'
<1>1. UNCHANGED <<binding, reachable, manager, status, meanwhile, published>>
    BY DEF ResolveSession, ListRegistrations
<1>2. Working' = Working /\ Working \subseteq {m \in Managers : manager[m] # "absent"}
    BY <1>1 DEF Working
<1>3. HealthTypeInv'
    BY DEF HealthInv, HealthTypeInv, ResolveSession, ListRegistrations
<1>4. \A u \in Requesters \ {t} : healthPc'[u] = healthPc[u] /\ known'[u] = known[u]
    BY DEF ResolveSession, ListRegistrations, HealthInv, HealthTypeInv
<1>5. CASE ResolveSession(t)
  <2>1. healthPc[t] = "session" /\ healthPc'[t] = IF binding = "resolves" THEN "ask" ELSE "list"
      BY <1>5 DEF ResolveSession, HealthInv, HealthTypeInv
  <2>2. ThreadInv(t)'
      BY <1>1, <1>2, <2>1 DEF HealthInv, ThreadInv, Missed
  <2> QED
      BY <1>1, <1>3, <1>4, <2>2, OneReport
<1>6. CASE ListRegistrations(t)
  <2>1. /\ healthPc[t] = "list" /\ healthPc'[t] = "sweep"
        /\ known'[t] = {m \in Managers : manager[m] # "absent"}
      BY <1>6 DEF ListRegistrations, HealthInv, HealthTypeInv
  <2>2. ThreadInv(t)'
      BY <1>1, <1>2, <2>1 DEF HealthInv, ThreadInv
  <2> QED
      BY <1>1, <1>3, <1>4, <2>2, OneReport
<1> QED
    BY <1>5, <1>6

\* A report that is made of what was seen is published next.
LEMMA DecidedKeeps ==
    ASSUME HealthInv, NEW t \in Requesters, healthPc[t] # "idle",
           NEW st \in {Ok, Unhealthy, Unconfigured}, status' = [status EXCEPT ![t] = st],
           IsMeasured(st, meanwhile[t]),
           healthPc' = [healthPc EXCEPT ![t] = "publish"],
           UNCHANGED <<binding, reachable, manager, known, meanwhile, published>>
    PROVE  HealthInv'
<1>1. HealthTypeInv'
    BY DEF HealthInv, HealthTypeInv
<1>2. /\ healthPc'[t] = "publish" /\ status'[t] = st /\ Working' = Working
      /\ \A u \in Requesters \ {t} : healthPc'[u] = healthPc[u] /\ status'[u] = status[u]
    BY DEF HealthInv, HealthTypeInv, Working
<1>3. ThreadInv(t)'
    BY <1>2 DEF HealthInv, ThreadInv
<1> QED
    BY <1>1, <1>2, <1>3, OneReport

\* A session that resolved settles the matter.
LEMMA AskKeeps ==
    ASSUME HealthInv, NEW t \in Requesters, AskSession(t)
    PROVE  HealthInv'
<1>1. /\ healthPc[t] = "ask" /\ "resolves" \in meanwhile[t].bindings /\ reachable \in meanwhile[t].reachable
      /\ reachable \in BOOLEAN
    BY DEF AskSession, HealthInv, HealthTypeInv, ThreadInv
<1>2. Measured = IF reachable THEN Ok ELSE Unhealthy
    BY DEF Measured, Ok, Unhealthy
<1>3. IsMeasured(Measured, meanwhile[t])
  <2>1. CASE reachable
    <3>1. TRUE \in meanwhile[t].reachable
        BY <1>1, <2>1
    <3> QED
        BY <1>1, <1>2, <2>1, <3>1, Verdicts
  <2>2. CASE ~reachable
    <3>1. FALSE \in meanwhile[t].reachable
        BY <1>1, <2>2
    <3> QED
        BY <1>1, <1>2, <2>2, <3>1, Verdicts
  <2> QED
      BY <2>1, <2>2
<1> QED
    BY <1>1, <1>2, <1>3, DecidedKeeps DEF AskSession

\* The sweep ends with the first registration that resolves, or after the last.
LEMMA SweepKeeps ==
    ASSUME HealthInv, NEW t \in Requesters, NotConfigured(t) \/ \E m \in Managers : Try(t, m)
    PROVE  HealthInv'
<1>1. /\ healthPc[t] = "sweep" /\ Missed(meanwhile[t]) /\ meanwhile[t].always \subseteq known[t]
      /\ meanwhile[t].always \subseteq Working /\ Working \subseteq meanwhile[t].ever
    BY DEF NotConfigured, Try, HealthInv, ThreadInv
<1>2. CASE NotConfigured(t)
    BY <1>1, <1>2, DecidedKeeps, Verdicts DEF NotConfigured, Unconfigured
<1>3. ASSUME NEW m \in Managers, Try(t, m), manager[m] = "works" PROVE HealthInv'
  <2>1. meanwhile[t].ever # {}
      BY <1>1, <1>3 DEF Working
  <2> QED
      BY <1>1, <1>3, <2>1, DecidedKeeps, Verdicts DEF Try, Ok
<1>4. ASSUME NEW m \in Managers, Try(t, m), manager[m] # "works" PROVE HealthInv'
  <2>1. /\ known' = [known EXCEPT ![t] = @ \ {m}]
        /\ UNCHANGED <<binding, reachable, manager, healthPc, status, meanwhile, published>>
      BY <1>4 DEF Try
  <2>2. HealthTypeInv'
      BY <2>1 DEF HealthInv, HealthTypeInv
  <2>3. /\ known'[t] = known[t] \ {m} /\ m \notin Working /\ Working' = Working
        /\ \A u \in Requesters \ {t} : known'[u] = known[u]
      BY <1>4, <2>1 DEF HealthInv, HealthTypeInv, Working
  <2>4. ThreadInv(t)'
      BY <1>1, <2>1, <2>3 DEF HealthInv, ThreadInv
  <2> QED
      BY <2>1, <2>2, <2>3, <2>4, OneReport
<1> QED
    BY <1>2, <1>3, <1>4

LEMMA PublishKeeps ==
    ASSUME HealthInv, NEW t \in Requesters, Publish(t)
    PROVE  HealthInv'
<1> USE DEF Publish
<1>1. HealthTypeInv'
    BY DEF HealthInv, HealthTypeInv
<1>2. \A u \in Requesters : ThreadInv(u)'
  <2>1. Working' = Working
      BY DEF Working
  <2> QED
      BY <2>1 DEF HealthInv, HealthTypeInv, ThreadInv
<1>3. IsMeasured(status[t], meanwhile[t])
    BY DEF HealthInv, ThreadInv
<1>4. ReportsAreMeasured'
  <2>1. \A p \in published : IsMeasured(p.status, p.meanwhile)
      BY DEF HealthInv, ReportsAreMeasured, IsMeasured, Missed
  <2>2. \A p \in published' : IsMeasured(p.status, p.meanwhile)
      BY <1>3, <2>1
  <2> QED
      BY <2>2 DEF ReportsAreMeasured, IsMeasured, Missed
<1> QED
    BY <1>1, <1>2, <1>4 DEF HealthInv

LEMMA HealthStep == HealthInv /\ [HealthNext]_healthVars => HealthInv'
<1>1. ASSUME HealthInv, UNCHANGED healthVars PROVE HealthInv'
  <2> USE DEF healthVars
  <2>1. HealthTypeInv'
      BY <1>1 DEF HealthInv, HealthTypeInv
  <2>3. Working' = Working
      BY <1>1 DEF Working
  <2>2. (\A t \in Requesters : ThreadInv(t)') /\ ReportsAreMeasured'
      BY <1>1, <2>3 DEF HealthInv, ThreadInv, ReportsAreMeasured
  <2> QED
      BY <2>1, <2>2 DEF HealthInv
<1> QED
    BY <1>1, SwitchKeeps, RequestKeeps, ResolveKeeps, AskKeeps, SweepKeeps, PublishKeeps DEF HealthNext

\* For any threads and registrations: what a health report says of the database was
\* so at some moment between the request and the answer (health_check_query.py).
THEOREM HealthCorrect == HealthSpec => []ReportsAreMeasured
<1>1. HealthInv => ReportsAreMeasured
    BY DEF HealthInv
<1> QED
    BY <1>1, HealthStarts, HealthStep, PTL DEF HealthSpec

(***************************************************************************)
(* Sequences                                                               *)
(***************************************************************************)

LEMMA AppendedAt ==
    ASSUME NEW S, NEW s \in Seq(S), NEW x \in S
    PROVE  /\ Append(s, x) \in Seq(S) /\ Len(s) \in Nat /\ Len(Append(s, x)) = Len(s) + 1
           /\ \A i \in 1..Len(s) : Append(s, x)[i] = s[i]
           /\ Append(s, x)[Len(s) + 1] = x
    OBVIOUS

LEMMA TailAt ==
    ASSUME NEW S, NEW s \in Seq(S), s # <<>>
    PROVE  /\ Tail(s) \in Seq(S) /\ Len(s) \in Nat \ {0} /\ Len(Tail(s)) = Len(s) - 1
           /\ \A i \in 1..Len(s) - 1 : Tail(s)[i] = s[i + 1]
           /\ Head(s) = s[1] /\ Head(s) \in S
    OBVIOUS

(***************************************************************************)
(* StateConsole                                                            *)
(***************************************************************************)

Counters == [Sections -> Nat]

ConsoleTypeInv ==
    /\ clock \in Nat /\ parts \in Counters /\ history \in Seq(Counters) /\ Len(history) = clock + 1
    /\ requests \in Seq(Nat) /\ began \in Nat
    /\ collecting = NotCollecting \/ collecting \in Seq(Nat)
    /\ lastSnapshot = NoSnapshot \/ lastSnapshot \in [at : Nat, snapshot : Seq(Nat)]
    /\ consoleAnswers \subseteq Nat \X Nat \X Seq(Nat)

\* A snapshot, or its first readings, shows what had happened by the time given,
\* and nothing that has not happened yet.
Shows(readings, time) ==
    \A i \in 1..Len(readings) :
        history[time + 1][Reads[i]] <= readings[i] /\ readings[i] <= parts[Reads[i]]

\* What has happened stays so.
HistoryInv ==
    \A j \in 1..Len(history) : \A s \in Sections :
        /\ history[j][s] <= parts[s]
        /\ \A i \in 1..j : history[i][s] <= history[j][s]

\* The first request is older than the collection that will answer it.
CollectInv ==
    /\ \A k \in 1..Len(requests) : requests[k] <= clock
    /\ began <= clock
    /\ collecting # NotCollecting =>
         /\ requests # <<>> /\ requests[1] <= began
         /\ Len(collecting) <= Len(Reads) /\ Shows(collecting, began)

CacheInv ==
    lastSnapshot # NoSnapshot =>
        /\ lastSnapshot.at <= clock /\ Len(lastSnapshot.snapshot) = Len(Reads)
        /\ Shows(lastSnapshot.snapshot, lastSnapshot.at)

\* A time that all that is shown had happened by.
AnswerInv ==
    \A a \in consoleAnswers :
        /\ a[1] <= clock /\ Len(a[3]) = Len(Reads)
        /\ \E time \in Nat : a[1] - Staleness <= time /\ time <= clock /\ Shows(a[3], time)

ServerInv ==
    /\ started = "no" => server = "none"
    /\ started = "ready" => server = "listening"
    /\ started = "stopped" => server = "exited"

ConsoleInv == ConsoleTypeInv /\ HistoryInv /\ CollectInv /\ CacheInv /\ AnswerInv /\ ServerInv

SectionNames ==
    {"extensions", "services", "jobs", "events", "subscriptions", "registrations", "scopes", "tasks",
     "pool", "recorder", "config", "letters", "machines", "health"}

\* Every reading is of a section.
LEMMA ReadsTyped ==
    /\ Len(Reads) \in Nat /\ DOMAIN Reads = 1..Len(Reads)
    /\ \A i \in 1..Len(Reads) : Reads[i] \in Sections
<1>1. /\ LifecycleCollector \in Seq(SectionNames) /\ EventCollector \in Seq(SectionNames)
      /\ ContainerCollector \in Seq(SectionNames) /\ TaskCollector \in Seq(SectionNames)
      /\ ThreadPoolCollector \in Seq(SectionNames) /\ BoundedStructuresCollector \in Seq(SectionNames)
      /\ ConfigCollector \in Seq(SectionNames) /\ SignalsCollector \in Seq(SectionNames)
  <2>1. LifecycleCollector \in Seq(SectionNames)
      BY DEF LifecycleCollector, SectionNames
  <2>2. EventCollector \in Seq(SectionNames)
      BY DEF EventCollector, SectionNames
  <2>3. ContainerCollector \in Seq(SectionNames)
      BY DEF ContainerCollector, SectionNames
  <2>4. TaskCollector \in Seq(SectionNames)
      BY DEF TaskCollector, SectionNames
  <2>5. ThreadPoolCollector \in Seq(SectionNames)
      BY DEF ThreadPoolCollector, SectionNames
  <2>6. BoundedStructuresCollector \in Seq(SectionNames)
      BY DEF BoundedStructuresCollector, SectionNames
  <2>7. ConfigCollector \in Seq(SectionNames)
      BY DEF ConfigCollector, SectionNames
  <2>8. SignalsCollector \in Seq(SectionNames)
      BY DEF SignalsCollector, SectionNames
  <2> QED
      BY <2>1, <2>2, <2>3, <2>4, <2>5, <2>6, <2>7, <2>8
<1>2. Reads \in Seq(SectionNames)
    BY <1>1 DEF Reads
<1>3. Len(Reads) \in Nat /\ DOMAIN Reads = 1..Len(Reads)
    BY <1>2
<1>4. \A i \in 1..Len(Reads) : Reads[i] \in Sections
    BY <1>3 DEF Sections, ToSet
<1> QED
    BY <1>3, <1>4

\* A collection is a sequence of counts, which NotCollecting is not.
LEMMA NotCollectingIsNone == NotCollecting \notin Seq(Nat)
<1>1. Len(NotCollecting) = 1 /\ NotCollecting[1] = -1
    BY DEF NotCollecting
<1> QED
    BY <1>1

\* What the types say of single moments and readings.
LEMMA ConsoleTyped ==
    ASSUME ConsoleTypeInv
    PROVE  /\ Len(history) \in Nat /\ clock + 1 \in 1..Len(history)
           /\ \A j \in 1..Len(history) : history[j] \in Counters
           /\ \A s \in Sections : parts[s] \in Nat
           /\ \A j \in 1..Len(history) : \A s \in Sections : history[j][s] \in Nat
<1>1. Len(history) \in Nat /\ \A j \in 1..Len(history) : history[j] \in Counters
    BY DEF ConsoleTypeInv
<1>2. clock + 1 \in 1..Len(history)
    BY DEF ConsoleTypeInv
<1>3. \A f \in Counters : \A s \in Sections : f[s] \in Nat
    BY DEF Counters
<1> QED
    BY <1>1, <1>2, <1>3 DEF ConsoleTypeInv

LEMMA ConsoleStarts == ConsoleInit => ConsoleInv
<1> SUFFICES ASSUME ConsoleInit PROVE ConsoleInv
    OBVIOUS
<1>1. /\ clock = 0 /\ parts = [s \in Sections |-> 0] /\ history = <<parts>> /\ requests = <<>>
      /\ collecting = NotCollecting /\ began = 0 /\ lastSnapshot = NoSnapshot /\ consoleAnswers = {}
      /\ server = "none" /\ started = "no"
    BY DEF ConsoleInit
<1>2. parts \in Counters /\ \A s \in Sections : parts[s] = 0
    BY <1>1 DEF Counters
<1>3. history \in Seq(Counters) /\ Len(history) = 1 /\ history[1] = parts /\ requests \in Seq(Nat) /\ Len(requests) = 0
    BY <1>1, <1>2
<1>4. ConsoleTypeInv
    BY <1>1, <1>2, <1>3 DEF ConsoleTypeInv
<1>5. HistoryInv
    BY <1>2, <1>3 DEF HistoryInv
<1>6. CollectInv /\ CacheInv /\ AnswerInv /\ ServerInv
    BY <1>1, <1>3 DEF CollectInv, CacheInv, AnswerInv, ServerInv
<1> QED
    BY <1>4, <1>5, <1>6 DEF ConsoleInv

\* What is shown stays so when the clock ticks and when a part changes.
LEMMA ShownStays ==
    ASSUME ConsoleInv, NEW readings \in Seq(Nat), Len(readings) <= Len(Reads),
           NEW time \in Nat, time <= clock, Shows(readings, time),
           \A s \in Sections : parts[s] <= parts'[s], \A s \in Sections : parts'[s] \in Nat,
           \A j \in 1..Len(history) : history'[j] = history[j]
    PROVE  Shows(readings, time)'
<1> SUFFICES ASSUME NEW i \in 1..Len(readings)
             PROVE  history'[time + 1][Reads[i]] <= readings[i] /\ readings[i] <= parts'[Reads[i]]
    BY DEF Shows
<1>1. i \in 1..Len(Reads) /\ Reads[i] \in Sections /\ readings[i] \in Nat
    BY ReadsTyped
<1>2. time + 1 \in 1..Len(history)
    BY DEF ConsoleInv, ConsoleTypeInv
<1>3. history[time + 1][Reads[i]] <= readings[i] /\ readings[i] <= parts[Reads[i]]
    BY DEF Shows
<1>4. /\ parts[Reads[i]] \in Nat /\ parts'[Reads[i]] \in Nat /\ parts[Reads[i]] <= parts'[Reads[i]]
      /\ history'[time + 1] = history[time + 1] /\ history[time + 1][Reads[i]] \in Nat
    BY <1>1, <1>2, ConsoleTyped DEF ConsoleInv
<1> QED
    BY <1>1, <1>3, <1>4

\* So do the collection, the cache and the answers.
LEMMA RightStays ==
    ASSUME ConsoleInv, clock' \in {clock, clock + 1},
           \A s \in Sections : parts[s] <= parts'[s] /\ parts'[s] \in Nat,
           \A j \in 1..Len(history) : history'[j] = history[j],
           UNCHANGED <<lastSnapshot, consoleAnswers, began>>,
           UNCHANGED <<requests, collecting>> \/ (requests' = Tail(requests) /\ collecting' = NotCollecting
                                                   /\ requests # <<>>)
    PROVE  CollectInv' /\ CacheInv' /\ AnswerInv'
<1> USE DEF ConsoleInv
<1>0. clock \in Nat /\ clock <= clock' /\ clock' \in Nat /\ began \in Nat
    BY DEF ConsoleTypeInv
<1>1. CollectInv'
  <2>1. \A k \in 1..Len(requests') : requests'[k] <= clock'
    <3>1. CASE requests' = requests
        BY <1>0, <3>1 DEF CollectInv, ConsoleTypeInv
    <3>2. CASE requests' = Tail(requests) /\ requests # <<>>
      <4>1. /\ Len(requests) \in Nat /\ Len(requests') = Len(requests) - 1
            /\ \A i \in 1..Len(requests) - 1 : requests'[i] = requests[i + 1]
          BY <3>2, TailAt DEF ConsoleTypeInv
      <4>2. \A k \in 1..Len(requests') : k + 1 \in 1..Len(requests) /\ requests'[k] = requests[k + 1]
          BY <4>1
      <4>3. \A k \in 1..Len(requests) : requests[k] \in Nat
          BY DEF ConsoleTypeInv
      <4> QED
        <5>1. \A k \in 1..Len(requests) : requests[k] <= clock
            BY DEF CollectInv
        <5>2. \A r \in Nat : r <= clock => r <= clock'
            BY <1>0
        <5> QED
            BY <4>2, <4>3, <5>1, <5>2
    <3> QED
        BY <3>1, <3>2
  <2>2. collecting' # NotCollecting =>
           /\ UNCHANGED <<requests, collecting>> /\ collecting \in Seq(Nat) /\ collecting # NotCollecting
      BY DEF ConsoleTypeInv
  <2>3. collecting' # NotCollecting => Shows(collecting, began)'
      BY <1>0, <2>2, ShownStays DEF CollectInv
  <2> QED
      BY <1>0, <2>1, <2>2, <2>3 DEF CollectInv
<1>2. CacheInv'
  <2> SUFFICES ASSUME lastSnapshot # NoSnapshot PROVE CacheInv'
      BY DEF CacheInv
  <2>1. lastSnapshot \in [at : Nat, snapshot : Seq(Nat)]
      BY DEF ConsoleTypeInv
  <2>2. lastSnapshot.at \in Nat /\ lastSnapshot.snapshot \in Seq(Nat)
      BY <2>1
  <2>3. Len(lastSnapshot.snapshot) = Len(Reads) /\ Shows(lastSnapshot.snapshot, lastSnapshot.at)
        /\ lastSnapshot.at <= clock /\ Len(Reads) \in Nat
      BY ReadsTyped DEF CacheInv
  <2>4. Shows(lastSnapshot.snapshot, lastSnapshot.at)'
      BY <2>2, <2>3, ShownStays
  <2> QED
      BY <1>0, <2>2, <2>3, <2>4 DEF CacheInv
<1>3. AnswerInv'
  <2> SUFFICES ASSUME NEW a \in consoleAnswers
               PROVE  /\ a[1] <= clock' /\ Len(a[3]) = Len(Reads)
                      /\ \E time \in Nat : a[1] - Staleness <= time /\ time <= clock' /\ Shows(a[3], time)'
      BY DEF AnswerInv
  <2>1. a[1] \in Nat /\ a[3] \in Seq(Nat) /\ a[1] <= clock /\ Len(a[3]) = Len(Reads)
      BY DEF ConsoleTypeInv, AnswerInv
  <2>2. PICK time \in Nat : a[1] - Staleness <= time /\ time <= clock /\ Shows(a[3], time)
      BY DEF AnswerInv
  <2>3. Shows(a[3], time)'
      BY <2>1, <2>2, ShownStays, ReadsTyped
  <2> QED
      BY <1>0, <2>1, <2>2, <2>3
<1> QED
    BY <1>1, <1>2, <1>3

LEMMA TicksKeep ==
    ASSUME ConsoleInv, ClockTicks
    PROVE  ConsoleInv'
<1> USE DEF ConsoleInv
<1>0. /\ clock' = clock + 1 /\ history' = Append(history, parts)
      /\ UNCHANGED <<server, started, parts, attached, requests, collecting, began, lastSnapshot, consoleAnswers>>
    BY DEF ClockTicks, request
<1>1. /\ history' \in Seq(Counters) /\ Len(history) \in Nat /\ Len(history') = Len(history) + 1
      /\ \A i \in 1..Len(history) : history'[i] = history[i]
      /\ history'[Len(history) + 1] = parts
    BY <1>0, AppendedAt DEF ConsoleTypeInv
<1>2. ConsoleTypeInv'
    BY <1>0, <1>1 DEF ConsoleTypeInv
<1>3. HistoryInv'
  <2> SUFFICES ASSUME NEW j \in 1..Len(history'), NEW s \in Sections
               PROVE  history'[j][s] <= parts[s] /\ \A i \in 1..j : history'[i][s] <= history'[j][s]
      BY <1>0 DEF HistoryInv
  <2>1. CASE j \in 1..Len(history)
    <3>1. \A i \in 1..j : i \in 1..Len(history)
        BY <2>1
    <3> QED
        BY <1>1, <2>1, <3>1 DEF HistoryInv
  <2>2. CASE j = Len(history) + 1
    <3>1. \A i \in 1..j : i \in 1..Len(history) \/ i = j
        BY <1>1, <2>2
    <3>2. parts[s] \in Nat
        BY ConsoleTyped
    <3> QED
        BY <1>1, <2>2, <3>1, <3>2 DEF HistoryInv
  <2> QED
      BY <1>1, <2>1, <2>2
<1>4. \A s \in Sections : parts[s] <= parts'[s] /\ parts'[s] \in Nat
    BY <1>0, ConsoleTyped
<1>5. CollectInv' /\ CacheInv' /\ AnswerInv'
    BY <1>0, <1>1, <1>4, RightStays
<1>6. ServerInv'
    BY <1>0 DEF ServerInv
<1> QED
    BY <1>2, <1>3, <1>5, <1>6

\* A part of the application changes, perhaps so that the collection fails.
LEMMA ActivityKeeps ==
    ASSUME ConsoleInv, CollectRaises \/ \E s \in Sources : Activity(s)
    PROVE  ConsoleInv'
<1> USE DEF ConsoleInv
<1>0. PICK s \in Sections :
        /\ parts' = [parts EXCEPT ![s] = @ + 1]
        /\ UNCHANGED <<clock, server, started, attached, history, began, lastSnapshot, consoleAnswers>>
        /\ \/ UNCHANGED <<requests, collecting>>
           \/ requests' = Tail(requests) /\ collecting' = NotCollecting /\ requests # <<>>
  <2>1. CASE CollectRaises
    <3>1. collecting # NotCollecting /\ requests # <<>>
        BY <2>1 DEF CollectRaises, Collecting, CollectInv
    <3>2. "machines" \in Sections
      <4>1. collecting \in Seq(Nat) /\ Len(collecting) < Len(Reads)
          BY <2>1, <3>1 DEF CollectRaises, ConsoleTypeInv
      <4>2. Len(collecting) + 1 \in 1..Len(Reads)
          BY <4>1, ReadsTyped
      <4> QED
          BY <2>1, <4>2, ReadsTyped DEF CollectRaises, NextRead
    <3> QED
        BY <2>1, <3>1, <3>2 DEF CollectRaises
  <2>2. CASE \E s \in Sources : Activity(s)
      BY <2>2, ConsoleAssumption DEF Activity, request
  <2> QED
      BY <2>1, <2>2
<1>1. /\ parts' \in Counters
      /\ \A x \in Sections : parts[x] <= parts'[x] /\ parts'[x] \in Nat
    BY <1>0 DEF ConsoleTypeInv, Counters
<1>2. ConsoleTypeInv'
  <2>1. requests' \in Seq(Nat) /\ (collecting' = NotCollecting \/ collecting' \in Seq(Nat))
    <3>1. requests # <<>> => Tail(requests) \in Seq(Nat)
        BY TailAt DEF ConsoleTypeInv
    <3> QED
        BY <1>0, <3>1 DEF ConsoleTypeInv
  <2> QED
      BY <1>0, <1>1, <2>1 DEF ConsoleTypeInv
<1>3. HistoryInv'
  <2>1. \A j \in 1..Len(history) : \A x \in Sections : history[j][x] <= parts'[x]
    <3> TAKE j \in 1..Len(history)
    <3> TAKE x \in Sections
    <3>1. history[j][x] \in Nat /\ parts[x] \in Nat /\ parts[x] <= parts'[x] /\ parts'[x] \in Nat
        BY <1>1, ConsoleTyped
    <3>2. history[j][x] <= parts[x]
        BY DEF HistoryInv
    <3> QED
        BY <3>1, <3>2
  <2> QED
      BY <1>0, <2>1 DEF HistoryInv
<1>4. CollectInv' /\ CacheInv' /\ AnswerInv'
    BY <1>0, <1>1, RightStays
<1>5. ServerInv'
    BY <1>0 DEF ServerInv
<1> QED
    BY <1>2, <1>3, <1>4, <1>5

\* The server's life does not touch what is collected.
LEMMA ServerKeeps ==
    ASSUME ConsoleInv, StartConsole \/ Listen \/ Waited \/ ShutdownConsole
    PROVE  ConsoleInv'
<1>1. UNCHANGED <<clock, parts, history, requests, collecting, began, lastSnapshot, consoleAnswers>>
    BY DEF StartConsole, Listen, Waited, ShutdownConsole, app, request
<1>2. ConsoleTypeInv' /\ HistoryInv'
    BY <1>1 DEF ConsoleInv, ConsoleTypeInv, HistoryInv
<1>3. CollectInv' /\ CacheInv' /\ AnswerInv'
    BY <1>1 DEF ConsoleInv, CollectInv, CacheInv, AnswerInv, Shows
<1>4. ServerInv'
    BY DEF ConsoleInv, ServerInv, StartConsole, Listen, Waited, ShutdownConsole, StopAsked
<1> QED
    BY <1>2, <1>3, <1>4 DEF ConsoleInv

LEMMA RequestStays ==
    ASSUME ConsoleInv, Request
    PROVE  ConsoleInv'
<1>0. /\ requests' = Append(requests, clock)
      /\ UNCHANGED <<clock, server, started, parts, history, collecting, began, lastSnapshot, consoleAnswers>>
    BY DEF Request, app
<1>1. /\ requests' \in Seq(Nat) /\ Len(requests) \in Nat /\ Len(requests') = Len(requests) + 1
      /\ \A i \in 1..Len(requests) : requests'[i] = requests[i]
      /\ requests'[Len(requests) + 1] = clock
    BY <1>0, AppendedAt DEF ConsoleInv, ConsoleTypeInv
<1>2. ConsoleTypeInv' /\ HistoryInv' /\ ServerInv'
    BY <1>0, <1>1 DEF ConsoleInv, ConsoleTypeInv, HistoryInv, ServerInv
<1>3. CollectInv'
  <2>1. \A k \in 1..Len(requests') : requests'[k] <= clock
    <3>1. \A k \in 1..Len(requests') : k \in 1..Len(requests) \/ k = Len(requests) + 1
        BY <1>1
    <3> QED
      <4>1. clock <= clock /\ \A k \in 1..Len(requests) : requests[k] <= clock
          BY DEF ConsoleInv, CollectInv, ConsoleTypeInv
      <4> QED
          BY <1>1, <3>1, <4>1
  <2>2. collecting # NotCollecting => requests' # <<>> /\ requests'[1] = requests[1]
    <3>1. collecting # NotCollecting => 1 \in 1..Len(requests)
        BY <1>1 DEF ConsoleInv, CollectInv, ConsoleTypeInv
    <3> QED
        BY <1>1, <3>1
  <2> QED
      BY <1>0, <2>1, <2>2 DEF ConsoleInv, CollectInv, Shows
<1>4. CacheInv' /\ AnswerInv'
    BY <1>0 DEF ConsoleInv, CacheInv, AnswerInv, Shows
<1> QED
    BY <1>2, <1>3, <1>4 DEF ConsoleInv

\* collect() begins, and reads on.
LEMMA CollectKeeps ==
    ASSUME ConsoleInv, BeginCollect \/ CollectNext
    PROVE  ConsoleInv'
<1>0. UNCHANGED <<clock, server, started, parts, history, requests, lastSnapshot, consoleAnswers>>
    BY DEF BeginCollect, CollectNext, app
<1>1. CASE BeginCollect
  <2>1. collecting' = <<>> /\ began' = clock /\ requests # <<>> /\ Len(<<>>) = 0 /\ <<>> \in Seq(Nat)
      BY <1>1 DEF BeginCollect
  <2>2. ConsoleTypeInv'
      BY <1>0, <2>1 DEF ConsoleInv, ConsoleTypeInv
  <2>3. requests[1] <= clock /\ clock <= clock
    <3>1. 1 \in 1..Len(requests)
        BY <2>1 DEF ConsoleInv, ConsoleTypeInv
    <3> QED
        BY <3>1 DEF ConsoleInv, ConsoleTypeInv, CollectInv
  <2>4. CollectInv'
      BY <1>0, <2>1, <2>3, ReadsTyped DEF ConsoleInv, CollectInv, Shows
  <2> QED
      BY <1>0, <2>2, <2>4 DEF ConsoleInv, HistoryInv, CacheInv, AnswerInv, ServerInv, Shows
<1>2. CASE CollectNext
  <2> DEFINE r == Reads[Len(collecting) + 1]
  <2>1. /\ collecting # NotCollecting /\ collecting \in Seq(Nat) /\ Len(collecting) < Len(Reads)
        /\ collecting' = Append(collecting, parts[r]) /\ began' = began
      BY <1>2 DEF CollectNext, Collecting, Seen, NextRead, ConsoleInv, ConsoleTypeInv
  <2>2. r \in Sections /\ parts[r] \in Nat /\ history[began + 1][r] <= parts[r]
    <3>1. Len(collecting) + 1 \in 1..Len(Reads)
        BY <2>1, ReadsTyped
    <3>2. began + 1 \in 1..Len(history)
        BY DEF ConsoleInv, ConsoleTypeInv, CollectInv
    <3> QED
        BY <3>1, <3>2, ReadsTyped, ConsoleTyped DEF ConsoleInv, HistoryInv
  <2>3. /\ collecting' \in Seq(Nat) /\ Len(collecting') = Len(collecting) + 1
        /\ \A i \in 1..Len(collecting) : collecting'[i] = collecting[i]
        /\ collecting'[Len(collecting) + 1] = parts[r] /\ Len(collecting) \in Nat
      BY <2>1, <2>2, AppendedAt
  <2>4. \A i \in 1..Len(collecting') : i \in 1..Len(collecting) \/ i = Len(collecting) + 1
      BY <2>3
  <2>5. ConsoleTypeInv'
      BY <1>0, <2>1, <2>3 DEF ConsoleInv, ConsoleTypeInv
  <2>6. \A i \in 1..Len(collecting') :
           history[began + 1][Reads[i]] <= collecting'[i] /\ collecting'[i] <= parts[Reads[i]]
      BY <2>1, <2>2, <2>3, <2>4 DEF ConsoleInv, CollectInv, Shows
  <2>7. Shows(collecting, began)'
      BY <1>0, <2>1, <2>6 DEF Shows
  <2>8. CollectInv'
      BY <1>0, <2>1, <2>3, <2>7, ReadsTyped DEF ConsoleInv, CollectInv
  <2> QED
      BY <1>0, <2>5, <2>8 DEF ConsoleInv, HistoryInv, CacheInv, AnswerInv, ServerInv, Shows
<1> QED
    BY <1>1, <1>2

\* The first request is answered with a snapshot that is recent enough.
LEMMA AnsweredKeeps ==
    ASSUME ConsoleInv, requests # <<>>, NEW snapshot \in Seq(Nat), Answered(snapshot),
           Len(snapshot) = Len(Reads), NEW time \in Nat, time <= clock, requests[1] - Staleness <= time,
           Shows(snapshot, time), collecting' = NotCollecting,
           UNCHANGED <<clock, server, started, parts, history, began>>,
           lastSnapshot' \in {lastSnapshot, [at |-> time, snapshot |-> snapshot]}
    PROVE  ConsoleInv'
<1> DEFINE a == <<requests[1], clock, snapshot>>
<1>1. /\ requests' \in Seq(Nat) /\ Len(requests) \in Nat /\ Len(requests') = Len(requests) - 1
      /\ \A i \in 1..Len(requests) - 1 : requests'[i] = requests[i + 1]
      /\ Head(requests) = requests[1] /\ requests[1] \in Nat /\ 1 \in 1..Len(requests)
    BY TailAt DEF ConsoleInv, ConsoleTypeInv, Answered
<1>2. consoleAnswers' = consoleAnswers \cup {a} /\ a \in Nat \X Nat \X Seq(Nat)
      /\ a[1] = requests[1] /\ a[3] = snapshot
    BY <1>1 DEF Answered, ConsoleInv, ConsoleTypeInv
<1> HIDE DEF a
<1>3. ConsoleTypeInv'
    BY <1>1, <1>2 DEF ConsoleInv, ConsoleTypeInv
<1>4. HistoryInv' /\ ServerInv'
    BY DEF ConsoleInv, HistoryInv, ServerInv
<1>5. CollectInv'
  <2>1. \A k \in 1..Len(requests') : k + 1 \in 1..Len(requests) /\ requests'[k] = requests[k + 1]
      BY <1>1
  <2> QED
      BY <2>1 DEF ConsoleInv, CollectInv
<1>6. CacheInv'
  <2>1. CASE lastSnapshot' = lastSnapshot
      BY <2>1 DEF ConsoleInv, CacheInv, Shows
  <2>2. CASE lastSnapshot' = [at |-> time, snapshot |-> snapshot]
      BY <2>2 DEF CacheInv, Shows
  <2> QED
      BY <2>1, <2>2
<1>7. AnswerInv'
  <2>1. \A x, y : Shows(x, y)' <=> Shows(x, y)
      BY DEF Shows
  <2>2. a[1] <= clock
      BY <1>1, <1>2 DEF ConsoleInv, CollectInv
  <2> QED
      BY <1>2, <2>1, <2>2 DEF ConsoleInv, AnswerInv
<1> QED
    BY <1>3, <1>4, <1>5, <1>6, <1>7 DEF ConsoleInv

LEMMA AnswersKeep ==
    ASSUME ConsoleInv, AnswerFromCache \/ CollectEnds
    PROVE  ConsoleInv'
<1>0. clock \in Nat /\ Staleness \in Nat /\ (Interval # 0 => Staleness = Interval - 1) /\ Interval \in Nat
    BY ConsoleAssumption DEF ConsoleInv, ConsoleTypeInv, Staleness
<1>1. requests # <<>> /\ requests[1] \in Nat /\ requests[1] <= clock
  <2>1. requests # <<>>
      BY DEF AnswerFromCache, CollectEnds, Collecting, ConsoleInv, CollectInv
  <2>2. 1 \in 1..Len(requests)
      BY <2>1 DEF ConsoleInv, ConsoleTypeInv
  <2> QED
      BY <2>1, <2>2 DEF ConsoleInv, ConsoleTypeInv, CollectInv
<1>2. CASE AnswerFromCache
  <2>1. lastSnapshot # NoSnapshot /\ clock - lastSnapshot.at < Interval
      BY <1>2 DEF AnswerFromCache, Recent, NoSnapshot
  <2>2. lastSnapshot.at \in Nat /\ lastSnapshot.snapshot \in Seq(Nat)
      BY <2>1 DEF ConsoleInv, ConsoleTypeInv
  <2>3. /\ lastSnapshot.at <= clock /\ Len(lastSnapshot.snapshot) = Len(Reads)
        /\ Shows(lastSnapshot.snapshot, lastSnapshot.at)
      BY <2>1 DEF ConsoleInv, CacheInv
  <2>4. requests[1] - Staleness <= lastSnapshot.at
      BY <1>0, <1>1, <2>1, <2>2, <2>3
  <2> QED
      BY <1>1, <1>2, <2>2, <2>3, <2>4, AnsweredKeeps DEF AnswerFromCache, app
<1>3. CASE CollectEnds
  <2>1. collecting \in Seq(Nat) /\ Len(collecting) = Len(Reads) /\ collecting # NotCollecting
      BY <1>3 DEF CollectEnds, Collecting, ConsoleInv, ConsoleTypeInv
  <2>2. began \in Nat /\ began <= clock /\ requests[1] <= began /\ Shows(collecting, began)
      BY <2>1 DEF ConsoleInv, ConsoleTypeInv, CollectInv
  <2>3. requests[1] - Staleness <= began
      BY <1>0, <1>1, <2>2
  <2> QED
      BY <1>1, <1>3, <2>1, <2>2, <2>3, AnsweredKeeps DEF CollectEnds, app
<1> QED
    BY <1>2, <1>3

LEMMA ConsoleStep == ConsoleInv /\ [ConsoleNext]_consoleVars => ConsoleInv'
<1>1. ASSUME ConsoleInv, UNCHANGED consoleVars PROVE ConsoleInv'
  <2> USE <1>1 DEF consoleVars
  <2>1. ConsoleTypeInv' /\ HistoryInv' /\ ServerInv'
      BY DEF ConsoleInv, ConsoleTypeInv, HistoryInv, ServerInv
  <2>2. CollectInv' /\ CacheInv' /\ AnswerInv'
      BY DEF ConsoleInv, CollectInv, CacheInv, AnswerInv, Shows
  <2> QED
      BY <2>1, <2>2 DEF ConsoleInv
<1> QED
    BY <1>1, TicksKeep, ActivityKeeps, ServerKeeps, RequestStays, CollectKeeps, AnswersKeep
    DEF ConsoleNext

\* What had happened by a later time had not all happened before.
LEMMA ConsoleIsKept == ConsoleInv => ConsoleKept
<1> SUFFICES ASSUME ConsoleInv PROVE ConsoleKept
    OBVIOUS
<1>1. AnswersAreFresh
  <2> SUFFICES ASSUME NEW a \in consoleAnswers, NEW i \in 1..Len(Reads)
               PROVE  /\ a[1] - Staleness >= 0 => a[3][i] >= history[a[1] - Staleness + 1][Reads[i]]
                      /\ a[3][i] <= parts[Reads[i]]
      BY ReadsTyped DEF AnswersAreFresh
  <2>1. PICK time \in Nat : a[1] - Staleness <= time /\ time <= clock /\ Shows(a[3], time)
      BY DEF ConsoleInv, AnswerInv
  <2>2. a[1] \in Nat /\ a[3] \in Seq(Nat) /\ Len(a[3]) = Len(Reads) /\ Staleness \in Nat
      BY ConsoleAssumption DEF ConsoleInv, ConsoleTypeInv, AnswerInv, Staleness
  <2>3. /\ history[time + 1][Reads[i]] <= a[3][i] /\ a[3][i] <= parts[Reads[i]]
        /\ Reads[i] \in Sections /\ a[3][i] \in Nat
      BY <2>1, <2>2, ReadsTyped DEF Shows
  <2>4. ASSUME a[1] - Staleness >= 0 PROVE a[3][i] >= history[a[1] - Staleness + 1][Reads[i]]
    <3> DEFINE l == a[1] - Staleness
    <3>1. l + 1 \in 1..time + 1 /\ time + 1 \in 1..Len(history)
      <4>1. clock \in Nat /\ Len(history) = clock + 1
          BY DEF ConsoleInv, ConsoleTypeInv
      <4>2. l \in Nat /\ l <= time
          BY <2>1, <2>2, <2>4
      <4> QED
          BY <2>1, <4>1, <4>2
    <3>2. l + 1 \in 1..Len(history)
        BY <3>1, ConsoleTyped DEF ConsoleInv
    <3>3. history[l + 1][Reads[i]] <= history[time + 1][Reads[i]]
        BY <2>3, <3>1 DEF ConsoleInv, HistoryInv
    <3> QED
      <4>1. history[l + 1][Reads[i]] \in Nat /\ history[time + 1][Reads[i]] \in Nat
          BY <2>3, <3>1, <3>2, ConsoleTyped DEF ConsoleInv
      <4>2. history[l + 1][Reads[i]] <= a[3][i]
          BY <2>3, <3>3, <4>1
      <4> QED
          BY <2>3, <4>1, <4>2
  <2> QED
      BY <2>3, <2>4
<1>2. ServerIsStopped
    BY DEF ConsoleInv, ServerInv, ServerIsStopped
<1> QED
    BY <1>1, <1>2 DEF ConsoleKept

\* For any interval and any sources: an answer shows all that had happened an interval
\* before the client asked, and nothing that had not, and the server that was seen
\* ready is gone after shutdown (state_console/extension.py).
THEOREM ConsoleCorrect == ConsoleSpec => []ConsoleKept
<1>1. ConsoleSpec => []ConsoleInv
    BY ConsoleStarts, ConsoleStep, PTL DEF ConsoleSpec
<1> QED
    BY <1>1, ConsoleIsKept, PTL

(***************************************************************************)
(* LogViewer                                                               *)
(***************************************************************************)

\* The number of a record, whether it can be serialised or not.
Number(r) == IF r < 0 THEN -r ELSE r

LogsTypeInv ==
    /\ seq \in Nat /\ records \in Seq(Int) /\ inHand \in Int
    /\ lines \in Seq(Seq(Nat)) /\ dropped \subseteq 1..seq
    /\ workerPc \in {"check", "get", "attempt", "send", "exited", "dead"}
    /\ sock \in {"none", "open", "broken"} /\ viewer \in BOOLEAN /\ stop \in BOOLEAN
    /\ logFaults \in Nat

\* The queue holds records in the order they were emitted, the worker an older one.
QueueInv ==
    /\ \A i \in 1..Len(records) : Number(records[i]) \in 1..seq /\ Number(inHand) < Number(records[i])
    /\ \A i, j \in 1..Len(records) : i < j => Number(records[i]) < Number(records[j])
    /\ Number(inHand) <= seq
    /\ workerPc \in {"attempt", "send"} => inHand > 0
    /\ workerPc \in {"check", "get", "exited"} => inHand = 0

\* A line was read before what is still on its way, and after the lines before it.
LineInv(c, i) ==
    /\ lines[c][i] <= seq
    /\ lines[c][i] # 0 =>
         /\ \A k \in 1..Len(records) : lines[c][i] < Number(records[k])
         /\ inHand # 0 => lines[c][i] < Number(inHand)
    /\ lines[c][i] = 0 => i = Len(lines[c])
    /\ \A d \in 1..Len(lines) : \A j \in 1..Len(lines[d]) :
         (c < d \/ (c = d /\ i < j)) /\ lines[c][i] # 0 /\ lines[d][j] # 0
             => lines[c][i] < lines[d][j]
LinesInv == \A c \in 1..Len(lines) : \A i \in 1..Len(lines[c]) : LineInv(c, i)

\* The last connection is open only while it has no torn line.
SockInv ==
    sock = "open" => /\ Len(lines) > 0
                     /\ \A i \in 1..Len(lines[Len(lines)]) : lines[Len(lines)][i] # 0

\* What the viewer has read.
WasRead == {r \in Nat \ {0} : \E c \in 1..Len(lines) : \E i \in 1..Len(lines[c]) : lines[c][i] = r}
Queued == {records[i] : i \in 1..Len(records)}

\* Without faults nothing is lost but what met a full queue.
FaultlessInv ==
    logFaults = 0 =>
        /\ \A i \in 1..Len(records) : records[i] > 0
        /\ workerPc # "dead" /\ sock # "broken"
        /\ viewer /\ ~stop => WasRead \cup Queued \cup ({inHand} \ {0}) = (1..seq) \ dropped

LogsInv == LogsTypeInv /\ QueueInv /\ LinesInv /\ SockInv /\ FaultlessInv

\* What the types say of single records and lines.
LEMMA LogsTyped ==
    ASSUME LogsTypeInv
    PROVE  /\ Len(records) \in Nat /\ Len(lines) \in Nat /\ Number(inHand) \in Nat
           /\ \A k \in 1..Len(records) : records[k] \in Int /\ Number(records[k]) \in Nat
           /\ \A c \in 1..Len(lines) : lines[c] \in Seq(Nat) /\ Len(lines[c]) \in Nat
           /\ \A c \in 1..Len(lines) : \A i \in 1..Len(lines[c]) : lines[c][i] \in Nat
<1>1. \A r \in Int : Number(r) \in Nat
    BY DEF Number
<1>2. \A k \in 1..Len(records) : records[k] \in Int
    BY DEF LogsTypeInv
<1>3. \A c \in 1..Len(lines) : lines[c] \in Seq(Nat)
    BY DEF LogsTypeInv
<1>4. \A c \in 1..Len(lines) : Len(lines[c]) \in Nat /\ \A i \in 1..Len(lines[c]) : lines[c][i] \in Nat
    BY <1>3
<1>5. Len(records) \in Nat /\ Len(lines) \in Nat /\ inHand \in Int
    BY DEF LogsTypeInv
<1> QED
    BY <1>1, <1>2, <1>3, <1>4, <1>5

LEMMA LogsStart == LogsInit => LogsInv
<1> SUFFICES ASSUME LogsInit PROVE LogsInv
    OBVIOUS
<1> USE DEF LogsInit
<1>1. records = <<>> /\ lines = <<>> /\ Len(records) = 0 /\ Len(lines) = 0 /\ inHand = 0 /\ seq = 0
    OBVIOUS
<1>2. LogsTypeInv
  <2>1. records \in Seq(Int) /\ lines \in Seq(Seq(Nat)) /\ dropped \subseteq 1..seq
      OBVIOUS
  <2>2. viewer \in BOOLEAN /\ stop \in BOOLEAN
      OBVIOUS
  <2>3. /\ workerPc \in {"check", "get", "attempt", "send", "exited", "dead"}
        /\ sock \in {"none", "open", "broken"}
      OBVIOUS
  <2>4. seq \in Nat /\ inHand \in Int /\ logFaults \in Nat
      OBVIOUS
  <2> HIDE DEF LogsInit
  <2> QED
      BY <2>1, <2>2, <2>3, <2>4 DEF LogsTypeInv
<1>3. QueueInv /\ LinesInv /\ SockInv
    BY <1>1 DEF QueueInv, LinesInv, SockInv, Number
<1>4. WasRead = {} /\ Queued = {} /\ dropped = {}
    BY <1>1 DEF WasRead, Queued
<1>5. FaultlessInv
    BY <1>1, <1>4 DEF FaultlessInv
<1> QED
    BY <1>2, <1>3, <1>5 DEF LogsInv

\* emit() gives the newest number, to the queue or to what was dropped.
LEMMA EmitKeeps ==
    ASSUME LogsInv, NEW b \in BOOLEAN, EmitRecord(b)
    PROVE  LogsInv'
<1> USE DEF LogsInv, LogsTypeInv, EmitRecord
<1>0. /\ seq' = seq + 1 /\ seq' \in Nat
      /\ UNCHANGED <<workerPc, inHand, sock, viewer, lines, stop>>
      /\ logFaults' = IF b THEN logFaults ELSE logFaults + 1
      /\ \A c \in 1..Len(lines) : lines[c] \in Seq(Nat)
    BY DEF Fault
<1>w. WasRead' = WasRead
    BY <1>0 DEF WasRead
<1>1. CASE Len(records) < Capacity
  <2> DEFINE x == IF b THEN seq' ELSE -seq'
  <2>1. x \in Int /\ Number(x) = seq' /\ records' = Append(records, x) /\ dropped' = dropped
      BY <1>0, <1>1 DEF Number
  <2>2. b => x > 0 /\ x = seq'
      BY <1>0
  <2> HIDE DEF x
  <2>3. /\ records' \in Seq(Int) /\ Len(records) \in Nat /\ Len(records') = Len(records) + 1
        /\ \A i \in 1..Len(records) : records'[i] = records[i]
        /\ records'[Len(records) + 1] = x
      BY <2>1, AppendedAt
  <2>4. LogsTypeInv'
      BY <1>0, <2>1, <2>3
  <2>p. \A k \in 1..Len(records') :
           \/ k \in 1..Len(records) /\ records'[k] = records[k]
           \/ k = Len(records) + 1 /\ records'[k] = x
      BY <2>3
  <2>5. QueueInv'
    <3>1. \A k \in 1..Len(records') : Number(records'[k]) \in 1..seq' /\ Number(inHand) < Number(records'[k])
        BY <1>0, <2>1, <2>p, LogsTyped DEF QueueInv
    <3>2. \A j, k \in 1..Len(records') : j < k => Number(records'[j]) < Number(records'[k])
        BY <1>0, <2>1, <2>3, <2>p, LogsTyped DEF QueueInv
    <3>3. Number(inHand) <= seq'
        BY <1>0, LogsTyped DEF QueueInv
    <3> QED
        BY <1>0, <3>1, <3>2, <3>3 DEF QueueInv
  <2>6. LinesInv'
    <3> SUFFICES ASSUME NEW c \in 1..Len(lines), NEW l \in 1..Len(lines[c]) PROVE LineInv(c, l)'
        BY <1>0 DEF LinesInv
    <3>1. LineInv(c, l) /\ lines[c][l] \in Nat
        BY LogsTyped DEF LinesInv
    <3>2. lines[c][l] <= seq' /\ lines[c][l] < seq'
        BY <1>0, <3>1 DEF LineInv
    <3>3. lines[c][l] # 0 => \A k \in 1..Len(records') : lines[c][l] < Number(records'[k])
        BY <2>1, <2>p, <3>1, <3>2 DEF LineInv
    <3> QED
        BY <1>0, <3>1, <3>2, <3>3 DEF LineInv
  <2>7. SockInv'
      BY <1>0 DEF SockInv
  <2>8. FaultlessInv'
    <3> SUFFICES ASSUME logFaults' = 0 PROVE FaultlessInv'
        BY DEF FaultlessInv
    <3>1. b /\ logFaults = 0
        BY <1>0
    <3>2. Queued' = Queued \cup {seq + 1}
      <4>1. \A r \in Queued' : r \in Queued \/ r = seq + 1
          BY <1>0, <2>2, <2>p, <3>1 DEF Queued
      <4>2. \A r \in Queued : r \in Queued'
          BY <2>3 DEF Queued
      <4>3. seq + 1 \in Queued'
          BY <1>0, <2>2, <2>3, <3>1 DEF Queued
      <4> QED
          BY <4>1, <4>2, <4>3
    <3>3. (1..seq') \ dropped' = ((1..seq) \ dropped) \cup {seq + 1}
        BY <1>0, <2>1
    <3>4. \A i \in 1..Len(records') : records'[i] > 0
        BY <2>2, <2>p, <3>1 DEF FaultlessInv
    <3> QED
        BY <1>0, <1>w, <3>1, <3>2, <3>3, <3>4 DEF FaultlessInv
  <2> QED
      BY <2>4, <2>5, <2>6, <2>7, <2>8
<1>2. CASE ~(Len(records) < Capacity)
  <2>1. records' = records /\ dropped' = dropped \cup {seq + 1}
      BY <1>2
  <2>2. LogsTypeInv'
      BY <1>0, <2>1
  <2>5. QueueInv'
      BY <1>0, <2>1, LogsTyped DEF QueueInv
  <2>6. LinesInv'
    <3> SUFFICES ASSUME NEW c \in 1..Len(lines), NEW l \in 1..Len(lines[c]) PROVE LineInv(c, l)'
        BY <1>0 DEF LinesInv
    <3>1. LineInv(c, l) /\ lines[c][l] \in Nat
        BY LogsTyped DEF LinesInv
    <3> QED
        BY <1>0, <2>1, <3>1 DEF LineInv
  <2>7. SockInv'
      BY <1>0, <2>1 DEF SockInv
  <2>4. FaultlessInv'
    <3>1. (1..seq') \ dropped' = (1..seq) \ dropped
        BY <1>0, <2>1
    <3>2. Queued' = Queued
        BY <2>1 DEF Queued
    <3> QED
        BY <1>0, <1>w, <2>1, <3>1, <3>2 DEF FaultlessInv
  <2> QED
      BY <2>2, <2>4, <2>5, <2>6, <2>7
<1> QED
    BY <1>1, <1>2

\* The worker takes the oldest record in hand.
LEMMA GetKeeps ==
    ASSUME LogsInv, GetRecord
    PROVE  LogsInv'
<1> USE DEF LogsInv, LogsTypeInv, GetRecord
<1>1. CASE records = <<>>
  <2>1. QueueInv' /\ LinesInv' /\ SockInv' /\ LogsTypeInv'
      BY <1>1 DEF QueueInv, LinesInv, LineInv, SockInv
  <2>2. FaultlessInv'
    <3>1. WasRead' = WasRead /\ Queued' = Queued
        BY <1>1 DEF WasRead, Queued
    <3>2. workerPc' = "check" /\ UNCHANGED <<records, inHand, sock, viewer, stop, dropped, seq, logFaults>>
        BY <1>1
    <3> QED
        BY <3>1, <3>2 DEF FaultlessInv
  <2> QED
      BY <2>1, <2>2
<1>2. CASE records # <<>>
  <2>0. /\ workerPc = "get" /\ inHand = 0 /\ records' = Tail(records) /\ inHand' = Head(records)
        /\ workerPc' = IF Head(records) < 0 THEN "dead" ELSE "attempt"
        /\ UNCHANGED <<seq, dropped, sock, viewer, lines, stop, logFaults>>
      BY <1>2 DEF QueueInv
  <2>1. /\ records' \in Seq(Int) /\ Len(records) \in Nat \ {0} /\ Len(records') = Len(records) - 1
        /\ \A i \in 1..Len(records) - 1 : records'[i] = records[i + 1]
        /\ inHand' = records[1] /\ inHand' \in Int
      BY <1>2, <2>0, TailAt
  <2>2. Number(records[1]) \in 1..seq /\ records[1] # 0
      BY <2>1 DEF QueueInv, Number
  <2>3. LogsTypeInv'
      BY <2>0, <2>1
  <2>4. QueueInv'
      BY <2>0, <2>1, <2>2 DEF QueueInv
  <2>5. LinesInv'
    <3> SUFFICES ASSUME NEW c \in 1..Len(lines), NEW i \in 1..Len(lines[c]) PROVE LineInv(c, i)'
        BY <2>0 DEF LinesInv
    <3>1. LineInv(c, i)
        BY DEF LinesInv
    <3>2. lines[c][i] # 0 =>
            /\ \A k \in 1..Len(records') : lines[c][i] < Number(records'[k])
            /\ lines[c][i] < Number(inHand')
      <4>1. \A k \in 1..Len(records') : k + 1 \in 1..Len(records) /\ records'[k] = records[k + 1]
          BY <2>1
      <4>2. 1 \in 1..Len(records) /\ inHand' = records[1]
          BY <2>1
      <4> QED
          BY <3>1, <4>1, <4>2 DEF LineInv
    <3> QED
        BY <2>0, <3>1, <3>2 DEF LineInv
  <2>6. SockInv'
      BY <2>0 DEF SockInv
  <2>7. FaultlessInv'
    <3>0. /\ \A k \in 1..Len(records) : k = 1 \/ (k - 1 \in 1..Len(records') /\ records'[k - 1] = records[k])
          /\ \A k \in 1..Len(records') : k + 1 \in 1..Len(records) /\ records'[k] = records[k + 1]
          /\ 1 \in 1..Len(records)
      <4>1. \A k \in 1..Len(records) : k = 1 \/ (k - 1 \in 1..Len(records') /\ k = (k - 1) + 1)
          BY <2>1
      <4>2. \A k \in 1..Len(records') : k + 1 \in 1..Len(records) /\ k \in 1..Len(records) - 1
          BY <2>1
      <4> QED
          BY <2>1, <4>1, <4>2
    <3>a. \A r \in Queued : r \in Queued' \/ r = inHand'
      <4> SUFFICES ASSUME NEW k \in 1..Len(records) PROVE records[k] \in Queued' \/ records[k] = inHand'
          BY DEF Queued
      <4> QED
          BY <2>1, <3>0 DEF Queued
    <3>b. \A r \in Queued' : r \in Queued
      <4> SUFFICES ASSUME NEW k \in 1..Len(records') PROVE records'[k] \in Queued
          BY DEF Queued
      <4> QED
          BY <3>0 DEF Queued
    <3>c. inHand' \in Queued
        BY <2>1, <3>0 DEF Queued
    <3>1. Queued = Queued' \cup {inHand'}
        BY <3>a, <3>b, <3>c
    <3>d. \A k \in 1..Len(records') : FaultlessInv /\ logFaults = 0 => records'[k] > 0
        BY <3>0 DEF FaultlessInv
    <3>2. {inHand} \ {0} = {} /\ {inHand'} \ {0} = {inHand'} /\ WasRead' = WasRead
        BY <2>0, <2>1, <2>2 DEF WasRead
    <3>e. logFaults = 0 => records[1] > 0
        BY <3>0 DEF FaultlessInv
    <3> QED
        BY <2>0, <2>1, <3>1, <3>2, <3>d, <3>e DEF FaultlessInv
  <2> QED
      BY <2>3, <2>4, <2>5, <2>6, <2>7
<1> QED
    BY <1>1, <1>2

\* A line is added to the last connection.
LEMMA LineAdded ==
    ASSUME LogsTypeInv, Len(lines) > 0, NEW v \in Nat,
           lines' = [lines EXCEPT ![Len(lines)] = Append(@, v)]
    PROVE  /\ lines' \in Seq(Seq(Nat)) /\ Len(lines') = Len(lines)
           /\ \A c \in 1..Len(lines) : lines[c] \in Seq(Nat) /\ Len(lines[c]) \in Nat
           /\ \A c \in 1..Len(lines) : c # Len(lines) => lines'[c] = lines[c]
           /\ Len(lines'[Len(lines)]) = Len(lines[Len(lines)]) + 1
           /\ \A i \in 1..Len(lines[Len(lines)]) : lines'[Len(lines)][i] = lines[Len(lines)][i]
           /\ lines'[Len(lines)][Len(lines[Len(lines)]) + 1] = v
<1> DEFINE n == Len(lines)
<1>1. n \in 1..Len(lines) /\ lines[n] \in Seq(Nat) /\ Append(lines[n], v) \in Seq(Nat)
    BY DEF LogsTypeInv
<1>2. lines' \in Seq(Seq(Nat)) /\ Len(lines') = Len(lines) /\ lines'[n] = Append(lines[n], v)
      /\ \A c \in 1..Len(lines) : c # n => lines'[c] = lines[c]
    BY <1>1 DEF LogsTypeInv
<1>3. \A c \in 1..Len(lines) : lines[c] \in Seq(Nat) /\ Len(lines[c]) \in Nat
    BY DEF LogsTypeInv
<1>4. /\ Len(Append(lines[n], v)) = Len(lines[n]) + 1
      /\ \A i \in 1..Len(lines[n]) : Append(lines[n], v)[i] = lines[n][i]
      /\ Append(lines[n], v)[Len(lines[n]) + 1] = v
    BY <1>1, AppendedAt
<1> QED
    BY <1>2, <1>3, <1>4

\* The record in hand becomes the newest line, or is lost and leaves a torn one.
LEMMA SentKeeps ==
    ASSUME LogsInv, workerPc = "send", sock = "open", NEW v \in {inHand, 0},
           lines' = [lines EXCEPT ![Len(lines)] = Append(@, v)],
           workerPc' = "check", inHand' = 0,
           v # 0 => sock' = sock /\ logFaults' = logFaults,
           v = 0 => sock' = "none" /\ logFaults' = logFaults + 1,
           UNCHANGED <<seq, records, dropped, viewer, stop>>
    PROVE  LogsInv'
<1> USE DEF LogsInv, LogsTypeInv
<1> DEFINE n == Len(lines)
<1>0. inHand > 0 /\ Number(inHand) = inHand /\ inHand \in Nat /\ n \in Nat \ {0} /\ v \in Nat
    BY DEF QueueInv, Number, SockInv
<1>1. /\ lines' \in Seq(Seq(Nat)) /\ Len(lines') = n
      /\ \A c \in 1..n : lines[c] \in Seq(Nat) /\ Len(lines[c]) \in Nat
      /\ \A c \in 1..n : c # n => lines'[c] = lines[c]
      /\ Len(lines'[n]) = Len(lines[n]) + 1
      /\ \A i \in 1..Len(lines[n]) : lines'[n][i] = lines[n][i]
      /\ lines'[n][Len(lines[n]) + 1] = v
    BY <1>0, LineAdded
<1> HIDE DEF n
<1>2. LogsTypeInv'
    BY <1>1
<1>3. QueueInv'
    BY <1>0 DEF QueueInv, Number
<1>4. \A c \in 1..n : \A i \in 1..Len(lines'[c]) :
         \/ i \in 1..Len(lines[c]) /\ lines'[c][i] = lines[c][i]
         \/ c = n /\ i = Len(lines[n]) + 1 /\ lines'[c][i] = v
  <2>1. \A i \in 1..Len(lines'[n]) : i \in 1..Len(lines[n]) \/ i = Len(lines[n]) + 1
      BY <1>0, <1>1
  <2> QED
      BY <1>0, <1>1, <2>1
<1>5. \A i \in 1..Len(lines[n]) : lines[n][i] # 0
    BY DEF SockInv, n
<1>6. \A c \in 1..n : \A i \in 1..Len(lines[c]) : lines[c][i] # 0 => lines[c][i] < inHand
    BY <1>0 DEF LinesInv, LineInv, n
<1>s. inHand <= seq /\ 0 <= seq
    BY <1>0 DEF QueueInv
<1>7. LinesInv'
  <2> SUFFICES ASSUME NEW c \in 1..n, NEW i \in 1..Len(lines'[c]) PROVE LineInv(c, i)'
      BY <1>1 DEF LinesInv
  <2>1. lines'[c][i] <= seq
    <3>1. CASE i \in 1..Len(lines[c]) /\ lines'[c][i] = lines[c][i]
        BY <3>1 DEF LinesInv, LineInv, n
    <3>2. CASE lines'[c][i] = v
        BY <1>0, <1>s, <3>2
    <3> QED
        BY <1>4, <3>1, <3>2
  <2>2. lines'[c][i] # 0 => \A k \in 1..Len(records) : lines'[c][i] < Number(records[k])
    <3>1. CASE i \in 1..Len(lines[c]) /\ lines'[c][i] = lines[c][i]
        BY <3>1 DEF LinesInv, LineInv, n
    <3>2. CASE lines'[c][i] = v
        BY <1>0, <3>2 DEF QueueInv
    <3> QED
        BY <1>4, <3>1, <3>2
  <2>3. lines'[c][i] = 0 => i = Len(lines'[c])
    <3>1. CASE c = n
        BY <1>1, <1>4, <1>5, <3>1
    <3>2. CASE c # n
        BY <1>1, <3>2 DEF LinesInv, LineInv, n
    <3> QED
        BY <3>1, <3>2
  <2>4. ASSUME NEW d \in 1..n, NEW j \in 1..Len(lines'[d]), c < d \/ (c = d /\ i < j),
               lines'[c][i] # 0, lines'[d][j] # 0
        PROVE  lines'[c][i] < lines'[d][j]
    <3>1. i \in 1..Len(lines[c]) /\ lines'[c][i] = lines[c][i]
        BY <1>0, <1>1, <1>4, <2>4
    <3>2. CASE j \in 1..Len(lines[d]) /\ lines'[d][j] = lines[d][j]
        BY <2>4, <3>1, <3>2 DEF LinesInv, LineInv, n
    <3>3. CASE lines'[d][j] = v
        BY <1>0, <1>6, <2>4, <3>1, <3>3
    <3> QED
        BY <1>4, <3>2, <3>3
  <2> QED
      BY <1>1, <2>1, <2>2, <2>3, <2>4 DEF LineInv
<1>8. SockInv'
    BY <1>0, <1>1, <1>4, <1>5 DEF SockInv
<1>9. FaultlessInv'
  <2> SUFFICES ASSUME logFaults' = 0 PROVE FaultlessInv'
      BY DEF FaultlessInv
  <2>1. logFaults = 0 /\ v = inHand /\ sock' = sock
      BY <1>0
  <2>2. WasRead' = WasRead \cup {inHand}
    <3>1. \A r \in Nat \ {0} :
             (\E c \in 1..n : \E i \in 1..Len(lines'[c]) : lines'[c][i] = r)
                 => r = inHand \/ \E c \in 1..n : \E i \in 1..Len(lines[c]) : lines[c][i] = r
        BY <1>4, <2>1
    <3>2. \A c \in 1..n : \A i \in 1..Len(lines[c]) :
             i \in 1..Len(lines'[c]) /\ lines'[c][i] = lines[c][i]
      <4> SUFFICES ASSUME NEW c \in 1..n, NEW i \in 1..Len(lines[c])
                   PROVE  i \in 1..Len(lines'[c]) /\ lines'[c][i] = lines[c][i]
          OBVIOUS
      <4>1. CASE c = n
          BY <1>1, <4>1
      <4>2. CASE c # n
          BY <1>1, <4>2
      <4> QED
          BY <4>1, <4>2
    <3>3. n \in 1..n /\ Len(lines[n]) + 1 \in 1..Len(lines'[n])
        BY <1>0, <1>1
    <3>4. \A r \in WasRead' : r \in WasRead \cup {inHand}
      <4> SUFFICES ASSUME NEW r \in Nat \ {0}, \E c \in 1..n : \E i \in 1..Len(lines'[c]) : lines'[c][i] = r
                   PROVE  r \in WasRead \cup {inHand}
          BY <1>1 DEF WasRead
      <4> QED
          BY <3>1 DEF WasRead, n
    <3>5. \A r \in WasRead : r \in WasRead'
      <4> SUFFICES ASSUME NEW r \in Nat \ {0}, NEW c \in 1..n, NEW i \in 1..Len(lines[c]), lines[c][i] = r
                   PROVE  r \in WasRead'
          BY DEF WasRead, n
      <4>1. i \in 1..Len(lines'[c]) /\ lines'[c][i] = r /\ c \in 1..Len(lines')
          BY <1>1, <3>2
      <4> QED
          BY <4>1 DEF WasRead
    <3>6. inHand \in WasRead'
        BY <1>0, <1>1, <2>1, <3>3 DEF WasRead
    <3> QED
        BY <3>4, <3>5, <3>6
  <2>3. ({inHand} \ {0}) = {inHand} /\ ({inHand'} \ {0}) = {} /\ Queued' = Queued
      BY <1>0 DEF Queued
  <2> QED
      BY <2>1, <2>2, <2>3 DEF FaultlessInv
<1> QED
    BY <1>2, <1>3, <1>7, <1>8, <1>9

\* The record in hand is given up, for a fault, an absent viewer or close().
LEMMA GivenUpKeeps ==
    ASSUME LogsInv, workerPc \in {"attempt", "send"}, workerPc' = "check", inHand' = 0,
           stop \/ ~viewer \/ logFaults # 0, sock' \in {sock, "none"},
           UNCHANGED <<seq, records, dropped, viewer, lines, stop, logFaults>>
    PROVE  LogsInv'
<1> USE DEF LogsInv
<1>1. LogsTypeInv'
    BY DEF LogsTypeInv
<1>2. QueueInv'
    BY DEF QueueInv, LogsTypeInv, Number
<1>3. LinesInv'
    BY DEF LinesInv, LineInv
<1>5. SockInv'
    BY DEF SockInv
<1>4. FaultlessInv'
    BY DEF FaultlessInv
<1> QED
    BY <1>1, <1>2, <1>3, <1>4, <1>5

\* sendall() writes into a connection the viewer has left.
LEMMA LostKeeps ==
    ASSUME LogsInv, SendAll, sock # "open"
    PROVE  LogsInv'
<1>1. sock = "broken" /\ logFaults # 0
    BY DEF SendAll, LogsInv, LogsTypeInv, FaultlessInv
<1> QED
    BY <1>1, GivenUpKeeps DEF SendAll, Failed, AfterFailedSend

\* A new connection has no lines yet.
LEMMA ConnectedKeeps ==
    ASSUME LogsInv, ConnectViewer
    PROVE  LogsInv'
<1>1. CASE ~viewer
    BY <1>1, GivenUpKeeps DEF ConnectViewer, Failed, AfterFailedSend
<1>2. CASE viewer
  <2> USE DEF LogsInv
  <2>0. /\ sock' = "open" /\ lines' = Append(lines, <<>>)
        /\ UNCHANGED <<seq, records, dropped, workerPc, inHand, viewer, stop, logFaults>>
      BY <1>2 DEF ConnectViewer
  <2>1. /\ lines' \in Seq(Seq(Nat)) /\ Len(lines) \in Nat /\ Len(lines') = Len(lines) + 1
        /\ \A i \in 1..Len(lines) : lines'[i] = lines[i]
        /\ lines'[Len(lines) + 1] = <<>> /\ Len(<<>>) = 0
      BY <2>0, AppendedAt DEF LogsTypeInv
  <2>2. \A c \in 1..Len(lines') : \A i \in 1..Len(lines'[c]) :
           c \in 1..Len(lines) /\ i \in 1..Len(lines[c]) /\ lines'[c] = lines[c]
      BY <2>1
  <2>3. LogsTypeInv'
      BY <2>0, <2>1 DEF LogsTypeInv
  <2>4. QueueInv'
      BY <2>0 DEF QueueInv
  <2>5. LinesInv'
      BY <2>0, <2>2 DEF LinesInv, LineInv
  <2>6. SockInv'
      BY <2>0, <2>1 DEF SockInv
  <2>7. WasRead' = WasRead /\ Queued' = Queued
    <3>1. \A r \in WasRead' : r \in WasRead
        BY <2>2 DEF WasRead
    <3>2. \A c \in 1..Len(lines) : c \in 1..Len(lines') /\ lines'[c] = lines[c]
        BY <2>1
    <3>3. \A r \in WasRead : r \in WasRead'
        BY <3>2 DEF WasRead
    <3> QED
        BY <2>0, <3>1, <3>3 DEF Queued
  <2>8. FaultlessInv'
      BY <2>0, <2>7 DEF FaultlessInv
  <2> QED
      BY <2>3, <2>4, <2>5, <2>6, <2>8
<1> QED
    BY <1>1, <1>2 DEF LogsInv, LogsTypeInv

\* What leaves the records alone: close(), the loop's head, the viewer.
LEMMA OthersKeep ==
    ASSUME LogsInv, CloseHandler \/ CheckStop \/ (Attempt /\ ~stop) \/ Viewer
    PROVE  LogsInv'
<1>0. /\ UNCHANGED <<seq, records, dropped, inHand, lines>>
      /\ workerPc' \in {"check", "get", "send", "exited", workerPc}
      /\ workerPc' = "send" => workerPc \in {"attempt", "send"}
      /\ workerPc' # workerPc => workerPc \in {"check", "attempt"}
      /\ sock' \in {sock, "none", "broken"} /\ stop' \in BOOLEAN /\ (stop => stop') /\ viewer' \in BOOLEAN
      /\ \/ logFaults' = logFaults + 1
         \/ logFaults' = logFaults /\ viewer' = viewer /\ sock' \in {sock, "none"}
    BY DEF LogsInv, LogsTypeInv, CloseHandler, CheckStop, Attempt, Viewer, Fault
<1>1. LogsTypeInv'
    BY <1>0 DEF LogsInv, LogsTypeInv
<1>2. QueueInv'
  <2>1. workerPc' \in {"check", "get", "exited"} => inHand = 0
      BY DEF LogsInv, LogsTypeInv, CloseHandler, CheckStop, Attempt, Viewer, QueueInv
  <2>2. workerPc' \in {"attempt", "send"} => inHand > 0
      BY <1>0 DEF LogsInv, QueueInv
  <2> QED
      BY <1>0, <2>1, <2>2 DEF LogsInv, QueueInv
<1>3. LinesInv'
    BY <1>0 DEF LogsInv, LinesInv, LineInv
<1>4. SockInv'
    BY <1>0 DEF LogsInv, SockInv
<1>5. FaultlessInv'
  <2>1. WasRead' = WasRead /\ Queued' = Queued
      BY <1>0 DEF WasRead, Queued
  <2>2. logFaults' = 0 => /\ logFaults = 0 /\ viewer' = viewer /\ sock' \in {sock, "none"}
                          /\ (workerPc' = "dead" => workerPc = "dead") /\ (~stop' => ~stop)
      BY <1>0 DEF LogsInv, LogsTypeInv
  <2> QED
      BY <1>0, <2>1, <2>2 DEF LogsInv, FaultlessInv
<1> QED
    BY <1>1, <1>2, <1>3, <1>4, <1>5 DEF LogsInv

LEMMA LogsStep == LogsInv /\ [LogsNext]_logsVars => LogsInv'
<1> SUFFICES ASSUME LogsInv, [LogsNext]_logsVars PROVE LogsInv'
    OBVIOUS
<1>1. CASE Attempt /\ stop
    BY <1>1, GivenUpKeeps DEF Attempt
<1>2. CASE SendAll /\ sock = "open"
  <2>1. inHand # 0
      BY <1>2 DEF SendAll, LogsInv, LogsTypeInv, QueueInv
  <2> QED
      BY <1>2, <2>1, SentKeeps DEF SendAll
<1>3. CASE TimesOut
  <2>1. LogsTypeInv
      BY DEF LogsInv
  <2> QED
      BY <1>3, <2>1, SentKeeps DEF TimesOut, Fault, Failed, AfterFailedSend
<1>4. CASE UNCHANGED logsVars
  <2> USE <1>4 DEF logsVars, LogsInv
  <2>1. LogsTypeInv' /\ QueueInv' /\ LinesInv'
      BY DEF LogsTypeInv, QueueInv, LinesInv, LineInv
  <2>2. SockInv' /\ FaultlessInv'
      BY DEF SockInv, FaultlessInv, WasRead, Queued
  <2> QED
      BY <2>1, <2>2
<1> QED
    BY <1>1, <1>2, <1>3, <1>4, EmitKeeps, GetKeeps, LostKeeps, ConnectedKeeps, OthersKeep
    DEF LogsNext

\* The invariant says of single lines what LogsKept says of all.
LEMMA LogsAreKept == LogsInv => LogsKept
<1> SUFFICES ASSUME LogsInv PROVE LogsKept
    OBVIOUS
<1>1. DOMAIN lines = 1..Len(lines) /\ \A c \in 1..Len(lines) : DOMAIN lines[c] = 1..Len(lines[c])
    BY DEF LogsInv, LogsTypeInv
<1>2. \A x \in Whole : /\ x[1] \in 1..Len(lines) /\ x[2] \in 1..Len(lines[x[1]])
                       /\ Record(x) = lines[x[1]][x[2]] /\ Record(x) # 0
    BY <1>1 DEF Whole, Record
<1>3. \A c \in 1..Len(lines) : \A i \in 1..Len(lines[c]) :
         lines[c][i] # 0 => <<c, i>> \in Whole /\ Record(<<c, i>>) = lines[c][i]
    BY <1>1 DEF Whole, Record
<1>4. \A x, y \in Whole : Before(x, y) => Record(x) < Record(y)
    BY <1>2 DEF Before, LogsInv, LinesInv, LineInv
<1>5. \A c \in DOMAIN lines : \A i \in DOMAIN lines[c] : lines[c][i] = 0 => i = Len(lines[c])
    BY <1>1 DEF LogsInv, LinesInv, LineInv
<1>6. {Record(x) : x \in Whole} = WasRead
  <2>1. \A x \in Whole : Record(x) \in WasRead
      BY <1>2, LogsTyped DEF WasRead, LogsInv
  <2>2. \A r \in WasRead : \E x \in Whole : r = Record(x)
      BY <1>3 DEF WasRead
  <2> QED
      BY <2>1, <2>2
<1>7. ToSet(records) = Queued
  <2>1. DOMAIN records = 1..Len(records)
      BY DEF LogsInv, LogsTypeInv
  <2> QED
      BY <2>1 DEF ToSet, Queued
<1> QED
    BY <1>4, <1>5, <1>6, <1>7 DEF LogsKept, LogsInv, FaultlessInv

\* For any capacity and any number of records and faults: a viewer reads each record
\* once, in the order of emission, and without faults all but those that met a full
\* queue (tcp_log_viewer_handler.py).
THEOREM LogsCorrect == LogsSpec => []LogsKept
<1>1. LogsSpec => []LogsInv
    BY LogsStart, LogsStep, PTL DEF LogsSpec
<1> QED
    BY <1>1, LogsAreKept, PTL

\* Side by side, for any constants: what watches an application is right about it.
THEOREM ObserversCorrect == ObserversSpec => []ObserversAreRight
    BY MonitorCorrect, HealthCorrect, ConsoleCorrect, LogsCorrect, PTL
    DEF ObserversSpec, ObserversAreRight

=============================================================================
