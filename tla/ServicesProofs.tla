----------------------- MODULE ServicesProofs -----------------------
(***************************************************************************)
(* The services the engine gives a program, for any of their constants:    *)
(* exclusive actions, the background loop's tasks and resource scopes       *)
(* (TrackedWork), the async state machine (StateMachine), the container     *)
(* under concurrent resolves and registrations (Container), shards and the  *)
(* databases' commands (Database), settings and what the screens remember   *)
(* (UiState).                                                               *)
(***************************************************************************)
EXTENDS TrackedWork, StateMachine, Container, Database, UiState,
        WellFoundedInduction, SequenceTheorems, FiniteSetTheorems, TLAPS

\* A run that has not settled.
Active(r) == r \in DOMAIN runs /\ runs[r].state # "settled"

Runs == [key : Keys, state : {"queued", "running", "settled"}, callback : BOOLEAN]

SlotTypeInv ==
    /\ slot \in Keys \cup {Free}
    /\ step \in [Callers -> {"idle", "reserved", "submitted"}]
    /\ key \in [Callers -> Keys \cup {Free}]
    /\ mine \in [Callers -> Nat]
    /\ runs \in Seq(Runs)

\* The caller that has a key to release is the only one, and the slot is its.
CallerInv ==
    /\ \A c \in Callers : key[c] # Free =>
         /\ slot = key[c]
         /\ \A d \in Callers : key[d] # Free => c = d
    /\ \A c \in Callers : step[c] # "idle" => key[c] # Free
    /\ \A c \in Callers : step[c] = "submitted" =>
         /\ mine[c] \in DOMAIN runs
         /\ runs[mine[c]].key = key[c]
         /\ ~runs[mine[c]].callback

\* A run in flight is the only one: that of the caller still in submit(), or
\* one that calls back, and then no caller has a key to release.
RunInv ==
    /\ \A r \in DOMAIN runs : Active(r) =>
         /\ slot = runs[r].key
         /\ \A s \in DOMAIN runs : Active(s) => r = s
         /\ \/ runs[r].callback /\ \A c \in Callers : key[c] = Free
            \/ \E c \in Callers : step[c] = "submitted" /\ mine[c] = r
    /\ slot # Free => \/ \E c \in Callers : key[c] = slot
                      \/ \E r \in DOMAIN runs : Active(r) /\ runs[r].callback

SlotInv == SlotTypeInv /\ CallerInv /\ RunInv

USE DEF Active

\* A new instance is free.
LEMMA StartsFree == ExclusiveInit => SlotInv
    BY DEF ExclusiveInit, SlotInv, SlotTypeInv, CallerInv, RunInv

\* What a run is made of.
LEMMA RunsTyped ==
    ASSUME SlotTypeInv, NEW r \in DOMAIN runs
    PROVE  runs[r] \in Runs /\ \A x \in Runs : [runs EXCEPT ![r] = x] \in Seq(Runs)
    BY DEF SlotTypeInv

\* What changes when a run starts, settles or gets its callback.
LEMMA RunChanges ==
    ASSUME NEW x \in Runs
    PROVE  /\ [x EXCEPT !.callback = TRUE] \in Runs
           /\ [x EXCEPT !.callback = TRUE].key = x.key
           /\ [x EXCEPT !.callback = TRUE].state = x.state
           /\ [x EXCEPT !.callback = TRUE].callback
           /\ \A st \in {"running", "settled"} :
                /\ [x EXCEPT !.state = st] \in Runs
                /\ [x EXCEPT !.state = st].key = x.key
                /\ [x EXCEPT !.state = st].callback = x.callback
                /\ [x EXCEPT !.state = st].state = st
    BY DEF Runs

\* Starting takes a free slot.
LEMMA StartKeeps ==
    ASSUME SlotInv, NEW c \in Callers, NEW k \in Keys, TryStart(c, k)
    PROVE  SlotInv'
<1> USE FreeAssumption DEF SlotInv, SlotTypeInv, CallerInv, RunInv
<1>0. slot = Free /\ \A r \in DOMAIN runs : runs[r].key \in Keys
    BY RunsTyped DEF TryStart, CanStart, Runs
<1>1. /\ \A d \in Callers : key[d] = Free /\ step[d] = "idle"
      /\ \A r \in DOMAIN runs : ~Active(r)
    BY <1>0
<1>2. SlotTypeInv'
    BY DEF TryStart
<1>3. CallerInv'
    BY <1>1 DEF TryStart
<1>4. RunInv'
    BY <1>1 DEF TryStart
<1> QED
    BY <1>2, <1>3, <1>4

\* Giving up, or a submit() that raises, leaves no run behind.
LEMMA GiveUpKeeps ==
    ASSUME SlotInv, NEW c \in Callers, Finish(c) \/ SubmitRaises(c)
    PROVE  SlotInv'
<1> USE FreeAssumption DEF SlotInv, SlotTypeInv, CallerInv, RunInv
<1>1. /\ key[c] # Free /\ slot = key[c]
      /\ \A d \in Callers : d # c => key[d] = Free /\ step[d] = "idle"
      /\ \A r \in DOMAIN runs : ~Active(r)
    BY DEF Finish, SubmitRaises
<1>2. /\ UNCHANGED <<runs, mine>> /\ step' = [step EXCEPT ![c] = "idle"]
      /\ \/ slot' = Free /\ key' = [key EXCEPT ![c] = Free]
         \/ slot' = slot /\ key' = key
    BY <1>1 DEF Finish, SubmitRaises, Finished
<1>3. CallerInv'
    BY <1>1, <1>2
<1>4. SlotTypeInv'
  <2>1. slot' \in Keys \cup {Free} /\ mine' \in [Callers -> Nat] /\ runs' \in Seq(Runs)
      BY <1>2
  <2>2. step' \in [Callers -> {"idle", "reserved", "submitted"}]
      BY <1>2
  <2>3. key' \in [Callers -> Keys \cup {Free}]
      BY <1>2
  <2> QED
      BY <2>1, <2>2, <2>3
<1>5. RunInv'
    BY <1>1, <1>2
<1> QED
    BY <1>3, <1>4, <1>5

\* submit() adds the only run in flight.
LEMMA SubmitKeeps ==
    ASSUME SlotInv, NEW c \in Callers, Submit(c)
    PROVE  SlotInv'
<1> USE FreeAssumption DEF SlotInv, SlotTypeInv, CallerInv, RunInv
<1>0. step[c] = "reserved" /\ key[c] # Free
    BY DEF Submit
<1>1. /\ key[c] \in Keys /\ slot = key[c]
      /\ \A d \in Callers : d # c => key[d] = Free /\ step[d] = "idle"
      /\ \A r \in DOMAIN runs : ~Active(r)
    BY <1>0
<1>2. /\ DOMAIN runs' = 1 .. Len(runs) + 1 /\ Len(runs) \in Nat /\ DOMAIN runs = 1 .. Len(runs)
      /\ \A r \in DOMAIN runs : runs'[r] = runs[r]
      /\ runs'[Len(runs) + 1] = [key |-> key[c], state |-> "queued", callback |-> FALSE]
    BY DEF Submit
<1>3. SlotTypeInv'
    BY <1>1 DEF Submit, Runs
<1>4. CallerInv'
    BY <1>1, <1>2 DEF Submit
<1>5. RunInv'
    BY <1>1, <1>2 DEF Submit
<1> QED
    BY <1>3, <1>4, <1>5

\* Once the callback is there the run releases the slot, at once if it settled.
LEMMA CallbackKeeps ==
    ASSUME SlotInv, NEW c \in Callers, AddCallback(c)
    PROVE  SlotInv'
<1> USE FreeAssumption DEF SlotInv, SlotTypeInv, CallerInv, RunInv
<1> DEFINE m == mine[c]
<1>1. /\ key[c] # Free /\ slot = key[c] /\ m \in DOMAIN runs /\ runs[m].key = slot
      /\ \A d \in Callers : d # c => key[d] = Free /\ step[d] = "idle"
      /\ \A r \in DOMAIN runs : Active(r) => r = m
    BY DEF AddCallback
<1>2. /\ DOMAIN runs' = DOMAIN runs
      /\ \A r \in DOMAIN runs : r # m => runs'[r] = runs[r]
      /\ runs'[m].key = runs[m].key /\ runs'[m].state = runs[m].state /\ runs'[m].callback
    BY <1>1, RunsTyped, RunChanges DEF AddCallback
<1>3. SlotTypeInv'
  <2>1. [runs[m] EXCEPT !.callback = TRUE] \in Runs
    BY <1>1, RunsTyped, RunChanges
  <2>2. runs' \in Seq(Runs)
    BY <1>1, <2>1, RunsTyped DEF AddCallback
  <2> QED
    BY <1>1, <2>2 DEF AddCallback, Finished
<1>4. CallerInv'
    BY <1>1, <1>2 DEF AddCallback, Finished
<1>5. RunInv'
    BY <1>1, <1>2 DEF AddCallback, Finished
<1> QED
    BY <1>3, <1>4, <1>5

\* A run that starts or settles: settling frees the slot it held.
LEMMA RunKeeps ==
    ASSUME SlotInv, NEW r \in DOMAIN runs, RunStarts(r) \/ RunSettles(r)
    PROVE  SlotInv'
<1> USE FreeAssumption DEF SlotInv, SlotTypeInv, CallerInv, RunInv
<1>0. runs[r] \in Runs
    BY RunsTyped
<1>1. Active(r) /\ slot = runs[r].key /\ \A s \in DOMAIN runs : Active(s) => s = r
    BY DEF RunStarts, RunSettles
<1>2. PICK st \in {"running", "settled"} :
         /\ runs' = [runs EXCEPT ![r].state = st]
         /\ UNCHANGED <<step, key, mine>>
         /\ slot' = IF st = "settled" /\ runs[r].callback THEN Free ELSE slot
  <2>1. CASE RunStarts(r)
    BY <2>1 DEF RunStarts
  <2>2. CASE RunSettles(r)
    BY <1>1, <2>2 DEF RunSettles, Finished
  <2> QED
    BY <2>1, <2>2
<1>a. /\ DOMAIN runs' = DOMAIN runs
      /\ \A s \in DOMAIN runs : s # r => runs'[s] = runs[s]
      /\ runs'[r].key = runs[r].key /\ runs'[r].callback = runs[r].callback /\ runs'[r].state = st
  <2>1. /\ DOMAIN runs' = DOMAIN runs /\ runs'[r] = [runs[r] EXCEPT !.state = st]
        /\ \A s \in DOMAIN runs : s # r => runs'[s] = runs[s]
    BY <1>2
  <2> QED
    BY <1>0, <2>1, RunChanges
<1>3. SlotTypeInv'
  <2>1. [runs[r] EXCEPT !.state = st] \in Runs
    BY <1>0, RunChanges
  <2>2. runs' \in Seq(Runs)
    BY <1>2, <2>1, RunsTyped
  <2> QED
    BY <1>2, <2>2
<1>4. CallerInv'
  <2>1. \A x \in DOMAIN runs : runs'[x].key = runs[x].key /\ runs'[x].callback = runs[x].callback
    BY <1>a
  <2>2. slot' # slot => \A d \in Callers : key[d] = Free
    <3>1. ASSUME NEW d \in Callers, key[d] # Free, runs[r].callback, slot = runs[r].key PROVE FALSE
        BY <1>1, <3>1
    <3> QED
        BY <1>1, <1>2, <3>1
  <2> QED
    BY <1>2, <1>a, <2>1, <2>2
<1>5. RunInv'
    BY <1>0, <1>1, <1>2, <1>a DEF Runs
<1> QED
    BY <1>3, <1>4, <1>5

\* Whoever starts, gives up, fails or is cancelled, at most one of the actions
\* that exclude each other is in flight, and no slot is held for nobody.
THEOREM SlotCorrect == ExclusiveSpec => []OneRunAtATime
<1>1. SlotInv /\ UNCHANGED exclusiveVars => SlotInv'
    BY DEF SlotInv, SlotTypeInv, CallerInv, RunInv, exclusiveVars
<1>2. SlotInv /\ [ExclusiveNext]_exclusiveVars => SlotInv'
    BY <1>1, StartKeeps, GiveUpKeeps, SubmitKeeps, CallbackKeeps, RunKeeps DEF ExclusiveNext
<1>3. SlotInv => OneRunAtATime
    BY DEF SlotInv, RunInv, OneRunAtATime
<1> QED
    BY <1>2, <1>3, StartsFree, PTL DEF ExclusiveSpec
----------------------------------------------------------------------------
\* AsyncRuntime.

AsyncTypeInv ==
    /\ loop \in BOOLEAN /\ stopAsked \in BOOLEAN
    /\ thread \in {"none", "starting", "running", "exited"}
    /\ stopPc \in {"idle", "draining", "waiting", "asking", "joining", "closing"}
    /\ drained \subseteq Coros /\ excused \subseteq Coros
    /\ task \in [Coros -> {"new", "running", "cleaning", "ended", "aborted", "destroyed"}]

\* The loop is known as long as its thread is, and close() comes after the join.  A
\* loop that does not run yet has no tasks.
LoopInv ==
    /\ ~loop => thread = "none"
    /\ stopPc = "closing" => thread = "none"
    /\ thread \in {"none", "starting"} /\ stopPc # "closing" => Pending = {}

\* From the moment the loop has to stop, every task on it is excused; until then,
\* the drain has it.
StopInv ==
    /\ stopAsked \/ thread = "exited" \/ stopPc \in {"asking", "joining", "closing"} =>
         Pending \subseteq excused
    /\ stopPc = "waiting" => Pending \subseteq excused \cup drained

AsyncInv == AsyncTypeInv /\ LoopInv /\ StopInv /\ TasksCleanUp

\* A step that adds no task, and excuses as many, keeps what is known of the tasks.
LEMMA AsyncTasksKept ==
    ASSUME UNCHANGED tasks
    PROVE  Pending' = Pending
    BY DEF tasks, Pending

\* start() and the loop's own steps.
LEMMA LoopKeeps ==
    ASSUME AsyncInv, Start \/ LoopRuns \/ LoopStops
    PROVE  AsyncInv'
<1> USE DEF AsyncInv
<1>1. AsyncTypeInv'
    BY DEF AsyncTypeInv, Start, LoopRuns, LoopStops, tasks
<1>2. UNCHANGED tasks /\ Pending' = Pending
    BY AsyncTasksKept DEF Start, LoopRuns, LoopStops, tasks
<1>3. LoopInv' /\ StopInv'
    BY <1>2 DEF LoopInv, StopInv, Start, LoopRuns, LoopStops, tasks
<1>4. TasksCleanUp'
    BY <1>2 DEF TasksCleanUp, LoopInv, Start, LoopRuns, LoopStops, tasks
<1> QED
    BY <1>1, <1>3, <1>4

\* A coroutine that comes when it is too late for the drain is excused.
LEMMA CoroutineKeeps ==
    ASSUME AsyncInv, NEW k \in Coros, RunCoroutine(k)
    PROVE  AsyncInv'
<1> USE DEF AsyncInv
<1>1. Pending' = Pending \cup {k}
    BY DEF AsyncTypeInv, RunCoroutine, Pending
<1>2. /\ thread = "running" /\ UNCHANGED <<loop, thread, stopAsked, stopPc, drained>>
      /\ excused \subseteq excused'
      /\ stopAsked \/ stopPc \notin {"idle", "draining"} => k \in excused'
    BY DEF RunCoroutine, control
<1>3. AsyncTypeInv'
    BY DEF AsyncTypeInv, RunCoroutine, control
<1>4. LoopInv' /\ StopInv'
    BY <1>1, <1>2 DEF LoopInv, StopInv
<1>5. TasksCleanUp'
    BY <1>2 DEF TasksCleanUp, RunCoroutine, AsyncTypeInv
<1> QED
    BY <1>3, <1>4, <1>5

\* A task that ends is pending no more.
LEMMA TaskEndsKeeps ==
    ASSUME AsyncInv, NEW k \in Coros, TaskEnds(k)
    PROVE  AsyncInv'
<1> USE DEF AsyncInv
<1>1. Pending' \subseteq Pending
    BY DEF AsyncTypeInv, TaskEnds, Pending
<1>2. thread = "running" /\ UNCHANGED <<loop, thread, stopAsked, stopPc, drained, excused>>
    BY DEF TaskEnds, control
<1>3. AsyncTypeInv'
    BY DEF AsyncTypeInv, TaskEnds, control
<1>4. LoopInv' /\ StopInv'
    BY <1>1, <1>2 DEF LoopInv, StopInv
<1>5. TasksCleanUp'
    BY <1>2 DEF TasksCleanUp, TaskEnds, AsyncTypeInv
<1> QED
    BY <1>3, <1>4, <1>5

\* The steps of stop() that leave the tasks alone.
LEMMA StopKeeps ==
    ASSUME AsyncInv,
           \/ StopOnLoop \/ StopCalled \/ DrainEnds \/ DrainTimesOut
           \/ AskToStop \/ JoinReturns \/ JoinTimesOut
    PROVE  AsyncInv'
<1> USE DEF AsyncInv
<1>1. task' = task /\ Pending' = Pending
    BY DEF StopOnLoop, StopCalled, DrainEnds, DrainTimesOut, AskToStop, JoinReturns,
           JoinTimesOut, tasks, Pending
<1>2. Pending \subseteq Coros /\ excused \subseteq excused'
    BY DEF StopOnLoop, StopCalled, DrainEnds, DrainTimesOut, AskToStop, JoinReturns,
           JoinTimesOut, tasks, Pending
<1>3. AsyncTypeInv'
    BY <1>1, <1>2 DEF AsyncTypeInv, StopOnLoop, StopCalled, AfterCall, DrainEnds, DrainTimesOut,
           AskToStop, JoinReturns, JoinTimesOut, tasks, control
<1>4. LoopInv' /\ StopInv'
    BY <1>1, <1>2 DEF LoopInv, StopInv, StopOnLoop, StopCalled, AfterCall, DrainEnds,
           DrainTimesOut, AskToStop, JoinReturns, JoinTimesOut, tasks, control, AsyncTypeInv
<1>5. TasksCleanUp'
    BY <1>1, <1>2, <1>4 DEF TasksCleanUp, LoopInv
<1> QED
    BY <1>3, <1>4, <1>5

\* The drain cancels what runs, which is still pending and is waited for.
LEMMA DrainKeepsTasks ==
    ASSUME AsyncInv, DrainStarts
    PROVE  AsyncInv'
<1> USE DEF AsyncInv
<1>1. \A k \in Coros : /\ task'[k] = "cleaning" \/ task'[k] = task[k]
                       /\ k \in Pending <=> task'[k] \in {"running", "cleaning"}
    BY DEF AsyncTypeInv, DrainStarts, CancelledAgain, Pending
<1>2. Pending' = Pending /\ drained' = Pending /\ excused' = excused
    BY <1>1 DEF Pending, DrainStarts
<1>3. AsyncTypeInv'
    BY DEF AsyncTypeInv, DrainStarts, CancelledAgain, Pending, control
<1>4. LoopInv' /\ StopInv'
    BY <1>2 DEF LoopInv, StopInv, DrainStarts, control
<1>5. TasksCleanUp'
    BY <1>1, <1>2 DEF TasksCleanUp, DrainStarts, control
<1> QED
    BY <1>3, <1>4, <1>5

\* What is still pending when the loop is closed was excused before it stopped.
LEMMA CloseKeeps ==
    ASSUME AsyncInv, Close
    PROVE  AsyncInv'
<1> USE DEF AsyncInv
<1>1. \A k \in Coros : task'[k] = IF k \in Pending THEN "destroyed" ELSE task[k]
    BY DEF Close
<1>2. Pending' = {}
    BY <1>1 DEF Pending
<1>3. AsyncTypeInv'
    BY DEF AsyncTypeInv, Close
<1>4. LoopInv' /\ StopInv'
    BY <1>2 DEF LoopInv, StopInv, Close
<1>5. TasksCleanUp'
    BY <1>1 DEF TasksCleanUp, StopInv, LoopInv, Close
<1> QED
    BY <1>3, <1>4, <1>5

\* Over timeouts, retries, restarts and a stop() on the loop's own thread, for any
\* number of coroutines and calls: a loop is not closed before its thread has ended,
\* and a finally clause runs to its end unless its task was excused.
THEOREM CleanUpCorrect == AsyncSpec => []TasksCleanUp
<1>1. AsyncInit => AsyncInv
    BY DEF AsyncInit, AsyncInv, AsyncTypeInv, LoopInv, StopInv, TasksCleanUp, Pending
<1>2. AsyncInv /\ UNCHANGED asyncVars => AsyncInv'
    BY DEF AsyncInv, AsyncTypeInv, LoopInv, StopInv, TasksCleanUp, Pending, asyncVars, control, tasks
<1>3. AsyncInv /\ [AsyncNext]_asyncVars => AsyncInv'
    BY <1>2, LoopKeeps, CoroutineKeeps, TaskEndsKeeps, StopKeeps, DrainKeepsTasks, CloseKeeps
       DEF AsyncNext
<1>4. AsyncInv => TasksCleanUp
    BY DEF AsyncInv
<1> QED
    BY <1>1, <1>3, <1>4, PTL DEF AsyncSpec
----------------------------------------------------------------------------
\* ResourceScope.

ScopeTypeInv ==
    /\ added \in 0 .. MaxResources
    /\ scope \in Seq(Nat) /\ \A i \in DOMAIN scope : scope[i] \in 1 .. added
    /\ disposing \subseteq Callers
    /\ hand \in [Callers -> 0 .. added]
    /\ disposed \in [1 .. MaxResources -> {0, 1}]
    /\ overlap \in BOOLEAN

\* Resources lie in the scope in the order of their numbers, only a disposer has one
\* in hand, and beside nothing else it is later than those still in the scope.
OrderInv ==
    /\ \A i, j \in DOMAIN scope : i < j => scope[i] < scope[j]
    /\ \A c \in Callers : hand[c] # 0 => c \in disposing
    /\ ~overlap => \A c \in Callers, i \in DOMAIN scope : hand[c] = 0 \/ scope[i] < hand[c]

\* A resource that was not disposed of is in one place, and none else is anywhere.
PlaceInv ==
    /\ \A i \in DOMAIN scope : disposed[scope[i]] = 0
    /\ \A c \in Callers : hand[c] # 0 =>
         /\ disposed[hand[c]] = 0
         /\ \A i \in DOMAIN scope : scope[i] # hand[c]
         /\ \A d \in Callers : hand[d] = hand[c] => d = c
    /\ \A n \in 1 .. added : disposed[n] = 0 =>
         (\E i \in DOMAIN scope : scope[i] = n) \/ (\E c \in Callers : hand[c] = n)
    /\ \A n \in 1 .. MaxResources : n > added => disposed[n] = 0

ScopeInv == ScopeTypeInv /\ OrderInv /\ PlaceInv

\* A sequence without its last element.
LEMMA FrontOf ==
    ASSUME NEW S, NEW s \in Seq(S), s # <<>>
    PROVE  /\ SubSeq(s, 1, Len(s) - 1) \in Seq(S)
           /\ Len(SubSeq(s, 1, Len(s) - 1)) = Len(s) - 1
           /\ DOMAIN SubSeq(s, 1, Len(s) - 1) = 1 .. Len(s) - 1
           /\ \A i \in 1 .. Len(s) - 1 : SubSeq(s, 1, Len(s) - 1)[i] = s[i]
<1> DEFINE f == SubSeq(s, 1, Len(s) - 1)
<1>1. Len(s) \in Nat /\ Len(s) > 0 /\ \A i \in 1 .. Len(s) : s[i] \in S
    OBVIOUS
<1>2. /\ f \in Seq(S)
      /\ Len(f) = IF 1 <= Len(s) - 1 THEN Len(s) - 1 - 1 + 1 ELSE 0
      /\ \A i \in 1 .. Len(s) - 1 - 1 + 1 : f[i] = s[1 + i - 1]
    BY <1>1, SubSeqProperties
<1> HIDE DEF f
<1>3. Len(f) = Len(s) - 1 /\ \A i \in 1 .. Len(s) - 1 : f[i] = s[i]
  <2>1. \A i \in 1 .. Len(s) - 1 : i \in 1 .. Len(s) - 1 - 1 + 1 /\ 1 + i - 1 = i
    BY <1>1
  <2>2. Len(f) = Len(s) - 1
    <3> DEFINE n == Len(s)
    <3>1. n \in Nat /\ n > 0 /\ Len(f) = IF 1 <= n - 1 THEN n - 1 - 1 + 1 ELSE 0
      BY <1>1, <1>2
    <3> HIDE DEF n
    <3>2. Len(f) = n - 1
      BY <3>1
    <3> QED
      BY <3>2 DEF n
  <2>3. \A i \in 1 .. Len(s) - 1 : f[i] = s[1 + i - 1]
    BY <1>2, <2>1
  <2> QED
    BY <2>1, <2>2, <2>3
<1>4. DOMAIN f = 1 .. Len(f)
    BY <1>2
<1> QED
    BY <1>2, <1>3, <1>4 DEF f

\* A sequence with one more element.
LEMMA WithLast ==
    ASSUME NEW S, NEW s \in Seq(S), NEW x \in S
    PROVE  /\ Append(s, x) \in Seq(S)
           /\ Len(Append(s, x)) = Len(s) + 1
           /\ DOMAIN Append(s, x) = 1 .. Len(s) + 1
           /\ \A i \in 1 .. Len(s) : Append(s, x)[i] = s[i]
           /\ Append(s, x)[Len(s) + 1] = x
    BY AppendProperties

\* A scope without its last resource.
LEMMA ScopePopped ==
    ASSUME ScopeInv, scope # <<>>
    PROVE  /\ Popped.resource \in 1 .. added /\ Popped.rest \in Seq(Nat)
           /\ \A i \in DOMAIN Popped.rest : i \in DOMAIN scope /\ Popped.rest[i] = scope[i]
           /\ \A i \in DOMAIN scope : i \in DOMAIN Popped.rest \/ i = Len(scope)
           /\ \A i \in DOMAIN Popped.rest : i < Len(scope)
           /\ Popped.resource = scope[Len(scope)] /\ Len(scope) \in DOMAIN scope
<1>1. /\ scope \in Seq(Nat) /\ Len(scope) \in Nat /\ Len(scope) > 0
      /\ DOMAIN scope = 1 .. Len(scope) /\ \A i \in DOMAIN scope : scope[i] \in 1 .. added
    BY DEF ScopeInv, ScopeTypeInv
<1>2. Popped.resource = scope[Len(scope)] /\ Popped.rest = SubSeq(scope, 1, Len(scope) - 1)
    BY DEF Popped
<1> HIDE DEF Popped
<1>3. /\ Popped.rest \in Seq(Nat) /\ DOMAIN Popped.rest = 1 .. Len(scope) - 1
      /\ \A i \in 1 .. Len(scope) - 1 : Popped.rest[i] = scope[i]
    BY <1>1, <1>2, FrontOf
<1> QED
    BY <1>1, <1>2, <1>3

\* add() gives a number that no resource has.
LEMMA AddKeeps ==
    ASSUME ScopeInv, Add
    PROVE  ScopeInv'
<1> USE BoundAssumption DEF ScopeInv, Add
<1>1. /\ scope \in Seq(Nat) /\ added' \in 1 .. MaxResources /\ added' = added + 1 /\ added \in Nat
      /\ 1 .. added \subseteq 1 .. added' /\ Len(scope) \in Nat /\ DOMAIN scope = 1 .. Len(scope)
      /\ \A i \in DOMAIN scope : scope[i] \in 1 .. added
    BY DEF ScopeTypeInv
<1>2. /\ DOMAIN scope' = DOMAIN scope \cup {Len(scope) + 1}
      /\ \A i \in DOMAIN scope : scope'[i] = scope[i] /\ scope[i] \in 1 .. added /\ i < Len(scope) + 1
      /\ scope'[Len(scope) + 1] = added'
  <2>1. added + 1 \in Nat /\ scope' = Append(scope, added + 1)
    BY <1>1
  <2>2. /\ DOMAIN scope' = 1 .. Len(scope) + 1 /\ scope'[Len(scope) + 1] = added + 1
        /\ \A i \in 1 .. Len(scope) : scope'[i] = scope[i]
    BY <1>1, <2>1, WithLast
  <2> QED
    BY <1>1, <2>2
<1>3. ScopeTypeInv'
  <2>1. scope' \in Seq(Nat)
    BY <1>1
  <2>2. \A i \in DOMAIN scope' : scope'[i] \in 1 .. added'
    BY <1>1, <1>2
  <2> QED
    BY <1>1, <2>1, <2>2 DEF ScopeTypeInv
<1>4. OrderInv'
  <2>1. \A i, j \in DOMAIN scope' : i < j => scope'[i] < scope'[j]
    BY <1>1, <1>2 DEF OrderInv, ScopeTypeInv
  <2> QED
    BY <2>1 DEF OrderInv
<1>5. PlaceInv'
  <2>1. \A c \in Callers : hand[c] \in 0 .. added /\ hand[c] # added'
    BY <1>1 DEF ScopeTypeInv
  <2>2. \A n \in 1 .. added' : n \in 1 .. added \/ n = added'
    BY <1>1 DEF ScopeTypeInv
  <2>3. disposed[added'] = 0
    BY <1>1 DEF PlaceInv, ScopeTypeInv
  <2>4. Len(scope) + 1 \in DOMAIN scope'
    BY <1>2
  <2>5. \A n \in 1 .. MaxResources : n > added' => disposed[n] = 0
    BY <1>1 DEF PlaceInv, ScopeTypeInv
  <2> QED
    BY <1>2, <2>1, <2>2, <2>3, <2>4, <2>5 DEF PlaceInv
<1> QED
    BY <1>3, <1>4, <1>5

\* Entering and leaving dispose_all() move no resource; who enters alone finds every
\* other hand empty.
LEMMA DisposeAllKeeps ==
    ASSUME ScopeInv, NEW c \in Callers, DisposeAll(c) \/ DisposeAllReturns(c)
    PROVE  ScopeInv'
<1> USE DEF ScopeInv
<1>1. ScopeTypeInv'
  <2>3. UNCHANGED <<added, scope, hand, disposed>>
    BY DEF DisposeAll, DisposeAllReturns
  <2>4. disposing' \subseteq Callers /\ overlap' \in BOOLEAN
    BY DEF ScopeTypeInv, DisposeAll, DisposeAllReturns
  <2> QED
    BY <2>3, <2>4 DEF ScopeTypeInv
<1>2. OrderInv'
    BY DEF OrderInv, DisposeAll, DisposeAllReturns
<1>3. PlaceInv'
    BY DEF PlaceInv, DisposeAll, DisposeAllReturns
<1> QED
    BY <1>1, <1>2, <1>3

\* The resource popped is the last one added of those in the scope.
LEMMA PopKeeps ==
    ASSUME ScopeInv, NEW c \in Callers, Pop(c)
    PROVE  ScopeInv'
<1> USE DEF ScopeInv, Pop
<1> DEFINE r == Popped.resource
           l == Len(scope)
<1>1. /\ r \in 1 .. added /\ scope' \in Seq(Nat)
      /\ \A i \in DOMAIN scope' : i \in DOMAIN scope /\ scope'[i] = scope[i] /\ i < l
      /\ \A i \in DOMAIN scope : i \in DOMAIN scope' \/ i = l
      /\ r = scope[l] /\ l \in DOMAIN scope
    BY ScopePopped
<1>2. /\ hand' \in [Callers -> 0 .. added] /\ hand'[c] = r /\ r # 0
      /\ \A d \in Callers : d # c => hand'[d] = hand[d]
    BY <1>1 DEF ScopeTypeInv
<1>3. ScopeTypeInv'
    BY <1>1, <1>2 DEF ScopeTypeInv
<1>4. \A i \in DOMAIN scope' : scope'[i] < r /\ scope'[i] # r
  <2> SUFFICES ASSUME NEW i \in DOMAIN scope' PROVE scope'[i] < r /\ scope'[i] # r
      OBVIOUS
  <2>1. scope[i] < scope[l] /\ scope[i] \in 1 .. added
      BY <1>1 DEF OrderInv, ScopeTypeInv
  <2> QED
      BY <1>1, <2>1 DEF ScopeTypeInv
<1>5. OrderInv'
    BY <1>1, <1>2, <1>4 DEF OrderInv
<1>6. PlaceInv'
  <2>1. UNCHANGED <<added, disposed>> /\ disposed[r] = 0
    BY <1>1 DEF PlaceInv
  <2>2. \A d \in Callers : hand[d] # r
    BY <1>1, <1>2 DEF PlaceInv
  <2>3. \A n \in 1 .. added : disposed[n] = 0 =>
           (\E i \in DOMAIN scope' : scope'[i] = n) \/ (\E d \in Callers : hand'[d] = n)
    <3> SUFFICES ASSUME NEW n \in 1 .. added, disposed[n] = 0,
                        \A i \in DOMAIN scope' : scope'[i] # n, \A d \in Callers : hand'[d] # n
                 PROVE  FALSE
        OBVIOUS
    <3>1. n # r /\ n # 0
        BY <1>2 DEF ScopeTypeInv
    <3>2. \A d \in Callers : hand[d] # n
        BY <1>2, <3>1
    <3>3. \A i \in DOMAIN scope : scope[i] # n
        BY <1>1, <3>1
    <3> QED
        BY <3>2, <3>3 DEF PlaceInv
  <2>4. /\ \A i \in DOMAIN scope' : disposed[scope'[i]] = 0
        /\ \A n \in 1 .. MaxResources : n > added => disposed[n] = 0
    BY <1>1 DEF PlaceInv
  <2>5. \A d \in Callers : hand'[d] # 0 =>
           /\ disposed[hand'[d]] = 0
           /\ \A i \in DOMAIN scope' : scope'[i] # hand'[d]
           /\ \A e \in Callers : hand'[e] = hand'[d] => e = d
    BY <1>1, <1>2, <1>4, <2>1, <2>2 DEF PlaceInv
  <2> QED
    BY <2>1, <2>3, <2>4, <2>5 DEF PlaceInv
<1> QED
    BY <1>3, <1>5, <1>6

\* What was in hand is disposed of, once.
LEMMA DisposeKeeps ==
    ASSUME ScopeInv, NEW c \in Callers, Dispose(c)
    PROVE  ScopeInv'
<1> USE DEF ScopeInv
<1> DEFINE r == hand[c]
<1>0. /\ r \in 1 .. added /\ r \in 1 .. MaxResources /\ 1 .. added \subseteq 1 .. MaxResources
    BY BoundAssumption DEF ScopeTypeInv, Dispose
<1>1. /\ disposed[r] = 0
      /\ hand' = [hand EXCEPT ![c] = 0] /\ disposed' = [disposed EXCEPT ![r] = 1]
      /\ UNCHANGED <<added, scope, disposing, overlap>>
  <2>1. disposed[r] = 0
    BY <1>0 DEF PlaceInv, Dispose
  <2>2. disposed[r] + 1 = 1
    BY <2>1
  <2> QED
    BY <2>1, <2>2 DEF Dispose
<1>2. /\ hand'[c] = 0 /\ \A d \in Callers : d # c => hand'[d] = hand[d]
      /\ disposed'[r] = 1 /\ \A n \in 1 .. MaxResources : n # r => disposed'[n] = disposed[n]
    BY <1>0, <1>1 DEF ScopeTypeInv
<1>3. ScopeTypeInv'
  <2>2. disposed' \in [1 .. MaxResources -> {0, 1}]
    BY <1>0, <1>1 DEF ScopeTypeInv
  <2>3. hand' \in [Callers -> 0 .. added]
    BY <1>0, <1>1 DEF ScopeTypeInv
  <2> QED
    BY <1>1, <2>2, <2>3 DEF ScopeTypeInv
<1>4. OrderInv'
    BY <1>1, <1>2 DEF OrderInv
<1>5. PlaceInv'
  <2>1. /\ \A i \in DOMAIN scope : scope[i] \in 1 .. MaxResources /\ scope[i] # r
    BY <1>0 DEF ScopeTypeInv, PlaceInv, Dispose
  <2>2. \A d \in Callers : hand'[d] # 0 => d # c /\ hand[d] # r /\ hand[d] \in 1 .. MaxResources
    BY <1>0, <1>1, <1>2 DEF ScopeTypeInv, PlaceInv, Dispose
  <2>3. /\ \A i \in DOMAIN scope' : disposed'[scope'[i]] = 0
        /\ \A d \in Callers : hand'[d] # 0 =>
             /\ disposed'[hand'[d]] = 0
             /\ \A i \in DOMAIN scope' : scope'[i] # hand'[d]
             /\ \A e \in Callers : hand'[e] = hand'[d] => e = d
    BY <1>1, <1>2, <2>1, <2>2 DEF PlaceInv
  <2>4. \A n \in 1 .. added : disposed'[n] = 0 =>
           (\E i \in DOMAIN scope : scope[i] = n) \/ (\E d \in Callers : hand'[d] = n)
    BY <1>0, <1>1, <1>2, <2>1 DEF PlaceInv
  <2>5. \A n \in 1 .. MaxResources : n > added => disposed'[n] = 0
    BY <1>1, <1>2 DEF PlaceInv, ScopeTypeInv
  <2> QED
    BY <1>1, <2>3, <2>4, <2>5 DEF PlaceInv
<1> QED
    BY <1>3, <1>4, <1>5

\* However disposals, additions and failures of dispose() overlap, for any number of
\* callers and resources, each resource is disposed of once, in the order that a
\* disposal with nothing beside it promises.
THEOREM ScopeCorrect == ScopeSpec => []ResourcesReleasedOnce
<1>1. ScopeInit => ScopeInv
  <2> SUFFICES ASSUME ScopeInit PROVE ScopeInv
      OBVIOUS
  <2>1. scope = <<>> /\ scope \in Seq(Nat) /\ DOMAIN scope = {}
      BY DEF ScopeInit
  <2>2. ScopeTypeInv
    <3>1. added \in 0 .. MaxResources
        BY BoundAssumption DEF ScopeInit
    <3>4. disposing \subseteq Callers /\ overlap \in BOOLEAN
        BY DEF ScopeInit
    <3>2. hand \in [Callers -> 0 .. added]
        BY DEF ScopeInit
    <3>3. disposed \in [1 .. MaxResources -> {0, 1}]
        BY DEF ScopeInit
    <3> QED
        BY <2>1, <3>1, <3>2, <3>3, <3>4 DEF ScopeTypeInv
  <2>3. \A c \in Callers : hand[c] = 0
      BY DEF ScopeInit
  <2>4. added = 0 /\ \A n \in 1 .. MaxResources : disposed[n] = 0
      BY DEF ScopeInit
  <2> QED
      BY <2>1, <2>2, <2>3, <2>4 DEF ScopeInv, OrderInv, PlaceInv
<1>2. ScopeInv /\ UNCHANGED scopeVars => ScopeInv'
    BY DEF ScopeInv, ScopeTypeInv, OrderInv, PlaceInv, scopeVars
<1>3. ScopeInv /\ [ScopeNext]_scopeVars => ScopeInv'
    BY <1>2, AddKeeps, DisposeAllKeeps, PopKeeps, DisposeKeeps DEF ScopeNext
<1>4. ScopeInv => ResourcesReleasedOnce
  <2> SUFFICES ASSUME ScopeInv PROVE ResourcesReleasedOnce
      OBVIOUS
  <2>1. ASSUME NEW n \in 1 .. added
        PROVE  LET inScope == {i \in DOMAIN scope : scope[i] = n}
                   inHand == {c \in Callers : hand[c] = n}
               IN  \/ disposed[n] = 1 /\ inScope = {} /\ inHand = {}
                   \/ disposed[n] = 0 /\ \E x \in {inScope, inHand} :
                        /\ \E y \in x : x = {y}
                        /\ inScope = {} \/ inHand = {}
    <3> DEFINE inScope == {i \in DOMAIN scope : scope[i] = n}
               inHand == {c \in Callers : hand[c] = n}
    <3>1. n # 0 /\ disposed[n] \in {0, 1}
        BY BoundAssumption DEF ScopeInv, ScopeTypeInv
    <3>2. inScope # {} => disposed[n] = 0 /\ inHand = {} /\ \E y \in inScope : inScope = {y}
      <4>1. ASSUME NEW i \in inScope PROVE inScope = {i}
        <5>1. ASSUME NEW j \in inScope, j # i PROVE FALSE
          <6>1. i \in Nat /\ j \in Nat /\ scope[i] = scope[j] /\ scope[i] \in Nat
              BY <5>1 DEF ScopeInv, ScopeTypeInv
          <6> QED
              BY <5>1, <6>1 DEF ScopeInv, OrderInv
        <5> QED
            BY <5>1
      <4> QED
          BY <3>1, <4>1 DEF ScopeInv, PlaceInv
    <3>3. inHand # {} => disposed[n] = 0 /\ inScope = {} /\ \E y \in inHand : inHand = {y}
        BY <3>1 DEF ScopeInv, PlaceInv
    <3>4. disposed[n] = 0 => inScope # {} \/ inHand # {}
        BY DEF ScopeInv, PlaceInv
    <3> QED
        BY <3>1, <3>2, <3>3, <3>4
  <2> QED
      BY <2>1 DEF ResourcesReleasedOnce, ScopeInv, OrderInv
<1> QED
    BY <1>1, <1>3, <1>4, PTL DEF ScopeSpec

\* The three side by side.
THEOREM WorkCorrect == WorkSpec => []WorkKept
<1>1. TasksCleanUp /\ OneRunAtATime /\ ResourcesReleasedOnce => WorkKept
    BY DEF WorkKept
<1> QED
    BY <1>1, CleanUpCorrect, SlotCorrect, ScopeCorrect, PTL DEF WorkSpec
----------------------------------------------------------------------------
\* StateMachine.

Phases == {"next", "exit", "tell", "enter"}
Frames == [kind : {"dispatch", "transition"}, phase : Phases, from : States, to : States]
Queued == [event : Events, number : Nat]

MachineTypeInv ==
    /\ owner \in Threads \cup {Nobody} /\ state \in States
    /\ calls \in Seq(Frames) /\ queue \in Seq(Queued) /\ log \in Seq(States \X States)
    /\ made \in Nat /\ last \in Nat /\ interrupted \in BOOLEAN

\* The lock is held by whoever is in a call, and a queue that is not empty has a
\* dispatch() that works on it.
HoldInv ==
    /\ owner = Nobody <=> calls = <<>>
    /\ \A i \in DOMAIN calls : calls[i].phase = "next" => calls[i].kind = "dispatch"
    /\ queue # <<>> => InDispatch

\* The queue is in the order of the numbers that dispatch() gives.
NumberInv ==
    /\ last <= made
    /\ \A i \in DOMAIN queue : last < queue[i].number /\ queue[i].number <= made
    /\ \A i, j \in DOMAIN queue : i < j => queue[i].number < queue[j].number

\* Without an interruption every call around the innermost waits for its on_enter
\* callbacks, and the path told so far ends where the innermost transition begins.
PathInv == ~interrupted =>
    /\ \A i \in DOMAIN calls : i < Len(calls) => calls[i].phase = "enter"
    /\ \A i \in 1 .. Len(log) - 1 : log[i][2] = log[i + 1][1]
    /\ In("exit") => Inner.from = state
    /\ In("tell") => Inner.to = state /\ (log # <<>> => log[Len(log)][2] = Inner.from)
    /\ ~In("tell") /\ log # <<>> => log[Len(log)][2] = state /\ mode = state

MachineInv == MachineTypeInv /\ HoldInv /\ NumberInv /\ PathInv

\* What is queued is typed.
LEMMA QueueTyped ==
    ASSUME queue \in Seq(Queued)
    PROVE  \A i \in DOMAIN queue : queue[i] \in Queued /\ queue[i].number \in Nat
<1>1. \A i \in DOMAIN queue : queue[i] \in Queued
    OBVIOUS
<1> QED
    BY <1>1 DEF Queued

\* A frame moves on to its next phase.
LEMMA FrameMoves ==
    ASSUME calls \in Seq(Frames), calls # <<>>, NEW p \in Phases, MoveTo(p)
    PROVE  /\ calls' \in Seq(Frames) /\ Len(calls') = Len(calls) /\ calls' # <<>>
           /\ DOMAIN calls' = DOMAIN calls /\ Len(calls) \in DOMAIN calls
           /\ \A i \in DOMAIN calls : i # Len(calls) => calls'[i] = calls[i]
           /\ Inner' = [Inner EXCEPT !.phase = p]
           /\ Inner'.phase = p /\ Inner'.kind = Inner.kind
           /\ Inner'.from = Inner.from /\ Inner'.to = Inner.to
<1> DEFINE n == Len(calls)
           f == [calls[n] EXCEPT !.phase = p]
<1>1. n \in Nat /\ n > 0 /\ DOMAIN calls = 1 .. n /\ calls[n] \in Frames
    OBVIOUS
<1>2. /\ f \in Frames /\ f.phase = p /\ f.kind = calls[n].kind
      /\ f.from = calls[n].from /\ f.to = calls[n].to
    BY <1>1 DEF Frames
<1>3. calls' = [calls EXCEPT ![n] = f]
    BY DEF MoveTo
<1> HIDE DEF f
<1>4. calls' \in Seq(Frames) /\ Len(calls') = n /\ DOMAIN calls' = 1 .. n
    BY <1>1, <1>2, <1>3
<1>5. calls'[n] = f /\ \A i \in DOMAIN calls : i # n => calls'[i] = calls[i]
    BY <1>1, <1>3
<1> QED
    BY <1>1, <1>2, <1>4, <1>5 DEF Inner, f

\* A frame is put around, or taken off.
LEMMA FramePushed ==
    ASSUME calls \in Seq(Frames), NEW x \in Frames, calls' = Append(calls, x)
    PROVE  /\ calls' \in Seq(Frames) /\ calls' # <<>> /\ Len(calls') = Len(calls) + 1
           /\ DOMAIN calls' = DOMAIN calls \cup {Len(calls) + 1}
           /\ \A i \in DOMAIN calls : calls'[i] = calls[i] /\ i < Len(calls')
           /\ Inner' = x
<1>1. Len(calls) \in Nat /\ DOMAIN calls = 1 .. Len(calls)
    OBVIOUS
<1>2. /\ calls' \in Seq(Frames) /\ Len(calls') = Len(calls) + 1
      /\ DOMAIN calls' = 1 .. Len(calls) + 1
      /\ \A i \in 1 .. Len(calls) : calls'[i] = calls[i]
      /\ calls'[Len(calls) + 1] = x
    BY WithLast
<1> QED
    BY <1>1, <1>2 DEF Inner

\* A frame is taken off.
LEMMA FramePopped ==
    ASSUME calls \in Seq(Frames), calls # <<>>
    PROVE  /\ Outer \in Seq(Frames) /\ Len(Outer) = Len(calls) - 1
           /\ DOMAIN Outer = 1 .. Len(calls) - 1 /\ DOMAIN calls = 1 .. Len(calls)
           /\ \A i \in DOMAIN Outer : i \in DOMAIN calls /\ Outer[i] = calls[i] /\ i < Len(calls)
           /\ Len(calls) \in DOMAIN calls /\ Inner \in Frames /\ Inner = calls[Len(calls)]
<1>1. Len(calls) \in Nat /\ Len(calls) > 0 /\ DOMAIN calls = 1 .. Len(calls)
    OBVIOUS
<1>2. /\ Outer \in Seq(Frames) /\ Len(Outer) = Len(calls) - 1
      /\ DOMAIN Outer = 1 .. Len(calls) - 1
      /\ \A i \in 1 .. Len(calls) - 1 : Outer[i] = calls[i]
    BY FrontOf DEF Outer
<1> QED
    BY <1>1, <1>2 DEF Inner

\* What holds of the calls once the innermost one has returned.
LEMMA CallEnds ==
    ASSUME MachineInv, calls # <<>>, EndCall,
           queue' = <<>> \/ (queue' = queue /\ Inner.kind # "dispatch"),
           UNCHANGED <<state, log, mode, interrupted>>, ~In("tell")
    PROVE  HoldInv' /\ PathInv' /\ calls' \in Seq(Frames) /\ owner' \in Threads \cup {Nobody}
<1> USE DEF MachineInv, MachineTypeInv
<1>1. calls' = Outer /\ owner' = (IF Outer = <<>> THEN Nobody ELSE owner)
    BY DEF EndCall
<1>2. /\ calls' \in Seq(Frames) /\ Len(calls') = Len(calls) - 1
      /\ \A i \in DOMAIN calls' : i \in DOMAIN calls /\ calls'[i] = calls[i] /\ i < Len(calls)
      /\ DOMAIN calls' = 1 .. Len(calls) - 1 /\ DOMAIN calls = 1 .. Len(calls)
      /\ Inner = calls[Len(calls)] /\ Len(calls) \in DOMAIN calls
    BY <1>1, FramePopped
<1>3. HoldInv'
  <2>1. owner' = Nobody <=> calls' = <<>>
    BY <1>1 DEF HoldInv
  <2>2. \A i \in DOMAIN calls' : calls'[i].phase = "next" => calls'[i].kind = "dispatch"
    BY <1>2 DEF HoldInv
  <2>3. ASSUME queue' # <<>> PROVE InDispatch'
    <3>1. PICK i \in DOMAIN calls : calls[i].kind = "dispatch"
      BY <2>3 DEF HoldInv, InDispatch
    <3>2. i # Len(calls)
      BY <1>2, <2>3, <3>1
    <3> QED
      BY <1>2, <3>1, <3>2 DEF InDispatch
  <2> QED
    BY <2>1, <2>2, <2>3 DEF HoldInv
<1>4. PathInv'
  <2> SUFFICES ASSUME ~interrupted PROVE PathInv'
    BY DEF PathInv
  <2>1. \A i \in DOMAIN calls' : calls'[i].phase = "enter"
    BY <1>2 DEF PathInv
  <2>2. calls' # <<>> => Inner'.phase = "enter"
    BY <1>2, <2>1 DEF Inner
  <2> QED
    BY <2>1, <2>2 DEF PathInv, In
<1> QED
    BY <1>1, <1>2, <1>3, <1>4

\* A call is made from outside, or by a callback of the owner.
LEMMA DispatchKeeps ==
    ASSUME MachineInv, NEW t \in Threads, NEW e \in Events, Dispatch(t, e)
    PROVE  MachineInv'
<1> USE DEF MachineInv, MachineTypeInv
<1> DEFINE q == [event |-> e, number |-> made + 1]
           x == Frame("dispatch", "next", state, state)
<1>1. /\ q \in Queued /\ q.number = made + 1 /\ x \in Frames /\ x.phase = "next" /\ x.kind = "dispatch"
    BY DEF Queued, Frame, Frames, Phases
<1>2. /\ made' = made + 1 /\ owner' = t /\ t # Nobody /\ queue' = Append(queue, q)
      /\ UNCHANGED <<state, last, log, mode>>
      /\ calls' = IF InDispatch THEN calls ELSE Append(calls, x)
      /\ interrupted' = IF InDispatch THEN interrupted ELSE interrupted \/ In("exit") \/ In("tell")
      /\ owner = Nobody \/ InCallback
    BY NobodyAssumption DEF Dispatch, IsDispatching, Interrupts, told, MayCall
<1> HIDE DEF q, x
<1>3. /\ queue' \in Seq(Queued) /\ DOMAIN queue' = DOMAIN queue \cup {Len(queue) + 1}
      /\ \A i \in DOMAIN queue : queue'[i] = queue[i] /\ i < Len(queue) + 1
      /\ queue'[Len(queue) + 1] = q
    BY <1>1, <1>2, WithLast
<1>4. NumberInv'
  <2>1. \A i \in DOMAIN queue : queue[i].number \in Nat
    BY QueueTyped
  <2>2. last' <= made' /\ \A i \in DOMAIN queue' : last' < queue'[i].number /\ queue'[i].number <= made'
    BY <1>1, <1>2, <1>3, <2>1 DEF NumberInv
  <2>3. \A i, j \in DOMAIN queue' : i < j => queue'[i].number < queue'[j].number
    BY <1>1, <1>2, <1>3, <2>1 DEF NumberInv
  <2> QED
    BY <2>2, <2>3 DEF NumberInv
<1>5. CASE InDispatch
  <2>1. calls' = calls /\ calls # <<>> /\ interrupted' = interrupted
    BY <1>2, <1>5 DEF InDispatch
  <2>2. HoldInv'
    BY <1>2, <1>5, <2>1 DEF HoldInv, InDispatch
  <2>3. PathInv'
    BY <1>2, <2>1 DEF PathInv, In, Inner
  <2> QED
    BY <1>2, <1>3, <1>4, <2>1, <2>2, <2>3
<1>6. CASE ~InDispatch
  <2>1. /\ calls' \in Seq(Frames) /\ calls' # <<>> /\ Len(calls') = Len(calls) + 1
        /\ DOMAIN calls' = DOMAIN calls \cup {Len(calls) + 1}
        /\ \A i \in DOMAIN calls : calls'[i] = calls[i] /\ i < Len(calls')
        /\ Inner' = x
    BY <1>1, <1>2, <1>6, FramePushed
  <2>2. calls'[Len(calls) + 1] = x
    BY <2>1 DEF Inner
  <2>3. HoldInv'
    BY <1>1, <1>2, <2>1, <2>2 DEF HoldInv, InDispatch
  <2>4. PathInv'
    <3> SUFFICES ASSUME ~interrupted' PROVE PathInv'
        BY DEF PathInv
    <3>1. ~interrupted /\ ~In("exit") /\ ~In("tell") /\ (calls = <<>> \/ In("enter"))
        BY <1>2, <1>6 DEF HoldInv, InCallback
    <3>2. \A i \in DOMAIN calls : calls[i].phase = "enter"
        BY <3>1 DEF PathInv, In, Inner
    <3>3. ~In("exit")' /\ ~In("tell")'
        BY <1>1, <2>1 DEF In
    <3>4. UNCHANGED <<state, log, mode>>
        BY <1>2
    <3>5. \A i \in DOMAIN calls' : i < Len(calls') => calls'[i].phase = "enter"
        BY <2>1, <3>2
    <3> QED
        BY <3>1, <3>3, <3>4, <3>5 DEF PathInv
  <2> QED
    BY <1>2, <1>3, <1>4, <1>6, <2>1, <2>3, <2>4
<1> QED
    BY <1>5, <1>6

\* A transition is begun, or refused.
LEMMA TransitionKeeps ==
    ASSUME MachineInv, NEW t \in Threads, NEW s \in States, TransitionTo(t, s)
    PROVE  MachineInv'
<1> USE DEF MachineInv, MachineTypeInv
<1>1. /\ made' = made + 1 /\ UNCHANGED <<state, queue, last, log, mode>>
      /\ owner = Nobody \/ InCallback
    BY DEF TransitionTo, told, MayCall
<1>2. NumberInv'
  <2>1. \A i \in DOMAIN queue : queue[i].number \in Nat
    BY QueueTyped
  <2> QED
    BY <1>1, <2>1 DEF NumberInv
<1>3. CASE UNCHANGED <<owner, calls, interrupted>>
  <2>1. HoldInv' /\ PathInv'
    BY <1>1, <1>3 DEF HoldInv, InDispatch, PathInv, In, Inner
  <2> QED
    BY <1>1, <1>2, <1>3, <2>1
<1> DEFINE x == Frame("transition", "exit", state, s)
<1>4. CASE /\ owner' = t /\ calls' = Append(calls, x)
           /\ interrupted' = (interrupted \/ In("exit") \/ In("tell"))
  <2>0. x \in Frames /\ x.phase = "exit" /\ x.from = state
    BY DEF Frame, Frames, Phases
  <2> HIDE DEF x
  <2>1. /\ calls' \in Seq(Frames) /\ calls' # <<>> /\ Len(calls') = Len(calls) + 1
        /\ DOMAIN calls' = DOMAIN calls \cup {Len(calls) + 1}
        /\ \A i \in DOMAIN calls : calls'[i] = calls[i] /\ i < Len(calls')
        /\ Inner' = x
    BY <1>4, <2>0, FramePushed
  <2>2. calls'[Len(calls) + 1] = x
    BY <2>1 DEF Inner
  <2>3. HoldInv'
    BY <1>1, <1>4, <2>0, <2>1, <2>2, NobodyAssumption DEF HoldInv, InDispatch
  <2>4. PathInv'
    <3> SUFFICES ASSUME ~interrupted' PROVE PathInv'
        BY DEF PathInv
    <3>1. ~interrupted /\ ~In("exit") /\ ~In("tell") /\ (calls = <<>> \/ In("enter"))
        BY <1>1, <1>4 DEF HoldInv, InCallback
    <3>2. \A i \in DOMAIN calls : calls[i].phase = "enter"
        BY <3>1 DEF PathInv, In, Inner
    <3>3. ~In("tell")' /\ Inner'.from = state'
        BY <1>1, <2>0, <2>1 DEF In
    <3> QED
        BY <1>1, <2>1, <3>1, <3>2, <3>3 DEF PathInv
  <2> QED
    BY <1>1, <1>2, <1>4, <2>1, <2>3, <2>4
<1> QED
    BY <1>3, <1>4 DEF TransitionTo, Interrupts

\* The next event begins a transition, or empties the queue and ends the dispatch().
LEMMA NextEventKeeps ==
    ASSUME MachineInv, NextEvent
    PROVE  MachineInv'
<1> USE DEF MachineInv, MachineTypeInv
<1> DEFINE y == Matrix[<<state, Head(queue).event>>]
           x == Frame("dispatch", "exit", state, y)
           n == Len(calls)
<1>1. /\ calls # <<>> /\ Inner.phase = "next" /\ queue # <<>> /\ ~In("tell")
      /\ last' = Head(queue).number /\ UNCHANGED <<state, made, log, mode, interrupted>>
    BY DEF NextEvent, In, told
<1>2. /\ Len(queue) \in Nat /\ Len(queue) > 0 /\ DOMAIN queue = 1 .. Len(queue) /\ 1 \in DOMAIN queue
      /\ Head(queue) = queue[1] /\ Tail(queue) \in Seq(Queued) /\ Len(Tail(queue)) = Len(queue) - 1
      /\ DOMAIN Tail(queue) = 1 .. Len(queue) - 1
      /\ \A i \in 1 .. Len(queue) - 1 : Tail(queue)[i] = queue[i + 1] /\ i + 1 \in DOMAIN queue /\ 1 < i + 1
    BY <1>1, HeadTailProperties
<1>3. \A i \in DOMAIN queue : queue[i].number \in Nat
    BY QueueTyped
<1>4. last' \in Nat /\ last' <= made'
    BY <1>1, <1>2, <1>3 DEF NumberInv
<1>5. CASE CanDispatch(Head(queue).event)
  <2>1. /\ queue' = Tail(queue) /\ calls' = Append(Outer, x) /\ owner' = owner
        /\ y \in States
    BY <1>5, MatrixAssumption DEF NextEvent, CanDispatch
  <2> HIDE DEF y
  <2>2. x \in Frames /\ x.kind = "dispatch" /\ x.phase = "exit" /\ x.from = state
    BY <2>1 DEF Frame, Frames, Phases
  <2> HIDE DEF x
  <2>3. /\ Outer \in Seq(Frames) /\ Len(Outer) = n - 1 /\ n \in Nat
        /\ \A i \in 1 .. n - 1 : i \in DOMAIN calls /\ Outer[i] = calls[i] /\ i < n
        /\ DOMAIN calls = 1 .. n
    <3>1. /\ Outer \in Seq(Frames) /\ Len(Outer) = n - 1 /\ DOMAIN Outer = 1 .. n - 1
          /\ \A i \in DOMAIN Outer : i \in DOMAIN calls /\ Outer[i] = calls[i] /\ i < n
          /\ DOMAIN calls = 1 .. n
        BY <1>1, FramePopped
    <3>2. n \in Nat
        OBVIOUS
    <3> QED
        BY <3>1, <3>2
  <2>4. /\ calls' \in Seq(Frames) /\ Len(calls') = n /\ DOMAIN calls' = 1 .. n /\ calls' # <<>>
        /\ \A i \in 1 .. n - 1 : calls'[i] = calls[i] /\ i \in DOMAIN calls /\ i < n
        /\ calls'[n] = x /\ Inner' = x /\ n \in 1 .. n
    <3>1. /\ calls' \in Seq(Frames) /\ Len(calls') = Len(Outer) + 1 /\ DOMAIN calls' = 1 .. Len(Outer) + 1
          /\ \A i \in 1 .. Len(Outer) : calls'[i] = Outer[i]
          /\ calls'[Len(Outer) + 1] = x
        BY <2>1, <2>2, <2>3, WithLast
    <3>2. Len(Outer) + 1 = n /\ n > 0 /\ n \in 1 .. n
        BY <1>1, <2>3
    <3>3. Len(calls') = n /\ calls'[n] = x /\ calls' # <<>>
        BY <3>1, <3>2
    <3>4. Inner' = x
        BY <3>3 DEF Inner
    <3>5. \A i \in 1 .. n - 1 : calls'[i] = calls[i] /\ i \in DOMAIN calls /\ i < n
        BY <2>3, <3>1
    <3> QED
        BY <3>1, <3>2, <3>3, <3>4, <3>5
  <2>5. HoldInv'
    <3>1. owner # Nobody
        BY <1>1 DEF HoldInv
    <3>2. \A i \in DOMAIN calls' : i \in 1 .. n - 1 \/ i = n
        BY <2>3, <2>4
    <3> QED
        BY <2>1, <2>2, <2>4, <3>1, <3>2 DEF HoldInv, InDispatch
  <2>6. NumberInv'
    <3>1. \A i \in DOMAIN queue' : i \in 1 .. Len(queue) - 1 /\ queue'[i] = queue[i + 1]
                                   /\ i + 1 \in DOMAIN queue /\ 1 < i + 1
        BY <1>2, <2>1
    <3>2. \A i \in DOMAIN queue' : last' < queue'[i].number /\ queue'[i].number <= made'
        BY <1>1, <1>2, <1>3, <3>1 DEF NumberInv
    <3>3. \A i, j \in DOMAIN queue' : i < j => queue'[i].number < queue'[j].number
      <4> SUFFICES ASSUME NEW i \in DOMAIN queue', NEW j \in DOMAIN queue', i < j
                   PROVE  queue'[i].number < queue'[j].number
          OBVIOUS
      <4>1. i + 1 \in DOMAIN queue /\ j + 1 \in DOMAIN queue /\ i + 1 < j + 1
          BY <1>2, <2>1
      <4> QED
          BY <3>1, <4>1 DEF NumberInv
    <3> QED
        BY <1>4, <3>2, <3>3 DEF NumberInv
  <2>7. PathInv'
    <3> SUFFICES ASSUME ~interrupted PROVE PathInv'
        BY <1>1 DEF PathInv
    <3>1. \A i \in DOMAIN calls' : i < Len(calls') => i \in 1 .. n - 1
        BY <2>4
    <3>2. \A i \in DOMAIN calls' : i < Len(calls') => calls'[i].phase = "enter"
        BY <2>4, <3>1 DEF PathInv
    <3>3. ~In("tell")' /\ Inner'.from = state'
        BY <1>1, <2>2, <2>4 DEF In
    <3> QED
        BY <1>1, <3>2, <3>3 DEF PathInv
  <2> QED
    BY <1>1, <1>2, <1>4, <2>1, <2>4, <2>5, <2>6, <2>7
<1>6. CASE ~CanDispatch(Head(queue).event)
  <2>1. queue' = <<>> /\ EndCall
    BY <1>6 DEF NextEvent
  <2>2. HoldInv' /\ PathInv' /\ calls' \in Seq(Frames) /\ owner' \in Threads \cup {Nobody}
    BY <1>1, <2>1, CallEnds
  <2>3. queue' \in Seq(Queued) /\ DOMAIN queue' = {}
    BY <2>1
  <2>4. NumberInv'
    BY <1>4, <2>3 DEF NumberInv
  <2> QED
    BY <1>1, <1>4, <2>2, <2>3, <2>4
<1> QED
    BY <1>5, <1>6

\* A dispatch() with nothing left to do, and a transition whose on_enter callbacks
\* are done, return; the transition of a dispatch() goes on with its queue.
LEMMA ReturnKeeps ==
    ASSUME MachineInv, DispatchReturns \/ Entered
    PROVE  MachineInv'
<1> USE DEF MachineInv, MachineTypeInv
<1>1. UNCHANGED <<state, queue, made, last, log, mode, interrupted>> /\ calls # <<>> /\ ~In("tell")
    BY DEF DispatchReturns, Entered, In, told
<1>2. NumberInv'
    BY <1>1 DEF NumberInv
<1>3. CASE EndCall /\ (queue = <<>> \/ Inner.kind # "dispatch")
  <2>1. HoldInv' /\ PathInv' /\ calls' \in Seq(Frames) /\ owner' \in Threads \cup {Nobody}
    BY <1>1, <1>3, CallEnds
  <2> QED
    BY <1>1, <1>2, <2>1
<1>4. CASE MoveTo("next") /\ owner' = owner /\ Inner.kind = "dispatch"
  <2>1. /\ calls' \in Seq(Frames) /\ Len(calls') = Len(calls) /\ calls' # <<>>
        /\ DOMAIN calls' = DOMAIN calls /\ Len(calls) \in DOMAIN calls
        /\ \A i \in DOMAIN calls : i # Len(calls) => calls'[i] = calls[i]
        /\ Inner'.phase = "next" /\ Inner'.kind = Inner.kind
    BY <1>1, <1>4, FrameMoves DEF Phases
  <2>2. HoldInv'
    BY <1>1, <1>4, <2>1 DEF HoldInv, InDispatch, Inner
  <2>3. PathInv'
    <3>1. ~In("tell")' /\ ~In("exit")'
        BY <2>1 DEF In
    <3>2. ~interrupted => \A i \in DOMAIN calls' : i < Len(calls') => calls'[i].phase = "enter"
        BY <2>1 DEF PathInv
    <3> QED
        BY <1>1, <3>1, <3>2 DEF PathInv
  <2> QED
    BY <1>1, <1>2, <1>4, <2>1, <2>2, <2>3
<1>5. DispatchReturns => EndCall /\ queue = <<>>
    BY DEF DispatchReturns
<1>6. Entered => \/ EndCall /\ Inner.kind # "dispatch"
                 \/ MoveTo("next") /\ owner' = owner /\ Inner.kind = "dispatch"
    BY DEF Entered
<1> QED
    BY <1>3, <1>4, <1>5, <1>6

\* The state changes, and then the watcher and the view are told.
LEMMA ChangeKeeps ==
    ASSUME MachineInv, Change \/ Tell
    PROVE  MachineInv'
<1> USE DEF MachineInv, MachineTypeInv
<1>1. PICK p \in {"tell", "enter"} :
        /\ MoveTo(p) /\ calls # <<>> /\ UNCHANGED <<owner, queue, made, last, interrupted>>
        /\ p = "tell" => In("exit") /\ state' = Inner.to /\ UNCHANGED <<log, mode>>
        /\ p = "enter" => /\ In("tell") /\ mode' = Inner.to /\ UNCHANGED state
                          /\ log' = Append(log, <<Inner.from, Inner.to>>)
    BY DEF Change, Tell, In, told
<1>2. /\ calls' \in Seq(Frames) /\ Len(calls') = Len(calls) /\ calls' # <<>>
      /\ DOMAIN calls' = DOMAIN calls /\ Len(calls) \in DOMAIN calls
      /\ \A i \in DOMAIN calls : i # Len(calls) => calls'[i] = calls[i]
      /\ Inner'.phase = p /\ Inner'.kind = Inner.kind
      /\ Inner'.from = Inner.from /\ Inner'.to = Inner.to
    BY <1>1, FrameMoves DEF Phases
<1>3. Inner \in Frames /\ Inner.from \in States /\ Inner.to \in States
  <2>1. Inner \in Frames
    BY <1>1, FramePopped
  <2> QED
    BY <2>1 DEF Frames
<1>4. HoldInv'
  <2>1. \A i \in DOMAIN calls' : calls'[i].phase = "next" => calls'[i].kind = "dispatch"
    BY <1>1, <1>2 DEF HoldInv, Inner
  <2>2. InDispatch' <=> InDispatch
    BY <1>2 DEF InDispatch, Inner
  <2> QED
    BY <1>1, <1>2, <2>1, <2>2 DEF HoldInv
<1>5. NumberInv'
    BY <1>1 DEF NumberInv
<1>6. ~interrupted => \A i \in DOMAIN calls' : i < Len(calls') => calls'[i].phase = "enter"
    BY <1>2 DEF PathInv
<1>7. CASE p = "tell"
  <2>1. state' = Inner.to /\ UNCHANGED <<log, mode>> /\ In("exit") /\ ~In("tell")
    BY <1>1, <1>7 DEF In
  <2>2. ~In("exit")' /\ Inner'.to = state' /\ In("tell")'
    BY <1>2, <1>7, <2>1 DEF In
  <2>3. PathInv'
    BY <1>1, <1>2, <1>6, <2>1, <2>2 DEF PathInv
  <2> QED
    BY <1>1, <1>2, <1>3, <1>4, <1>5, <2>1, <2>3
<1>8. CASE p = "enter"
  <2>1. /\ mode' = Inner.to /\ state' = state /\ In("tell")
        /\ log' = Append(log, <<Inner.from, Inner.to>>)
    BY <1>1, <1>8
  <2>2. ~In("exit")' /\ ~In("tell")'
    BY <1>2, <1>8 DEF In
  <2>3. /\ log' \in Seq(States \X States) /\ Len(log') = Len(log) + 1 /\ Len(log) \in Nat
        /\ \A i \in 1 .. Len(log) : log'[i] = log[i]
        /\ log'[Len(log) + 1] = <<Inner.from, Inner.to>>
    BY <1>3, <2>1, WithLast
  <2>4. PathInv'
    <3> SUFFICES ASSUME ~interrupted PROVE PathInv'
        BY <1>1 DEF PathInv
    <3>1. Inner.to = state /\ (log # <<>> => log[Len(log)][2] = Inner.from)
        BY <2>1 DEF PathInv
    <3>2. log'[Len(log')][2] = state' /\ mode' = state'
        BY <2>1, <2>3, <3>1
    <3>3. \A i \in 1 .. Len(log') - 1 : log'[i][2] = log'[i + 1][1]
      <4>0. Len(log') - 1 = Len(log)
          BY <2>3
      <4> SUFFICES ASSUME NEW i \in 1 .. Len(log) PROVE log'[i][2] = log'[i + 1][1]
          BY <4>0
      <4>1. CASE i = Len(log)
        <5>1. log # <<>>
            BY <2>3, <4>1
        <5> QED
            BY <2>3, <3>1, <4>1, <5>1
      <4>2. CASE i \in 1 .. Len(log) - 1
        <5>1. log[i][2] = log[i + 1][1] /\ i + 1 \in 1 .. Len(log)
            BY <2>3, <4>2 DEF PathInv
        <5> QED
            BY <2>3, <5>1
      <4> QED
          BY <2>3, <4>1, <4>2
    <3> QED
        BY <1>6, <2>2, <3>2, <3>3 DEF PathInv
  <2> QED
    BY <1>1, <1>2, <1>3, <1>4, <1>5, <2>1, <2>3, <2>4
<1> QED
    BY <1>1, <1>7, <1>8

\* However callbacks and threads call into a machine, with any states, events and
\* number of calls: what it tells is one path that ends where it is, unless a
\* callback interrupted a transition, and events are taken in order, all of them.
THEOREM MachineCorrect == MachineSpec => []MachineKept
<1>1. MachineInit => MachineInv
  <2> SUFFICES ASSUME MachineInit PROVE MachineInv
      OBVIOUS
  <2>1. /\ calls = <<>> /\ queue = <<>> /\ log = <<>> /\ calls \in Seq(Frames) /\ queue \in Seq(Queued)
        /\ log \in Seq(States \X States) /\ DOMAIN calls = {} /\ DOMAIN queue = {} /\ Len(log) = 0
      BY DEF MachineInit
  <2>2. owner = Nobody /\ state = Initial /\ made = 0 /\ last = 0 /\ interrupted = FALSE
      BY DEF MachineInit
  <2>3. MachineTypeInv
      BY <2>1, <2>2, MatrixAssumption DEF MachineTypeInv
  <2>4. HoldInv /\ NumberInv
      BY <2>1, <2>2 DEF HoldInv, NumberInv
  <2>5. PathInv
      BY <2>1 DEF PathInv, In
  <2> QED
      BY <2>3, <2>4, <2>5 DEF MachineInv
<1>2. MachineInv /\ UNCHANGED <<owner, calls, state, queue, made, last, told, interrupted>> => MachineInv'
    BY DEF MachineInv, MachineTypeInv, HoldInv, NumberInv, PathInv, In, Inner, InDispatch, told
<1>3. ASSUME NEW t \in Threads, MachineInv, CollectLog(t) \/ CollectState(t) PROVE MachineInv'
    BY <1>2, <1>3 DEF CollectLog, CollectState
<1>4. MachineInv /\ [MachineNext]_machineVars => MachineInv'
    BY <1>2, <1>3, DispatchKeeps, TransitionKeeps, NextEventKeeps, ReturnKeeps, ChangeKeeps
       DEF MachineNext, machineVars
<1>5. MachineInv => MachineKept
  <2> SUFFICES ASSUME MachineInv PROVE MachineKept
      OBVIOUS
  <2>1. TransitionsChain
      BY DEF MachineInv, PathInv, TransitionsChain
  <2>2. owner = Nobody => queue = <<>>
    <3>1. calls = <<>> => DOMAIN calls = {}
        OBVIOUS
    <3> QED
        BY <3>1 DEF MachineInv, HoldInv, InDispatch
  <2> QED
      BY <2>1, <2>2 DEF MachineKept, EventsInOrder, MachineInv, NumberInv
<1> QED
    BY <1>1, <1>4, <1>5, PTL DEF MachineSpec
----------------------------------------------------------------------------
\* Container.

CallFrames == [type : Types, resolving : SUBSET Types, todo : Seq(Types),
               pc : {"instances", "factories", "lock", "making", "class", "inject"}]

ContainerTypeInv ==
    /\ stack \in [Resolvers -> Seq(CallFrames)]
    /\ answer \in [Resolvers -> Int] /\ instances \in [Types -> Int] /\ built \in Nat
    /\ asked \in [Resolvers -> BOOLEAN]
    /\ registered \subseteq Types /\ factories \subseteq Singletons

\* A call, and what its class still needs, stays in every closed set that a call
\* around it is in.
LeadInv == \A t \in Resolvers : \A S \in SUBSET Types : Closed(S) =>
    \A i \in DOMAIN stack[t] : stack[t][i].type \in S =>
      /\ \A j \in DOMAIN stack[t] : i < j => stack[t][j].type \in S
      /\ \A k \in DOMAIN stack[t][i].todo : stack[t][i].todo[k] \in S

\* A call waits for what its factory makes, or for the next parameter of its class.
MakesInv == \A t \in Resolvers : \A i \in DOMAIN stack[t] : i + 1 \in DOMAIN stack[t] =>
    /\ stack[t][i].pc = "making" => stack[t][i + 1].type = Made(stack[t][i].type)
    /\ stack[t][i].pc = "inject" => stack[t][i].todo # <<>>

AnswerInv == \A t \in Resolvers :
    answer[t] # None /\ stack[t] # <<>> /\ Top(t).pc = "inject" => Top(t).todo # <<>>

\* The lock: factories run on one thread at a time.
MutexInv == \A t, u \in Resolvers : Making(t) # {} /\ Making(u) # {} => t = u

BeingMade(t, a) == \E i \in DOMAIN stack[t] : stack[t][i].pc = "making" /\ stack[t][i].type = a

\* A registered singleton has its factory, its instance, or is being made; the
\* factory of a callable stays.
FactoryInv ==
    /\ \A a \in registered \cap DOMAIN Callable : a \in factories
    /\ \A a \in registered \cap Singletons :
         a \in factories \/ instances[a] # 0 \/ \E t \in Resolvers : BeingMade(t, a)

\* What a callable makes is made once.
OnceInv ==
    /\ \A a \in DOMAIN Callable : instances[a] # 0 => \A t \in Resolvers : ~BeingMade(t, a)
    /\ \A x \in answers : x[1] \in DOMAIN Callable => instances[x[1]] # 0 /\ x[2] = instances[x[1]]

\* A thread that asks for a registered callable gets the stored instance, or makes it.
AskInv == \A t \in Resolvers : asked[t] /\ stack[t] # <<>> =>
    LET f == stack[t][1] IN f.type \in DOMAIN Callable =>
      f.type \in registered /\ f.pc \in {"instances", "factories", "lock", "making"}

CallsInv == LeadInv /\ MakesInv /\ MutexInv

ContainerInv == ContainerTypeInv /\ CallsInv /\ AnswerInv /\ FactoryInv /\ OnceInv /\ AskInv

\* Every type the container knows, and what a type leads to, is in Types.
LEMMA TypesClosed ==
    /\ Types \in SUBSET Types /\ Closed(Types)
    /\ \A S \in SUBSET Types : Closed(S) => \A a \in S :
         /\ Class(a) \in S /\ (a \in Singletons => Made(a) \in S)
         /\ a \in DOMAIN Deps => \A i \in DOMAIN Deps[a] : Deps[a][i] \in S
<1>1. \A a \in DOMAIN Deps : Deps[a] \in Seq(Types)
    BY TypesAssumption
<1>2. \A a \in DOMAIN Deps : \A i \in DOMAIN Deps[a] : Deps[a][i] \in Types
    BY <1>1
<1>3. Closed(Types)
    BY <1>2, TypesAssumption DEF Closed
<1> QED
    BY <1>3 DEF Closed, Class, Made, Singletons

\* The stack of a thread with another frame on top.
LEMMA StackChanged ==
    ASSUME stack \in [Resolvers -> Seq(CallFrames)], NEW t \in Resolvers, stack[t] # <<>>,
           NEW f \in CallFrames,
           stack' = [stack EXCEPT ![t] = [stack[t] EXCEPT ![Depth(t)] = f]]
    PROVE  /\ stack' \in [Resolvers -> Seq(CallFrames)]
           /\ \A u \in Resolvers : u # t => stack'[u] = stack[u]
           /\ Depth(t) \in Nat /\ Depth(t) > 0 /\ DOMAIN stack[t] = 1 .. Depth(t)
           /\ DOMAIN stack'[t] = 1 .. Depth(t) /\ Top(t) = stack[t][Depth(t)] /\ Top(t) \in CallFrames
           /\ \A i \in 1 .. Depth(t) : i # Depth(t) => stack'[t][i] = stack[t][i]
           /\ stack'[t][Depth(t)] = f
<1> DEFINE n == Depth(t)
<1>1. stack[t] \in Seq(CallFrames) /\ n = Len(stack[t])
    BY DEF Depth
<1>2. n \in Nat /\ n > 0 /\ DOMAIN stack[t] = 1 .. n /\ stack[t][n] \in CallFrames
    BY <1>1
<1>3. stack'[t] = [stack[t] EXCEPT ![n] = f] /\ \A u \in Resolvers : u # t => stack'[u] = stack[u]
    OBVIOUS
<1>4. stack'[t] \in Seq(CallFrames) /\ DOMAIN stack'[t] = 1 .. n
    BY <1>1, <1>2, <1>3
<1>5. stack' \in [Resolvers -> Seq(CallFrames)]
    BY <1>3, <1>4
<1>6. stack'[t][n] = f /\ \A i \in 1 .. n : i # n => stack'[t][i] = stack[t][i]
    BY <1>1, <1>2, <1>3
<1> QED
    BY <1>2, <1>3, <1>4, <1>5, <1>6 DEF Top

\* ... without its top frame ...
LEMMA StackPopped ==
    ASSUME stack \in [Resolvers -> Seq(CallFrames)], NEW t \in Resolvers, stack[t] # <<>>,
           stack' = [stack EXCEPT ![t] = SubSeq(stack[t], 1, Depth(t) - 1)]
    PROVE  /\ stack' \in [Resolvers -> Seq(CallFrames)]
           /\ \A u \in Resolvers : u # t => stack'[u] = stack[u]
           /\ Depth(t) \in Nat /\ Depth(t) > 0 /\ DOMAIN stack[t] = 1 .. Depth(t)
           /\ DOMAIN stack'[t] = 1 .. Depth(t) - 1 /\ Top(t) = stack[t][Depth(t)] /\ Top(t) \in CallFrames
           /\ \A i \in 1 .. Depth(t) - 1 : stack'[t][i] = stack[t][i]
<1> DEFINE n == Depth(t)
<1>1. stack[t] \in Seq(CallFrames) /\ n = Len(stack[t])
    BY DEF Depth
<1>2. n \in Nat /\ n > 0 /\ DOMAIN stack[t] = 1 .. n /\ stack[t][n] \in CallFrames
    BY <1>1
<1>3. stack'[t] = SubSeq(stack[t], 1, n - 1) /\ \A u \in Resolvers : u # t => stack'[u] = stack[u]
    OBVIOUS
<1>4. /\ stack'[t] \in Seq(CallFrames) /\ DOMAIN stack'[t] = 1 .. n - 1
      /\ \A i \in 1 .. n - 1 : stack'[t][i] = stack[t][i]
    BY <1>1, <1>3, FrontOf
<1>5. stack' \in [Resolvers -> Seq(CallFrames)]
    BY <1>3, <1>4
<1> QED
    BY <1>2, <1>3, <1>4, <1>5 DEF Top

\* ... and with a frame above a changed one.
LEMMA StackPushed ==
    ASSUME stack \in [Resolvers -> Seq(CallFrames)], NEW t \in Resolvers, stack[t] # <<>>,
           NEW p \in {"making", "inject"}, NEW b \in Types, NEW r \in SUBSET Types, Push(t, p, b, r)
    PROVE  /\ stack' \in [Resolvers -> Seq(CallFrames)]
           /\ \A u \in Resolvers : u # t => stack'[u] = stack[u]
           /\ Depth(t) \in Nat /\ Depth(t) > 0 /\ DOMAIN stack[t] = 1 .. Depth(t)
           /\ DOMAIN stack'[t] = 1 .. Depth(t) + 1 /\ Top(t) = stack[t][Depth(t)] /\ Top(t) \in CallFrames
           /\ \A i \in 1 .. Depth(t) : i # Depth(t) => stack'[t][i] = stack[t][i]
           /\ stack'[t][Depth(t)].type = Top(t).type /\ stack'[t][Depth(t)].todo = Top(t).todo
           /\ stack'[t][Depth(t)].pc = p
           /\ stack'[t][Depth(t) + 1].type = b /\ stack'[t][Depth(t) + 1].todo = <<>>
           /\ stack'[t][Depth(t) + 1].pc = "instances"
<1> DEFINE n == Depth(t)
           f == [Top(t) EXCEPT !.pc = p]
           g == Call(b, r)
           q == [stack[t] EXCEPT ![n] = f]
<1>1. stack[t] \in Seq(CallFrames) /\ n = Len(stack[t])
    BY DEF Depth
<1>2. n \in Nat /\ n > 0 /\ DOMAIN stack[t] = 1 .. n /\ stack[t][n] \in CallFrames
    BY <1>1
<1>3. f \in CallFrames /\ f.type = Top(t).type /\ f.todo = Top(t).todo /\ f.pc = p
    BY <1>2 DEF CallFrames, Top
<1>4. g \in CallFrames /\ g.type = b /\ g.todo = <<>> /\ g.pc = "instances"
    BY DEF Call, CallFrames
<1>5. stack' = [stack EXCEPT ![t] = Append(q, g)]
    BY DEF Push, Top
<1> HIDE DEF f, g
<1>6. /\ q \in Seq(CallFrames) /\ Len(q) = n /\ q[n] = f
      /\ \A i \in 1 .. n : i # n => q[i] = stack[t][i]
    BY <1>1, <1>2, <1>3
<1> HIDE DEF q
<1>7. stack'[t] = Append(q, g) /\ \A u \in Resolvers : u # t => stack'[u] = stack[u]
    BY <1>5
<1>8. /\ stack'[t] \in Seq(CallFrames) /\ DOMAIN stack'[t] = 1 .. n + 1
      /\ \A i \in 1 .. n : stack'[t][i] = q[i]
      /\ stack'[t][n + 1] = g
    BY <1>4, <1>6, <1>7, WithLast
<1>9. stack' \in [Resolvers -> Seq(CallFrames)]
    BY <1>5, <1>7, <1>8
<1>10. n \in 1 .. n
    BY <1>2
<1> QED
    BY <1>2, <1>3, <1>4, <1>6, <1>7, <1>8, <1>9, <1>10 DEF Top

\* A call goes on: nobody starts or stops making anything.
LEMMA CallChanged ==
    ASSUME ContainerTypeInv, CallsInv, NEW t \in Resolvers, stack[t] # <<>>, Top(t).pc # "making",
           NEW f \in CallFrames, f.type = Top(t).type, f.pc # "making",
           \A S \in SUBSET Types : Closed(S) /\ f.type \in S => \A k \in DOMAIN f.todo : f.todo[k] \in S,
           stack' = [stack EXCEPT ![t] = [stack[t] EXCEPT ![Depth(t)] = f]]
    PROVE  /\ stack' \in [Resolvers -> Seq(CallFrames)] /\ CallsInv'
           /\ \A u \in Resolvers, a \in Types : BeingMade(u, a)' <=> BeingMade(u, a)
           /\ \A u \in Resolvers \ {t} : stack'[u] = stack[u]
           /\ stack'[t] # <<>> /\ stack'[t][1].type = stack[t][1].type
           /\ stack'[t][1] = IF Depth(t) = 1 THEN f ELSE stack[t][1]
           /\ Depth(t) = 1 => stack[t][1] = Top(t)
<1> DEFINE n == Depth(t)
<1>1. /\ stack' \in [Resolvers -> Seq(CallFrames)]
      /\ \A u \in Resolvers : u # t => stack'[u] = stack[u]
      /\ n \in Nat /\ n > 0 /\ DOMAIN stack[t] = 1 .. n
      /\ DOMAIN stack'[t] = 1 .. n /\ Top(t) = stack[t][n]
      /\ \A i \in 1 .. n : i # n => stack'[t][i] = stack[t][i]
      /\ stack'[t][n] = f
    BY StackChanged DEF ContainerTypeInv
<1> HIDE DEF n
<1>2. \A u \in Resolvers : DOMAIN stack'[u] = DOMAIN stack[u]
    BY <1>1
<1>3. \A u \in Resolvers : \A i \in DOMAIN stack[u] :
          /\ stack'[u][i].type = stack[u][i].type
          /\ stack'[u][i].pc = "making" <=> stack[u][i].pc = "making"
    BY <1>1
<1>4. \A u \in Resolvers : Making(u)' = Making(u)
    BY <1>2, <1>3 DEF Making
<1>5. MutexInv'
    BY <1>4 DEF CallsInv, MutexInv
<1>6. MakesInv'
  <2> SUFFICES ASSUME NEW u \in Resolvers, NEW i \in DOMAIN stack'[u], i + 1 \in DOMAIN stack'[u]
               PROVE  /\ stack'[u][i].pc = "making" => stack'[u][i + 1].type = Made(stack'[u][i].type)
                      /\ stack'[u][i].pc = "inject" => stack'[u][i].todo # <<>>
      BY DEF MakesInv
  <2>1. /\ i \in DOMAIN stack[u] /\ stack'[u][i] = stack[u][i]
        /\ i + 1 \in DOMAIN stack[u] /\ stack'[u][i + 1].type = stack[u][i + 1].type
      BY <1>1, <1>3
  <2> QED
      BY <2>1 DEF CallsInv, MakesInv
<1>7. LeadInv'
  <2> SUFFICES ASSUME NEW u \in Resolvers, NEW S \in SUBSET Types, Closed(S),
                      NEW i \in DOMAIN stack'[u], stack'[u][i].type \in S
               PROVE  /\ \A j \in DOMAIN stack'[u] : i < j => stack'[u][j].type \in S
                      /\ \A k \in DOMAIN stack'[u][i].todo : stack'[u][i].todo[k] \in S
      BY DEF LeadInv
  <2>1. i \in DOMAIN stack[u] /\ stack[u][i].type \in S
      BY <1>2, <1>3
  <2>2. /\ \A j \in DOMAIN stack[u] : i < j => stack[u][j].type \in S
        /\ \A k \in DOMAIN stack[u][i].todo : stack[u][i].todo[k] \in S
      BY <2>1 DEF CallsInv, LeadInv
  <2>3. \A j \in DOMAIN stack'[u] : i < j => stack'[u][j].type \in S
      BY <1>2, <1>3, <2>2
  <2>4. CASE u = t /\ i = n
    <3>1. stack'[u][i] = f /\ f.type \in S
        BY <1>1, <2>4
    <3> QED
        BY <3>1, <2>3
  <2>5. CASE u # t \/ i # n
    <3>1. stack'[u][i] = stack[u][i]
        BY <1>1, <2>5, <2>1
    <3> QED
        BY <3>1, <2>2, <2>3
  <2> QED
      BY <2>4, <2>5
<1>8. \A u \in Resolvers, a \in Types : BeingMade(u, a)' <=> BeingMade(u, a)
    BY <1>2, <1>3 DEF BeingMade
<1>9. 1 \in 1 .. n /\ 1 \in DOMAIN stack[t] /\ stack'[t] # <<>>
    BY <1>1
<1>10. stack'[t][1].type = stack[t][1].type
    BY <1>3, <1>9
<1>11. stack'[t][1] = IF n = 1 THEN f ELSE stack[t][1]
    BY <1>1, <1>9
<1> QED
    BY <1>1, <1>5, <1>6, <1>7, <1>8, <1>9, <1>10, <1>11 DEF CallsInv, n

\* A call returns: what its factory made is no longer being made.
LEMMA CallPopped ==
    ASSUME ContainerTypeInv, CallsInv, NEW t \in Resolvers, stack[t] # <<>>,
           stack' = [stack EXCEPT ![t] = SubSeq(stack[t], 1, Depth(t) - 1)]
    PROVE  /\ stack' \in [Resolvers -> Seq(CallFrames)] /\ CallsInv'
           /\ \A u \in Resolvers, a \in Types : BeingMade(u, a)' => BeingMade(u, a)
           /\ \A u \in Resolvers, a \in Types :
                BeingMade(u, a) /\ ~(u = t /\ Top(t).pc = "making" /\ Top(t).type = a) => BeingMade(u, a)'
           /\ \A u \in Resolvers \ {t} : stack'[u] = stack[u]
           /\ stack'[t] # <<>> => stack'[t][1] = stack[t][1]
           /\ Depth(t) = 1 => stack[t][1] = Top(t)
           /\ Top(t) \in CallFrames
           /\ stack'[t] # <<>> /\ Top(t)'.pc = "inject" => Top(t)'.todo # <<>>
<1> DEFINE n == Depth(t)
<1>1. /\ stack' \in [Resolvers -> Seq(CallFrames)]
      /\ \A u \in Resolvers : u # t => stack'[u] = stack[u]
      /\ n \in Nat /\ n > 0 /\ DOMAIN stack[t] = 1 .. n
      /\ DOMAIN stack'[t] = 1 .. n - 1 /\ Top(t) = stack[t][n] /\ Top(t) \in CallFrames
      /\ \A i \in 1 .. n - 1 : stack'[t][i] = stack[t][i]
    BY StackPopped DEF ContainerTypeInv
<1> HIDE DEF n
<1>2. \A u \in Resolvers : \A i \in DOMAIN stack'[u] : i \in DOMAIN stack[u] /\ stack'[u][i] = stack[u][i]
    BY <1>1
<1>3. \A u \in Resolvers : Making(u)' \subseteq Making(u)
    BY <1>2 DEF Making
<1>4. MutexInv'
    BY <1>3 DEF CallsInv, MutexInv
<1>5. MakesInv'
  <2> SUFFICES ASSUME NEW u \in Resolvers, NEW i \in DOMAIN stack'[u], i + 1 \in DOMAIN stack'[u]
               PROVE  /\ stack'[u][i].pc = "making" => stack'[u][i + 1].type = Made(stack'[u][i].type)
                      /\ stack'[u][i].pc = "inject" => stack'[u][i].todo # <<>>
      BY DEF MakesInv
  <2>1. /\ i \in DOMAIN stack[u] /\ stack'[u][i] = stack[u][i]
        /\ i + 1 \in DOMAIN stack[u] /\ stack'[u][i + 1] = stack[u][i + 1]
      BY <1>2
  <2> QED
      BY <2>1 DEF CallsInv, MakesInv
<1>6. LeadInv'
  <2> SUFFICES ASSUME NEW u \in Resolvers, NEW S \in SUBSET Types, Closed(S),
                      NEW i \in DOMAIN stack'[u], stack'[u][i].type \in S
               PROVE  /\ \A j \in DOMAIN stack'[u] : i < j => stack'[u][j].type \in S
                      /\ \A k \in DOMAIN stack'[u][i].todo : stack'[u][i].todo[k] \in S
      BY DEF LeadInv
  <2>1. i \in DOMAIN stack[u] /\ stack'[u][i] = stack[u][i]
      BY <1>2
  <2>2. /\ \A j \in DOMAIN stack[u] : i < j => stack[u][j].type \in S
        /\ \A k \in DOMAIN stack[u][i].todo : stack[u][i].todo[k] \in S
      BY <2>1 DEF CallsInv, LeadInv
  <2> QED
      BY <1>2, <2>1, <2>2
<1>7. \A u \in Resolvers, a \in Types : BeingMade(u, a)' => BeingMade(u, a)
    BY <1>2 DEF BeingMade
<1>8. ASSUME NEW u \in Resolvers, NEW a \in Types, BeingMade(u, a),
             ~(u = t /\ Top(t).pc = "making" /\ Top(t).type = a)
      PROVE  BeingMade(u, a)'
  <2>1. PICK i \in DOMAIN stack[u] : stack[u][i].pc = "making" /\ stack[u][i].type = a
      BY <1>8 DEF BeingMade
  <2>2. u = t => i # n
      BY <1>1, <1>8, <2>1
  <2>3. i \in DOMAIN stack'[u] /\ stack'[u][i] = stack[u][i]
      BY <1>1, <2>2
  <2> QED
      BY <2>1, <2>3 DEF BeingMade
<1>9. stack'[t] # <<>> => stack'[t][1] = stack[t][1]
  <2> SUFFICES ASSUME stack'[t] # <<>> PROVE stack'[t][1] = stack[t][1]
      OBVIOUS
  <2>1. stack'[t] \in Seq(CallFrames)
      BY <1>1
  <2>2. 1 \in DOMAIN stack'[t]
      BY <2>1
  <2> QED
      BY <1>2, <2>2
<1>10. stack'[t] # <<>> /\ Top(t)'.pc = "inject" => Top(t)'.todo # <<>>
  <2> SUFFICES ASSUME stack'[t] # <<>>, Top(t)'.pc = "inject" PROVE Top(t)'.todo # <<>>
      OBVIOUS
  <2>1. stack'[t] \in Seq(CallFrames)
      BY <1>1
  <2>2. Len(stack'[t]) = n - 1 /\ n - 1 \in 1 .. n - 1 /\ (n - 1) + 1 = n
    <3>1. Len(stack'[t]) = n - 1 /\ n \in Nat
        BY <1>1
    <3>2. Len(stack'[t]) # 0 /\ Len(stack'[t]) \in Nat
        BY <2>1
    <3>3. \A m \in Nat : n = m + 1 /\ m # 0 => m \in 1 .. m
        OBVIOUS
    <3>4. \A m \in Nat : m = n - 1 => n = m + 1
        BY <3>1
    <3> QED
        BY <3>1, <3>2, <3>3, <3>4
  <2>3. Top(t)' = stack[t][n - 1]
      BY <1>1, <2>2 DEF Top, Depth
  <2>4. n - 1 \in DOMAIN stack[t] /\ (n - 1) + 1 \in DOMAIN stack[t]
      BY <1>1, <2>2
  <2> QED
      BY <2>3, <2>4 DEF CallsInv, MakesInv
<1> QED
    BY <1>1, <1>4, <1>5, <1>6, <1>7, <1>8, <1>9, <1>10 DEF CallsInv, n

\* A call makes another: through its factory, which it then holds the lock for, or
\* for a parameter of its class.
LEMMA CallPushed ==
    ASSUME ContainerTypeInv, CallsInv, NEW t \in Resolvers, stack[t] # <<>>, Top(t).pc # "making",
           NEW p \in {"making", "inject"}, NEW b \in Types, NEW r \in SUBSET Types,
           \A S \in SUBSET Types : Closed(S) /\ Top(t).type \in S => b \in S,
           p = "making" => b = Made(Top(t).type) /\ LockFreeFor(t),
           p = "inject" => Top(t).todo # <<>>,
           Push(t, p, b, r)
    PROVE  /\ stack' \in [Resolvers -> Seq(CallFrames)] /\ CallsInv'
           /\ \A u \in Resolvers, a \in Types :
                BeingMade(u, a)' <=> BeingMade(u, a) \/ (u = t /\ p = "making" /\ a = Top(t).type)
           /\ \A u \in Resolvers \ {t} : stack'[u] = stack[u]
           /\ stack'[t] # <<>> /\ stack'[t][1].type = stack[t][1].type
           /\ stack'[t][1].pc = IF Depth(t) = 1 THEN p ELSE stack[t][1].pc
           /\ Depth(t) = 1 => stack[t][1] = Top(t)
<1> DEFINE n == Depth(t)
<1>1. stack \in [Resolvers -> Seq(CallFrames)]
    BY DEF ContainerTypeInv
<1>2. /\ stack' \in [Resolvers -> Seq(CallFrames)]
      /\ \A u \in Resolvers : u # t => stack'[u] = stack[u]
      /\ n \in Nat /\ n > 0 /\ DOMAIN stack[t] = 1 .. n
      /\ DOMAIN stack'[t] = 1 .. n + 1 /\ Top(t) = stack[t][n]
      /\ \A i \in 1 .. n : i # n => stack'[t][i] = stack[t][i]
    BY <1>1, StackPushed
<1>3. stack'[t][n].type = Top(t).type /\ stack'[t][n].todo = Top(t).todo /\ stack'[t][n].pc = p
    BY <1>1, StackPushed
<1>4. stack'[t][n + 1].type = b /\ stack'[t][n + 1].todo = <<>> /\ stack'[t][n + 1].pc = "instances"
    BY <1>1, StackPushed
<1> HIDE DEF n
<1>5. /\ stack' \in [Resolvers -> Seq(CallFrames)]
      /\ \A u \in Resolvers : u # t => stack'[u] = stack[u]
      /\ n \in Nat /\ n > 0 /\ DOMAIN stack[t] = 1 .. n
      /\ DOMAIN stack'[t] = 1 .. n + 1 /\ Top(t) = stack[t][n]
    BY <1>2
<1>6. \A i \in 1 .. n : stack'[t][i].type = stack[t][i].type /\ stack'[t][i].todo = stack[t][i].todo
    BY <1>2, <1>3
<1>7. \A i \in 1 .. n : stack'[t][i].pc = IF i = n THEN p ELSE stack[t][i].pc
    BY <1>2, <1>3
<1>8. \A u \in Resolvers, a \in Types :
          BeingMade(u, a)' <=> BeingMade(u, a) \/ (u = t /\ p = "making" /\ a = Top(t).type)
  <2> SUFFICES ASSUME NEW u \in Resolvers, NEW a \in Types
               PROVE  BeingMade(u, a)' <=> BeingMade(u, a) \/ (u = t /\ p = "making" /\ a = Top(t).type)
      OBVIOUS
  <2>1. CASE u # t
      BY <1>5, <2>1 DEF BeingMade
  <2>2. CASE u = t
    <3>1. BeingMade(t, a) => BeingMade(t, a)'
        BY <1>5, <1>6, <1>7 DEF BeingMade
    <3>2. p = "making" /\ a = Top(t).type => BeingMade(t, a)'
      <4>1. n \in 1 .. n /\ n \in DOMAIN stack'[t]
          BY <1>5
      <4> QED
          BY <1>3, <4>1 DEF BeingMade
    <3>3. BeingMade(t, a)' => BeingMade(t, a) \/ (p = "making" /\ a = Top(t).type)
      <4> SUFFICES ASSUME NEW i \in DOMAIN stack'[t], stack'[t][i].pc = "making", stack'[t][i].type = a
                   PROVE  BeingMade(t, a) \/ (p = "making" /\ a = Top(t).type)
          BY DEF BeingMade
      <4>1. i # n + 1
          BY <1>4
      <4>2. i \in 1 .. n
          BY <1>5, <4>1
      <4> QED
          BY <1>5, <1>6, <1>7, <4>2 DEF BeingMade
    <3> QED
        BY <2>2, <3>1, <3>2, <3>3
  <2> QED
      BY <2>1, <2>2
<1>9. MutexInv'
  <2>1. \A u \in Resolvers : u # t => Making(u)' = Making(u)
      BY <1>5 DEF Making
  <2>2. p = "making" => \A u \in Resolvers \ {t} : Making(u)' = {}
      BY <2>1 DEF LockFreeFor
  <2>3. p # "making" => Making(t)' = Making(t)
    <3> SUFFICES ASSUME p # "making" PROVE Making(t)' = Making(t)
        OBVIOUS
    <3>1. \A i \in 1 .. n : stack'[t][i].pc = "making" <=> stack[t][i].pc = "making"
        BY <1>5, <1>7
    <3>2. stack'[t][n + 1].pc # "making"
        BY <1>4
    <3> QED
        BY <1>5, <3>1, <3>2 DEF Making
  <2> QED
      BY <2>1, <2>2, <2>3 DEF MutexInv, CallsInv
<1>10. MakesInv'
  <2> SUFFICES ASSUME NEW u \in Resolvers, NEW i \in DOMAIN stack'[u], i + 1 \in DOMAIN stack'[u]
               PROVE  /\ stack'[u][i].pc = "making" => stack'[u][i + 1].type = Made(stack'[u][i].type)
                      /\ stack'[u][i].pc = "inject" => stack'[u][i].todo # <<>>
      BY DEF MakesInv
  <2>1. CASE u # t
      BY <1>5, <2>1 DEF MakesInv, CallsInv
  <2>2. CASE u = t /\ i = n
      BY <1>3, <1>4, <1>5, <2>2
  <2>3. CASE u = t /\ i # n
    <3>1. i \in 1 .. n /\ i + 1 \in 1 .. n
        BY <1>5, <2>3
    <3>2. i \in DOMAIN stack[t] /\ i + 1 \in DOMAIN stack[t]
        BY <1>5, <3>1
    <3>3. /\ stack[t][i].pc = "making" => stack[t][i + 1].type = Made(stack[t][i].type)
          /\ stack[t][i].pc = "inject" => stack[t][i].todo # <<>>
        BY <3>2 DEF MakesInv, CallsInv
    <3> QED
        BY <1>6, <1>7, <2>3, <3>1, <3>3
  <2> QED
      BY <2>1, <2>2, <2>3
<1>11. LeadInv'
  <2> SUFFICES ASSUME NEW u \in Resolvers, NEW S \in SUBSET Types, Closed(S),
                      NEW i \in DOMAIN stack'[u], stack'[u][i].type \in S
               PROVE  /\ \A j \in DOMAIN stack'[u] : i < j => stack'[u][j].type \in S
                      /\ \A k \in DOMAIN stack'[u][i].todo : stack'[u][i].todo[k] \in S
      BY DEF LeadInv
  <2>1. CASE u # t
      BY <1>5, <2>1 DEF LeadInv, CallsInv
  <2>2. CASE u = t /\ i = n + 1
      BY <1>4, <1>5, <2>2
  <2>3. CASE u = t /\ i # n + 1
    <3>1. i \in 1 .. n /\ i \in DOMAIN stack[t] /\ n \in DOMAIN stack[t]
        BY <1>5, <2>3
    <3>2. stack[t][i].type \in S
        BY <1>6, <2>3, <3>1
    <3>3. /\ \A j \in DOMAIN stack[t] : i < j => stack[t][j].type \in S
          /\ \A k \in DOMAIN stack[t][i].todo : stack[t][i].todo[k] \in S
        BY <3>1, <3>2 DEF LeadInv, CallsInv
    <3>4. stack[t][n].type \in S
      <4>1. CASE i = n
          BY <3>2, <4>1
      <4>2. CASE i < n
          BY <3>1, <3>3, <4>2
      <4> QED
          BY <1>5, <3>1, <4>1, <4>2
    <3>5. stack'[t][n + 1].type \in S
        BY <1>4, <1>5, <3>4
    <3>6. ASSUME NEW j \in DOMAIN stack'[t], i < j PROVE stack'[t][j].type \in S
      <4>1. CASE j = n + 1
          BY <3>5, <4>1
      <4>2. CASE j # n + 1
        <5>1. j \in 1 .. n /\ j \in DOMAIN stack[t]
            BY <1>5, <4>2
        <5> QED
            BY <1>6, <3>3, <3>6, <5>1
      <4> QED
          BY <4>1, <4>2
    <3>7. stack'[t][i].todo = stack[t][i].todo
        BY <1>6, <3>1
    <3> QED
        BY <2>3, <3>3, <3>6, <3>7
  <2> QED
      BY <2>1, <2>2, <2>3
<1>12. 1 \in 1 .. n /\ stack'[t] # <<>>
    BY <1>5
<1>13. stack'[t][1].type = stack[t][1].type /\ stack'[t][1].pc = IF n = 1 THEN p ELSE stack[t][1].pc
    BY <1>6, <1>7, <1>12
<1> QED
    BY <1>2, <1>8, <1>9, <1>10, <1>11, <1>12, <1>13 DEF CallsInv, n

\* A call that goes on keeps the invariant, unless it constructs what a callable
\* of the thread's own request makes.
LEMMA CallGoesOn ==
    ASSUME ContainerInv, NEW t \in Resolvers, stack[t] # <<>>, Top(t).pc # "making",
           NEW f \in CallFrames, f.type = Top(t).type, f.pc # "making",
           \A S \in SUBSET Types : Closed(S) /\ f.type \in S => \A k \in DOMAIN f.todo : f.todo[k] \in S,
           stack' = [stack EXCEPT ![t] = [stack[t] EXCEPT ![Depth(t)] = f]],
           Depth(t) = 1 /\ asked[t] /\ f.type \in DOMAIN Callable => f.pc \in {"factories", "lock"},
           answer' \in [Resolvers -> Int], answer'[t] = None,
           \A u \in Resolvers \ {t} : answer'[u] = answer[u],
           UNCHANGED <<registered, factories, instances, built, asked, answers>>
    PROVE  ContainerInv'
<1>1. ContainerTypeInv /\ CallsInv
    BY DEF ContainerInv
<1>2. /\ stack' \in [Resolvers -> Seq(CallFrames)] /\ CallsInv'
      /\ \A u \in Resolvers, a \in Types : BeingMade(u, a)' <=> BeingMade(u, a)
      /\ \A u \in Resolvers \ {t} : stack'[u] = stack[u]
      /\ stack'[t] # <<>> /\ stack'[t][1].type = stack[t][1].type
      /\ stack'[t][1] = IF Depth(t) = 1 THEN f ELSE stack[t][1]
      /\ Depth(t) = 1 => stack[t][1] = Top(t)
    BY <1>1, CallChanged
<1>3. ContainerTypeInv'
    BY <1>1, <1>2 DEF ContainerTypeInv
<1>4. Singletons \subseteq Types /\ DOMAIN Callable \subseteq Types
    BY TypesAssumption DEF Singletons
<1>5. FactoryInv'
    BY <1>2, <1>4 DEF ContainerInv, FactoryInv
<1>6. OnceInv'
    BY <1>2, <1>4 DEF ContainerInv, OnceInv
<1>7. AskInv'
  <2> SUFFICES ASSUME NEW u \in Resolvers, asked[u], stack'[u] # <<>>, stack'[u][1].type \in DOMAIN Callable
               PROVE  /\ stack'[u][1].type \in registered
                      /\ stack'[u][1].pc \in {"instances", "factories", "lock", "making"}
      BY DEF AskInv
  <2>1. CASE u # t
      BY <1>2, <2>1 DEF ContainerInv, AskInv
  <2>2. CASE u = t
    <3>1. /\ stack[t][1].type \in registered
          /\ stack[t][1].pc \in {"instances", "factories", "lock", "making"}
        BY <1>2, <2>2 DEF ContainerInv, AskInv
    <3>2. Depth(t) = 1 => stack'[t][1].pc \in {"factories", "lock"}
        BY <1>2, <2>2
    <3> QED
        BY <1>2, <2>2, <3>1, <3>2
  <2> QED
      BY <2>1, <2>2
<1>8. AnswerInv'
    BY <1>2 DEF ContainerInv, AnswerInv, Top, Depth
<1> QED
    BY <1>2, <1>3, <1>5, <1>6, <1>7, <1>8 DEF ContainerInv

\* A call that resolves a parameter of its class, or returns without having run a
\* factory, keeps it; the object given for a callable is the stored one.
LEMMA CallReturns ==
    ASSUME ContainerInv, NEW t \in Resolvers, stack[t] # <<>>, Top(t).pc # "making",
           NEW result \in Int, Returned(t, result),
           Depth(t) = 1 /\ asked[t] /\ result # Raised /\ Top(t).type \in DOMAIN Callable =>
             result = instances[Top(t).type],
           UNCHANGED <<factories, instances>>, built' \in Nat
    PROVE  ContainerInv'
<1>1. ContainerTypeInv /\ CallsInv
    BY DEF ContainerInv
<1>2. stack' = [stack EXCEPT ![t] = SubSeq(stack[t], 1, Depth(t) - 1)]
    BY DEF Returned
<1>3. /\ stack' \in [Resolvers -> Seq(CallFrames)] /\ CallsInv'
      /\ \A u \in Resolvers, a \in Types : BeingMade(u, a)' => BeingMade(u, a)
      /\ \A u \in Resolvers, a \in Types :
           BeingMade(u, a) /\ ~(u = t /\ Top(t).pc = "making" /\ Top(t).type = a) => BeingMade(u, a)'
      /\ \A u \in Resolvers \ {t} : stack'[u] = stack[u]
      /\ stack'[t] # <<>> => stack'[t][1] = stack[t][1]
      /\ Depth(t) = 1 => stack[t][1] = Top(t)
      /\ Top(t) \in CallFrames
      /\ stack'[t] # <<>> /\ Top(t)'.pc = "inject" => Top(t)'.todo # <<>>
    BY <1>1, <1>2, CallPopped
<1>4. \A u \in Resolvers, a \in Types : BeingMade(u, a)' <=> BeingMade(u, a)
    BY <1>3
<1>5. ContainerTypeInv'
  <2>1. answer' \in [Resolvers -> Int]
      BY <1>1 DEF ContainerTypeInv, Returned, None
  <2>2. asked' = asked /\ registered' = registered
      BY DEF Returned
  <2> QED
      BY <1>1, <1>3, <2>1, <2>2 DEF ContainerTypeInv
<1>6. Singletons \subseteq Types /\ DOMAIN Callable \subseteq Types
    BY TypesAssumption DEF Singletons
<1>7. registered' = registered /\ asked' = asked
    BY DEF Returned
<1>8. FactoryInv'
    BY <1>4, <1>6, <1>7 DEF ContainerInv, FactoryInv
<1>9. OnceInv'
  <2>1. \A a \in DOMAIN Callable : instances[a] # 0 => \A u \in Resolvers : ~BeingMade(u, a)'
      BY <1>4, <1>6 DEF ContainerInv, OnceInv
  <2>2. ASSUME NEW x \in answers', x[1] \in DOMAIN Callable
        PROVE  instances[x[1]] # 0 /\ x[2] = instances[x[1]]
    <3>1. CASE x \in answers
        BY <2>2, <3>1 DEF ContainerInv, OnceInv
    <3>2. CASE x \notin answers
      <4>1. /\ Depth(t) = 1 /\ asked[t] /\ result # Raised
            /\ x = <<Top(t).type, result>>
          BY <2>2, <3>2 DEF Returned
      <4> QED
          BY <2>2, <4>1 DEF Raised
    <3> QED
        BY <3>1, <3>2
  <2> QED
      BY <2>1, <2>2 DEF OnceInv
<1>10. AskInv'
    BY <1>3, <1>7 DEF ContainerInv, AskInv
<1>11. AnswerInv'
  <2>1. \A u \in Resolvers \ {t} : answer'[u] = answer[u]
      BY DEF Returned
  <2> QED
      BY <1>3, <2>1 DEF ContainerInv, AnswerInv, Top, Depth
<1> QED
    BY <1>3, <1>5, <1>8, <1>9, <1>10, <1>11 DEF ContainerInv

\* What the step of a call finds: the frame on top, and the first one.
LEMMA TopOf ==
    ASSUME ContainerInv, NEW t \in Resolvers, stack[t] # <<>>
    PROVE  /\ Top(t) \in CallFrames /\ Top(t).type \in Types /\ Depth(t) \in Nat /\ Depth(t) > 0
           /\ instances[Top(t).type] \in Int /\ answer[t] \in Int
           /\ answer[t] # None /\ Top(t).pc = "inject" => Top(t).todo # <<>>
           /\ DOMAIN stack[t] = 1 .. Depth(t) /\ Top(t) = stack[t][Depth(t)]
           /\ \A S \in SUBSET Types : Closed(S) /\ Top(t).type \in S =>
                \A k \in DOMAIN Top(t).todo : Top(t).todo[k] \in S
           /\ Depth(t) = 1 /\ asked[t] /\ Top(t).type \in DOMAIN Callable =>
                /\ Top(t).type \in registered
                /\ Top(t).pc \in {"instances", "factories", "lock", "making"}
<1> DEFINE n == Depth(t)
<1>1. stack[t] \in Seq(CallFrames) /\ n = Len(stack[t])
    BY DEF Depth, ContainerInv, ContainerTypeInv
<1>2. n \in Nat /\ n > 0 /\ DOMAIN stack[t] = 1 .. n /\ stack[t][n] \in CallFrames /\ n \in DOMAIN stack[t]
    BY <1>1
<1>3. Top(t) = stack[t][n]
    BY DEF Top
<1>4. Top(t).type \in Types
    BY <1>2, <1>3 DEF CallFrames
<1>5. instances[Top(t).type] \in Int /\ answer[t] \in Int
    BY <1>4 DEF ContainerInv, ContainerTypeInv
<1>6. \A S \in SUBSET Types : Closed(S) /\ Top(t).type \in S =>
          \A k \in DOMAIN Top(t).todo : Top(t).todo[k] \in S
    BY <1>2, <1>3 DEF ContainerInv, CallsInv, LeadInv
<1>7. n = 1 /\ asked[t] /\ Top(t).type \in DOMAIN Callable =>
          Top(t).type \in registered /\ Top(t).pc \in {"instances", "factories", "lock", "making"}
    BY <1>3 DEF ContainerInv, AskInv
<1>8. answer[t] # None /\ Top(t).pc = "inject" => Top(t).todo # <<>>
    BY DEF ContainerInv, AnswerInv
<1> QED
    BY <1>2, <1>3, <1>4, <1>5, <1>6, <1>7, <1>8

\* A frame that only moves on.
LEMMA GotoFrame ==
    ASSUME ContainerInv, NEW t \in Resolvers, stack[t] # <<>>,
           NEW pc \in {"factories", "lock", "class"}, Goto(t, pc)
    PROVE  \E f \in CallFrames :
             /\ f.type = Top(t).type /\ f.todo = Top(t).todo /\ f.pc = pc
             /\ stack' = [stack EXCEPT ![t] = [stack[t] EXCEPT ![Depth(t)] = f]]
<1> DEFINE f == [Top(t) EXCEPT !.pc = pc]
<1>1. f \in CallFrames /\ f.type = Top(t).type /\ f.todo = Top(t).todo /\ f.pc = pc
    BY TopOf DEF CallFrames
<1>2. stack' = [stack EXCEPT ![t] = [stack[t] EXCEPT ![Depth(t)] = f]]
    BY DEF Goto, Top
<1> QED
    BY <1>1, <1>2

\* Each scope holds an instance, or none, for every scoped type.
ScopesInv == scopes \in [Resolvers -> Seq([Scoped -> Int])]

\* What the steps in a scope leave in it is of that kind.
LEMMA ScopesTyped ==
    ASSUME ContainerInv, ScopesInv, ContainerNext
    PROVE  ScopesInv'
<1>1. built \in Int
    BY DEF ContainerInv, ContainerTypeInv
<1>2. ASSUME NEW t \in Resolvers, NEW a \in Scoped, scopes[t] # <<>>,
             scopes' = [scopes EXCEPT ![t][Len(scopes[t])][a] = built + 1]
      PROVE  ScopesInv'
  <2>1. scopes[t] \in Seq([Scoped -> Int]) /\ Len(scopes[t]) \in 1 .. Len(scopes[t])
      BY <1>2 DEF ScopesInv
  <2>2. scopes[t][Len(scopes[t])] \in [Scoped -> Int]
      BY <2>1
  <2>3. [scopes[t][Len(scopes[t])] EXCEPT ![a] = built + 1] \in [Scoped -> Int]
      BY <1>1, <2>2
  <2>4. [scopes[t] EXCEPT ![Len(scopes[t])] = [scopes[t][Len(scopes[t])] EXCEPT ![a] = built + 1]]
          \in Seq([Scoped -> Int])
      BY <2>1, <2>3
  <2> QED
      BY <1>2, <2>4 DEF ScopesInv
<1>3. ASSUME NEW t \in Resolvers, EnterScope(t) PROVE ScopesInv'
  <2>1. [a \in Scoped |-> 0] \in [Scoped -> Int] /\ scopes[t] \in Seq([Scoped -> Int])
      BY DEF ScopesInv
  <2>2. Append(scopes[t], [a \in Scoped |-> 0]) \in Seq([Scoped -> Int])
      BY <2>1
  <2> QED
      BY <1>3, <2>2 DEF EnterScope, ScopesInv
<1>4. ASSUME NEW t \in Resolvers, ExitScope(t) PROVE ScopesInv'
  <2>1. scopes[t] \in Seq([Scoped -> Int]) /\ scopes[t] # <<>>
      BY <1>4 DEF ExitScope, ScopesInv
  <2>2. SubSeq(scopes[t], 1, Len(scopes[t]) - 1) \in Seq([Scoped -> Int])
      BY <2>1
  <2> QED
      BY <1>4, <2>2 DEF ExitScope, ScopesInv
<1>5. ASSUME NEW t \in Resolvers, NEW a \in Scoped, ResolveScoped(t, a) PROVE ScopesInv'
    BY <1>2, <1>5 DEF ResolveScoped, ScopesInv
<1>6. ASSUME NEW t \in Resolvers, ScopeAnswers(t) PROVE ScopesInv'
  <2>1. Top(t).type \in Scoped /\ scopes[t] # <<>>
      BY <1>6 DEF ScopeAnswers, AsksScope
  <2> QED
      BY <1>2, <1>6, <2>1 DEF ScopeAnswers, ScopesInv
<1>7. ASSUME NEW t \in Resolvers, scopes' = scopes PROVE ScopesInv'
    BY <1>7 DEF ScopesInv
<1>8. ASSUME NEW t \in Resolvers,
             \/ \E a \in Singletons \cup DOMAIN Bound \cup Scoped : Register(t, a)
             \/ \E a \in Types : Resolve(t, a)
      PROVE  scopes' = scopes
    BY <1>8 DEF Register, Resolve
<1>9. ASSUME NEW t \in Resolvers,
             \/ ReadInstances(t) \/ ReadFactories(t) \/ CallFactory(t) \/ FactoryReturns(t)
             \/ InspectClass(t) \/ Inject(t) \/ Injected(t) \/ Construct(t)
      PROVE  scopes' = scopes
  <2>1. CASE ReadInstances(t) \/ ReadFactories(t)
      BY <2>1 DEF ReadInstances, ReadFactories, Return, Keeps
  <2>2. CASE CallFactory(t) \/ FactoryReturns(t)
      BY <2>2 DEF CallFactory, FactoryReturns, Return, Keeps
  <2>3. CASE InspectClass(t) \/ Inject(t)
      BY <2>3 DEF InspectClass, Inject, Return, Keeps
  <2>4. CASE Injected(t) \/ Construct(t)
      BY <2>4 DEF Injected, Construct, Return, Keeps
  <2> QED
      BY <1>9, <2>1, <2>2, <2>3, <2>4
<1> QED
    BY <1>3, <1>4, <1>5, <1>6, <1>7, <1>8, <1>9 DEF ContainerNext

\* A call that the scope answers for is none of resolve() itself, and no factory's.
LEMMA ScopeAnswersKeeps ==
    ASSUME ContainerInv, ScopesInv, NEW t \in Resolvers, ScopeAnswers(t)
    PROVE  ContainerInv'
<1>1. /\ stack[t] # <<>> /\ Top(t).pc = "instances" /\ Depth(t) > 1 /\ Depth(t) \in Nat
      /\ UNCHANGED <<factories, instances>>
    BY TopOf DEF ScopeAnswers, AsksScope, At
<1>2. built \in Nat
    BY DEF ContainerInv, ContainerTypeInv
<1>3. PICK object \in Int : Returned(t, object) /\ built' \in {built, built + 1}
  <2>1. Top(t).type \in Scoped /\ scopes[t] \in Seq([Scoped -> Int]) /\ scopes[t] # <<>>
      BY DEF ScopeAnswers, AsksScope, ScopesInv
  <2>2. scopes[t][Len(scopes[t])][Top(t).type] \in Int
      BY <2>1
  <2>3. CASE Returned(t, scopes[t][Len(scopes[t])][Top(t).type]) /\ UNCHANGED built
      BY <2>2, <2>3
  <2>4. CASE Returned(t, built + 1) /\ built' = built + 1
      BY <1>2, <2>4
  <2>5. CASE Returned(t, Raised) /\ UNCHANGED built
      BY <2>5 DEF Raised
  <2> QED
      BY <2>3, <2>4, <2>5 DEF ScopeAnswers
<1>4. built' \in Nat
    BY <1>2, <1>3
<1> QED
    BY <1>1, <1>3, <1>4, CallReturns

\* The look at _instances without the lock.
LEMMA ReadInstancesKeeps == ASSUME ContainerInv, NEW t \in Resolvers, ReadInstances(t) PROVE ContainerInv'
<1>1. stack[t] # <<>> /\ Top(t).pc = "instances" /\ answer[t] = None
    BY DEF ReadInstances, At
<1>2. /\ Top(t) \in CallFrames /\ instances[Top(t).type] \in Int
      /\ \A S \in SUBSET Types : Closed(S) /\ Top(t).type \in S =>
           \A k \in DOMAIN Top(t).todo : Top(t).todo[k] \in S
    BY <1>1, TopOf
<1>3. built \in Nat /\ answer \in [Resolvers -> Int]
    BY DEF ContainerInv, ContainerTypeInv
<1>4. CASE instances[Top(t).type] # 0
  <2>1. Return(t, instances[Top(t).type]) /\ UNCHANGED <<factories, instances, built>>
      BY <1>4 DEF ReadInstances
  <2> QED
      BY <1>1, <1>2, <1>3, <2>1, CallReturns DEF Return
<1>5. CASE instances[Top(t).type] = 0
  <2>1. Goto(t, "factories") /\ UNCHANGED <<registered, factories, instances, built, asked, answers, answer>>
      BY <1>5 DEF ReadInstances, Keeps
  <2>2. PICK f \in CallFrames :
          /\ f.type = Top(t).type /\ f.todo = Top(t).todo /\ f.pc = "factories"
          /\ stack' = [stack EXCEPT ![t] = [stack[t] EXCEPT ![Depth(t)] = f]]
      BY <1>1, <2>1, GotoFrame
  <2> QED
      BY <1>1, <1>2, <1>3, <2>1, <2>2, CallGoesOn
<1> QED
    BY <1>4, <1>5

\* The look for a factory without the lock: that of a registered callable is there.
LEMMA ReadFactoriesKeeps == ASSUME ContainerInv, NEW t \in Resolvers, ReadFactories(t) PROVE ContainerInv'
<1> DEFINE pc == IF Top(t).type \in factories THEN "lock" ELSE "class"
<1>1. /\ stack[t] # <<>> /\ Top(t).pc = "factories" /\ answer[t] = None /\ Goto(t, pc) /\ pc \in {"lock", "class"}
      /\ UNCHANGED <<registered, factories, instances, built, asked, answers, answer>>
    BY DEF ReadFactories, At, Keeps
<1>2. Depth(t) = 1 /\ asked[t] /\ Top(t).type \in DOMAIN Callable => pc = "lock"
  <2> SUFFICES ASSUME Depth(t) = 1, asked[t], Top(t).type \in DOMAIN Callable PROVE Top(t).type \in factories
      OBVIOUS
  <2>1. Top(t).type \in registered
      BY <1>1, TopOf
  <2> QED
      BY <2>1 DEF ContainerInv, FactoryInv
<1> HIDE DEF pc
<1>3. PICK f \in CallFrames :
        /\ f.type = Top(t).type /\ f.todo = Top(t).todo /\ f.pc = pc
        /\ stack' = [stack EXCEPT ![t] = [stack[t] EXCEPT ![Depth(t)] = f]]
    BY <1>1, GotoFrame
<1>4. \A S \in SUBSET Types : Closed(S) /\ f.type \in S => \A k \in DOMAIN f.todo : f.todo[k] \in S
    BY <1>1, <1>3, TopOf
<1>5. answer' \in [Resolvers -> Int]
    BY <1>1 DEF ContainerInv, ContainerTypeInv
<1> QED
    BY <1>1, <1>2, <1>3, <1>4, <1>5, CallGoesOn

\* A factory is called with the lock held: a callable's stays where it is, a lazy
\* one is made from then on.
LEMMA CallFactoryKeeps == ASSUME ContainerInv, NEW t \in Resolvers, CallFactory(t) PROVE ContainerInv'
<1> DEFINE a == Top(t).type
<1>1. /\ stack[t] # <<>> /\ Top(t).pc = "lock" /\ answer[t] = None /\ LockFreeFor(t)
      /\ instances' = instances /\ built' = built
    BY DEF CallFactory, At
<1>2. /\ Top(t) \in CallFrames /\ a \in Types /\ instances[a] \in Int
      /\ Depth(t) = 1 /\ asked[t] /\ a \in DOMAIN Callable => a \in registered
      /\ \A S \in SUBSET Types : Closed(S) /\ a \in S =>
           \A k \in DOMAIN Top(t).todo : Top(t).todo[k] \in S
    BY <1>1, TopOf
<1>3. built \in Nat /\ answer \in [Resolvers -> Int]
    BY DEF ContainerInv, ContainerTypeInv
<1>4. CASE Stored(a) # 0
  <2>1. Return(t, instances[a]) /\ UNCHANGED <<factories, instances>>
      BY <1>1, <1>4 DEF CallFactory, Stored
  <2> QED
      BY <1>1, <1>2, <1>3, <2>1, CallReturns DEF Return
<1>5. CASE Stored(a) = 0 /\ a \notin factories
  <2>1. Goto(t, "class") /\ UNCHANGED <<registered, factories, instances, built, asked, answers, answer>>
      BY <1>1, <1>5 DEF CallFactory, Keeps
  <2>2. PICK f \in CallFrames :
          /\ f.type = a /\ f.todo = Top(t).todo /\ f.pc = "class"
          /\ stack' = [stack EXCEPT ![t] = [stack[t] EXCEPT ![Depth(t)] = f]]
      BY <1>1, <2>1, GotoFrame
  <2>3. ~(Depth(t) = 1 /\ asked[t] /\ a \in DOMAIN Callable)
      BY <1>2, <1>5 DEF ContainerInv, FactoryInv
  <2> QED
      BY <1>1, <1>2, <1>3, <2>1, <2>2, <2>3, CallGoesOn
<1>6. CASE Stored(a) = 0 /\ a \in factories
  <2>1. /\ factories' = factories \ ({a} \cap DOMAIN Lazy) /\ Push(t, "making", Made(a), {})
        /\ UNCHANGED <<registered, instances, built, asked, answers, answer>>
      BY <1>1, <1>6 DEF CallFactory, Keeps
  <2>2. a \in Singletons
      BY <1>6 DEF ContainerInv, ContainerTypeInv
  <2>3. Made(a) \in Types /\ \A S \in SUBSET Types : Closed(S) /\ a \in S => Made(a) \in S
      BY <1>2, <2>2, TypesClosed
  <2>4. ContainerTypeInv /\ CallsInv
      BY DEF ContainerInv
  <2>5. /\ stack' \in [Resolvers -> Seq(CallFrames)] /\ CallsInv'
        /\ \A u \in Resolvers, b \in Types : BeingMade(u, b)' <=> BeingMade(u, b) \/ (u = t /\ b = a)
        /\ \A u \in Resolvers \ {t} : stack'[u] = stack[u]
        /\ stack'[t] # <<>> /\ stack'[t][1].type = stack[t][1].type
        /\ stack'[t][1].pc = IF Depth(t) = 1 THEN "making" ELSE stack[t][1].pc
        /\ Depth(t) = 1 => stack[t][1] = Top(t)
      BY <1>1, <2>1, <2>3, <2>4, CallPushed
  <2>6. ContainerTypeInv'
      BY <2>1, <2>4, <2>5 DEF ContainerTypeInv
  <2>7. Singletons \subseteq Types /\ DOMAIN Callable \subseteq Types /\ DOMAIN Lazy \cap DOMAIN Callable = {}
      BY TypesAssumption, OneWayAssumption DEF Singletons
  <2>8. FactoryInv'
    <3>1. \A b \in registered' \cap DOMAIN Callable : b \in factories'
        BY <2>1, <2>7 DEF ContainerInv, FactoryInv
    <3>2. \A b \in registered' \cap Singletons :
            b \in factories' \/ instances'[b] # 0 \/ \E u \in Resolvers : BeingMade(u, b)'
      <4> SUFFICES ASSUME NEW b \in registered \cap Singletons, b \notin factories', instances[b] = 0
                   PROVE  \E u \in Resolvers : BeingMade(u, b)'
          BY <1>1, <2>1
      <4>1. b \in factories \/ \E u \in Resolvers : BeingMade(u, b)
          BY DEF ContainerInv, FactoryInv
      <4>2. b \in factories => b = a
          BY <2>1
      <4> QED
          BY <2>5, <2>7, <4>1, <4>2
    <3> QED
        BY <3>1, <3>2 DEF FactoryInv
  <2>9. OnceInv'
    <3>1. \A b \in DOMAIN Callable : instances'[b] # 0 => \A u \in Resolvers : ~BeingMade(u, b)'
        BY <1>1, <1>6, <2>5, <2>7 DEF ContainerInv, OnceInv, Stored
    <3> QED
        BY <2>1, <3>1 DEF ContainerInv, OnceInv
  <2>10. AskInv'
    <3> SUFFICES ASSUME NEW u \in Resolvers, asked[u], stack'[u] # <<>>, stack'[u][1].type \in DOMAIN Callable
                 PROVE  /\ stack'[u][1].type \in registered
                        /\ stack'[u][1].pc \in {"instances", "factories", "lock", "making"}
        BY <2>1 DEF AskInv
    <3>1. CASE u # t
        BY <2>5, <3>1 DEF ContainerInv, AskInv
    <3>2. CASE u = t
        BY <1>1, <2>5, <3>2 DEF ContainerInv, AskInv
    <3> QED
        BY <3>1, <3>2
  <2>11. AnswerInv'
      BY <1>1, <2>1, <2>5 DEF ContainerInv, AnswerInv, Top, Depth
  <2> QED
      BY <2>5, <2>6, <2>8, <2>9, <2>10, <2>11 DEF ContainerInv
<1> QED
    BY <1>4, <1>5, <1>6

\* While a thread runs a factory no other runs one; and what a callable makes never
\* needs its own type, so the thread does not run it twice at once.
LEMMA MadeAlone ==
    ASSUME ContainerInv, NEW t \in Resolvers, stack[t] # <<>>, Top(t).pc = "making",
           stack' = [stack EXCEPT ![t] = SubSeq(stack[t], 1, Depth(t) - 1)],
           NEW a \in DOMAIN Callable, a = Top(t).type
    PROVE  \A u \in Resolvers : ~BeingMade(u, a)'
<1> DEFINE n == Depth(t)
<1>1. /\ \A u \in Resolvers : u # t => stack'[u] = stack[u]
      /\ n \in Nat /\ n > 0 /\ DOMAIN stack[t] = 1 .. n
      /\ DOMAIN stack'[t] = 1 .. n - 1 /\ Top(t) = stack[t][n]
      /\ \A i \in 1 .. n - 1 : stack'[t][i] = stack[t][i]
    BY StackPopped DEF ContainerInv, ContainerTypeInv
<1>2. n \in DOMAIN stack[t] /\ stack[t][n].type = a
    BY <1>1
<1> HIDE DEF n
<1>3. Making(t) # {}
    BY <1>1, <1>2 DEF Making
<1> SUFFICES ASSUME NEW u \in Resolvers, NEW i \in DOMAIN stack'[u],
                    stack'[u][i].pc = "making", stack'[u][i].type = a
             PROVE  FALSE
    BY DEF BeingMade
<1>4. u = t
  <2> SUFFICES ASSUME u # t PROVE FALSE
      OBVIOUS
  <2>1. i \in Making(u)
      BY <1>1 DEF Making
  <2> QED
      BY <1>3, <2>1 DEF ContainerInv, CallsInv, MutexInv
<1>5. /\ i \in DOMAIN stack[t] /\ i < n /\ i + 1 \in DOMAIN stack[t]
      /\ stack[t][i].pc = "making" /\ stack[t][i].type = a
  <2>1. i \in 1 .. n - 1
      BY <1>1, <1>4
  <2>2. stack'[t][i] = stack[t][i]
      BY <1>1, <2>1
  <2>3. i \in 1 .. n /\ i < n /\ i + 1 \in 1 .. n
      BY <1>1, <2>1
  <2>4. stack[t][i].pc = "making" /\ stack[t][i].type = a
      BY <1>4, <2>2
  <2> QED
      BY <1>1, <2>3, <2>4
<1>6. stack[t][i + 1].type = Made(a)
    BY <1>5 DEF ContainerInv, CallsInv, MakesInv
<1>7. a \in DOMAIN Callable /\ a \notin DOMAIN Lazy
    BY OneWayAssumption
<1>8. PICK S \in SUBSET Types : Callable[a] \in S /\ a \notin S /\ Closed(S)
    BY <1>7, CallableAssumption
<1>9. stack[t][i + 1].type \in S
    BY <1>6, <1>7, <1>8 DEF Made
<1>10. \A j \in DOMAIN stack[t] : i + 1 < j => stack[t][j].type \in S
    BY <1>5, <1>8, <1>9 DEF ContainerInv, CallsInv, LeadInv
<1>11. n = i + 1 \/ i + 1 < n
    BY <1>1, <1>5
<1> QED
    BY <1>2, <1>8, <1>9, <1>10, <1>11

\* A factory returns: the instance is stored, or a lazy factory goes back.
LEMMA FactoryReturnsKeeps == ASSUME ContainerInv, NEW t \in Resolvers, FactoryReturns(t) PROVE ContainerInv'
<1> DEFINE a == Top(t).type
<1>1. /\ stack[t] # <<>> /\ Top(t).pc = "making" /\ answer[t] # None /\ Return(t, answer[t])
      /\ stack' = [stack EXCEPT ![t] = SubSeq(stack[t], 1, Depth(t) - 1)]
      /\ registered' = registered /\ asked' = asked /\ built' = built
    BY DEF FactoryReturns, Return, Returned
<1>2. ContainerTypeInv /\ CallsInv
    BY DEF ContainerInv
<1>3. /\ stack' \in [Resolvers -> Seq(CallFrames)] /\ CallsInv'
      /\ \A u \in Resolvers, b \in Types : BeingMade(u, b)' => BeingMade(u, b)
      /\ \A u \in Resolvers, b \in Types :
           BeingMade(u, b) /\ ~(u = t /\ Top(t).pc = "making" /\ Top(t).type = b) => BeingMade(u, b)'
      /\ \A u \in Resolvers \ {t} : stack'[u] = stack[u]
      /\ stack'[t] # <<>> => stack'[t][1] = stack[t][1]
      /\ stack'[t] # <<>> /\ Top(t)'.pc = "inject" => Top(t)'.todo # <<>>
    BY <1>1, <1>2, CallPopped
<1>4. a \in Types /\ answer[t] \in Int /\ DOMAIN stack[t] = 1 .. Depth(t) /\ Depth(t) \in Nat
      /\ Depth(t) > 0 /\ Top(t) = stack[t][Depth(t)]
    BY <1>1, TopOf
<1>5. BeingMade(t, a)
    BY <1>1, <1>4 DEF BeingMade
<1>6. \A b \in DOMAIN Callable : b = a => \A u \in Resolvers : ~BeingMade(u, b)'
    BY <1>1, MadeAlone
<1>7. Singletons \subseteq Types /\ DOMAIN Callable \subseteq Types /\ DOMAIN Lazy \cup DOMAIN Callable = Singletons
    BY TypesAssumption DEF Singletons
<1>8. answer' \in [Resolvers -> Int]
    BY <1>1, <1>2, <1>4 DEF Return, Returned, ContainerTypeInv, None
<1>9. AskInv'
    BY <1>1, <1>3 DEF ContainerInv, AskInv
<1>12. AnswerInv'
  <2>1. \A u \in Resolvers \ {t} : answer'[u] = answer[u]
      BY <1>1 DEF Return, Returned
  <2> QED
      BY <1>3, <2>1 DEF ContainerInv, AnswerInv, Top, Depth
<1> HIDE DEF a
<1>10. CASE answer[t] = Raised
  <2>1. factories' = factories \cup ({a} \cap DOMAIN Lazy) /\ instances' = instances /\ answers' = answers
      BY <1>1, <1>10 DEF FactoryReturns, Restored, Return, Returned, a
  <2>2. ContainerTypeInv'
      BY <1>1, <1>2, <1>3, <1>7, <1>8, <2>1 DEF ContainerTypeInv
  <2>3. FactoryInv'
    <3>1. \A b \in registered' \cap DOMAIN Callable : b \in factories'
        BY <1>1, <2>1 DEF ContainerInv, FactoryInv
    <3>2. ASSUME NEW b \in registered \cap Singletons, b \notin factories', instances[b] = 0
          PROVE  \E u \in Resolvers : BeingMade(u, b)'
      <4>1. b \notin factories /\ b \notin DOMAIN Callable /\ b # a
          BY <1>7, <2>1, <3>2 DEF ContainerInv, FactoryInv
      <4>2. PICK u \in Resolvers : BeingMade(u, b)
          BY <3>2, <4>1 DEF ContainerInv, FactoryInv
      <4> QED
          BY <1>3, <1>7, <4>1, <4>2 DEF a
    <3> QED
        BY <1>1, <2>1, <3>1, <3>2 DEF FactoryInv
  <2>4. OnceInv'
      BY <1>3, <1>7, <2>1 DEF ContainerInv, OnceInv
  <2> QED
      BY <1>3, <1>9, <1>12, <2>2, <2>3, <2>4 DEF ContainerInv
<1>11. CASE answer[t] # Raised
  <2>1. factories' = factories /\ instances' = [instances EXCEPT ![a] = answer[t]]
      BY <1>1, <1>11 DEF FactoryReturns, a
  <2>2. /\ instances'[a] = answer[t] /\ instances'[a] # 0
        /\ \A b \in Types : b # a => instances'[b] = instances[b]
      BY <1>2, <1>4, <1>11, <2>1 DEF ContainerTypeInv, Raised
  <2>3. ContainerTypeInv'
      BY <1>1, <1>2, <1>3, <1>4, <1>8, <2>1 DEF ContainerTypeInv
  <2>4. FactoryInv'
    <3>1. \A b \in registered' \cap DOMAIN Callable : b \in factories'
        BY <1>1, <2>1 DEF ContainerInv, FactoryInv
    <3>2. ASSUME NEW b \in registered \cap Singletons, b \notin factories', instances'[b] = 0
          PROVE  \E u \in Resolvers : BeingMade(u, b)'
      <4>1. b \in Types /\ b # a /\ b \notin factories /\ instances[b] = 0
          BY <1>7, <2>1, <2>2, <3>2
      <4>2. PICK u \in Resolvers : BeingMade(u, b)
          BY <3>2, <4>1 DEF ContainerInv, FactoryInv
      <4> QED
          BY <1>3, <4>1, <4>2 DEF a
    <3> QED
        BY <1>1, <3>1, <3>2 DEF FactoryInv
  <2>5. OnceInv'
    <3>1. \A b \in DOMAIN Callable : instances'[b] # 0 => \A u \in Resolvers : ~BeingMade(u, b)'
      <4> SUFFICES ASSUME NEW b \in DOMAIN Callable, instances'[b] # 0, NEW u \in Resolvers
                   PROVE  ~BeingMade(u, b)'
          OBVIOUS
      <4>1. CASE b = a
          BY <1>6, <4>1
      <4>2. CASE b # a
          BY <1>3, <1>7, <2>2, <4>2 DEF ContainerInv, OnceInv
      <4> QED
          BY <4>1, <4>2
    <3>2. ASSUME NEW x \in answers', x[1] \in DOMAIN Callable
          PROVE  instances'[x[1]] # 0 /\ x[2] = instances'[x[1]]
      <4>1. CASE x \in answers
        <5>1. instances[x[1]] # 0 /\ x[2] = instances[x[1]]
            BY <3>2, <4>1 DEF ContainerInv, OnceInv
        <5>2. x[1] # a
            BY <1>5, <3>2, <5>1 DEF ContainerInv, OnceInv
        <5> QED
            BY <1>7, <2>2, <3>2, <5>1, <5>2
      <4>2. CASE x \notin answers
        <5>1. x = <<a, answer[t]>>
            BY <1>1, <3>2, <4>2 DEF Return, Returned, a
        <5> QED
            BY <2>2, <5>1
      <4> QED
          BY <4>1, <4>2
    <3> QED
        BY <3>1, <3>2 DEF OnceInv
  <2> QED
      BY <1>3, <1>9, <1>12, <2>3, <2>4, <2>5 DEF ContainerInv
<1> QED
    BY <1>10, <1>11

\* A class that raises at once, or whose parameters come next.
LEMMA InspectClassKeeps == ASSUME ContainerInv, NEW t \in Resolvers, InspectClass(t) PROVE ContainerInv'
<1> DEFINE class == Class(Top(t).type)
<1>1. /\ stack[t] # <<>> /\ Top(t).pc = "class" /\ answer[t] = None
      /\ UNCHANGED <<factories, instances, built>>
    BY DEF InspectClass, At
<1>2. /\ Top(t) \in CallFrames /\ Top(t).type \in Types
      /\ ~(Depth(t) = 1 /\ asked[t] /\ Top(t).type \in DOMAIN Callable)
    BY <1>1, TopOf
<1>3. built \in Nat /\ answer \in [Resolvers -> Int]
    BY DEF ContainerInv, ContainerTypeInv
<1>4. /\ class \in Types
      /\ \A S \in SUBSET Types : Closed(S) /\ Top(t).type \in S => class \in S
    BY <1>2, TypesClosed
<1>5. CASE class \in Top(t).resolving \cup Abstract
  <2>1. Return(t, Raised) /\ Raised \in Int
      BY <1>5 DEF InspectClass, Raised
  <2> QED
      BY <1>1, <1>2, <1>3, <2>1, CallReturns DEF Return
<1>6. CASE class \notin Top(t).resolving \cup Abstract
  <2> DEFINE f == [Top(t) EXCEPT !.pc = "inject", !.todo = Deps[class],
                                !.resolving = @ \cup {class}]
  <2>1. class \in DOMAIN Deps
      BY <1>4, <1>6 DEF Types
  <2>2. Deps[class] \in Seq(Types)
      BY <2>1, TypesAssumption
  <2>3. f \in CallFrames /\ f.type = Top(t).type /\ f.todo = Deps[class] /\ f.pc = "inject"
      BY <1>2, <1>4, <2>2 DEF CallFrames
  <2>4. \A S \in SUBSET Types : Closed(S) /\ f.type \in S => \A k \in DOMAIN f.todo : f.todo[k] \in S
      BY <1>4, <2>1, <2>3 DEF Closed
  <2>5. stack' = [stack EXCEPT ![t][Depth(t)] = f] /\ UNCHANGED answer /\ Keeps
      BY <1>6 DEF InspectClass
  <2>6. stack' = [stack EXCEPT ![t] = [stack[t] EXCEPT ![Depth(t)] = f]]
      BY <2>5
  <2>7. UNCHANGED <<registered, asked, answers, answer>>
      BY <2>5 DEF Keeps
  <2> HIDE DEF f
  <2> QED
      BY <1>1, <1>2, <1>3, <2>3, <2>4, <2>6, <2>7, CallGoesOn
<1> QED
    BY <1>5, <1>6

\* The next parameter is resolved.
LEMMA InjectKeeps == ASSUME ContainerInv, NEW t \in Resolvers, Inject(t) PROVE ContainerInv'
<1> DEFINE b == Head(Top(t).todo)
<1>1. /\ stack[t] # <<>> /\ Top(t).pc = "inject" /\ answer[t] = None /\ Top(t).todo # <<>>
      /\ Push(t, "inject", b, Top(t).resolving)
      /\ UNCHANGED <<factories, instances, answer, built, asked, registered, answers>>
    BY DEF Inject, At, Keeps
<1>2. /\ Top(t) \in CallFrames
      /\ ~(Depth(t) = 1 /\ asked[t] /\ Top(t).type \in DOMAIN Callable)
      /\ \A S \in SUBSET Types : Closed(S) /\ Top(t).type \in S =>
           \A k \in DOMAIN Top(t).todo : Top(t).todo[k] \in S
    BY <1>1, TopOf
<1>3. Top(t).todo \in Seq(Types) /\ Top(t).resolving \in SUBSET Types
    BY <1>2 DEF CallFrames
<1>4. b \in Types /\ 1 \in DOMAIN Top(t).todo /\ b = Top(t).todo[1]
    BY <1>1, <1>3
<1>5. \A S \in SUBSET Types : Closed(S) /\ Top(t).type \in S => b \in S
    BY <1>2, <1>4
<1>6. ContainerTypeInv /\ CallsInv
    BY DEF ContainerInv
<1>7. /\ stack' \in [Resolvers -> Seq(CallFrames)] /\ CallsInv'
      /\ \A u \in Resolvers, a \in Types : BeingMade(u, a)' <=> BeingMade(u, a)
      /\ \A u \in Resolvers \ {t} : stack'[u] = stack[u]
      /\ stack'[t] # <<>> /\ stack'[t][1].type = stack[t][1].type
      /\ stack'[t][1].pc = IF Depth(t) = 1 THEN "inject" ELSE stack[t][1].pc
      /\ Depth(t) = 1 => stack[t][1] = Top(t)
    BY <1>1, <1>3, <1>4, <1>5, <1>6, CallPushed
<1>8. ContainerTypeInv'
    BY <1>1, <1>6, <1>7 DEF ContainerTypeInv
<1>9. Singletons \subseteq Types /\ DOMAIN Callable \subseteq Types
    BY TypesAssumption DEF Singletons
<1>10. FactoryInv'
    BY <1>1, <1>7, <1>9 DEF ContainerInv, FactoryInv
<1>11. OnceInv'
    BY <1>1, <1>7, <1>9 DEF ContainerInv, OnceInv
<1>12. AskInv'
  <2> SUFFICES ASSUME NEW u \in Resolvers, asked[u], stack'[u] # <<>>, stack'[u][1].type \in DOMAIN Callable
               PROVE  /\ stack'[u][1].type \in registered
                      /\ stack'[u][1].pc \in {"instances", "factories", "lock", "making"}
      BY <1>1 DEF AskInv
  <2>1. CASE u # t
      BY <1>7, <2>1 DEF ContainerInv, AskInv
  <2>2. CASE u = t
    <3>1. Depth(t) # 1
        BY <1>2, <1>7, <2>2
    <3> QED
        BY <1>1, <1>7, <2>2, <3>1 DEF ContainerInv, AskInv
  <2> QED
      BY <2>1, <2>2
<1>13. AnswerInv'
    BY <1>1, <1>7 DEF ContainerInv, AnswerInv, Top, Depth
<1> QED
    BY <1>7, <1>8, <1>10, <1>11, <1>12, <1>13 DEF ContainerInv

\* A parameter is resolved, or the class fails.
LEMMA InjectedKeeps == ASSUME ContainerInv, NEW t \in Resolvers, Injected(t) PROVE ContainerInv'
<1> DEFINE fails == answer[t] = Raised /\ <<Class(Top(t).type), Head(Top(t).todo)>> \notin Optional
<1>1. /\ stack[t] # <<>> /\ Top(t).pc = "inject" /\ answer[t] # None
      /\ UNCHANGED <<factories, instances, built>>
    BY DEF Injected
<1>2. /\ Top(t) \in CallFrames
      /\ ~(Depth(t) = 1 /\ asked[t] /\ Top(t).type \in DOMAIN Callable)
      /\ \A S \in SUBSET Types : Closed(S) /\ Top(t).type \in S =>
           \A k \in DOMAIN Top(t).todo : Top(t).todo[k] \in S
    BY <1>1, TopOf
<1>3. built \in Nat /\ answer \in [Resolvers -> Int]
    BY DEF ContainerInv, ContainerTypeInv
<1>4. CASE fails
  <2>1. Return(t, Raised) /\ Raised \in Int
      BY <1>4 DEF Injected, Raised
  <2> QED
      BY <1>1, <1>2, <1>3, <2>1, CallReturns DEF Return
<1>5. CASE ~fails
  <2> DEFINE f == [Top(t) EXCEPT !.todo = Tail(Top(t).todo)]
  <2>1. Top(t).todo \in Seq(Types) /\ Top(t).todo # <<>>
      BY <1>1, <1>2, TopOf DEF CallFrames
  <2>2. /\ Tail(Top(t).todo) \in Seq(Types)
        /\ \A k \in DOMAIN Tail(Top(t).todo) :
             k + 1 \in DOMAIN Top(t).todo /\ Tail(Top(t).todo)[k] = Top(t).todo[k + 1]
      BY <2>1
  <2>3. f \in CallFrames /\ f.type = Top(t).type /\ f.todo = Tail(Top(t).todo) /\ f.pc = "inject"
      BY <1>1, <1>2, <2>2 DEF CallFrames
  <2>4. \A S \in SUBSET Types : Closed(S) /\ f.type \in S => \A k \in DOMAIN f.todo : f.todo[k] \in S
      BY <1>2, <2>2, <2>3
  <2>5. /\ stack' = [stack EXCEPT ![t][Depth(t)].todo = Tail(@)]
        /\ answer' = [answer EXCEPT ![t] = None] /\ Keeps
      BY <1>5 DEF Injected
  <2>6. stack' = [stack EXCEPT ![t] = [stack[t] EXCEPT ![Depth(t)] = f]]
      BY <2>5 DEF Top
  <2>7. UNCHANGED <<registered, asked, answers>>
      BY <2>5 DEF Keeps
  <2>8. answer' \in [Resolvers -> Int] /\ answer'[t] = None /\ \A u \in Resolvers \ {t} : answer'[u] = answer[u]
      BY <1>3, <2>5 DEF None
  <2> HIDE DEF f
  <2> QED
      BY <1>1, <1>2, <1>3, <2>3, <2>4, <2>6, <2>7, <2>8, CallGoesOn
<1> QED
    BY <1>4, <1>5

\* An instance is constructed, or its constructor raises.
LEMMA ConstructKeeps == ASSUME ContainerInv, NEW t \in Resolvers, Construct(t) PROVE ContainerInv'
<1>1. /\ stack[t] # <<>> /\ Top(t).pc = "inject" /\ UNCHANGED <<factories, instances>>
    BY DEF Construct, At
<1>2. ~(Depth(t) = 1 /\ asked[t] /\ Top(t).type \in DOMAIN Callable)
    BY <1>1, TopOf
<1>3. built \in Nat /\ built + 1 \in Nat /\ built + 1 \in Int /\ Raised \in Int
    BY DEF ContainerInv, ContainerTypeInv, Raised
<1>4. CASE built' = built + 1 /\ Return(t, built + 1)
    BY <1>1, <1>2, <1>3, <1>4, CallReturns DEF Return
<1>5. CASE built' = built /\ Return(t, Raised)
    BY <1>1, <1>2, <1>3, <1>5, CallReturns DEF Return
<1> QED
    BY <1>4, <1>5 DEF Construct

\* A type is registered: its factory is there from then on.
LEMMA RegisterKeeps ==
    ASSUME ContainerInv, NEW t \in Resolvers, NEW a \in Singletons \cup DOMAIN Bound \cup Scoped, Register(t, a)
    PROVE  ContainerInv'
<1>1. /\ registered' = registered \cup {a} /\ factories' = factories \cup ({a} \cap Singletons)
      /\ UNCHANGED <<instances, stack, answer, built, asked, answers>>
    BY DEF Register
<1>2. Singletons \subseteq Types /\ DOMAIN Callable \subseteq Singletons /\ a \in Types
    BY TypesAssumption DEF Singletons
<1>3. ContainerTypeInv'
    BY <1>1, <1>2 DEF ContainerInv, ContainerTypeInv
<1>4. CallsInv'
    BY <1>1 DEF ContainerInv, CallsInv, LeadInv, MakesInv, MutexInv, Making
<1>5. AnswerInv'
    BY <1>1 DEF ContainerInv, AnswerInv, Top, Depth
<1>6. FactoryInv'
    BY <1>1, <1>2 DEF ContainerInv, FactoryInv, BeingMade
<1>7. OnceInv'
    BY <1>1 DEF ContainerInv, OnceInv, BeingMade
<1>8. AskInv'
    BY <1>1 DEF ContainerInv, AskInv
<1> QED
    BY <1>3, <1>4, <1>5, <1>6, <1>7, <1>8 DEF ContainerInv

\* A call begins on a thread that makes nothing.
LEMMA ResolveKeeps == ASSUME ContainerInv, NEW t \in Resolvers, NEW a \in Types, Resolve(t, a) PROVE ContainerInv'
<1> DEFINE f == Call(a, {})
<1>1. /\ stack[t] = <<>> /\ stack' = [stack EXCEPT ![t] = <<f>>]
      /\ asked' = [asked EXCEPT ![t] = a \in registered]
      /\ UNCHANGED <<registered, factories, instances, answer, built, answers>>
    BY DEF Resolve
<1>2. f \in CallFrames /\ f.type = a /\ f.todo = <<>> /\ f.pc = "instances"
    BY DEF Call, CallFrames
<1> HIDE DEF f
<1>3. stack \in [Resolvers -> Seq(CallFrames)] /\ asked \in [Resolvers -> BOOLEAN]
    BY DEF ContainerInv, ContainerTypeInv
<1>4. stack'[t] = <<f>> /\ \A u \in Resolvers : u # t => stack'[u] = stack[u]
    BY <1>1, <1>3
<1>5. <<f>> \in Seq(CallFrames) /\ DOMAIN <<f>> = {1} /\ <<f>>[1] = f /\ Len(<<f>>) = 1
    BY <1>2
<1>6. stack' \in [Resolvers -> Seq(CallFrames)] /\ asked' \in [Resolvers -> BOOLEAN]
    BY <1>1, <1>3, <1>5
<1>7. ContainerTypeInv'
    BY <1>1, <1>6 DEF ContainerInv, ContainerTypeInv
<1>8. DOMAIN stack'[t] = {1} /\ stack'[t][1] = f /\ DOMAIN stack[t] = {}
    BY <1>1, <1>4, <1>5
<1>9. \A u \in Resolvers, b \in Types : BeingMade(u, b)' <=> BeingMade(u, b)
    BY <1>2, <1>4, <1>8 DEF BeingMade
<1>10. \A u \in Resolvers : Making(u)' = Making(u)
    BY <1>2, <1>4, <1>8 DEF Making
<1>11. MutexInv'
    BY <1>10 DEF ContainerInv, CallsInv, MutexInv
<1>12. MakesInv'
    BY <1>2, <1>4, <1>8 DEF ContainerInv, CallsInv, MakesInv
<1>13. LeadInv'
    BY <1>2, <1>4, <1>8 DEF ContainerInv, CallsInv, LeadInv
<1>14. AnswerInv'
  <2>1. Top(t)' = f
      BY <1>4, <1>5, <1>8 DEF Top, Depth
  <2> QED
      BY <1>1, <1>2, <1>4, <2>1 DEF ContainerInv, AnswerInv, Top, Depth
<1>15. Singletons \subseteq Types /\ DOMAIN Callable \subseteq Types
    BY TypesAssumption DEF Singletons
<1>16. FactoryInv'
    BY <1>1, <1>9, <1>15 DEF ContainerInv, FactoryInv
<1>17. OnceInv'
    BY <1>1, <1>9, <1>15 DEF ContainerInv, OnceInv
<1>18. AskInv'
  <2>1. asked'[t] = (a \in registered) /\ \A u \in Resolvers : u # t => asked'[u] = asked[u]
      BY <1>1, <1>3
  <2> SUFFICES ASSUME NEW u \in Resolvers, asked'[u], stack'[u] # <<>>, stack'[u][1].type \in DOMAIN Callable
               PROVE  /\ stack'[u][1].type \in registered
                      /\ stack'[u][1].pc \in {"instances", "factories", "lock", "making"}
      BY <1>1 DEF AskInv
  <2>2. CASE u = t
      BY <1>2, <1>8, <2>1, <2>2
  <2>3. CASE u # t
      BY <1>4, <2>1, <2>3 DEF ContainerInv, AskInv
  <2> QED
      BY <2>2, <2>3
<1> QED
    BY <1>7, <1>11, <1>12, <1>13, <1>14, <1>16, <1>17, <1>18 DEF ContainerInv, CallsInv

\* Scopes have their own instances.
LEMMA ScopesKeep ==
    ASSUME ContainerInv, NEW t \in Resolvers,
           EnterScope(t) \/ ExitScope(t) \/ \E a \in Scoped : ResolveScoped(t, a)
    PROVE  ContainerInv'
<1>1. UNCHANGED <<registered, factories, instances, stack, answer, asked, answers>> /\ built' \in Nat
  <2>1. built \in Nat
      BY DEF ContainerInv, ContainerTypeInv
  <2>2. CASE EnterScope(t)
      BY <2>1, <2>2 DEF EnterScope
  <2>3. CASE ExitScope(t)
      BY <2>1, <2>3 DEF ExitScope
  <2>4. ASSUME NEW a \in Scoped, ResolveScoped(t, a)
        PROVE  UNCHANGED <<registered, factories, instances, stack, answer, asked, answers>> /\ built' \in Nat
    <3>1. UNCHANGED <<registered, factories, instances, stack, answer, asked, answers>>
        BY <2>4 DEF ResolveScoped
    <3>2. built' = built \/ built' = built + 1
        BY <2>4 DEF ResolveScoped
    <3> QED
        BY <2>1, <3>1, <3>2
  <2> QED
      BY <2>2, <2>3, <2>4
<1>2. ContainerTypeInv'
    BY <1>1 DEF ContainerInv, ContainerTypeInv
<1>3. CallsInv'
    BY <1>1 DEF ContainerInv, CallsInv, LeadInv, MakesInv, MutexInv, Making
<1>4. AnswerInv'
    BY <1>1 DEF ContainerInv, AnswerInv, Top, Depth
<1>5. FactoryInv' /\ OnceInv' /\ AskInv'
    BY <1>1 DEF ContainerInv, FactoryInv, OnceInv, AskInv, BeingMade
<1> QED
    BY <1>2, <1>3, <1>4, <1>5 DEF ContainerInv

\* Whatever threads resolve while others register: a singleton's registration is
\* never lost, and every caller is given the one object a callable makes.
THEOREM ContainerCorrect == ContainerSpec => []ContainerKept
<1>1. ContainerInit => ContainerInv /\ ScopesInv
  <2> SUFFICES ASSUME ContainerInit PROVE ContainerInv /\ ScopesInv
      OBVIOUS
  <2>1. \A t \in Resolvers : stack[t] = <<>> /\ DOMAIN stack[t] = {}
      BY DEF ContainerInit
  <2>2. stack \in [Resolvers -> Seq(CallFrames)]
      BY DEF ContainerInit
  <2>3. answer \in [Resolvers -> Int] /\ instances \in [Types -> Int] /\ built \in Nat
      BY DEF ContainerInit, None
  <2>4. asked \in [Resolvers -> BOOLEAN] /\ registered \subseteq Types /\ factories \subseteq Singletons
      BY DEF ContainerInit
  <2>5. CallsInv
      BY <2>1 DEF CallsInv, LeadInv, MakesInv, MutexInv, Making
  <2>6. AnswerInv /\ AskInv
      BY <2>1 DEF AnswerInv, AskInv
  <2>7. FactoryInv
      BY DEF ContainerInit, FactoryInv
  <2>8. OnceInv
      BY <2>1 DEF ContainerInit, OnceInv, BeingMade
  <2>9. ScopesInv
      BY DEF ContainerInit, ScopesInv
  <2> QED
      BY <2>2, <2>3, <2>4, <2>5, <2>6, <2>7, <2>8, <2>9 DEF ContainerInv, ContainerTypeInv
<1>2. ContainerInv /\ ScopesInv /\ [ContainerNext]_containerVars => ContainerInv' /\ ScopesInv'
  <2> SUFFICES ASSUME ContainerInv, ScopesInv, [ContainerNext]_containerVars PROVE ContainerInv' /\ ScopesInv'
      OBVIOUS
  <2>1. CASE UNCHANGED containerVars
    <3>1. /\ UNCHANGED <<registered, factories, instances, stack, answer, built>>
          /\ UNCHANGED <<asked, answers>> /\ UNCHANGED scopes
        BY <2>1 DEF containerVars
    <3>2. ContainerTypeInv' /\ AnswerInv'
        BY <3>1 DEF ContainerInv, ContainerTypeInv, AnswerInv, Top, Depth
    <3>3. CallsInv'
        BY <3>1 DEF ContainerInv, CallsInv, LeadInv, MakesInv, MutexInv, Making
    <3>4. FactoryInv' /\ OnceInv' /\ AskInv'
        BY <3>1 DEF ContainerInv, FactoryInv, OnceInv, AskInv, BeingMade
    <3> QED
        BY <3>1, <3>2, <3>3, <3>4 DEF ContainerInv, ScopesInv
  <2>2. CASE ContainerNext
    <3>1. ContainerInv'
        BY <2>2, RegisterKeeps, ScopesKeep, ResolveKeeps, ScopeAnswersKeeps, ReadInstancesKeeps,
           ReadFactoriesKeeps, CallFactoryKeeps, FactoryReturnsKeeps, InspectClassKeeps, InjectKeeps,
           InjectedKeeps, ConstructKeeps DEF ContainerNext
    <3> QED
        BY <2>2, <3>1, ScopesTyped
  <2> QED
      BY <2>1, <2>2
<1>3. ContainerInv => ContainerKept
  <2> SUFFICES ASSUME ContainerInv PROVE ContainerKept
      OBVIOUS
  <2>1. RegistrationsKept
    <3> SUFFICES ASSUME \A t \in Resolvers : Making(t) = {}, NEW a \in registered \cap Singletons
                 PROVE  Reported(a) = "singleton"
        BY DEF RegistrationsKept
    <3>1. \A t \in Resolvers : ~BeingMade(t, a)
        BY DEF BeingMade, Making
    <3>2. a \in factories \/ instances[a] # 0
        BY <3>1 DEF ContainerInv, FactoryInv
    <3>3. a \notin Scoped
        BY OneWayAssumption
    <3> QED
        BY <3>2, <3>3 DEF Reported
  <2>2. CallablesAreShared
      BY DEF ContainerInv, OnceInv, CallablesAreShared, Shared
  <2> QED
      BY <2>1, <2>2 DEF ContainerKept
<1> QED
    BY <1>1, <1>2, <1>3, PTL DEF ContainerSpec

----------------------------------------------------------------------------

Sessions == [place : Locations, engine : 1 .. MaxEngines, file : Nat] \cup {NoSession}

ShardTypeInv ==
    /\ lock \in Users \cup {NoUser} /\ deleting \subseteq ShardNames
    /\ engines \in 0 .. MaxEngines /\ created \in Nat
    /\ shards \in [ShardNames -> 0 .. engines] /\ urls \in [ShardNames -> Locations]
    /\ pool \in [1 .. MaxEngines -> Nat]
    /\ files \in [Locations -> Nat]
    /\ session \in [Users -> Sessions]
    /\ vacuuming \in [Users -> SUBSET ShardNames]

\* Engines are not shared, and a session keeps its shard's place; the files about to
\* be deleted are of no registered shard, while the lock keeps others from
\* registering one.
EngineInv ==
    /\ \A m, n \in ShardNames : shards[m] = shards[n] /\ shards[n] # 0 => m = n
    /\ lock = NoUser => deleting = {}
    /\ \A n \in deleting : shards[n] = 0
    /\ \A c \in Users : session[c].engine <= engines
    /\ \A c \in Users, n \in ShardNames :
         shards[n] # 0 /\ session[c].engine = shards[n] => session[c].place = urls[n]

\* A shard that was not given the file of another name.
Own(n) == urls[n] \in {n} \cup Elsewhere

ShardInv == ShardTypeInv /\ EngineInv /\ ShardIsItsFile

\* The engine of a session has a number, or is 0.
LEMMA EngineNumbered == \A s \in Sessions : s.engine \in 0 .. MaxEngines /\ s.engine \in Nat
<1>1. ASSUME NEW s \in [place : Locations, engine : 1 .. MaxEngines, file : Nat]
      PROVE  s.engine \in 1 .. MaxEngines
    OBVIOUS
<1>2. NoSession.engine = 0
    BY DEF NoSession
<1> QED
    BY <1>1, <1>2, EnginesAssumption DEF Sessions

\* A shard is registered, or was.
Opened(n, p) ==
    \/ shards[n] # 0 /\ UNCHANGED <<shards, urls, engines, pool, files, created>>
    \/ shards[n] = 0 /\ CreateShard(n, p)

\* create_shard() takes a new engine, and a connection does not change a file.
LEMMA EnsureGives ==
    ASSUME ShardInv, NEW n \in ShardNames, NEW p \in Locations, Opened(n, p)
    PROVE  /\ engines' \in 0 .. MaxEngines /\ created' \in Nat /\ engines <= engines'
           /\ shards' \in [ShardNames -> 0 .. engines'] /\ urls' \in [ShardNames -> Locations]
           /\ pool' \in [1 .. MaxEngines -> Nat]
           /\ files' \in [Locations -> Nat]
           /\ \A m \in ShardNames : m # n => shards'[m] = shards[m] /\ urls'[m] = urls[m]
           /\ \A q \in Locations : files[q] # 0 => files'[q] = files[q]
           /\ shards[n] # 0 => shards'[n] = shards[n] /\ urls'[n] = urls[n] /\ UNCHANGED pool
           /\ shards[n] = 0 => shards'[n] \in {0, engines + 1}
           /\ shards[n] = 0 /\ shards'[n] # 0 =>
                urls'[n] = p /\ files'[p] # 0 /\ pool'[shards'[n]] = files'[p]
           /\ \A m \in ShardNames : m # n /\ shards[m] # 0 => pool'[shards[m]] = pool[shards[m]]
<1>0. /\ engines \in Nat /\ engines <= MaxEngines /\ MaxEngines \in Nat /\ created \in Nat
      /\ files[p] \in Nat /\ shards[n] \in Nat
      /\ \A m \in ShardNames : shards[m] \in Nat /\ shards[m] <= engines
    BY EnginesAssumption DEF ShardInv, ShardTypeInv
<1>1. CASE shards[n] # 0
    BY <1>0, <1>1 DEF ShardInv, ShardTypeInv, Opened, CreateShard
<1>2. CASE shards[n] = 0
  <2>1. CreateShard(n, p)
      BY <1>2 DEF Opened
  <2>2. /\ engines' = engines + 1 /\ engines' \in 1 .. MaxEngines /\ engines <= engines'
        /\ \A m \in ShardNames : shards[m] # engines + 1
      BY <1>0, <2>1 DEF CreateShard
  <2>3. FileOf(p) \in Nat /\ FileOf(p) # 0 /\ created' \in Nat
        /\ (files[p] # 0 => FileOf(p) = files[p])
      BY <1>0, <2>1 DEF CreateShard, Connect, FileOf
  <2>4. files' = [files EXCEPT ![p] = FileOf(p)]
      BY <2>1 DEF CreateShard, Connect
  <2>5. files' \in [Locations -> Nat] /\ files'[p] = FileOf(p)
        /\ \A q \in Locations : files[q] # 0 => files'[q] = files[q]
      BY <2>3, <2>4 DEF ShardInv, ShardTypeInv
  <2>6. \A m \in ShardNames : shards[m] \in 0 .. engines'
      BY <1>0, <2>2
  <2>7. CASE UNCHANGED <<shards, urls, pool>>
    <3>1. shards' \in [ShardNames -> 0 .. engines']
        BY <2>6, <2>7 DEF ShardInv, ShardTypeInv
    <3> QED
        BY <1>2, <2>2, <2>3, <2>5, <2>7, <3>1 DEF ShardInv, ShardTypeInv
  <2>8. CASE /\ shards' = [shards EXCEPT ![n] = engines + 1]
             /\ urls' = [urls EXCEPT ![n] = p]
             /\ pool' = [pool EXCEPT ![engines + 1] = FileOf(p)]
    <3>1. shards' \in [ShardNames -> 0 .. engines'] /\ shards'[n] = engines'
          /\ \A m \in ShardNames : m # n => shards'[m] = shards[m]
        BY <2>2, <2>6, <2>8, <1>0 DEF ShardInv, ShardTypeInv
    <3>2. pool' \in [1 .. MaxEngines -> Nat] /\ pool'[engines'] = FileOf(p)
          /\ \A e \in 1 .. MaxEngines : e # engines' => pool'[e] = pool[e]
        BY <2>2, <2>3, <2>8 DEF ShardInv, ShardTypeInv
    <3>3. \A m \in ShardNames : shards[m] # 0 => shards[m] \in 1 .. MaxEngines /\ shards[m] # engines'
        BY <1>0, <2>2
    <3>4. urls' \in [ShardNames -> Locations] /\ urls'[n] = p
          /\ \A m \in ShardNames : m # n => urls'[m] = urls[m]
        BY <2>8 DEF ShardInv, ShardTypeInv
    <3> QED
        BY <1>2, <2>2, <2>3, <2>5, <3>1, <3>2, <3>3, <3>4
  <2> QED
      BY <2>1, <2>7, <2>8 DEF CreateShard
<1> QED
    BY <1>1, <1>2

\* A shard registered beside the open sessions.
LEMMA EnsureKeeps ==
    ASSUME ShardInv, NEW n \in ShardNames, NEW p \in Locations, Opened(n, p), lock = NoUser,
           lock' = lock, deleting' = deleting, vacuuming' \in [Users -> SUBSET ShardNames],
           session' \in [Users -> Sessions],
           \A c \in Users :
             \/ session'[c] = session[c]
             \/ shards'[n] # 0 /\ session'[c] = [place |-> urls'[n], engine |-> shards'[n], file |-> 0]
    PROVE  ShardInv'
<1>0. /\ engines \in Nat /\ engines' \in Nat /\ engines <= engines'
      /\ \A m \in ShardNames : shards'[m] \in Nat /\ shards'[m] <= engines'
      /\ \A m \in ShardNames : shards[m] \in Nat /\ shards[m] <= engines
      /\ \A c \in Users : session[c].engine \in Nat /\ session[c].engine <= engines
  <2>1. engines \in Nat /\ \A m \in ShardNames : shards[m] \in Nat /\ shards[m] <= engines
      BY DEF ShardInv, ShardTypeInv
  <2>2. /\ engines' \in Nat /\ engines <= engines'
        /\ \A m \in ShardNames : shards'[m] \in Nat /\ shards'[m] <= engines'
      BY EnsureGives
  <2>3. \A c \in Users : session[c].engine \in Nat /\ session[c].engine <= engines
    <3>1. \A c \in Users : session[c] \in Sessions /\ session[c].engine <= engines
        BY DEF ShardInv, ShardTypeInv, EngineInv
    <3> QED
        BY <3>1, EngineNumbered
  <2> QED
      BY <2>1, <2>2, <2>3
<1>1. /\ deleting' = {} /\ deleting = {}
      /\ \A m \in ShardNames : shards'[m] # 0 =>
           \/ shards'[m] = shards[m] /\ shards[m] # 0
           \/ m = n /\ shards[n] = 0 /\ shards'[n] = engines + 1
    BY EnsureGives DEF ShardInv, EngineInv
<1>2. ShardTypeInv'
    BY EnsureGives DEF ShardInv, ShardTypeInv
<1>3. \A m, k \in ShardNames : shards'[m] = shards'[k] /\ shards'[k] # 0 => m = k
  <2> SUFFICES ASSUME NEW m \in ShardNames, NEW k \in ShardNames,
                      shards'[m] = shards'[k], shards'[k] # 0
               PROVE  m = k
      OBVIOUS
  <2>1. shards[m] # engines + 1 /\ shards[k] # engines + 1
      BY <1>0
  <2> QED
      BY <1>1, <2>1 DEF ShardInv, EngineInv
<1>4. \A c \in Users : session'[c].engine <= engines'
    BY <1>0
<1>5. \A c \in Users, m \in ShardNames : shards'[m] # 0 /\ session'[c].engine = shards'[m] =>
          /\ session'[c].place = urls'[m]
          /\ session'[c].file = 0 \/ (session'[c] = session[c] /\ shards[m] = shards'[m])
  <2> SUFFICES ASSUME NEW c \in Users, NEW m \in ShardNames,
                      shards'[m] # 0, session'[c].engine = shards'[m]
               PROVE  /\ session'[c].place = urls'[m]
                      /\ session'[c].file = 0 \/ (session'[c] = session[c] /\ shards[m] = shards'[m])
      OBVIOUS
  <2>1. session[c].engine # engines + 1
      BY <1>0
  <2>2. CASE session'[c] = session[c]
    <3>1. shards'[m] = shards[m] /\ shards[m] # 0
        BY <1>1, <2>1, <2>2
    <3>2. urls'[m] = urls[m]
        BY <3>1, EnsureGives
    <3>3. session[c].place = urls[m]
        BY <2>2, <3>1 DEF ShardInv, EngineInv
    <3> QED
        BY <2>2, <3>1, <3>2, <3>3
  <2>3. CASE session'[c] = [place |-> urls'[n], engine |-> shards'[n], file |-> 0]
      BY <1>3, <2>3
  <2> QED
      BY <2>2, <2>3
<1>6. \A m \in ShardNames : shards'[m] # 0 /\ Own(m)' =>
          /\ files'[urls'[m]] # 0 /\ pool'[shards'[m]] \in {0, files'[urls'[m]]}
          /\ shards[m] = shards'[m] => urls'[m] = urls[m] /\ files'[urls[m]] = files[urls[m]]
  <2> SUFFICES ASSUME NEW m \in ShardNames, shards'[m] # 0, Own(m)'
               PROVE  /\ files'[urls'[m]] # 0 /\ pool'[shards'[m]] \in {0, files'[urls'[m]]}
                      /\ shards[m] = shards'[m] => urls'[m] = urls[m] /\ files'[urls[m]] = files[urls[m]]
      OBVIOUS
  <2>1. CASE m = n /\ shards[n] = 0
      BY <2>1, EnsureGives
  <2>2. CASE m # n \/ shards[n] # 0
    <3>1. shards'[m] = shards[m] /\ urls'[m] = urls[m] /\ pool'[shards[m]] = pool[shards[m]]
        BY <1>1, <2>2, EnsureGives
    <3>2. files[urls[m]] # 0 /\ pool[shards[m]] \in {0, files[urls[m]]} /\ urls[m] \in Locations
        BY <3>1 DEF Own, ShardInv, ShardTypeInv, ShardIsItsFile
    <3>3. files'[urls[m]] = files[urls[m]]
        BY <3>2, EnsureGives
    <3> QED
        BY <3>1, <3>2, <3>3
  <2> QED
      BY <2>1, <2>2
<1>7. ShardIsItsFile'
    BY <1>5, <1>6 DEF ShardInv, ShardIsItsFile, Own
<1>8. EngineInv'
    BY <1>1, <1>3, <1>4, <1>5 DEF EngineInv
<1> QED
    BY <1>2, <1>7, <1>8 DEF ShardInv

\* A connection of a session is to the file of its shard, if that is registered.
LEMMA UseKeeps == ASSUME ShardInv, NEW c \in Users, Use(c) PROVE ShardInv'
<1> DEFINE s == session[c]
<1>1. /\ s \in [place : Locations, engine : 1 .. MaxEngines, file : Nat] /\ s.file = 0
      /\ s.place \in Locations /\ s.engine \in 1 .. MaxEngines
    BY DEF ShardInv, ShardTypeInv, Sessions, Use
<1>2. UNCHANGED <<lock, deleting, shards, urls, engines, pool, vacuuming>>
    BY DEF Use
<1>3. created \in Nat /\ files \in [Locations -> Nat] /\ pool[s.engine] \in Nat
    BY <1>1 DEF ShardInv, ShardTypeInv
<1>4. PICK f \in Nat : /\ session' = [session EXCEPT ![c].file = f]
                       /\ \/ f = pool[s.engine] /\ UNCHANGED <<files, created>>
                          \/ f = FileOf(s.place) /\ Connect(s.place)
  <2>1. FileOf(s.place) \in Nat
      BY <1>1, <1>3 DEF FileOf
  <2> QED
      BY <1>3, <2>1 DEF Use
<1>5. /\ files' \in [Locations -> Nat] /\ created' \in Nat
      /\ \A q \in Locations : files[q] # 0 => files'[q] = files[q]
      /\ f = pool[s.engine] \/ f = files'[s.place]
    BY <1>1, <1>3, <1>4 DEF Connect, FileOf
<1>6. /\ session' \in [Users -> Sessions]
      /\ session'[c] = [place |-> s.place, engine |-> s.engine, file |-> f]
      /\ \A d \in Users : d # c => session'[d] = session[d]
    BY <1>1, <1>4 DEF ShardInv, ShardTypeInv, Sessions
<1>7. \A d \in Users : session'[d].engine = session[d].engine /\ session'[d].place = session[d].place
    BY <1>6
<1>8. ShardTypeInv'
    BY <1>2, <1>5, <1>6 DEF ShardInv, ShardTypeInv
<1>9. EngineInv'
    BY <1>2, <1>7 DEF ShardInv, EngineInv
<1>10. ASSUME NEW n \in ShardNames, shards[n] # 0, Own(n)
       PROVE  LET own == files[urls[n]] IN
              /\ own # 0 /\ files'[urls[n]] = own /\ pool[shards[n]] \in {0, own}
              /\ \A d \in Users : session[d].engine = shards[n] => session'[d].file \in {0, own}
  <2> DEFINE own == files[urls[n]]
  <2>1. /\ own # 0 /\ files'[urls[n]] = own /\ pool[shards[n]] \in {0, own}
        /\ \A d \in Users : session[d].engine = shards[n] => session[d].file \in {0, own}
      BY <1>5, <1>10 DEF ShardInv, ShardTypeInv, ShardIsItsFile, Own
  <2>2. s.engine = shards[n] => s.place = urls[n]
      BY <1>10 DEF ShardInv, EngineInv
  <2>3. s.engine = shards[n] => session'[c].file \in {0, own}
      BY <1>5, <1>6, <2>1, <2>2
  <2> QED
      BY <1>6, <2>1, <2>3
<1>11. ShardIsItsFile'
    BY <1>2, <1>7, <1>10 DEF ShardIsItsFile, Own
<1> QED
    BY <1>8, <1>9, <1>11 DEF ShardInv

\* Only a connection of a registered engine goes back to a pool.
LEMMA SessionCloses == ASSUME ShardInv, NEW c \in Users, CloseSession(c) PROVE ShardInv'
<1> DEFINE s == session[c]
<1>1. /\ s \in [place : Locations, engine : 1 .. MaxEngines, file : Nat]
      /\ s.file \in Nat /\ s.engine \in 1 .. MaxEngines
    BY DEF ShardInv, ShardTypeInv, Sessions, CloseSession
<1>2. UNCHANGED <<lock, deleting, shards, urls, engines, files, created, vacuuming>>
    BY DEF CloseSession
<1>3. /\ session' \in [Users -> Sessions]
      /\ \A d \in Users : session'[d] = session[d] \/ session'[d] = NoSession
    BY DEF ShardInv, ShardTypeInv, Sessions, CloseSession
<1>4. /\ pool' \in [1 .. MaxEngines -> Nat]
      /\ \A e \in 1 .. MaxEngines : pool'[e] = pool[e] \/ (e = s.engine /\ pool'[e] = s.file)
    BY <1>1 DEF ShardInv, ShardTypeInv, CloseSession
<1>5. ShardTypeInv'
    BY <1>2, <1>3, <1>4 DEF ShardInv, ShardTypeInv
<1>6. \A d \in Users : session'[d].engine = 0 \/ session'[d] = session[d]
  <2>1. NoSession.engine = 0
      BY DEF NoSession
  <2> QED
      BY <1>3, <2>1
<1>7. engines \in Nat /\ \A n \in ShardNames : shards[n] # 0 => shards[n] \in 1 .. MaxEngines
    BY EnginesAssumption DEF ShardInv, ShardTypeInv
<1>8. EngineInv'
  <2>1. \A d \in Users : session'[d].engine <= engines
      BY <1>6, <1>7 DEF ShardInv, EngineInv
  <2> QED
      BY <1>2, <1>6, <2>1 DEF ShardInv, EngineInv
<1>9. ShardIsItsFile'
    BY <1>2, <1>4, <1>6, <1>7 DEF ShardInv, ShardIsItsFile
<1> QED
    BY <1>5, <1>8, <1>9 DEF ShardInv

\* Shards that are forgotten lose their engines, and those that stay keep theirs.
LEMMA ForgetKeeps ==
    ASSUME ShardInv, NEW S \in SUBSET ShardNames, Forget(S), UNCHANGED <<engines, files, created, session>>,
           lock' \in Users \cup {NoUser}, deleting' \subseteq ShardNames,
           lock' = NoUser => deleting' = {}, \A n \in deleting' : n \in S \/ shards[n] = 0,
           vacuuming' \in [Users -> SUBSET ShardNames]
    PROVE  ShardInv'
<1>1. /\ shards' \in [ShardNames -> 0 .. engines]
      /\ urls' \in [ShardNames -> Locations]
      /\ \A n \in ShardNames : shards'[n] = IF n \in S THEN 0 ELSE shards[n]
      /\ \A n \in ShardNames : n \notin S => urls'[n] = urls[n]
    BY EnginesAssumption DEF ShardInv, ShardTypeInv, Forget, Forgotten, Locations
<1>2. /\ pool' \in [1 .. MaxEngines -> Nat]
      /\ \A e \in 1 .. MaxEngines : pool'[e] \in {0, pool[e]}
    BY DEF ShardInv, ShardTypeInv, Forget
<1>3. ShardTypeInv'
    BY <1>1, <1>2 DEF ShardInv, ShardTypeInv
<1>4. EngineInv'
    BY <1>1 DEF ShardInv, EngineInv
<1>5. \A n \in ShardNames : shards[n] # 0 => shards[n] \in 1 .. MaxEngines
    BY EnginesAssumption DEF ShardInv, ShardTypeInv
<1>6. ShardIsItsFile'
    BY <1>1, <1>2, <1>5 DEF ShardInv, ShardIsItsFile
<1> QED
    BY <1>3, <1>4, <1>6 DEF ShardInv

\* However removals, purges, vacuums and open sessions overlap, for any threads and
\* shards, a registered shard stays the one file it is on.
THEOREM ShardsCorrect == ShardSpec => []ShardIsItsFile
<1>1. ShardInit => ShardInv
  <2> SUFFICES ASSUME ShardInit PROVE ShardInv
      OBVIOUS
  <2>1. /\ shards \in [ShardNames -> 0 .. engines] /\ \A n \in ShardNames : shards[n] = 0
        /\ engines \in 0 .. MaxEngines
      BY EnginesAssumption DEF ShardInit
  <2>2. files \in [Locations -> Nat] /\ urls \in [ShardNames -> Locations]
    <3>1. PICK old : files = [p \in Locations |-> IF p \in old THEN 1 ELSE 0]
        BY DEF ShardInit
    <3>2. files \in [Locations -> Nat]
        BY <3>1
    <3>3. urls = [n \in ShardNames |-> n]
        BY DEF ShardInit
    <3>4. urls \in [ShardNames -> Locations]
        BY <3>3 DEF Locations
    <3> QED
        BY <3>2, <3>4
  <2>3. session \in [Users -> Sessions] /\ \A c \in Users : session[c].engine = 0
      BY DEF ShardInit, Sessions, NoSession
  <2>4. pool \in [1 .. MaxEngines -> Nat] /\ vacuuming \in [Users -> SUBSET ShardNames]
        /\ created \in Nat /\ engines = 0
      BY DEF ShardInit
  <2>5. lock = NoUser /\ deleting = {}
      BY DEF ShardInit
  <2> QED
      BY <2>1, <2>2, <2>3, <2>4, <2>5 DEF ShardInv, ShardTypeInv, EngineInv, ShardIsItsFile
<1>2. ASSUME ShardInv, [ShardNext]_shardVars PROVE ShardInv'
  <2>1. CASE UNCHANGED shardVars
      BY <1>2, <2>1 DEF ShardInv, ShardTypeInv, EngineInv, ShardIsItsFile, shardVars
  <2>2. ASSUME NEW c \in Users, NEW n \in ShardNames, NEW p \in Locations, AddShard(c, n, p)
        PROVE  ShardInv'
    <3>1. /\ Opened(n, p) /\ lock = NoUser /\ lock' = lock /\ deleting' = deleting
          /\ UNCHANGED <<session, vacuuming>>
        BY <2>2 DEF AddShard, Opened
    <3>2. /\ session' \in [Users -> Sessions] /\ vacuuming' \in [Users -> SUBSET ShardNames]
          /\ \A d \in Users : session'[d] = session[d]
        BY <1>2, <3>1 DEF ShardInv, ShardTypeInv
    <3> QED
        BY <1>2, <3>1, <3>2, EnsureKeeps
  <2>3. ASSUME NEW c \in Users, NEW n \in ShardNames, GetRawSession(c, n) PROVE ShardInv'
    <3>1. /\ Opened(n, n) /\ lock = NoUser /\ lock' = lock /\ deleting' = deleting
          /\ UNCHANGED vacuuming /\ n \in Locations
        BY <2>3 DEF GetRawSession, EnsureShard, Opened, Locations
    <3>2. /\ shards' \in [ShardNames -> 0 .. engines'] /\ engines' \in 0 .. MaxEngines
          /\ urls' \in [ShardNames -> Locations]
        BY <1>2, <3>1, EnsureGives
    <3>3. shards'[n] # 0 => shards'[n] \in 1 .. MaxEngines
        BY <3>2, EnginesAssumption
    <3> DEFINE new == [place |-> urls'[n], engine |-> shards'[n], file |-> 0]
    <3>4. shards'[n] # 0 => new \in Sessions
        BY <3>2, <3>3 DEF Sessions
    <3>5. session \in [Users -> Sessions] /\ vacuuming' \in [Users -> SUBSET ShardNames]
        BY <1>2, <3>1 DEF ShardInv, ShardTypeInv
    <3>6. session' = IF shards'[n] = 0 THEN session ELSE [session EXCEPT ![c] = new]
        BY <2>3 DEF GetRawSession
    <3> HIDE DEF new
    <3>7. /\ session' \in [Users -> Sessions]
          /\ \A d \in Users :
               \/ session'[d] = session[d]
               \/ shards'[n] # 0 /\ session'[d] = new
        BY <3>4, <3>5, <3>6
    <3> QED
        BY <1>2, <3>1, <3>5, <3>7, EnsureKeeps DEF new
  <2>4. ASSUME NEW c \in Users, NEW S \in SUBSET ShardNames, RemoveShard(c, S) PROVE ShardInv'
    <3>1. /\ Forget({n \in S : shards[n] # 0}) /\ deleting' = S /\ lock' = c
          /\ UNCHANGED <<engines, files, created, session, vacuuming>>
        BY <2>4 DEF RemoveShard
    <3>2. vacuuming' \in [Users -> SUBSET ShardNames] /\ c # NoUser
        BY <1>2, <3>1, UsersAssumption DEF ShardInv, ShardTypeInv
    <3> QED
        BY <1>2, <3>1, <3>2, ForgetKeeps
  <2>5. ASSUME NEW c \in Users, DisposeShards(c) PROVE ShardInv'
    <3>1. /\ Forget({n \in ShardNames : shards[n] # 0})
          /\ UNCHANGED <<lock, deleting, engines, files, created, session, vacuuming>>
        BY <2>5 DEF DisposeShards
    <3>2. /\ lock' \in Users \cup {NoUser} /\ deleting' \subseteq ShardNames
          /\ lock' = NoUser => deleting' = {}
          /\ \A n \in deleting' : shards[n] = 0
          /\ vacuuming' \in [Users -> SUBSET ShardNames]
        BY <1>2, <3>1 DEF ShardInv, ShardTypeInv, EngineInv
    <3> QED
        BY <1>2, <3>1, <3>2, ForgetKeeps
  <2>6. ASSUME NEW c \in Users, DeleteFiles(c) PROVE ShardInv'
    <3>1. /\ files' \in [Locations -> Nat] /\ lock' = NoUser /\ deleting' = {}
          /\ \A n \in ShardNames : shards[n] # 0 /\ Own(n) => files'[urls[n]] = files[urls[n]]
          /\ UNCHANGED <<shards, urls, engines, pool, created, session, vacuuming>>
      <4>1. /\ files' = [q \in Locations |-> IF q \in deleting THEN 0 ELSE files[q]]
            /\ lock' = NoUser /\ deleting' = {}
            /\ UNCHANGED <<shards, urls, engines, pool, created, session, vacuuming>>
          BY <2>6 DEF DeleteFiles
      <4>2. files' \in [Locations -> Nat]
          BY <1>2, <4>1 DEF ShardInv, ShardTypeInv
      <4>3. \A n \in ShardNames : shards[n] # 0 /\ Own(n) => urls[n] \notin deleting /\ urls[n] \in Locations
          BY <1>2, ElsewhereAssumption DEF ShardInv, ShardTypeInv, EngineInv, Own
      <4> QED
          BY <4>1, <4>2, <4>3
    <3> QED
        BY <1>2, <3>1 DEF ShardInv, ShardTypeInv, EngineInv, ShardIsItsFile, Own
  <2>7. ASSUME NEW c \in Users, Vacuum(c) PROVE ShardInv'
    <3>1. /\ vacuuming' \in [Users -> SUBSET ShardNames]
          /\ UNCHANGED <<lock, deleting, shards, urls, engines, pool, files, created, session>>
        BY <1>2, <2>7 DEF ShardInv, ShardTypeInv, Vacuum
    <3> QED
        BY <1>2, <3>1 DEF ShardInv, ShardTypeInv, EngineInv, ShardIsItsFile
  <2>8. ASSUME NEW c \in Users, VacuumNext(c) PROVE ShardInv'
    <3>1. PICK n \in ShardNames : Opened(n, n) /\ n \in Locations
                                  /\ vacuuming' = [vacuuming EXCEPT ![c] = IF shards'[n] = 0 THEN {} ELSE @ \ {n}]
        BY <1>2, <2>8 DEF ShardInv, ShardTypeInv, VacuumNext, EnsureShard, Opened, Locations
    <3>2. /\ lock = NoUser /\ lock' = lock /\ deleting' = deleting /\ UNCHANGED session
          /\ session' \in [Users -> Sessions] /\ vacuuming' \in [Users -> SUBSET ShardNames]
          /\ \A d \in Users : session'[d] = session[d]
        BY <1>2, <2>8, <3>1 DEF ShardInv, ShardTypeInv, VacuumNext
    <3> QED
        BY <1>2, <3>1, <3>2, EnsureKeeps
  <2>9. ShardNext => \E c \in Users :
            \/ \E n \in ShardNames : GetRawSession(c, n) \/ \E p \in Locations : AddShard(c, n, p)
            \/ \E S \in SUBSET ShardNames : RemoveShard(c, S)
            \/ Use(c) \/ CloseSession(c) \/ DisposeShards(c) \/ DeleteFiles(c)
            \/ Vacuum(c) \/ VacuumNext(c)
      BY DEF ShardNext
  <2> QED
      BY <1>2, <2>1, <2>2, <2>3, <2>4, <2>5, <2>6, <2>7, <2>8, <2>9, UseKeeps, SessionCloses
<1>3. ShardInv => ShardIsItsFile
    BY DEF ShardInv
<1> QED
    BY <1>1, <1>2, <1>3, PTL DEF ShardSpec

\* Databases.

CommandTypeInv ==
    /\ commands \in 0 .. MaxCommands
    /\ running \in [Users -> Seq(Nat)] /\ pending \in [Users -> SUBSET writes]
    /\ outcome \in [1 .. MaxCommands -> {"running", "returned", "raised", "aborted"}]
    /\ shutDown \in BOOLEAN /\ committed \subseteq writes
    /\ \A w \in writes : w[1] \in 1 .. commands
    /\ \A k \in 1 .. MaxCommands : k > commands => outcome[k] = "running"

\* A thread is in commands that have not ended, each thread in its own, and if it is
\* in several they are nested.
RunningInv ==
    /\ \A c \in Users : \A i \in DOMAIN running[c] :
         running[c][i] \in 1 .. commands /\ outcome[running[c][i]] = "running"
    /\ \A c, d \in Users : \A i \in DOMAIN running[c], j \in DOMAIN running[d] :
         running[c][i] = running[d][j] => c = d /\ i = j
    /\ \A c \in Users : Len(running[c]) > 1 => \A i \in DOMAIN running[c] : running[c][i] \in nested

\* What a thread has not committed was written by the command it is in or was left
\* by an aborted one, and nothing of the command it is in is committed.
WritesInv ==
    /\ \A c \in Users : \A w \in pending[c] :
         w[1] \in nested \/ outcome[w[1]] = "aborted" \/ (running[c] # <<>> /\ InnerCommand(c) = w[1])
    /\ \A c \in Users : \A i \in DOMAIN running[c] : running[c][i] \notin nested =>
         \A w \in writes : w[1] = running[c][i] => w \notin committed /\ (shutDown \/ w \in pending[c])
    /\ \A w \in writes : w[1] \notin nested =>
         /\ outcome[w[1]] = "raised" => w \notin committed
         /\ outcome[w[1]] = "returned" /\ ~shutDown => w \in committed

DatabaseInv == CommandTypeInv /\ RunningInv /\ WritesInv /\ AllThreadsClosed

\* The steps that leave commands alone.
LEMMA CommandsKept ==
    ASSUME DatabaseInv, UNCHANGED <<shutDown, transaction>> PROVE CommandTypeInv' /\ RunningInv' /\ WritesInv'
<1>1. CommandTypeInv'
    BY DEF DatabaseInv, CommandTypeInv, transaction
<1>2. RunningInv'
    BY DEF DatabaseInv, RunningInv, transaction
<1>3. WritesInv'
    BY DEF DatabaseInv, WritesInv, InnerCommand, transaction
<1> QED
    BY <1>1, <1>2, <1>3

\* Numbers of commands.
LEMMA OneOrMore == \A n \in Nat : n > 0 => n = 1 \/ n > 1
    OBVIOUS

\* The command a thread is in.
LEMMA InnerIs ==
    ASSUME DatabaseInv, NEW c \in Users, running[c] # <<>>
    PROVE  /\ running[c] \in Seq(Nat) /\ Len(running[c]) \in Nat /\ Len(running[c]) > 0
           /\ DOMAIN running[c] = 1 .. Len(running[c]) /\ Len(running[c]) \in DOMAIN running[c]
           /\ InnerCommand(c) = running[c][Len(running[c])]
           /\ InnerCommand(c) \in 1 .. commands /\ outcome[InnerCommand(c)] = "running"
           /\ InnerCommand(c) \in 1 .. MaxCommands
           /\ InnerCommand(c) \notin nested => Len(running[c]) = 1
<1>1. /\ running[c] \in Seq(Nat) /\ Len(running[c]) \in Nat /\ Len(running[c]) > 0
      /\ DOMAIN running[c] = 1 .. Len(running[c])
    BY DEF DatabaseInv, CommandTypeInv
<1>2. Len(running[c]) \in DOMAIN running[c]
    BY <1>1
<1>3. InnerCommand(c) = running[c][Len(running[c])]
    BY DEF InnerCommand
<1>4. InnerCommand(c) \in 1 .. commands /\ outcome[InnerCommand(c)] = "running"
    BY <1>2, <1>3 DEF DatabaseInv, RunningInv
<1>5. InnerCommand(c) \in 1 .. MaxCommands
    BY <1>4, CommandsAssumption DEF DatabaseInv, CommandTypeInv
<1>6. Len(running[c]) > 1 \/ Len(running[c]) = 1
    BY <1>1, OneOrMore
<1>7. InnerCommand(c) \notin nested => Len(running[c]) = 1
    BY <1>2, <1>3, <1>6 DEF DatabaseInv, RunningInv
<1> QED
    BY <1>1, <1>2, <1>3, <1>4, <1>5, <1>7

\* A command begins, inside of the one its thread is in if there is one.
LEMMA ProcessKeeps == ASSUME DatabaseInv, NEW c \in Users, Process(c) PROVE DatabaseInv'
<1> DEFINE k == commands + 1
<1>0. /\ commands \in Nat /\ k \in 1 .. MaxCommands /\ commands' = k /\ k \in Nat
      /\ ~shutDown
      /\ UNCHANGED <<offered, entries, open, closing, shutDown, late, writes, pending, committed, outcome>>
    BY CommandsAssumption DEF DatabaseInv, CommandTypeInv, Process
<1>1. /\ running[c] \in Seq(Nat) /\ Len(running[c]) \in Nat /\ DOMAIN running[c] = 1 .. Len(running[c])
      /\ running'[c] = Append(running[c], k) /\ running' \in [Users -> Seq(Nat)]
      /\ \A d \in Users : d # c => running'[d] = running[d]
    BY <1>0 DEF DatabaseInv, CommandTypeInv, Process
<1>2. /\ Len(running'[c]) = Len(running[c]) + 1 /\ DOMAIN running'[c] = 1 .. Len(running[c]) + 1
      /\ \A i \in 1 .. Len(running[c]) : running'[c][i] = running[c][i]
      /\ running'[c][Len(running[c]) + 1] = k
    BY <1>0, <1>1, WithLast
<1>3. \A i \in DOMAIN running'[c] : \/ i \in DOMAIN running[c] /\ running'[c][i] = running[c][i]
                                    \/ i = Len(running[c]) + 1 /\ running'[c][i] = k
    BY <1>1, <1>2
<1>4. nested \subseteq nested' /\ (running[c] # <<>> => nested' = nested \cup {InnerCommand(c), k})
    BY DEF Process
<1>5. CommandTypeInv'
  <2>1. \A w \in writes : w[1] \in 1 .. k
      BY <1>0 DEF DatabaseInv, CommandTypeInv
  <2>2. \A j \in 1 .. MaxCommands : j > k => outcome[j] = "running"
      BY <1>0 DEF DatabaseInv, CommandTypeInv
  <2>3. k \in 0 .. MaxCommands
      BY <1>0
  <2> QED
      BY <1>0, <1>1, <2>1, <2>2, <2>3 DEF DatabaseInv, CommandTypeInv
<1>6. \A d \in Users : \A i \in DOMAIN running[d] : running[d][i] \in 1 .. commands /\ running[d][i] # k
                                                /\ outcome[running[d][i]] = "running"
    BY <1>0 DEF DatabaseInv, RunningInv
<1>7. outcome[k] = "running" /\ \A w \in writes : w[1] # k
    BY <1>0 DEF DatabaseInv, CommandTypeInv
<1>8. RunningInv'
  <2>1. ASSUME NEW d \in Users, NEW i \in DOMAIN running'[d]
        PROVE  /\ running'[d][i] \in 1 .. commands' /\ outcome'[running'[d][i]] = "running"
               /\ running'[d][i] = k => d = c /\ i = Len(running[c]) + 1
               /\ running'[d][i] # k => i \in DOMAIN running[d] /\ running'[d][i] = running[d][i]
    <3>1. \/ i \in DOMAIN running[d] /\ running'[d][i] = running[d][i] /\ running[d][i] # k
          \/ d = c /\ i = Len(running[c]) + 1 /\ running'[d][i] = k
        BY <1>1, <1>3, <1>6
    <3>2. k \in 1 .. commands' /\ \A x \in 1 .. commands : x \in 1 .. commands'
        BY <1>0
    <3> QED
        BY <1>0, <1>6, <1>7, <3>1, <3>2
  <2>2. ASSUME NEW d \in Users, NEW e \in Users, NEW i \in DOMAIN running'[d], NEW j \in DOMAIN running'[e],
               running'[d][i] = running'[e][j]
        PROVE  d = e /\ i = j
      BY <2>1, <2>2 DEF DatabaseInv, RunningInv
  <2>3. ASSUME NEW d \in Users, Len(running'[d]) > 1, NEW i \in DOMAIN running'[d]
        PROVE  running'[d][i] \in nested'
    <3>1. CASE d # c
        BY <1>1, <1>4, <2>3, <3>1 DEF DatabaseInv, RunningInv
    <3>2. CASE d = c
      <4>1. Len(running[c]) > 0 /\ running[c] # <<>>
          BY <1>1, <1>2, <2>3, <3>2
      <4>2. nested' = nested \cup {InnerCommand(c), k}
          BY <1>4, <4>1
      <4>3. CASE i = Len(running[c]) + 1
          BY <1>2, <3>2, <4>2, <4>3
      <4>4. CASE i \in DOMAIN running[c] /\ running'[c][i] = running[c][i]
        <5>1. Len(running[c]) = 1 \/ Len(running[c]) > 1
            BY <1>1, <4>1, OneOrMore
        <5>2. Len(running[c]) = 1 => i = Len(running[c])
            BY <1>1, <4>4
        <5> QED
            BY <3>2, <4>2, <4>4, <5>1, <5>2 DEF DatabaseInv, RunningInv, InnerCommand
      <4> QED
          BY <1>3, <3>2, <4>3, <4>4
    <3> QED
        BY <3>1, <3>2
  <2> QED
      BY <2>1, <2>2, <2>3 DEF RunningInv
<1>9. WritesInv'
  <2>1. ASSUME NEW d \in Users, NEW w \in pending[d]
        PROVE  w[1] \in nested' \/ outcome[w[1]] = "aborted" \/ (running'[d] # <<>> /\ InnerCommand(d)' = w[1])
    <3>1. w[1] \in nested \/ outcome[w[1]] = "aborted" \/ (running[d] # <<>> /\ InnerCommand(d) = w[1])
        BY DEF DatabaseInv, WritesInv
    <3>2. CASE d # c
        BY <1>1, <1>4, <3>1, <3>2 DEF InnerCommand
    <3> QED
        BY <1>4, <3>1, <3>2
  <2>2. ASSUME NEW d \in Users, NEW i \in DOMAIN running'[d], running'[d][i] \notin nested',
               NEW w \in writes, w[1] = running'[d][i]
        PROVE  w \notin committed /\ (shutDown \/ w \in pending[d])
    <3>1. i \in DOMAIN running[d] /\ running'[d][i] = running[d][i]
        BY <1>1, <1>3, <1>7, <2>2
    <3> QED
        BY <1>4, <2>2, <3>1 DEF DatabaseInv, WritesInv
  <2> QED
      BY <1>0, <1>4, <2>1, <2>2 DEF DatabaseInv, WritesInv
<1>10. AllThreadsClosed'
    BY <1>0 DEF DatabaseInv, AllThreadsClosed
<1> QED
    BY <1>5, <1>8, <1>9, <1>10 DEF DatabaseInv

\* A command writes on the session of its thread.
LEMMA HandlerWritesKeeps == ASSUME DatabaseInv, NEW c \in Users, HandlerWrites(c) PROVE DatabaseInv'
<1> DEFINE k == InnerCommand(c)
<1>1. PICK n \in Usable, i \in 1 .. 2 :
        /\ writes' = writes \cup {<<k, i>>}
        /\ pending' = [pending EXCEPT ![c] = @ \cup {<<k, i>>}]
        /\ Connected(c, n)
    BY DEF HandlerWrites
<1>2. /\ running[c] # <<>>
      /\ UNCHANGED <<offered, entries, closing, shutDown, running, commands, committed, outcome, nested>>
    BY DEF HandlerWrites
<1> DEFINE w == <<k, i>>
<1>3. /\ w[1] = k /\ k \in 1 .. commands /\ outcome[k] = "running" /\ \E j \in DOMAIN running[c] : running[c][j] = k
    BY <1>2, InnerIs
<1> HIDE DEF w
<1>4. /\ writes' = writes \cup {w}
      /\ pending' \in [Users -> SUBSET writes']
      /\ pending'[c] = pending[c] \cup {w} /\ \A d \in Users : d # c => pending'[d] = pending[d]
    BY <1>1 DEF DatabaseInv, CommandTypeInv, w
<1>5. CommandTypeInv'
    BY <1>2, <1>3, <1>4 DEF DatabaseInv, CommandTypeInv
<1>6. RunningInv'
    BY <1>2 DEF DatabaseInv, RunningInv
<1>7. WritesInv'
  <2>1. ASSUME NEW d \in Users, NEW v \in pending'[d]
        PROVE  v[1] \in nested \/ outcome[v[1]] = "aborted" \/ (running[d] # <<>> /\ InnerCommand(d) = v[1])
      BY <1>2, <1>3, <1>4 DEF DatabaseInv, WritesInv
  <2>2. ASSUME NEW d \in Users, NEW j \in DOMAIN running[d], running[d][j] \notin nested,
               NEW v \in writes', v[1] = running[d][j]
        PROVE  v \notin committed /\ (shutDown \/ v \in pending'[d])
    <3>1. CASE v \in writes
        BY <1>4, <2>2, <3>1 DEF DatabaseInv, WritesInv
    <3>2. CASE v = w /\ v \notin writes
      <4>1. d = c
          BY <1>3, <2>2, <3>2 DEF DatabaseInv, RunningInv
      <4>2. v \notin committed
          BY <3>2 DEF DatabaseInv, CommandTypeInv
      <4> QED
          BY <1>4, <3>2, <4>1, <4>2
    <3> QED
        BY <1>4, <3>1, <3>2
  <2>3. \A v \in writes' : v[1] \notin nested =>
          /\ outcome[v[1]] = "raised" => v \notin committed
          /\ outcome[v[1]] = "returned" /\ ~shutDown => v \in committed
      BY <1>3, <1>4 DEF DatabaseInv, WritesInv
  <2>4. InnerCommand(c)' = InnerCommand(c) /\ \A d \in Users : InnerCommand(d)' = InnerCommand(d)
      BY <1>2 DEF InnerCommand
  <2> QED
      BY <1>2, <2>1, <2>2, <2>3, <2>4 DEF WritesInv
<1>8. AllThreadsClosed'
    BY <1>1, <1>2 DEF DatabaseInv, AllThreadsClosed, Connected
<1> QED
    BY <1>5, <1>6, <1>7, <1>8 DEF DatabaseInv

\* A command ends: its writes are committed, all or none, or lost with the shutdown,
\* or they stay in the session of its thread.
LEMMA EndKeeps ==
    ASSUME DatabaseInv, NEW c \in Users, running[c] # <<>>,
           NEW how \in {"returned", "raised", "aborted"},
           Ends(c, how, IF how = "aborted" THEN pending[c] ELSE {}),
           committed' = IF how = "returned" THEN committed \cup pending[c] ELSE committed
    PROVE  DatabaseInv'
<1> DEFINE k == InnerCommand(c)
           left == IF how = "aborted" THEN pending[c] ELSE {}
<1>. /\ outcome' = [outcome EXCEPT ![k] = how]
     /\ running' = [running EXCEPT ![c] = SubSeq(@, 1, Len(@) - 1)]
     /\ pending' = [pending EXCEPT ![c] = left]
     /\ UNCHANGED <<offered, entries, open, closing, shutDown, late, commands, writes, nested>>
    BY DEF Ends
<1>0. /\ running[c] \in Seq(Nat) /\ Len(running[c]) \in Nat /\ Len(running[c]) > 0
      /\ DOMAIN running[c] = 1 .. Len(running[c]) /\ Len(running[c]) \in DOMAIN running[c]
      /\ k = running[c][Len(running[c])]
      /\ k \in 1 .. commands /\ outcome[k] = "running" /\ k \in 1 .. MaxCommands
      /\ k \notin nested => Len(running[c]) = 1
    BY InnerIs
<1>1. /\ running'[c] = SubSeq(running[c], 1, Len(running[c]) - 1)
      /\ \A d \in Users : d # c => running'[d] = running[d]
    BY DEF DatabaseInv, CommandTypeInv
<1>2. /\ running'[c] \in Seq(Nat) /\ Len(running'[c]) = Len(running[c]) - 1
      /\ DOMAIN running'[c] = 1 .. Len(running[c]) - 1
      /\ \A i \in 1 .. Len(running[c]) - 1 : running'[c][i] = running[c][i]
    BY <1>0, <1>1, FrontOf
<1>3. \A i \in DOMAIN running'[c] :
        i \in DOMAIN running[c] /\ i # Len(running[c]) /\ running'[c][i] = running[c][i] /\ running'[c][i] # k
  <2>1. \A i \in 1 .. Len(running[c]) - 1 : i \in 1 .. Len(running[c]) /\ i # Len(running[c])
      BY <1>0
  <2>2. ASSUME NEW i \in 1 .. Len(running[c]) - 1 PROVE running[c][i] # k
    <3>1. running[c][i] = running[c][Len(running[c])] => i = Len(running[c])
        BY <1>0, <2>1 DEF DatabaseInv, RunningInv
    <3> QED
        BY <1>0, <2>1, <3>1
  <2> QED
      BY <1>0, <1>2, <2>1, <2>2
<1>4. \A d \in Users : \A i \in DOMAIN running'[d] :
        i \in DOMAIN running[d] /\ running'[d][i] = running[d][i] /\ running'[d][i] # k
    BY <1>0, <1>1, <1>3 DEF DatabaseInv, RunningInv
<1>5. /\ running' \in [Users -> Seq(Nat)]
      /\ outcome' \in [1 .. MaxCommands -> {"running", "returned", "raised", "aborted"}]
      /\ outcome'[k] = how /\ \A j \in 1 .. MaxCommands : j # k => outcome'[j] = outcome[j]
      /\ pending' \in [Users -> SUBSET writes]
      /\ pending'[c] = left /\ \A d \in Users : d # c => pending'[d] = pending[d]
  <2>1. running' \in [Users -> Seq(Nat)]
      BY <1>1, <1>2 DEF DatabaseInv, CommandTypeInv
  <2>2. /\ outcome' \in [1 .. MaxCommands -> {"running", "returned", "raised", "aborted"}]
        /\ outcome'[k] = how /\ \A j \in 1 .. MaxCommands : j # k => outcome'[j] = outcome[j]
      BY <1>0 DEF DatabaseInv, CommandTypeInv
  <2>3. /\ pending' \in [Users -> SUBSET writes]
        /\ pending'[c] = left /\ \A d \in Users : d # c => pending'[d] = pending[d]
      BY DEF DatabaseInv, CommandTypeInv
  <2> QED
      BY <2>1, <2>2, <2>3
<1>6. CommandTypeInv'
  <2>1. \A j \in 1 .. MaxCommands : j > commands => outcome'[j] = "running"
    <3>1. \A j \in 1 .. MaxCommands : j > commands => j # k
        BY <1>0, CommandsAssumption DEF DatabaseInv, CommandTypeInv
    <3> QED
        BY <1>5, <3>1 DEF DatabaseInv, CommandTypeInv
  <2> QED
      BY <1>5, <2>1 DEF DatabaseInv, CommandTypeInv
<1>7. \A j \in 1 .. commands : j \in 1 .. MaxCommands
    BY CommandsAssumption DEF DatabaseInv, CommandTypeInv
<1>8. RunningInv'
  <2>1. \A d \in Users : \A i \in DOMAIN running'[d] :
          running'[d][i] \in 1 .. commands /\ outcome'[running'[d][i]] = "running"
      BY <1>4, <1>5, <1>7 DEF DatabaseInv, RunningInv
  <2>2. \A d, e \in Users : \A i \in DOMAIN running'[d], j \in DOMAIN running'[e] :
          running'[d][i] = running'[e][j] => d = e /\ i = j
      BY <1>4 DEF DatabaseInv, RunningInv
  <2>3. ASSUME NEW d \in Users, Len(running'[d]) > 1, NEW i \in DOMAIN running'[d]
        PROVE  running'[d][i] \in nested
    <3>1. Len(running[d]) > 1
        BY <1>0, <1>1, <1>2, <2>3
    <3> QED
        BY <1>4, <3>1 DEF DatabaseInv, RunningInv
  <2> QED
      BY <2>1, <2>2, <2>3 DEF RunningInv
<1>9. WritesInv'
  <2>1. ASSUME NEW d \in Users, NEW w \in pending'[d]
        PROVE  w[1] \in nested \/ outcome'[w[1]] = "aborted" \/ (running'[d] # <<>> /\ InnerCommand(d)' = w[1])
    <3>1. w \in pending[d] /\ w \in writes
        BY <1>5 DEF DatabaseInv, CommandTypeInv
    <3>2. w[1] \in nested \/ outcome[w[1]] = "aborted" \/ (running[d] # <<>> /\ InnerCommand(d) = w[1])
        BY <3>1 DEF DatabaseInv, WritesInv
    <3>3. w[1] \in 1 .. MaxCommands
        BY <1>7, <3>1 DEF DatabaseInv, CommandTypeInv
    <3>4. outcome[w[1]] = "aborted" => outcome'[w[1]] = "aborted"
        BY <1>0, <1>5, <3>3
    <3>5. CASE d = c
      <4>1. how = "aborted"
          BY <1>5, <3>5
      <4> QED
          BY <1>5, <3>2, <3>4, <3>5, <4>1
    <3>6. CASE d # c
        BY <1>1, <3>2, <3>4, <3>6 DEF InnerCommand
    <3> QED
        BY <3>5, <3>6
  <2>2. \A w \in writes : w[1] \notin nested /\ w[1] # k /\ outcome[w[1]] # "aborted" =>
          (w \in committed' <=> w \in committed)
    <3>1. ASSUME NEW w \in pending[c], w[1] \notin nested, outcome[w[1]] # "aborted" PROVE w[1] = k
        BY <3>1 DEF DatabaseInv, WritesInv
    <3> QED
        BY <3>1
  <2>3. ASSUME NEW d \in Users, NEW i \in DOMAIN running'[d], running'[d][i] \notin nested,
               NEW w \in writes, w[1] = running'[d][i]
        PROVE  w \notin committed' /\ (shutDown \/ w \in pending'[d])
    <3>1. i \in DOMAIN running[d] /\ running[d][i] = running'[d][i] /\ w[1] # k
        BY <1>4, <2>3
    <3>4. outcome[w[1]] # "aborted"
        BY <2>3, <3>1 DEF DatabaseInv, RunningInv
    <3>2. w \notin committed /\ (shutDown \/ w \in pending[d])
        BY <2>3, <3>1 DEF DatabaseInv, WritesInv
    <3>3. d # c
      <4>1. ASSUME d = c PROVE FALSE
        <5>1. Len(running[c]) > 1
            BY <1>0, <1>2, <2>3, <4>1
        <5> QED
            BY <2>3, <3>1, <4>1, <5>1 DEF DatabaseInv, RunningInv
      <4> QED
          BY <4>1
    <3> QED
        BY <1>5, <2>2, <2>3, <3>1, <3>2, <3>3, <3>4
  <2>4. ASSUME NEW w \in writes, w[1] \notin nested
        PROVE  /\ outcome'[w[1]] = "raised" => w \notin committed'
               /\ outcome'[w[1]] = "returned" /\ ~shutDown => w \in committed'
    <3>1. w[1] \in 1 .. MaxCommands
        BY <1>7 DEF DatabaseInv, CommandTypeInv
    <3>2. CASE w[1] # k
        BY <1>5, <2>2, <2>4, <3>1, <3>2 DEF DatabaseInv, WritesInv
    <3>3. CASE w[1] = k
      <4>1. w \notin committed /\ (shutDown \/ w \in pending[c])
          BY <1>0, <2>4, <3>3 DEF DatabaseInv, WritesInv
      <4> QED
          BY <1>5, <3>3, <4>1
    <3> QED
        BY <3>2, <3>3
  <2> QED
      BY <2>1, <2>3, <2>4 DEF WritesInv
<1>10. AllThreadsClosed'
    BY DEF DatabaseInv, AllThreadsClosed
<1> QED
    BY <1>6, <1>8, <1>9, <1>10 DEF DatabaseInv

\* dispose_all() loses what is not committed.
LEMMA DisposeKeepsCommands == ASSUME DatabaseInv, NEW c \in Users, DisposeDatabases(c) PROVE DatabaseInv'
<1>1. /\ shutDown' = TRUE /\ open' = {} /\ pending' = [t \in Users |-> {}]
      /\ UNCHANGED <<offered, entries, late, running, commands, writes, committed, outcome, nested>>
    BY DEF DisposeDatabases, ClosedSessions
<1>2. pending' \in [Users -> SUBSET writes] /\ \A t \in Users : pending'[t] = {}
    BY <1>1
<1>3. CommandTypeInv'
    BY <1>1, <1>2 DEF DatabaseInv, CommandTypeInv
<1>4. RunningInv'
    BY <1>1 DEF DatabaseInv, RunningInv
<1>5. WritesInv'
    BY <1>1, <1>2 DEF DatabaseInv, WritesInv
<1>6. AllThreadsClosed'
    BY <1>1 DEF AllThreadsClosed
<1> QED
    BY <1>3, <1>4, <1>5, <1>6 DEF DatabaseInv

\* Removing a database may lose what an aborted command left in the session.
LEMMA RemoveKeeps ==
    ASSUME DatabaseInv, NEW c \in Users, NEW n \in Databases, RemoveDatabase(c, n) PROVE DatabaseInv'
<1>1. /\ running[c] = <<>> /\ open' \subseteq open
      /\ pending' \in {pending, [pending EXCEPT ![c] = {}]}
      /\ UNCHANGED <<shutDown, late, running, commands, writes, committed, outcome, nested>>
    BY DEF RemoveDatabase
<1>2. /\ pending' \in [Users -> SUBSET writes]
      /\ \A d \in Users : pending'[d] \subseteq pending[d] /\ (d # c => pending'[d] = pending[d])
    BY <1>1 DEF DatabaseInv, CommandTypeInv
<1>3. DOMAIN running[c] = {}
    BY <1>1
<1>4. CommandTypeInv'
    BY <1>1, <1>2 DEF DatabaseInv, CommandTypeInv
<1>5. RunningInv'
    BY <1>1 DEF DatabaseInv, RunningInv
<1>6. WritesInv'
  <2>1. ASSUME NEW d \in Users, NEW w \in pending'[d]
        PROVE  w[1] \in nested \/ outcome[w[1]] = "aborted" \/ (running[d] # <<>> /\ InnerCommand(d) = w[1])
      BY <1>2 DEF DatabaseInv, WritesInv
  <2>2. ASSUME NEW d \in Users, NEW i \in DOMAIN running[d] PROVE pending'[d] = pending[d]
      BY <1>2, <1>3
  <2>3. \A d \in Users : InnerCommand(d)' = InnerCommand(d)
      BY <1>1 DEF InnerCommand
  <2> QED
      BY <1>1, <2>1, <2>2, <2>3 DEF DatabaseInv, WritesInv
<1>7. AllThreadsClosed'
    BY <1>1 DEF DatabaseInv, AllThreadsClosed
<1> QED
    BY <1>4, <1>5, <1>6, <1>7 DEF DatabaseInv

\* However commands of several threads, sessions, removals and the shutdown interleave,
\* for any threads and databases, a command that raised an Exception has written nothing,
\* also if what an aborted one left in its session is committed, one that returned before
\* the shutdown everything, and the shutdown closes every thread's sessions.
THEOREM DatabasesCorrect == DatabaseSpec => []DatabaseKept
<1>1. DatabaseInit => DatabaseInv
  <2> SUFFICES ASSUME DatabaseInit PROVE DatabaseInv
      OBVIOUS
  <2>1. /\ commands = 0 /\ writes = {} /\ committed = {} /\ nested = {} /\ shutDown = FALSE
        /\ \A c \in Users : running[c] = <<>> /\ pending[c] = {}
      BY DEF DatabaseInit
  <2>2. CommandTypeInv
    <3>1. commands \in 0 .. MaxCommands
        BY <2>1, CommandsAssumption
    <3>2. <<>> \in Seq(Nat)
        OBVIOUS
    <3>3. running \in [Users -> Seq(Nat)]
        BY <3>2 DEF DatabaseInit
    <3>4. pending \in [Users -> SUBSET writes]
        BY DEF DatabaseInit
    <3>5. /\ outcome \in [1 .. MaxCommands -> {"running", "returned", "raised", "aborted"}]
          /\ \A j \in 1 .. MaxCommands : outcome[j] = "running"
        BY DEF DatabaseInit
    <3> QED
        BY <2>1, <3>1, <3>3, <3>4, <3>5 DEF CommandTypeInv
  <2>3. \A c \in Users : DOMAIN running[c] = {} /\ ~(Len(running[c]) > 1)
    <3>1. DOMAIN <<>> = {} /\ ~(Len(<<>>) > 1)
        OBVIOUS
    <3> QED
        BY <2>1, <3>1
  <2>4. RunningInv
      BY <2>3 DEF RunningInv
  <2>5. WritesInv
      BY <2>1, <2>3 DEF WritesInv
  <2>6. AllThreadsClosed
      BY <2>1 DEF AllThreadsClosed
  <2> QED
      BY <2>2, <2>4, <2>5, <2>6 DEF DatabaseInv
<1>2. ASSUME DatabaseInv, [DatabaseNext]_databaseVars PROVE DatabaseInv'
  <2>1. CASE UNCHANGED databaseVars
    <3>1. UNCHANGED <<shutDown, transaction>> /\ UNCHANGED <<open, late>>
        BY <2>1 DEF databaseVars, transaction
    <3>2. AllThreadsClosed'
        BY <1>2, <3>1 DEF DatabaseInv, AllThreadsClosed
    <3> QED
        BY <1>2, <3>1, <3>2, CommandsKept DEF DatabaseInv
  <2>2. CASE RegisterExtension \/ DisposeEngines \/ \E n \in Databases : AddDatabase(n)
    <3>1. UNCHANGED <<shutDown, transaction>> /\ UNCHANGED <<open, late>>
        BY <2>2 DEF RegisterExtension, DisposeEngines, AddDatabase
    <3>2. AllThreadsClosed'
        BY <1>2, <3>1 DEF DatabaseInv, AllThreadsClosed
    <3> QED
        BY <1>2, <3>1, <3>2, CommandsKept DEF DatabaseInv
  <2>3. ASSUME NEW c \in Users, NEW n \in Databases, RemoveDatabase(c, n) PROVE DatabaseInv'
      BY <1>2, <2>3, RemoveKeeps
  <2>7. ASSUME NEW c \in Users, NEW n \in Databases, UseSession(c, n) PROVE DatabaseInv'
    <3>1. UNCHANGED <<shutDown, transaction>>
        BY <2>7 DEF UseSession
    <3>2. AllThreadsClosed'
        BY <1>2, <2>7 DEF DatabaseInv, AllThreadsClosed, UseSession, Connected
    <3> QED
        BY <1>2, <3>1, <3>2, CommandsKept DEF DatabaseInv
  <2>4. ASSUME NEW c \in Users, Commit(c) PROVE DatabaseInv'
      BY <1>2, <2>4, EndKeeps DEF Commit, Ends
  <2>5. ASSUME NEW c \in Users, Rollback(c) PROVE DatabaseInv'
      BY <1>2, <2>5, EndKeeps DEF Rollback, RolledBack, Ends
  <2>6. ASSUME NEW c \in Users, Abort(c) PROVE DatabaseInv'
      BY <1>2, <2>6, EndKeeps DEF Abort, Ends
  <2> QED
      BY <1>2, <2>1, <2>2, <2>3, <2>4, <2>5, <2>6, <2>7, ProcessKeeps, HandlerWritesKeeps, DisposeKeepsCommands
      DEF DatabaseNext
<1>3. DatabaseInv => DatabaseKept
  <2> SUFFICES ASSUME DatabaseInv PROVE AllOrNothing
      BY DEF DatabaseInv, DatabaseKept
  <2> QED
      BY DEF DatabaseInv, WritesInv, AllOrNothing
<1> QED
    BY <1>1, <1>2, <1>3, PTL DEF DatabaseSpec

\* Shards and databases side by side.
THEOREM PersistenceCorrect == PersistenceSpec => []PersistenceKept
<1>1. ShardIsItsFile /\ DatabaseKept => PersistenceKept
    BY DEF PersistenceKept
<1> QED
    BY <1>1, ShardsCorrect, DatabasesCorrect, PTL DEF PersistenceSpec

----------------------------------------------------------------------------

NumberOrder == {p \in Nat \X Nat : p[1] < p[2]}

\* The order of the natural numbers, as a set of pairs, has no descending sequence.
LEMMA NumbersOrdered == IsWellFoundedOn(NumberOrder, Nat)
    BY NatLessThanWellFounded DEF OpToRel, NumberOrder

\* A set of indices has a greatest.
LEMMA Greatest ==
    ASSUME NEW n \in Nat, NEW S \in SUBSET (1 .. n), S # {}
    PROVE  \E x \in S : \A y \in S : x >= y
<1> DEFINE T == {n - x : x \in S}
<1>1. T \subseteq Nat /\ T # {}
  <2>1. \A x \in S : x \in 1 .. n /\ n - x \in Nat
      OBVIOUS
  <2>2. PICK x \in S : TRUE
      OBVIOUS
  <2>3. n - x \in T
      OBVIOUS
  <2> QED
      BY <2>1, <2>3
<1>2. PICK m \in T : \A y \in T : ~ (<<y, m>> \in NumberOrder)
  <2> HIDE DEF T
  <2> QED
      BY <1>1, NumbersOrdered, WFMin
<1>3. PICK x \in S : m = n - x
    OBVIOUS
<1>4. ASSUME NEW y \in S PROVE x >= y
  <2>1. n - y \in T /\ n - y \in Nat /\ m \in Nat
      BY <1>1
  <2>2. ~ (n - y < m)
      BY <1>2, <2>1 DEF NumberOrder
  <2> QED
      BY <1>3, <2>2
<1> QED
    BY <1>4

OnSettings(f) == f = [k \in Settings |-> f[k]]
Sources == [label : {File, "env", "dict"}, data : Contents]

ConfigTypeInv ==
    /\ OnSettings(file) /\ OnSettings(cache) /\ OnSettings(labels)
    /\ OnSettings(dirty) /\ OnSettings(wanted) /\ OnSettings(saved)
    /\ loaded \in BOOLEAN /\ broken \in BOOLEAN
    /\ sources \in Seq(Sources)

\* A key reported as set has not been overridden since, and what a truncation has
\* not lost is still to be saved; the JSON file's contents are read from disk.
DirtyInv ==
    /\ \A i \in DOMAIN sources : sources[i].label = File => sources[i].data = Nothing
    /\ loaded => \A k \in Settings : labels[k] = Runtime => dirty[k] \in {cache[k], Absent}
    /\ broken => \A k \in Settings : wanted[k] # Absent => wanted[k] = dirty[k]

ConfigInv == ConfigTypeInv /\ DirtyInv /\ ConfigKept

\* What a key that was not set() reads as: the value of the last source that has it.
Supplied(k, value, label) ==
    \/ label = Absent /\ value = Absent /\ \A i \in DOMAIN sources : sources[i].data[k] = Absent
    \/ \E i \in DOMAIN sources :
         /\ label = sources[i].label
         /\ sources[i].label = File \/ value = sources[i].data[k]
         /\ \A j \in i+1..Len(sources) : sources[j].data[k] = Absent

\* _load() gives each key what the last source that has it says.
LEMMA LoadGives ==
    ASSUME ConfigInv, ~loaded, NEW k \in Settings
    PROVE  Supplied(k, Cache[k], Labels[k]) /\ Labels[k] # Runtime
<1>1. /\ sources \in Seq(Sources) /\ Len(sources) \in Nat /\ DOMAIN sources = 1 .. Len(sources)
      /\ Suppliers(k) \in SUBSET (1 .. Len(sources))
    BY DEF ConfigInv, ConfigTypeInv, Suppliers
<1>2. \A i \in DOMAIN sources : sources[i].label \in {File, "env", "dict"}
  <2>1. \A i \in DOMAIN sources : sources[i] \in Sources
      BY <1>1
  <2>2. \A x \in Sources : x.label \in {File, "env", "dict"}
      BY DEF Sources
  <2> QED
      BY <2>1, <2>2
<1>3. \A i \in DOMAIN sources : sources[i].label = File => sources[i].data[k] = Absent
    BY DEF ConfigInv, DirtyInv, Nothing
<1>4. \A i \in DOMAIN sources : i \notin Suppliers(k) => sources[i].data[k] = Absent
    BY <1>3 DEF Suppliers, Read
<1>5. CASE Suppliers(k) = {}
  <2>1. Cache[k] = Absent /\ Labels[k] = Absent
      BY <1>5 DEF Cache, Labels
  <2> QED
      BY <1>4, <1>5, <2>1 DEF Supplied, Absent, Runtime
<1>6. CASE Suppliers(k) # {}
  <2> DEFINE i == Winner(k)
  <2>1. i \in Suppliers(k) /\ \A j \in Suppliers(k) : i >= j
    <3>1. \E x \in Suppliers(k) : \A y \in Suppliers(k) : x >= y
        BY <1>1, <1>6, Greatest
    <3> QED
        BY <3>1 DEF Winner
  <2>2. Cache[k] = Read(sources[i])[k] /\ Labels[k] = sources[i].label
      BY <1>6 DEF Cache, Labels
  <2> HIDE DEF i
  <2>3. i \in DOMAIN sources /\ \A j \in i+1..Len(sources) : j \in DOMAIN sources /\ j \notin Suppliers(k)
      BY <1>1, <2>1
  <2>4. sources[i].label = File \/ Cache[k] = sources[i].data[k]
      BY <2>2 DEF Read
  <2>5. Labels[k] # Runtime
      BY <1>2, <2>2, <2>3 DEF File, Runtime
  <2> QED
      BY <1>4, <2>2, <2>3, <2>4, <2>5 DEF Supplied
<1> QED
    BY <1>5, <1>6

\* get() and sources() agree on what was supplied and what was set.
LEMMA WinnerIs ==
    SourceIsWinner <=> (loaded => \A k \in Settings :
        \/ Supplied(k, cache[k], labels[k])
        \/ labels[k] = Runtime /\ wanted[k] \in {cache[k], Absent})
    BY DEF SourceIsWinner, Supplied

\* What an operation finds when it has loaded.
LEMMA CacheIs ==
    ASSUME ConfigInv
    PROVE  /\ OnSettings(Cache) /\ OnSettings(Labels)
           /\ \A k \in Settings : \/ Supplied(k, Cache[k], Labels[k])
                                  \/ labels[k] = Runtime /\ Labels[k] = Runtime /\ wanted[k] \in {Cache[k], Absent}
           /\ \A k \in Settings : Labels[k] = Runtime => dirty[k] \in {Cache[k], Absent}
<1>1. CASE loaded
  <2>1. Cache = cache /\ Labels = labels
      BY <1>1 DEF Cache, Labels
  <2> QED
      BY <1>1, <2>1, WinnerIs DEF ConfigInv, ConfigTypeInv, DirtyInv, ConfigKept
<1>2. CASE ~loaded
  <2>1. OnSettings(Cache) /\ OnSettings(Labels)
      BY <1>2 DEF Cache, Labels, OnSettings
  <2> QED
      BY <1>2, <2>1, LoadGives
<1> QED
    BY <1>1, <1>2

\* Nothing is set.
LEMMA NothingIs == OnSettings(Nothing) /\ \A k \in Settings : Nothing[k] = Absent
    BY DEF OnSettings, Nothing

\* A source that is added is read by the next load.
LEMMA AddSourceKeeps ==
    ASSUME ConfigInv, NEW label \in {"env", "dict"}, NEW data \in Contents, AddSource(label, data)
    PROVE  ConfigInv'
<1> DEFINE new == [label |-> label, data |-> data]
<1>1. sources \in Seq(Sources) /\ new \in Sources /\ new.label # File
    BY DEF ConfigInv, ConfigTypeInv, Sources, File
<1>2. /\ sources' \in Seq(Sources) /\ DOMAIN sources' = 1 .. Len(sources) + 1
      /\ \A i \in 1 .. Len(sources) : sources'[i] = sources[i]
      /\ sources'[Len(sources) + 1] = new
    BY <1>1, AppendProperties DEF AddSource
<1>3. \A i \in DOMAIN sources' : sources'[i] = new \/ (i \in DOMAIN sources /\ sources'[i] = sources[i])
    BY <1>1, <1>2
<1>4. loaded' = FALSE /\ UNCHANGED <<file, broken, cache, labels, dirty, wanted, saved>>
    BY DEF AddSource
<1>5. ConfigTypeInv'
    BY <1>2, <1>4 DEF ConfigInv, ConfigTypeInv, OnSettings
<1>6. DirtyInv'
    BY <1>1, <1>3, <1>4 DEF ConfigInv, DirtyInv
<1>7. SetIsSaved' /\ SourceIsWinner'
    BY <1>4 DEF ConfigInv, ConfigKept, SetIsSaved, SourceIsWinner
<1> QED
    BY <1>5, <1>6, <1>7 DEF ConfigInv, ConfigKept

\* A load, by get() or by anything that reads.
LEMMA GetKeeps ==
    ASSUME ConfigInv, loaded' = TRUE, cache' = Cache, labels' = Labels,
           UNCHANGED <<file, broken, sources, dirty, wanted, saved>>
    PROVE  ConfigInv'
<1>1. ConfigTypeInv'
    BY CacheIs DEF ConfigInv, ConfigTypeInv, OnSettings
<1>2. DirtyInv'
    BY CacheIs DEF ConfigInv, DirtyInv
<1>3. SetIsSaved'
    BY DEF ConfigInv, ConfigKept, SetIsSaved
<1>4. SourceIsWinner'
    BY CacheIs DEF SourceIsWinner, Supplied
<1> QED
    BY <1>1, <1>2, <1>3, <1>4 DEF ConfigInv, ConfigKept

\* set(), of a value or of a slice of the screens' state.
LEMMA SetKeeps == ASSUME ConfigInv, NEW k \in Settings, NEW v, Set(k, v) PROVE ConfigInv'
<1>1. /\ loaded' = TRUE /\ UNCHANGED <<file, broken, sources, saved>>
      /\ cache' = [Cache EXCEPT ![k] = v] /\ labels' = [Labels EXCEPT ![k] = Runtime]
      /\ dirty' = [dirty EXCEPT ![k] = v] /\ wanted' = [wanted EXCEPT ![k] = v]
    BY DEF Set
<1>2. OnSettings(Cache) /\ OnSettings(Labels) /\ OnSettings(dirty) /\ OnSettings(wanted)
    BY CacheIs DEF ConfigInv, ConfigTypeInv
<1>3. /\ OnSettings(cache') /\ OnSettings(labels') /\ OnSettings(dirty') /\ OnSettings(wanted')
      /\ cache'[k] = v /\ labels'[k] = Runtime /\ dirty'[k] = v /\ wanted'[k] = v
      /\ \A x \in Settings : x # k =>
           cache'[x] = Cache[x] /\ labels'[x] = Labels[x] /\ dirty'[x] = dirty[x] /\ wanted'[x] = wanted[x]
  <2>1. OnSettings(cache') /\ cache'[k] = v /\ \A x \in Settings : x # k => cache'[x] = Cache[x]
      BY <1>1, <1>2 DEF OnSettings
  <2>2. OnSettings(labels') /\ labels'[k] = Runtime /\ \A x \in Settings : x # k => labels'[x] = Labels[x]
      BY <1>1, <1>2 DEF OnSettings
  <2>3. OnSettings(dirty') /\ dirty'[k] = v /\ \A x \in Settings : x # k => dirty'[x] = dirty[x]
      BY <1>1, <1>2 DEF OnSettings
  <2>4. OnSettings(wanted') /\ wanted'[k] = v /\ \A x \in Settings : x # k => wanted'[x] = wanted[x]
      BY <1>1, <1>2 DEF OnSettings
  <2> QED
      BY <2>1, <2>2, <2>3, <2>4
<1>4. ConfigTypeInv'
    BY <1>1, <1>3 DEF ConfigInv, ConfigTypeInv, OnSettings
<1>5. DirtyInv'
    BY <1>1, <1>3, CacheIs DEF ConfigInv, DirtyInv
<1>6. SetIsSaved'
    BY <1>1, <1>3 DEF ConfigInv, ConfigKept, SetIsSaved
<1>7. ASSUME NEW x \in Settings
      PROVE  \/ Supplied(x, cache'[x], labels'[x])
             \/ labels'[x] = Runtime /\ wanted'[x] \in {cache'[x], Absent}
  <2>1. CASE x = k
      BY <1>3, <2>1
  <2>2. CASE x # k
    <3>1. cache'[x] = Cache[x] /\ labels'[x] = Labels[x] /\ wanted'[x] = wanted[x]
        BY <1>3, <2>2
    <3> QED
        BY <3>1, CacheIs
  <2> QED
      BY <2>1, <2>2
<1>8. SourceIsWinner'
    BY <1>1, <1>7 DEF SourceIsWinner, Supplied
<1> QED
    BY <1>4, <1>5, <1>6, <1>8 DEF ConfigInv, ConfigKept

\* save() writes what was set over what is on disk.
LEMMA SaveKeeps == ASSUME ConfigInv, Save PROVE ConfigInv'
<1>1. /\ file' = Written /\ broken' = FALSE /\ dirty' = Nothing
      /\ saved' = [k \in Settings |-> IF dirty[k] # Absent THEN dirty[k] ELSE IF broken THEN Absent ELSE saved[k]]
      /\ UNCHANGED <<sources, cache, labels, loaded, wanted>>
    BY DEF Save
<1>2. \A k \in Settings : Written[k] = IF dirty[k] # Absent THEN dirty[k] ELSE IF broken THEN Absent ELSE file[k]
    BY DEF Written, FileContents, Nothing
<1>3. ~broken => file = saved
    BY DEF ConfigInv, ConfigKept, SetIsSaved
<1>4. file' = saved'
  <2>1. Written = [k \in Settings |-> Written[k]]
      BY DEF Written
  <2>2. \A k \in Settings : Written[k] = IF dirty[k] # Absent THEN dirty[k] ELSE IF broken THEN Absent ELSE saved[k]
      BY <1>2, <1>3
  <2> QED
      BY <1>1, <2>1, <2>2
<1>5. OnSettings(saved') /\ OnSettings(file')
    BY <1>1, <1>4 DEF OnSettings
<1>6. ConfigTypeInv'
    BY <1>1, <1>5, NothingIs DEF ConfigInv, ConfigTypeInv, OnSettings
<1>7. DirtyInv'
    BY <1>1, NothingIs DEF ConfigInv, DirtyInv
<1>8. ASSUME NEW k \in Settings, wanted[k] # Absent PROVE dirty'[k] = Absent /\ saved'[k] = wanted[k]
  <2>1. dirty[k] = wanted[k] \/ (dirty[k] = Absent /\ saved[k] = wanted[k])
      BY <1>8 DEF ConfigInv, ConfigKept, SetIsSaved
  <2>2. broken => dirty[k] = wanted[k]
      BY <1>8 DEF ConfigInv, DirtyInv
  <2> QED
      BY <1>1, <1>8, <2>1, <2>2, NothingIs
<1>9. SetIsSaved'
    BY <1>1, <1>4, <1>8 DEF SetIsSaved
<1>10. SourceIsWinner'
    BY <1>1 DEF ConfigInv, ConfigKept, SourceIsWinner
<1> QED
    BY <1>6, <1>7, <1>9, <1>10 DEF ConfigInv, ConfigKept

\* A save that fails has truncated the file; what was set stays to be saved.
LEMMA SaveFailsKeeps == ASSUME ConfigInv, SaveFails PROVE ConfigInv'
<1>1. /\ broken' = TRUE /\ wanted' = dirty
      /\ UNCHANGED <<file, sources, cache, labels, loaded, dirty, saved>>
    BY DEF SaveFails
<1>2. ConfigTypeInv'
    BY <1>1 DEF ConfigInv, ConfigTypeInv, OnSettings
<1>3. DirtyInv'
    BY <1>1 DEF ConfigInv, DirtyInv
<1>4. SetIsSaved'
    BY <1>1 DEF SetIsSaved
<1>5. SourceIsWinner'
    BY <1>1 DEF ConfigInv, ConfigKept, DirtyInv, SourceIsWinner
<1> QED
    BY <1>2, <1>3, <1>4, <1>5 DEF ConfigInv, ConfigKept

\* A save that could not read the file has written what was set, and nothing else.
LEMMA SaveUnreadKeeps == ASSUME ConfigInv, SaveUnread PROVE ConfigInv'
<1>1. /\ file' = dirty /\ saved' = dirty /\ wanted' = dirty /\ broken' = FALSE /\ dirty' = Nothing
      /\ UNCHANGED <<sources, cache, labels, loaded>>
    BY DEF SaveUnread
<1>2. ConfigTypeInv'
    BY <1>1, NothingIs DEF ConfigInv, ConfigTypeInv, OnSettings
<1>3. DirtyInv'
    BY <1>1, NothingIs DEF ConfigInv, DirtyInv
<1>4. SetIsSaved'
    BY <1>1, NothingIs DEF SetIsSaved
<1>5. SourceIsWinner'
    BY <1>1 DEF ConfigInv, ConfigKept, DirtyInv, SourceIsWinner
<1> QED
    BY <1>2, <1>3, <1>4, <1>5 DEF ConfigInv, ConfigKept

\* A new process knows the file only, which a save may have left truncated.
LEMMA RestartKeeps ==
    ASSUME ConfigInv, Starts, broken' \in BOOLEAN, broken => broken', UNCHANGED <<file, saved>>
    PROVE  ConfigInv'
<1> DEFINE json == [label |-> File, data |-> Nothing]
<1>1. /\ sources' = <<json>> /\ loaded' = FALSE
      /\ cache' = Nothing /\ labels' = Nothing /\ dirty' = Nothing /\ wanted' = Nothing
    BY DEF Starts
<1>2. json \in Sources
    BY DEF Sources, Contents, Nothing
<1> HIDE DEF json
<1>3. sources' \in Seq(Sources) /\ DOMAIN sources' = {1} /\ sources'[1] = json
    BY <1>1, <1>2
<1>4. json.data = Nothing
    BY DEF json
<1>5. ConfigTypeInv'
    BY <1>1, <1>3, NothingIs DEF ConfigInv, ConfigTypeInv, OnSettings
<1>6. DirtyInv'
    BY <1>1, <1>3, <1>4, NothingIs DEF DirtyInv
<1>7. SetIsSaved' /\ SourceIsWinner'
    BY <1>1, NothingIs DEF ConfigInv, ConfigKept, SetIsSaved, SourceIsWinner
<1> QED
    BY <1>5, <1>6, <1>7 DEF ConfigInv, ConfigKept

\* The first process knows the file only.
LEMMA ConfigStarts == ConfigInit => ConfigInv
<1> SUFFICES ASSUME ConfigInit PROVE ConfigInv
    OBVIOUS
<1> DEFINE json == [label |-> File, data |-> Nothing]
<1>1. /\ sources = <<json>> /\ loaded = FALSE /\ broken = FALSE /\ saved = file
      /\ cache = Nothing /\ labels = Nothing /\ dirty = Nothing /\ wanted = Nothing
      /\ OnSettings(file)
    BY DEF ConfigInit, OnSettings
<1>2. json \in Sources
    BY DEF Sources, Contents, Nothing
<1>3. json.data = Nothing
    OBVIOUS
<1> HIDE DEF json
<1>4. sources \in Seq(Sources) /\ DOMAIN sources = {1} /\ sources[1] = json
    BY <1>1, <1>2
<1>5. ConfigTypeInv
    BY <1>1, <1>4, NothingIs DEF ConfigTypeInv
<1>6. DirtyInv
    BY <1>1, <1>3, <1>4, NothingIs DEF DirtyInv
<1>7. SetIsSaved /\ SourceIsWinner
    BY <1>1, NothingIs DEF SetIsSaved, SourceIsWinner
<1> QED
    BY <1>5, <1>6, <1>7 DEF ConfigInv, ConfigKept

\* Steps of other components keep it.
LEMMA ConfigSame == ConfigInv /\ UNCHANGED configVars => ConfigInv'
<1> SUFFICES ASSUME ConfigInv, UNCHANGED configVars PROVE ConfigInv'
    OBVIOUS
<1>1. UNCHANGED <<file, broken, sources, cache, labels, loaded, dirty, wanted, saved>>
    BY DEF configVars
<1>2. ConfigTypeInv' /\ DirtyInv'
    BY <1>1 DEF ConfigInv, ConfigTypeInv, DirtyInv, OnSettings
<1>3. SetIsSaved' /\ SourceIsWinner'
    BY <1>1 DEF ConfigInv, ConfigKept, SetIsSaved, SourceIsWinner
<1> QED
    BY <1>2, <1>3 DEF ConfigInv, ConfigKept

\* Every operation of the manager keeps it.
LEMMA ConfigKeeps == ConfigInv /\ [ConfigNext]_configVars => ConfigInv'
<1> SUFFICES ASSUME ConfigInv, ConfigNext PROVE ConfigInv'
    BY ConfigSame
<1>1. CASE Get
    BY <1>1, GetKeeps DEF Get
<1>2. CASE Restart
    BY <1>2, RestartKeeps DEF Restart, ConfigInv, ConfigTypeInv
<1> QED
    BY <1>1, <1>2, AddSourceKeeps, SetKeeps, SaveKeeps, SaveUnreadKeeps, SaveFailsKeeps DEF ConfigNext

\* For any keys, values and number of sources: values keep their source and survive
\* the process, whichever saves fail and wherever it crashes.
THEOREM ConfigCorrect == ConfigSpec => []ConfigKept
<1>1. ConfigInv => ConfigKept
    BY DEF ConfigInv
<1> QED
    BY <1>1, ConfigStarts, ConfigKeeps, PTL DEF ConfigSpec
\* What the screens remember.
ScreenTypeInv ==
    /\ OnSettings(screen) /\ OnSettings(expected)
    /\ changed \subseteq Settings /\ writing \subseteq Settings /\ forgotten \subseteq Settings
    /\ refused \subseteq Settings /\ givenUp \subseteq Settings
    /\ saving \in BOOLEAN /\ leaving \in BOOLEAN /\ failed \in BOOLEAN

\* A slice that is pending or being written is what its screen shows and the next
\* run should find; a run that is leaving has nothing pending.
PendingInv ==
    /\ \A s \in changed \cup writing : screen[s] # Absent /\ screen[s] = expected[s]
    /\ leaving => changed = {}

Unkept == changed \cup writing \cup refused \cup givenUp

\* What save() would write is what the next run should find, but for what is
\* pending or was given up; between two saves nothing is waiting to be saved.
RememberedInv == ~failed =>
    /\ \A s \in Settings : s \in Unkept \/ Written[s] = expected[s]
    /\ ~saving => dirty = Nothing

\* A discarded slice reads as empty and no write of it is pending.
ForgottenInv == \A s \in forgotten : loaded /\ cache[s] = Empty /\ s \notin changed \cup writing

ScreenInv == ScreenTypeInv /\ PendingInv /\ RememberedInv /\ ForgottenInv

SettingsInv == ConfigInv /\ (coordinated => ScreenInv)

\* What save() would write, key by key.
LEMMA WrittenIs ==
    ASSUME NEW s \in Settings
    PROVE  /\ Written[s] = IF dirty[s] # Absent THEN dirty[s] ELSE IF broken THEN Absent ELSE file[s]
           /\ FileContents[s] = IF broken THEN Absent ELSE file[s]
    BY DEF Written, FileContents, Nothing

\* What set() leaves to be saved, and to be read.
LEMMA SetWrites ==
    ASSUME ConfigInv, NEW k \in Settings, NEW v, v # Absent, Set(k, v)
    PROVE  /\ loaded' = TRUE /\ cache'[k] = v /\ Written'[k] = v
           /\ \A x \in Settings : x # k => cache'[x] = Cache[x] /\ Written'[x] = Written[x]
<1>1. /\ loaded' = TRUE /\ cache' = [Cache EXCEPT ![k] = v] /\ dirty' = [dirty EXCEPT ![k] = v]
      /\ UNCHANGED <<file, broken>>
    BY DEF Set
<1>2. OnSettings(Cache) /\ OnSettings(dirty)
    BY CacheIs DEF ConfigInv, ConfigTypeInv
<1>3. cache'[k] = v /\ \A x \in Settings : x # k => cache'[x] = Cache[x]
    BY <1>1, <1>2 DEF OnSettings
<1>4. dirty'[k] = v /\ \A x \in Settings : x # k => dirty'[x] = dirty[x]
    BY <1>1, <1>2 DEF OnSettings
<1>5. \A x \in Settings : Written'[x] = IF dirty'[x] # Absent THEN dirty'[x] ELSE IF broken THEN Absent ELSE file[x]
    BY <1>1 DEF Written, FileContents, Nothing
<1>6. \A x \in Settings : Written[x] = IF dirty[x] # Absent THEN dirty[x] ELSE IF broken THEN Absent ELSE file[x]
    BY WrittenIs
<1> QED
    BY <1>1, <1>3, <1>4, <1>5, <1>6

\* The values that a screen shows are no absent ones.
LEMMA NoneAbsent == Default # Absent /\ Empty # Absent /\ \A v \in Values : v # Absent
    BY ValuesAssumption DEF Default, Empty, Absent

\* A screen is built with what was stored for it.
LEMMA OpenKeeps ==
    ASSUME ConfigInv, ScreenInv, NEW s \in Settings, Open(s)
    PROVE  ConfigInv' /\ ScreenInv'
<1>1. /\ loaded' = TRUE /\ cache' = Cache /\ labels' = Labels
      /\ UNCHANGED <<file, broken, sources, dirty, wanted, saved>>
      /\ UNCHANGED <<changed, timer, writing, saving, leaving, expected, failed, refused, givenUp, forgotten>>
      /\ screen[s] = Absent
      /\ screen' = [screen EXCEPT ![s] = IF Cache[s] \in {Absent, Empty} THEN Default ELSE Cache[s]]
    BY DEF Open
<1>2. ConfigInv'
    BY <1>1, GetKeeps
<1>3. OnSettings(screen') /\ \A x \in Settings : x # s => screen'[x] = screen[x]
    BY <1>1 DEF ScreenInv, ScreenTypeInv, OnSettings
<1>4. ScreenTypeInv'
    BY <1>1, <1>3 DEF ScreenInv, ScreenTypeInv, OnSettings
<1>5. PendingInv'
  <2>1. \A x \in changed \cup writing : x # s /\ x \in Settings
      BY <1>1 DEF ScreenInv, PendingInv, ScreenTypeInv
  <2> QED
      BY <1>1, <1>3, <2>1 DEF ScreenInv, PendingInv
<1>6. RememberedInv'
    BY <1>1 DEF ScreenInv, RememberedInv, Unkept, Written, FileContents
<1>7. ForgottenInv'
    BY <1>1 DEF ScreenInv, ForgottenInv, Cache
<1> QED
    BY <1>2, <1>4, <1>5, <1>6, <1>7 DEF ScreenInv

\* What the user changes is pending until the timer fires.
LEMMA ChangesKeep ==
    ASSUME ConfigInv, ScreenInv, NEW s \in Settings, NEW v \in Values, ScreenChanges(s, v)
    PROVE  ConfigInv' /\ ScreenInv'
<1>1. /\ UNCHANGED configVars /\ UNCHANGED <<writing, saving, leaving, failed>>
      /\ screen' = [screen EXCEPT ![s] = v] /\ expected' = [expected EXCEPT ![s] = v]
      /\ changed' = changed \cup {s} /\ forgotten' = forgotten \ {s}
      /\ refused' = refused \ {s} /\ givenUp' = givenUp \ {s}
      /\ ~leaving
    BY DEF ScreenChanges, Idle
<1>2. UNCHANGED <<file, broken, sources, cache, labels, loaded, dirty, wanted, saved>>
    BY <1>1 DEF configVars
<1>3. ConfigInv'
    BY <1>1, ConfigSame
<1>4. OnSettings(screen') /\ screen'[s] = v /\ \A x \in Settings : x # s => screen'[x] = screen[x]
    BY <1>1 DEF ScreenInv, ScreenTypeInv, OnSettings
<1>5. OnSettings(expected') /\ expected'[s] = v /\ \A x \in Settings : x # s => expected'[x] = expected[x]
    BY <1>1 DEF ScreenInv, ScreenTypeInv, OnSettings
<1>6. ScreenTypeInv'
    BY <1>1, <1>4, <1>5 DEF ScreenInv, ScreenTypeInv, OnSettings
<1>7. PendingInv'
  <2>1. changed \subseteq Settings /\ writing \subseteq Settings
      BY DEF ScreenInv, ScreenTypeInv
  <2> QED
      BY <1>1, <1>4, <1>5, <2>1, NoneAbsent DEF ScreenInv, PendingInv
<1>8. RememberedInv'
    BY <1>1, <1>2, <1>5 DEF ScreenInv, RememberedInv, Unkept, Written, FileContents
<1>9. ForgottenInv'
    BY <1>1, <1>2 DEF ScreenInv, ForgottenInv
<1> QED
    BY <1>3, <1>6, <1>7, <1>8, <1>9 DEF ScreenInv

\* The timer, or leaving, hands what is pending to the writer.
LEMMA FlushKeeps ==
    ASSUME ConfigInv, ScreenInv, TimerFires \/ Leave
    PROVE  ConfigInv' /\ ScreenInv'
<1>1. /\ UNCHANGED configVars /\ UNCHANGED <<screen, saving, expected, failed, refused, givenUp, forgotten>>
      /\ writing = {} /\ writing' = changed /\ changed' = {} /\ leaving' \in {leaving, TRUE}
    BY DEF TimerFires, Leave, Idle
<1>2. UNCHANGED <<file, broken, sources, cache, labels, loaded, dirty, wanted, saved>>
    BY <1>1 DEF configVars
<1>3. ConfigInv'
    BY <1>1, ConfigSame
<1>4. ScreenTypeInv'
    BY <1>1 DEF ScreenInv, ScreenTypeInv, OnSettings
<1>5. PendingInv'
    BY <1>1 DEF ScreenInv, PendingInv
<1>6. RememberedInv'
    BY <1>1, <1>2 DEF ScreenInv, RememberedInv, Unkept, Written, FileContents
<1>7. ForgottenInv'
    BY <1>1, <1>2 DEF ScreenInv, ForgottenInv
<1> QED
    BY <1>3, <1>4, <1>5, <1>6, <1>7 DEF ScreenInv

\* A slice is set, and what set() leaves to be saved is what its screen shows.
LEMMA WriteKeeps ==
    ASSUME ConfigInv, ScreenInv, NEW s \in Settings, Write(s)
    PROVE  ConfigInv' /\ ScreenInv'
<1>1. /\ s \in writing /\ writing' = writing \ {s} /\ Set(s, screen[s]) /\ saving' = TRUE
      /\ UNCHANGED <<screen, changed, timer, leaving, expected, failed, refused, givenUp, forgotten>>
    BY DEF Write
<1>2. screen[s] # Absent /\ screen[s] = expected[s]
    BY <1>1 DEF ScreenInv, PendingInv
<1>3. ConfigInv'
    BY <1>1, SetKeeps
<1>4. /\ loaded' = TRUE /\ Written'[s] = screen[s]
      /\ \A x \in Settings : x # s => cache'[x] = Cache[x] /\ Written'[x] = Written[x]
    BY <1>1, <1>2, SetWrites
<1>5. ScreenTypeInv'
    BY <1>1 DEF ScreenInv, ScreenTypeInv, OnSettings
<1>6. PendingInv'
    BY <1>1 DEF ScreenInv, PendingInv
<1>7. RememberedInv'
    BY <1>1, <1>2, <1>4 DEF ScreenInv, RememberedInv, Unkept
<1>8. ForgottenInv'
  <2>1. \A x \in forgotten : x # s /\ x \in Settings /\ loaded
      BY <1>1 DEF ScreenInv, ForgottenInv, ScreenTypeInv
  <2>2. \A x \in forgotten : cache'[x] = cache[x]
      BY <1>4, <2>1 DEF Cache
  <2> QED
      BY <1>1, <1>4, <2>2 DEF ScreenInv, ForgottenInv
<1> QED
    BY <1>3, <1>5, <1>6, <1>7, <1>8 DEF ScreenInv

\* A capture that raises gives the rest of the flush up.
LEMMA RaiseKeeps ==
    ASSUME ConfigInv, ScreenInv, NEW s \in Settings, CaptureRaises(s)
    PROVE  ConfigInv' /\ ScreenInv'
<1>1. /\ s \in writing /\ writing' = {} /\ refused' = refused \cup {s} /\ givenUp' = givenUp \cup (writing \ {s})
      /\ UNCHANGED configVars
      /\ UNCHANGED <<screen, changed, timer, saving, leaving, expected, failed, forgotten>>
    BY DEF CaptureRaises
<1>2. UNCHANGED <<file, broken, sources, cache, labels, loaded, dirty, wanted, saved>>
    BY <1>1 DEF configVars
<1>3. ConfigInv'
    BY <1>1, ConfigSame
<1>4. ScreenTypeInv'
    BY <1>1 DEF ScreenInv, ScreenTypeInv, OnSettings
<1>5. PendingInv'
    BY <1>1 DEF ScreenInv, PendingInv
<1>6. RememberedInv'
    BY <1>1, <1>2 DEF ScreenInv, RememberedInv, Unkept, Written, FileContents
<1>7. ForgottenInv'
    BY <1>1, <1>2 DEF ScreenInv, ForgottenInv
<1> QED
    BY <1>3, <1>4, <1>5, <1>6, <1>7 DEF ScreenInv

\* discard() empties the slice and cancels its pending write; discard_keys() empties
\* it too, but for the next run only when no write is pending.
LEMMA DiscardKeeps ==
    ASSUME ConfigInv, ScreenInv, NEW s \in Settings, Discard(s) \/ DiscardKeys(s)
    PROVE  ConfigInv' /\ ScreenInv'
<1>1. /\ Set(s, Empty) /\ saving' = TRUE /\ writing = {}
      /\ refused' = refused \ {s} /\ givenUp' = givenUp \ {s}
      /\ UNCHANGED <<screen, timer, writing, leaving, failed>>
    BY DEF Discard, DiscardKeys, Idle
<1>2. \/ changed' = changed \ {s} /\ forgotten' = forgotten \cup {s} /\ expected' = [expected EXCEPT ![s] = Empty]
      \/ /\ UNCHANGED <<changed, forgotten>>
         /\ expected' = IF s \in changed THEN expected ELSE [expected EXCEPT ![s] = Empty]
    BY DEF Discard, DiscardKeys, StillPending
<1>3. ConfigInv'
    BY <1>1, SetKeeps
<1>4. /\ loaded' = TRUE /\ cache'[s] = Empty /\ Written'[s] = Empty
      /\ \A x \in Settings : x # s => cache'[x] = Cache[x] /\ Written'[x] = Written[x]
    BY <1>1, SetWrites, NoneAbsent
<1>5. /\ OnSettings(expected')
      /\ \A x \in Settings : x # s => expected'[x] = expected[x]
      /\ expected'[s] = Empty \/ (s \in changed /\ s \in changed' /\ expected'[s] = expected[s])
    BY <1>2 DEF ScreenInv, ScreenTypeInv, OnSettings
<1>6. changed' \subseteq changed /\ changed \subseteq changed' \cup {s} /\ forgotten' \subseteq forgotten \cup {s}
    BY <1>2
<1>7. changed \subseteq Settings
    BY DEF ScreenInv, ScreenTypeInv
<1>8. ScreenTypeInv'
    BY <1>1, <1>5, <1>6 DEF ScreenInv, ScreenTypeInv, OnSettings
<1>9. PendingInv'
  <2>1. ASSUME NEW x \in changed' PROVE screen'[x] # Absent /\ screen'[x] = expected'[x]
    <3>1. x \in changed /\ x \in Settings /\ screen[x] # Absent /\ screen[x] = expected[x]
        BY <1>6, <1>7 DEF ScreenInv, PendingInv
    <3>2. expected'[x] = expected[x]
        BY <1>2, <1>5, <3>1
    <3> QED
        BY <1>1, <3>1, <3>2
  <2>2. leaving' => changed' = {}
      BY <1>1, <1>6 DEF ScreenInv, PendingInv
  <2> QED
      BY <1>1, <2>1, <2>2 DEF PendingInv
<1>10. RememberedInv'
  <2>1. ASSUME ~failed, NEW x \in Settings, x \notin Unkept' PROVE Written'[x] = expected'[x]
    <3>1. CASE x = s
        BY <1>4, <1>5, <2>1, <3>1 DEF Unkept
    <3>2. CASE x # s
      <4>1. x \notin Unkept
          BY <1>1, <1>6, <2>1, <3>2 DEF Unkept
      <4>2. Written[x] = expected[x]
          BY <2>1, <4>1 DEF ScreenInv, RememberedInv
      <4> QED
          BY <1>4, <1>5, <3>2, <4>2
    <3> QED
        BY <3>1, <3>2
  <2> QED
      BY <1>1, <2>1 DEF RememberedInv
<1>11. ForgottenInv'
  <2>1. ASSUME NEW x \in forgotten' PROVE cache'[x] = Empty /\ x \notin changed' \cup writing'
    <3>1. CASE x = s
      <4>1. s \notin changed'
          BY <1>2, <2>1, <3>1 DEF ScreenInv, ForgottenInv
      <4> QED
          BY <1>1, <1>4, <3>1, <4>1
    <3>2. CASE x # s
      <4>1. x \in forgotten /\ x \in Settings /\ loaded /\ cache[x] = Empty /\ x \notin changed \cup writing
          BY <1>6, <2>1, <3>2 DEF ScreenInv, ForgottenInv, ScreenTypeInv
      <4>2. cache'[x] = cache[x]
          BY <1>4, <3>2, <4>1 DEF Cache
      <4> QED
          BY <1>1, <1>6, <4>1, <4>2
    <3> QED
        BY <3>1, <3>2
  <2> QED
      BY <1>4, <2>1 DEF ForgottenInv
<1> QED
    BY <1>3, <1>8, <1>9, <1>10, <1>11 DEF ScreenInv

\* A save writes what is to be written, or fails and the run is known to have failed.
LEMMA SliceKeeps ==
    ASSUME ConfigInv, ScreenInv, SaveSlice
    PROVE  ConfigInv' /\ ScreenInv'
<1>1. /\ saving' = FALSE
      /\ UNCHANGED <<screen, changed, timer, leaving, expected, refused, givenUp, forgotten>>
      /\ writing' \in {writing, {}}
      /\ \/ Save /\ UNCHANGED <<failed, writing>>
         \/ SaveUnread /\ failed' = TRUE
         \/ SaveFails /\ failed' = TRUE
         \/ failed' = TRUE /\ UNCHANGED configVars
    BY DEF SaveSlice
<1>2. ConfigInv'
    BY <1>1, SaveKeeps, SaveUnreadKeeps, SaveFailsKeeps, ConfigSame
<1>3. UNCHANGED <<cache, loaded>>
    BY <1>1 DEF Save, SaveUnread, SaveFails, configVars
<1>4. ScreenTypeInv'
    BY <1>1 DEF ScreenInv, ScreenTypeInv, OnSettings
<1>5. PendingInv'
    BY <1>1 DEF ScreenInv, PendingInv
<1>6. RememberedInv'
  <2>1. CASE Save /\ UNCHANGED <<failed, writing>>
    <3>1. file' = Written /\ broken' = FALSE /\ dirty' = Nothing
        BY <2>1 DEF Save
    <3>2. \A x \in Settings : Written'[x] = Written[x]
        BY <3>1, NothingIs DEF Written, FileContents
    <3> QED
        BY <1>1, <2>1, <3>1, <3>2 DEF ScreenInv, RememberedInv, Unkept
  <2>2. CASE failed'
      BY <2>2 DEF RememberedInv
  <2> QED
      BY <1>1, <2>1, <2>2
<1>7. ForgottenInv'
    BY <1>1, <1>3 DEF ScreenInv, ForgottenInv
<1> QED
    BY <1>2, <1>4, <1>5, <1>6, <1>7 DEF ScreenInv

\* The next run starts from what the last one left.
LEMMA NextRun ==
    ASSUME ConfigInv, ScreenInv, Exit \/ Crash
    PROVE  ConfigInv' /\ ScreenInv'
<1>1. Restarted /\ Starts /\ UNCHANGED <<file, saved>>
    BY DEF Exit, Crash, Restart
<1>2. broken' \in BOOLEAN /\ (broken => broken')
    BY DEF Exit, Crash, Restart, ConfigInv, ConfigTypeInv
<1>3. ConfigInv'
    BY <1>1, <1>2, RestartKeeps
<1>4. \A x \in Settings : expected'[x] = IF broken' THEN Absent ELSE file'[x]
  <2>1. CASE Crash
      BY <2>1 DEF Crash, Restart, Nothing
  <2>2. CASE Exit /\ failed
      BY <2>2 DEF Exit, FileContents, Nothing
  <2>3. CASE Exit /\ ~failed
    <3>1. /\ leaving /\ writing = {} /\ ~saving /\ UNCHANGED <<file, broken>>
          /\ \A x \in Settings : expected'[x] = IF x \in refused \cup givenUp THEN FileContents[x] ELSE expected[x]
        BY <2>3 DEF Exit
    <3>2. /\ changed = {} /\ dirty = Nothing
          /\ \A x \in Settings \ (refused \cup givenUp) : Written[x] = expected[x]
        BY <2>3, <3>1 DEF ScreenInv, PendingInv, RememberedInv, Unkept
    <3> QED
        BY <3>1, <3>2, NothingIs, WrittenIs
  <2> QED
      BY <2>1, <2>2, <2>3
<1>5. OnSettings(expected')
  <2>1. CASE Crash
      BY <2>1 DEF Crash, Restart, Nothing, OnSettings, ConfigInv, ConfigTypeInv
  <2>2. CASE Exit
      BY <2>2 DEF Exit, FileContents, Nothing, OnSettings, ConfigInv, ConfigTypeInv, ScreenInv, ScreenTypeInv
  <2> QED
      BY <2>1, <2>2
<1>6. /\ screen' = Nothing /\ changed' = {} /\ writing' = {} /\ saving' = FALSE
      /\ leaving' = FALSE /\ failed' = FALSE /\ refused' = {} /\ givenUp' = {} /\ forgotten' = {}
    BY <1>1 DEF Restarted
<1>7. dirty' = Nothing
    BY <1>1 DEF Starts
<1>8. \A x \in Settings : Written'[x] = IF broken' THEN Absent ELSE file'[x]
    BY <1>7, NothingIs DEF Written, FileContents, Nothing
<1>9. ScreenTypeInv'
    BY <1>5, <1>6, NothingIs DEF ScreenTypeInv, OnSettings
<1>10. PendingInv' /\ ForgottenInv'
    BY <1>6 DEF PendingInv, ForgottenInv
<1>11. RememberedInv'
    BY <1>4, <1>7, <1>8 DEF RememberedInv
<1> QED
    BY <1>3, <1>9, <1>10, <1>11 DEF ScreenInv

\* A coordinator starts with what the file holds.
LEMMA ScreensStart == UiInit => ScreenInv
<1> SUFFICES ASSUME UiInit PROVE ScreenInv
    OBVIOUS
<1>1. /\ screen = Nothing /\ changed = {} /\ writing = {} /\ saving = FALSE /\ leaving = FALSE
      /\ expected = file /\ failed = FALSE /\ refused = {} /\ givenUp = {} /\ forgotten = {} /\ dirty = Nothing /\ broken = FALSE
      /\ OnSettings(file)
    BY DEF UiInit, ConfigInit, OnSettings
<1>2. ScreenTypeInv
    BY <1>1, NothingIs DEF ScreenTypeInv
<1>3. PendingInv /\ ForgottenInv
    BY <1>1 DEF PendingInv, ForgottenInv
<1>4. RememberedInv
    BY <1>1, WrittenIs, NothingIs DEF RememberedInv
<1> QED
    BY <1>2, <1>3, <1>4 DEF ScreenInv

\* Steps of other components keep it.
LEMMA ScreensSame == ScreenInv /\ UNCHANGED <<configVars, uiVars>> => ScreenInv'
<1> SUFFICES ASSUME ScreenInv, UNCHANGED <<configVars, uiVars>> PROVE ScreenInv'
    OBVIOUS
<1>1. /\ UNCHANGED <<screen, changed, timer, writing, saving, leaving, expected, failed, refused, givenUp, forgotten>>
      /\ UNCHANGED <<file, broken, cache, loaded, dirty>>
    BY DEF uiVars, configVars
<1>2. ScreenTypeInv' /\ PendingInv'
    BY <1>1 DEF ScreenInv, ScreenTypeInv, PendingInv, OnSettings
<1>3. Written' = Written
    BY <1>1 DEF Written, FileContents
<1>4. RememberedInv'
    BY <1>1, <1>3 DEF ScreenInv, RememberedInv, Unkept
<1>5. ForgottenInv'
    BY <1>1 DEF ScreenInv, ForgottenInv
<1> QED
    BY <1>2, <1>4, <1>5 DEF ScreenInv

\* Every step of a coordinator keeps its invariant and the manager's.
LEMMA ScreensKeep == ConfigInv /\ ScreenInv /\ UiNext => ConfigInv' /\ ScreenInv'
    BY OpenKeeps, ChangesKeep, FlushKeeps, WriteKeeps, RaiseKeeps, DiscardKeeps, SliceKeeps, NextRun DEF UiNext

\* For any keys, values and number of sources: every setting is read from the source
\* that get() names, what is set survives the process, and so does what the screens
\* show, but for the slices of a flush that a capture_state() ended and the runs in which
\* a save failed, whichever do and wherever the process crashes.
THEOREM SettingsCorrect == SettingsSpec => []SettingsKept
<1>1. SettingsInit => SettingsInv
    BY ConfigStarts, ScreensStart DEF SettingsInit, UiInit, SettingsInv
<1>2. SettingsInv /\ [SettingsNext]_<<configVars, uiVars, coordinated>> => SettingsInv'
  <2> SUFFICES ASSUME SettingsInv, [SettingsNext]_<<configVars, uiVars, coordinated>> PROVE SettingsInv'
      OBVIOUS
  <2>1. CASE SettingsNext /\ coordinated
      BY <2>1, ScreensKeep DEF SettingsNext, SettingsInv
  <2>2. CASE SettingsNext /\ ~coordinated
      BY <2>2, ConfigKeeps DEF SettingsNext, SettingsInv
  <2>3. CASE UNCHANGED <<configVars, uiVars, coordinated>>
      BY <2>3, ConfigSame, ScreensSame DEF SettingsInv
  <2> QED
      BY <2>1, <2>2, <2>3
<1>3. SettingsInv => SettingsKept
  <2> SUFFICES ASSUME SettingsInv PROVE SettingsKept
      OBVIOUS
  <2>1. ConfigKept
      BY DEF SettingsInv, ConfigInv
  <2>2. ASSUME ScreenInv PROVE UiStateKept
    <3>1. ASSUME NEW s \in Settings, ~ Unwritten(s) PROVE FileContents[s] = expected[s]
      <4>1. Written[s] = expected[s] /\ dirty = Nothing
          BY <2>2, <3>1 DEF ScreenInv, RememberedInv, Unkept, Unwritten
      <4> QED
          BY <4>1, NothingIs, WrittenIs
    <3>2. DiscardedStaysGone
        BY <2>2 DEF DiscardedStaysGone, ScreenInv, ForgottenInv, Cache
    <3> QED
        BY <3>1, <3>2 DEF UiStateKept, ScreensRemembered
  <2> QED
      BY <2>1, <2>2 DEF SettingsInv, SettingsKept
<1> QED
    BY <1>1, <1>2, <1>3, PTL DEF SettingsSpec
=============================================================================
