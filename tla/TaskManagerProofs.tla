------------------------- MODULE TaskManagerProofs -------------------------
(* Theorems about TaskManager for any number of tasks and callers.         *)
EXTENDS TaskManager, FiniteSetTheorems, TLAPS

USE DEF mgrVars, taskVars, execVars, threadVars, callerVars

-----------------------------------------------------------------------------
(* Retention.                                                              *)

\* What _cleanup_old_tasks leaves is the end of the list it found.
LEMMA CleanupKeepsSuffix ==
  ASSUME finished \in Seq(Task), MaxRetained \in Nat, CleanupOldTasks
  PROVE  /\ finished' \in Seq(Task)
         /\ Len(finished') = Len(finished) - Excess
         /\ Excess \in 0..Len(finished)
         /\ \A i \in 1..Len(finished') : finished'[i] = finished[i + Excess]
<1>1. Excess \in 0..Len(finished)
  BY DEF Excess
<1>2. finished' = SubSeq(finished, Excess + 1, Len(finished))
  BY DEF CleanupOldTasks
<1> QED
  BY <1>1, <1>2

-----------------------------------------------------------------------------
(* Every variable holds a value of its kind.                               *)
THEOREM TypeCorrect == Spec => []TypeOK
<1>1. Init => TypeOK
  <2> SUFFICES ASSUME Init PROVE TypeOK
    OBVIOUS
  <2>1. finished \in Seq(Task) /\ tasks \subseteq Task
    BY DEF Init
  <2>2. /\ todo \in [Caller -> SUBSET Task]
        /\ cur \in [Caller -> Task \cup {NoTask}]
    BY DEF Init
  <2> QED
    BY <2>1, <2>2 DEF Init, TypeOK, Status
<1>2. TypeOK /\ [Next]_vars => TypeOK'
  <2> SUFFICES ASSUME TypeOK, [Next]_vars PROVE TypeOK'
    OBVIOUS
  <2> USE DEF TypeOK
  <2>1. ASSUME NEW t \in Task, SpawnRegister(t) PROVE TypeOK'
    BY <2>1 DEF SpawnRegister, GotoSpawn
  <2>2. ASSUME NEW t \in Task, SpawnMarkRunning(t) PROVE TypeOK'
    BY <2>2 DEF SpawnMarkRunning, GotoSpawn, Status
  <2>3. ASSUME NEW t \in Task, SpawnCount(t) PROVE TypeOK'
    <3>1. submitted' \in [Executor -> Nat]
      <4> DEFINE p == PoolOf(t)
      <4>1. CASE p \in Executor
        BY <2>3, <4>1 DEF SpawnCount
      <4>2. CASE p \notin Executor
        BY <2>3, <4>2 DEF SpawnCount
      <4> QED
        BY <4>1, <4>2
    <3> QED
      BY <2>3, <3>1 DEF SpawnCount, GotoSpawn
  <2>4. ASSUME NEW t \in Task, SpawnSubmit(t) PROVE TypeOK'
    BY <2>4 DEF SpawnSubmit, GotoSpawn
  <2>5. ASSUME NEW t \in Task, SpawnRejected(t) PROVE TypeOK'
    BY <2>5 DEF SpawnRejected, GotoSpawn, Status
  <2>6. ASSUME NEW t \in Task, SpawnAddCallback(t) PROVE TypeOK'
    BY <2>6 DEF SpawnAddCallback, GotoSpawn
  <2>7. ASSUME NEW t \in Task, SpawnPublish(t) PROVE TypeOK'
    BY <2>7 DEF SpawnPublish, GotoSpawn
  <2>8. ASSUME NEW t \in Task, SpawnRecordFailure(t) PROVE TypeOK'
    BY <2>8 DEF SpawnRecordFailure, RecordFinished, GotoSpawn
  <2>9. ASSUME NEW t \in Task, SpawnCleanFailure(t) PROVE TypeOK'
    <3>1. finished' \in Seq(Task)
      BY <2>9, CleanupKeepsSuffix, ConstantsAssumption DEF SpawnCleanFailure
    <3> QED
      BY <2>9, <3>1 DEF SpawnCleanFailure, CleanupOldTasks, GotoSpawn
  <2>10. ASSUME NEW t \in Task, WorkerStart(t) PROVE TypeOK'
    BY <2>10 DEF WorkerStart, GotoWorker
  <2>31. ASSUME NEW t \in Task, WorkerTakes(t) \/ WorkerDrops(t) \/ CoroutineStart(t)
         PROVE  TypeOK'
    <3>1. \E w \in {"taken", "dropped", "body"} : worker' = [worker EXCEPT ![t] = w]
      BY <2>31 DEF WorkerTakes, WorkerDrops, CoroutineStart, GotoWorker
    <3>2. UNCHANGED <<counted, pc, mgrVars, taskVars, execVars, callerVars>>
      BY <2>31 DEF WorkerTakes, WorkerDrops, CoroutineStart
    <3> QED
      BY <3>1, <3>2
  <2>32. ASSUME NEW t \in Task, SpawnCallRaises(t) PROVE TypeOK'
    BY <2>32 DEF SpawnCallRaises, GotoSpawn
  <2>33. ASSUME NEW t \in Task, SpawnUnreadable(t) PROVE TypeOK'
    BY <2>33 DEF SpawnUnreadable, GotoSpawn, Status
  <2>11. ASSUME NEW t \in Task, BodyEnds(t) PROVE TypeOK'
    <3>1. status' \in [Task -> Status]
      BY <2>11 DEF BodyEnds, Status
    <3>2. /\ worker' = [worker EXCEPT ![t] = "record"]
          /\ UNCHANGED <<counted, pc, published, mgrVars, execVars, callerVars>>
      BY <2>11 DEF BodyEnds, GotoWorker
    <3> QED
      BY <3>1, <3>2
  <2>12. ASSUME NEW t \in Task, CoroutineCancelled(t) PROVE TypeOK'
    BY <2>12 DEF CoroutineCancelled, GotoWorker
  <2>13. ASSUME NEW t \in Task, CoroutineDropped(t) PROVE TypeOK'
    BY <2>13 DEF CoroutineDropped
  <2>14. ASSUME NEW t \in Task, WorkerRecord(t) PROVE TypeOK'
    BY <2>14 DEF WorkerRecord, RecordFinished, GotoWorker
  <2>15. ASSUME NEW t \in Task, WorkerClean(t) PROVE TypeOK'
    <3>1. finished' \in Seq(Task)
      BY <2>15, CleanupKeepsSuffix, ConstantsAssumption DEF WorkerClean
    <3> QED
      BY <2>15, <3>1 DEF WorkerClean, CleanupOldTasks, GotoWorker
  <2>16. ASSUME NEW t \in Task, DoneCallback(t) PROVE TypeOK'
    <3>1. completed' \in [Executor -> Nat]
      <4> DEFINE p == PoolOf(t)
      <4>1. CASE p \in Executor
        BY <2>16, <4>1 DEF DoneCallback
      <4>2. CASE p \notin Executor
        BY <2>16, <4>2 DEF DoneCallback
      <4> QED
        BY <4>1, <4>2
    <3> QED
      BY <2>16, <3>1 DEF DoneCallback
  <2>17. ASSUME NEW c \in Caller, NEW t \in Task, BeginCancel(c, t) PROVE TypeOK'
    BY <2>17 DEF BeginCancel, GotoCaller
  <2>18. ASSUME NEW c \in Caller, NEW o \in Operations, BeginCancelAll(c, o)
         PROVE TypeOK'
    BY <2>18 DEF BeginCancelAll, GotoCaller
  <2>19. ASSUME NEW c \in Caller, SnapshotRunning(c) PROVE TypeOK'
    BY <2>19 DEF SnapshotRunning, GotoCaller
  <2>20. ASSUME NEW c \in Caller, CancelToken(c) PROVE TypeOK'
    <3>1. PICK t \in todo[c] :
            \/ /\ cpc' = [cpc EXCEPT ![c] = "future"]
               /\ cur' = [cur EXCEPT ![c] = t]
               /\ UNCHANGED todo
            \/ /\ todo' = [todo EXCEPT ![c] = todo[c] \ {t}]
               /\ UNCHANGED <<cpc, cur>>
      BY <2>20 DEF CancelToken, GotoCaller
    <3>2. t \in Task
      BY <3>1
    <3>3. todo' \in [Caller -> SUBSET Task]
      <4>1. todo[c] \ {t} \in SUBSET Task
        OBVIOUS
      <4>2. todo' = todo \/ todo' = [todo EXCEPT ![c] = todo[c] \ {t}]
        BY <3>1
      <4> QED
        BY <4>1, <4>2
    <3>4. cur' \in [Caller -> Task \cup {NoTask}]
      BY <3>1, <3>2
    <3> QED
      BY <2>20, <3>1, <3>3, <3>4 DEF CancelToken
  <2>21. ASSUME NEW c \in Caller, CancelFuture(c) PROVE TypeOK'
    BY <2>21 DEF CancelFuture, GotoCaller
  <2>22. ASSUME NEW c \in Caller, CancelMark(c) PROVE TypeOK'
    <3>1. todo' \in [Caller -> SUBSET Task]
      BY <2>22 DEF CancelMark
    <3>3. cur' \in [Caller -> Task \cup {NoTask}]
      BY <2>22 DEF CancelMark
    <3>2. status' \in [Task -> Status]
      BY <2>22 DEF CancelMark, Status
    <3> QED
      <4>1. cpc' = [cpc EXCEPT ![c] = "cancelling"]
        BY <2>22 DEF CancelMark, GotoCaller
      <4>2. UNCHANGED <<counted, op, published, mgrVars, execVars, threadVars>>
        BY <2>22 DEF CancelMark
      <4> QED
        BY <3>1, <3>2, <3>3, <4>1, <4>2
  <2>23. ASSUME NEW c \in Caller, CancelReturns(c) PROVE TypeOK'
    BY <2>23 DEF CancelReturns, GotoCaller
  <2>24. ASSUME NEW c \in Caller, CollectCritical(c) PROVE TypeOK'
    BY <2>24 DEF CollectCritical, GotoCaller
  <2>25. ASSUME NEW c \in Caller, CriticalEnded(c) \/ WaitTimesOut(c) PROVE TypeOK'
    <3>1. /\ cpc' = [cpc EXCEPT ![c] = "close_critical"]
          /\ todo' = [todo EXCEPT ![c] = {}]
      BY <2>25 DEF CriticalEnded, WaitTimesOut, GotoCaller
    <3>2. UNCHANGED <<counted, op, cur, mgrVars, taskVars, execVars, threadVars>>
      BY <2>25 DEF CriticalEnded, WaitTimesOut
    <3>3. todo' \in [Caller -> SUBSET Task]
      BY <3>1
    <3> QED
      BY <3>1, <3>2, <3>3
  <2>26. ASSUME NEW c \in Caller, CloseCritical(c) PROVE TypeOK'
    BY <2>26 DEF CloseCritical, CloseExecutor, GotoCaller
  <2>27. ASSUME NEW c \in Caller, CloseBackground(c) PROVE TypeOK'
    BY <2>27 DEF CloseBackground, CloseExecutor, GotoCaller
  <2>28. ASSUME NEW c \in Caller, ShutdownReturns(c) PROVE TypeOK'
    BY <2>28 DEF ShutdownReturns, GotoCaller
  <2>29. CASE StopLoop
    BY <2>29 DEF StopLoop
  <2>30. CASE UNCHANGED vars
    BY <2>30 DEF vars
  <2> QED
    BY <2>1, <2>2, <2>3, <2>4, <2>5, <2>6, <2>7, <2>8, <2>9, <2>10, <2>11, <2>12,
       <2>13, <2>14, <2>15, <2>16, <2>17, <2>18, <2>19, <2>20, <2>21, <2>22, <2>23,
       <2>24, <2>25, <2>26, <2>27, <2>28, <2>29, <2>30, <2>31, <2>32, <2>33
       DEF Next, SpawnProgress, WorkerProgress, CallerProgress, Terminated
<1> QED
  BY <1>1, <1>2, PTL DEF Spec

-----------------------------------------------------------------------------
(* Retention: what is recorded, what is tracked.                           *)

\* Dropping the oldest ids keeps every id that stays distinct and tracked.
LEMMA CleanupTracks ==
  ASSUME TypeOK, TrackingInv, MaxRetained \in Nat, CleanupOldTasks
  PROVE  /\ \A i \in 1..Len(finished') : \E k \in 1..Len(finished) :
              finished'[i] = finished[k] /\ finished'[i] \in tasks'
         /\ \A i, j \in 1..Len(finished') : finished'[i] = finished'[j] => i = j
         /\ \A t \in tasks : (\A k \in 1..Len(finished) : finished[k] # t) => t \in tasks'
<1>1. /\ Len(finished') = Len(finished) - Excess
      /\ Excess \in 0..Len(finished)
      /\ \A i \in 1..Len(finished') : finished'[i] = finished[i + Excess]
  BY CleanupKeepsSuffix DEF TypeOK
<1>2. Len(finished) \in Nat /\ Excess \in Nat /\ Len(finished') \in Nat
  BY <1>1 DEF TypeOK
<1>3. \A i \in 1..Len(finished') : i + Excess \in 1..Len(finished)
  BY <1>1, <1>2
<1>4. \A i, j \in 1..Len(finished') : finished'[i] = finished'[j] => i = j
  <2> SUFFICES ASSUME NEW i \in 1..Len(finished'), NEW j \in 1..Len(finished'),
                      finished'[i] = finished'[j]
               PROVE  i = j
    OBVIOUS
  <2>1. finished[i + Excess] = finished[j + Excess]
    BY <1>1
  <2>2. i + Excess = j + Excess
    BY <1>3, <2>1 DEF TrackingInv
  <2> QED
    BY <1>2, <2>2
<1>5. ASSUME NEW i \in 1..Len(finished')
      PROVE  finished'[i] \in tasks'
  <2>1. finished[i + Excess] \in tasks
    BY <1>3 DEF TrackingInv
  <2>2. ASSUME NEW k \in 1..Excess PROVE finished[k] # finished[i + Excess]
    <3>1. k \in 1..Len(finished) /\ k # i + Excess
      BY <1>1, <1>2
    <3> QED
      BY <3>1, <1>3 DEF TrackingInv
  <2> QED
    BY <1>1, <2>1, <2>2 DEF CleanupOldTasks
<1>6. ASSUME NEW t \in tasks, \A k \in 1..Len(finished) : finished[k] # t
      PROVE  t \in tasks'
  <2>1. \A k \in 1..Excess : finished[k] # t
    BY <1>1, <1>2, <1>6
  <2> QED
    BY <2>1 DEF CleanupOldTasks
<1> QED
  BY <1>1, <1>3, <1>4, <1>5, <1>6

\* TrackingInv of the next state, from its parts.
LEMMA TrackingAssemble ==
  ASSUME \A s \in Task : /\ fut'[s] = "none" => worker'[s] = "none"
                         /\ fut'[s] # "none" => pc'[s] \in {"add_callback", "publish", "returned"},
         \A s \in Task : pc'[s] # "idle" /\ ~Recorded(s)' => s \in tasks',
         \A i \in 1..Len(finished') : Recorded(finished[i])' /\ finished'[i] \in tasks',
         \A i, j \in 1..Len(finished') : finished'[i] = finished'[j] => i = j
  PROVE  TrackingInv'
BY DEF TrackingInv, Recorded

\* Appending the id of a task that is tracked and not recorded yet.
LEMMA RecordTracks ==
  ASSUME TypeOK, TrackingInv, NEW t \in tasks, ~Recorded(t), RecordFinished(t)
  PROVE  /\ \A i \in 1..Len(finished') :
              \/ finished'[i] = t
              \/ \E k \in 1..Len(finished) : finished'[i] = finished[k]
         /\ \A i \in 1..Len(finished') : finished'[i] \in tasks'
         /\ \A i, j \in 1..Len(finished') : finished'[i] = finished'[j] => i = j
         /\ tasks' = tasks
<1>1. finished \in Seq(Task) /\ t \in Task
  BY DEF TypeOK
<1>2. finished' = Append(finished, t) /\ tasks' = tasks
  BY DEF RecordFinished
<1>3. /\ Len(finished') = Len(finished) + 1 /\ Len(finished) \in Nat
      /\ finished'[Len(finished) + 1] = t
      /\ \A i \in 1..Len(finished) : finished'[i] = finished[i]
  BY <1>1, <1>2
<1>4. \A i \in 1..Len(finished) : finished[i] # t /\ finished[i] \in tasks
  BY DEF TrackingInv
<1>5. \A i \in 1..Len(finished') : i \in 1..Len(finished) \/ i = Len(finished) + 1
  BY <1>3
<1>6. \A i, j \in 1..Len(finished') : finished'[i] = finished'[j] => i = j
  BY <1>3, <1>4, <1>5 DEF TrackingInv
<1> QED
  BY <1>2, <1>3, <1>4, <1>5, <1>6

\* Steps that leave retention alone, and neither start nor end anything.
LEMMA TrackingFrame ==
  ASSUME TypeOK, TrackingInv, UNCHANGED <<tasks, finished, pc, worker>>,
         \A t \in Task : fut'[t] = "none" <=> fut[t] = "none"
  PROVE  TrackingInv'
BY DEF TrackingInv, Recorded

\* A step of a task that records nothing and evicts nothing.
LEMMA TrackingStep ==
  ASSUME TypeOK, TrackingInv, UNCHANGED finished, tasks \subseteq tasks',
         NEW t \in Task,
         \A s \in Task \ {t} :
           pc'[s] = pc[s] /\ worker'[s] = worker[s] /\ fut'[s] = fut[s],
         fut'[t] = "none" => worker'[t] = "none",
         fut'[t] # "none" => pc'[t] \in {"add_callback", "publish", "returned"},
         pc'[t] # "idle" /\ ~Recorded(t)' => t \in tasks',
         Recorded(t) <=> Recorded(t)'
  PROVE  TrackingInv'
<1>1. \A s \in Task : Recorded(s) <=> Recorded(s)'
  BY DEF Recorded
<1>2. \A s \in Task : /\ fut'[s] = "none" => worker'[s] = "none"
                      /\ fut'[s] # "none" => pc'[s] \in {"add_callback", "publish", "returned"}
                      /\ pc'[s] # "idle" /\ ~Recorded(s)' => s \in tasks'
  BY <1>1 DEF TrackingInv
<1>3. \A i \in 1..Len(finished) : Recorded(finished[i])' /\ finished[i] \in tasks'
  <2> TAKE i \in 1..Len(finished)
  <2>1. Recorded(finished[i]) /\ finished[i] \in tasks
    BY DEF TrackingInv
  <2>2. finished[i] \in Task
    BY <2>1 DEF TypeOK
  <2> QED
    BY <1>1, <2>1, <2>2
<1>4. \A i, j \in 1..Len(finished) : finished[i] = finished[j] => i = j
  BY DEF TrackingInv
<1>5. finished' = finished
  OBVIOUS
<1> QED
  BY <1>2, <1>3, <1>4, <1>5 DEF TrackingInv, Recorded

\* Every step keeps TrackingInv.
LEMMA TrackingInductive ==
  ASSUME TypeOK, TrackingInv, [Next]_vars
  PROVE  TrackingInv'
<1> USE ConstantsAssumption
<1>1. ASSUME NEW t \in Task,
             \/ SpawnRegister(t) \/ SpawnMarkRunning(t) \/ SpawnCount(t)
             \/ SpawnCallRaises(t) \/ SpawnUnreadable(t)
             \/ SpawnSubmit(t) \/ SpawnRejected(t)
             \/ SpawnAddCallback(t) \/ SpawnPublish(t)
      PROVE  TrackingInv'
  <2>1. UNCHANGED <<finished, worker>> /\ tasks \subseteq tasks'
    BY <1>1 DEF SpawnRegister, SpawnMarkRunning, SpawnCallRaises, SpawnUnreadable,
                SpawnCount, SpawnSubmit, SpawnRejected,
                SpawnAddCallback, SpawnPublish
  <2>2. \A s \in Task \ {t} : pc'[s] = pc[s] /\ fut'[s] = fut[s]
    BY <1>1 DEF SpawnRegister, SpawnMarkRunning, SpawnCallRaises, SpawnUnreadable,
                SpawnCount, SpawnSubmit, SpawnRejected,
                SpawnAddCallback, SpawnPublish, GotoSpawn, TypeOK
  <2>3. /\ pc'[t] # "idle" /\ ~Recorded(t)' => t \in tasks'
        /\ Recorded(t) <=> Recorded(t)'
    <3>1. pc[t] \notin {"clean_failure", "raised"} /\ pc'[t] \notin {"clean_failure", "raised"}
      BY <1>1 DEF SpawnRegister, SpawnMarkRunning, SpawnCallRaises, SpawnUnreadable,
                  SpawnCount, SpawnSubmit, SpawnRejected,
                  SpawnAddCallback, SpawnPublish, GotoSpawn, TypeOK
    <3>2. Recorded(t) <=> Recorded(t)'
      BY <2>1, <3>1 DEF Recorded
    <3>3. pc[t] # "idle" \/ t \in tasks'
      BY <1>1 DEF SpawnRegister, SpawnMarkRunning, SpawnCallRaises, SpawnUnreadable,
                  SpawnCount, SpawnSubmit, SpawnRejected,
                  SpawnAddCallback, SpawnPublish, GotoSpawn
    <3> QED
      BY <2>1, <3>2, <3>3 DEF TrackingInv
  <2>4. /\ fut'[t] = "none" => worker'[t] = "none"
        /\ fut'[t] # "none" => pc'[t] \in {"add_callback", "publish", "returned"}
    BY <1>1 DEF SpawnRegister, SpawnMarkRunning, SpawnCallRaises, SpawnUnreadable,
                SpawnCount, SpawnSubmit, SpawnRejected,
                SpawnAddCallback, SpawnPublish, GotoSpawn, TrackingInv, TypeOK
  <2> QED
    BY <2>1, <2>2, <2>3, <2>4, TrackingStep
<1>2. ASSUME NEW t \in Task,
             \/ WorkerTakes(t) \/ WorkerStart(t) \/ WorkerDrops(t) \/ CoroutineStart(t)
             \/ BodyEnds(t) \/ CoroutineCancelled(t)
      PROVE  TrackingInv'
  <2>1. UNCHANGED <<finished, tasks, pc>>
    BY <1>2 DEF WorkerTakes, WorkerStart, WorkerDrops, CoroutineStart, BodyEnds,
                CoroutineCancelled
  <2>2. \A s \in Task \ {t} : worker'[s] = worker[s] /\ fut'[s] = fut[s]
    BY <1>2 DEF WorkerTakes, WorkerStart, WorkerDrops, CoroutineStart, BodyEnds,
                CoroutineCancelled, GotoWorker, TypeOK
  <2>3. /\ worker[t] \in {"none", "taken", "body"}
        /\ worker'[t] \in {"taken", "dropped", "body", "record"}
        /\ fut[t] # "none" /\ fut'[t] # "none"
    BY <1>2 DEF WorkerTakes, WorkerStart, WorkerDrops, CoroutineStart, BodyEnds,
                CoroutineCancelled, GotoWorker, Queued, TypeOK, TrackingInv
  <2>4. Recorded(t) <=> Recorded(t)'
    BY <2>1, <2>3 DEF Recorded
  <2> QED
    BY <2>1, <2>2, <2>3, <2>4, TrackingStep DEF TrackingInv
<1>3. ASSUME NEW t \in Task, WorkerRecord(t) PROVE TrackingInv'
  <2>1. /\ worker[t] = "record" /\ worker' = [worker EXCEPT ![t] = "clean"]
        /\ UNCHANGED <<pc, fut>> /\ RecordFinished(t)
    BY <1>3 DEF WorkerRecord, GotoWorker
  <2>2. fut[t] # "none" /\ ~Recorded(t) /\ t \in tasks
    BY <2>1 DEF TrackingInv, Recorded
  <2>3. Recorded(t)' /\ \A s \in Task : Recorded(s) => Recorded(s)'
    BY <2>1 DEF Recorded, TypeOK
  <2>4. /\ tasks' = tasks
        /\ \A i \in 1..Len(finished') : finished'[i] \in tasks'
        /\ \A i, j \in 1..Len(finished') : finished'[i] = finished'[j] => i = j
        /\ \A i \in 1..Len(finished') :
             finished'[i] = t \/ \E k \in 1..Len(finished) : finished'[i] = finished[k]
    BY <2>1, <2>2, RecordTracks
  <2>5. \A i \in 1..Len(finished') : Recorded(finished[i])'
    <3> TAKE i \in 1..Len(finished')
    <3>1. finished'[i] = t \/ \E k \in 1..Len(finished) : finished'[i] = finished[k]
      BY <2>4
    <3>2. \A k \in 1..Len(finished) : finished[k] \in Task /\ Recorded(finished[k])
      BY DEF TrackingInv, TypeOK
    <3> QED
      BY <2>3, <3>1, <3>2 DEF Recorded
  <2>6. \A s \in Task : /\ fut'[s] = "none" => worker'[s] = "none"
                        /\ fut'[s] # "none" => pc'[s] \in {"add_callback", "publish", "returned"}
                        /\ pc'[s] # "idle" /\ ~Recorded(s)' => s \in tasks'
    BY <2>1, <2>2, <2>3, <2>4 DEF TrackingInv, TypeOK
  <2> QED
    BY <2>4, <2>5, <2>6, TrackingAssemble
<1>4. ASSUME NEW t \in Task, SpawnRecordFailure(t) PROVE TrackingInv'
  <2>1. /\ pc[t] = "record_failure" /\ pc' = [pc EXCEPT ![t] = "clean_failure"]
        /\ UNCHANGED <<worker, fut>> /\ RecordFinished(t)
    BY <1>4 DEF SpawnRecordFailure, GotoSpawn
  <2>2. worker[t] = "none" /\ fut[t] = "none" /\ ~Recorded(t) /\ t \in tasks
    BY <2>1 DEF TrackingInv, Recorded, TypeOK
  <2>3. Recorded(t)' /\ \A s \in Task : Recorded(s) => Recorded(s)'
    BY <2>1 DEF Recorded, TypeOK
  <2>4. /\ tasks' = tasks
        /\ \A i \in 1..Len(finished') : finished'[i] \in tasks'
        /\ \A i, j \in 1..Len(finished') : finished'[i] = finished'[j] => i = j
        /\ \A i \in 1..Len(finished') :
             finished'[i] = t \/ \E k \in 1..Len(finished) : finished'[i] = finished[k]
    BY <2>1, <2>2, RecordTracks
  <2>5. \A i \in 1..Len(finished') : Recorded(finished[i])'
    <3> TAKE i \in 1..Len(finished')
    <3>1. finished'[i] = t \/ \E k \in 1..Len(finished) : finished'[i] = finished[k]
      BY <2>4
    <3>2. \A k \in 1..Len(finished) : finished[k] \in Task /\ Recorded(finished[k])
      BY DEF TrackingInv, TypeOK
    <3> QED
      BY <2>3, <3>1, <3>2 DEF Recorded
  <2>6. \A s \in Task : /\ fut'[s] = "none" => worker'[s] = "none"
                        /\ fut'[s] # "none" => pc'[s] \in {"add_callback", "publish", "returned"}
                        /\ pc'[s] # "idle" /\ ~Recorded(s)' => s \in tasks'
    BY <2>1, <2>2, <2>3, <2>4 DEF TrackingInv, TypeOK
  <2> QED
    BY <2>4, <2>5, <2>6, TrackingAssemble
<1>5. ASSUME NEW t \in Task, WorkerClean(t) PROVE TrackingInv'
  <2>1. /\ worker[t] = "clean" /\ worker' = [worker EXCEPT ![t] = "done"]
        /\ UNCHANGED pc /\ CleanupOldTasks
        /\ fut' = [fut EXCEPT ![t] = IF @ = "CANCELLED" THEN @ ELSE "FINISHED"]
    BY <1>5 DEF WorkerClean, GotoWorker
  <2>2. \A s \in Task : Recorded(s) <=> Recorded(s)'
    BY <2>1 DEF Recorded, TypeOK
  <2>3. \A s \in Task : fut'[s] = "none" <=> fut[s] = "none"
    BY <2>1 DEF TrackingInv, TypeOK
  <2>4. \A s \in Task : worker'[s] = "none" <=> worker[s] = "none"
    BY <2>1 DEF TypeOK
  <2>5. /\ \A i \in 1..Len(finished') : \E k \in 1..Len(finished) :
              finished'[i] = finished[k] /\ finished'[i] \in tasks'
        /\ \A i, j \in 1..Len(finished') : finished'[i] = finished'[j] => i = j
        /\ \A s \in tasks : (\A k \in 1..Len(finished) : finished[k] # s) => s \in tasks'
    BY <2>1, CleanupTracks
  <2>6. \A k \in 1..Len(finished) : finished[k] \in Task /\ Recorded(finished[k])
    BY DEF TrackingInv, TypeOK
  <2>7. \A i \in 1..Len(finished') : Recorded(finished[i])' /\ finished'[i] \in tasks'
    BY <2>2, <2>5, <2>6 DEF Recorded
  <2>8. \A s \in Task : pc'[s] # "idle" /\ ~Recorded(s)' => s \in tasks'
    <3> SUFFICES ASSUME NEW s \in Task, pc'[s] # "idle", ~Recorded(s)'
                 PROVE  s \in tasks'
      OBVIOUS
    <3>1. pc[s] # "idle" /\ ~Recorded(s)
      BY <2>1, <2>2 DEF TypeOK
    <3>2. s \in tasks /\ \A k \in 1..Len(finished) : finished[k] # s
      BY <2>6, <3>1 DEF TrackingInv
    <3> QED
      BY <2>5, <3>2
  <2>9. \A s \in Task : /\ fut'[s] = "none" => worker'[s] = "none"
                        /\ fut'[s] # "none" => pc'[s] \in {"add_callback", "publish", "returned"}
    BY <2>1, <2>3, <2>4 DEF TrackingInv, TypeOK
  <2> QED
    BY <2>5, <2>7, <2>8, <2>9, TrackingAssemble
<1>6. ASSUME NEW t \in Task, SpawnCleanFailure(t) PROVE TrackingInv'
  <2>1. /\ pc[t] = "clean_failure" /\ pc' = [pc EXCEPT ![t] = "raised"]
        /\ UNCHANGED <<worker, fut>> /\ CleanupOldTasks
    BY <1>6 DEF SpawnCleanFailure, GotoSpawn
  <2>2. \A s \in Task : Recorded(s) <=> Recorded(s)'
    BY <2>1 DEF Recorded, TypeOK
  <2>5. /\ \A i \in 1..Len(finished') : \E k \in 1..Len(finished) :
              finished'[i] = finished[k] /\ finished'[i] \in tasks'
        /\ \A i, j \in 1..Len(finished') : finished'[i] = finished'[j] => i = j
        /\ \A s \in tasks : (\A k \in 1..Len(finished) : finished[k] # s) => s \in tasks'
    BY <2>1, CleanupTracks
  <2>6. \A k \in 1..Len(finished) : finished[k] \in Task /\ Recorded(finished[k])
    BY DEF TrackingInv, TypeOK
  <2>7. \A i \in 1..Len(finished') : Recorded(finished[i])' /\ finished'[i] \in tasks'
    BY <2>2, <2>5, <2>6 DEF Recorded
  <2>8. \A s \in Task : pc'[s] # "idle" /\ ~Recorded(s)' => s \in tasks'
    <3> SUFFICES ASSUME NEW s \in Task, pc'[s] # "idle", ~Recorded(s)'
                 PROVE  s \in tasks'
      OBVIOUS
    <3>1. pc[s] # "idle" /\ ~Recorded(s)
      BY <2>1, <2>2 DEF TypeOK
    <3>2. s \in tasks /\ \A k \in 1..Len(finished) : finished[k] # s
      BY <2>6, <3>1 DEF TrackingInv
    <3> QED
      BY <2>5, <3>2
  <2>9. \A s \in Task : /\ fut'[s] = "none" => worker'[s] = "none"
                        /\ fut'[s] # "none" => pc'[s] \in {"add_callback", "publish", "returned"}
    BY <2>1 DEF TrackingInv, TypeOK
  <2> QED
    BY <2>5, <2>7, <2>8, <2>9, TrackingAssemble
<1>7. ASSUME NEW t \in Task, DoneCallback(t) \/ CoroutineDropped(t) PROVE TrackingInv'
  <2>1. \A s \in Task : fut'[s] = "none" <=> fut[s] = "none"
    BY <1>7 DEF DoneCallback, CoroutineDropped, TypeOK
  <2> QED
    BY <1>7, <2>1, TrackingFrame DEF DoneCallback, CoroutineDropped
<1>8. ASSUME NEW c \in Caller,
             \/ \E t \in Task : BeginCancel(c, t)
             \/ \E o \in Operations : BeginCancelAll(c, o)
             \/ SnapshotRunning(c) \/ CancelToken(c) \/ CancelMark(c)
             \/ CancelReturns(c) \/ CollectCritical(c) \/ CriticalEnded(c)
             \/ WaitTimesOut(c) \/ ShutdownReturns(c)
      PROVE  TrackingInv'
  <2>1. UNCHANGED <<tasks, finished, pc, worker, fut>>
    BY <1>8 DEF BeginCancel, BeginCancelAll, SnapshotRunning, CancelToken, CancelMark,
                CancelReturns, CollectCritical, CriticalEnded, WaitTimesOut, ShutdownReturns
  <2> QED
    BY <2>1, TrackingFrame
<1>9. ASSUME NEW c \in Caller, CancelFuture(c) \/ CloseCritical(c) \/ CloseBackground(c)
      PROVE  TrackingInv'
  <2>1. UNCHANGED <<tasks, finished, pc, worker>>
    BY <1>9 DEF CancelFuture, CloseCritical, CloseBackground
  <2>2. \A s \in Task : fut'[s] = "none" <=> fut[s] = "none"
    BY <1>9 DEF CancelFuture, CloseCritical, CloseBackground, CloseExecutor, Queued, TypeOK
  <2> QED
    BY <2>1, <2>2, TrackingFrame
<1>10. CASE StopLoop
  BY <1>10, TrackingFrame DEF StopLoop
<1>11. CASE UNCHANGED vars
  BY <1>11, TrackingFrame DEF vars
<1> QED
  BY <1>1, <1>2, <1>3, <1>4, <1>5, <1>6, <1>7, <1>8, <1>9, <1>10, <1>11
     DEF Next, SpawnProgress, WorkerProgress, CallerProgress, Terminated

(* How far a task has come in spawn() and in its wrapper says whether it   *)
(* is recorded, and a registered task is tracked until it is evicted.      *)
THEOREM TrackingCorrect == Spec => []TrackingInv
<1>1. Init => TrackingInv
  BY DEF Init, TrackingInv, Recorded
<1> QED
  BY <1>1, TypeCorrect, TrackingInductive, PTL DEF Spec

(* Whatever is still executing is in self.tasks, for any number of tasks,  *)
(* any retention limit and any interleaving of spawns, cancels and         *)
(* shutdowns.                                                              *)
THEOREM LiveTasksAreTracked == Spec => []LiveTaskTracked
<1>1. TypeOK /\ TrackingInv => LiveTaskTracked
  BY DEF TypeOK, TrackingInv, LiveTaskTracked, Recorded
<1> QED
  BY <1>1, TypeCorrect, TrackingCorrect, PTL

(* No task is recorded as finished twice, and no recorded one is missing.  *)
THEOREM RecordedOnce == Spec => []FinishedOnce
<1>1. TrackingInv => FinishedOnce
  BY DEF TrackingInv, FinishedOnce
<1> QED
  BY <1>1, TrackingCorrect, PTL

-----------------------------------------------------------------------------
(* pool_stats(): the counters of the two executors.                        *)

\* Every step keeps CountingInv.
LEMMA CountingInductive ==
  ASSUME TypeOK, TrackingInv, CountingInv, [Next]_vars
  PROVE  CountingInv'
<1>1. ASSUME NEW t \in Task, SpawnRegister(t) \/ SpawnProgress(t)
      PROVE  CountingInv'
  BY <1>1 DEF SpawnProgress, SpawnRegister, SpawnMarkRunning, SpawnCallRaises,
              SpawnUnreadable, SpawnCount, SpawnSubmit,
              SpawnRejected, SpawnAddCallback, SpawnPublish, SpawnRecordFailure,
              SpawnCleanFailure, GotoSpawn, CountingInv, TypeOK
<1>2. ASSUME NEW t \in Task, DoneCallback(t) PROVE CountingInv'
  BY <1>2 DEF DoneCallback, CallbackDue, CountingInv, TypeOK
<1>3. CASE UNCHANGED <<pc, callback, counted>>
  BY <1>3 DEF CountingInv
<1> QED
  <2>1. ASSUME NEW t \in Task,
               \/ WorkerTakes(t) \/ WorkerStart(t) \/ WorkerDrops(t) \/ CoroutineStart(t)
             \/ WorkerRecord(t) \/ WorkerClean(t) \/ BodyEnds(t)
               \/ CoroutineCancelled(t) \/ CoroutineDropped(t)
        PROVE  UNCHANGED <<pc, callback, counted>>
    BY <2>1 DEF WorkerTakes, WorkerStart, WorkerDrops, CoroutineStart, WorkerRecord,
                WorkerClean, BodyEnds, CoroutineCancelled,
                CoroutineDropped
  <2>2. ASSUME NEW c \in Caller,
               \/ \E t \in Task : BeginCancel(c, t)
               \/ \E o \in Operations : BeginCancelAll(c, o)
               \/ CallerProgress(c)
        PROVE  UNCHANGED <<pc, callback, counted>>
    BY <2>2 DEF BeginCancel, BeginCancelAll, CallerProgress, SnapshotRunning, CancelToken,
                CancelFuture, CancelMark, CancelReturns, CollectCritical, CriticalEnded,
                WaitTimesOut, CloseCritical, CloseBackground, CloseExecutor, ShutdownReturns
  <2>3. CASE StopLoop \/ UNCHANGED vars
    BY <2>3, <1>3 DEF StopLoop, vars
  <2> QED
    BY <1>1, <1>2, <1>3, <2>1, <2>2, <2>3 DEF Next, WorkerProgress, Terminated

\* There are finitely many submissions to count.
LEMMA HoldingFinite == ASSUME TypeOK, NEW p PROVE IsFiniteSet(Holding(p))
<1>1. Holding(p) \subseteq Task
  BY DEF Holding, TypeOK
<1> QED
  BY <1>1, FS_Subset, ConstantsAssumption

\* Steps that count nothing and release nothing.
LEMMA HoldingFrame ==
  ASSUME TypeOK, InFlightConserved, UNCHANGED <<submitted, completed, counted>>,
         \A t \in Task : callback'[t] = "ran" <=> callback[t] = "ran"
  PROVE  InFlightConserved'
<1>1. \A p \in Executor : Holding(p)' = Holding(p)
  BY DEF Holding, TypeOK
<1> QED
  BY <1>1 DEF InFlightConserved, InFlight

\* Every step keeps the counters equal to the submissions they stand for.
LEMMA InFlightInductive ==
  ASSUME TypeOK, CountingInv, InFlightConserved, [Next]_vars
  PROVE  InFlightConserved'
<1>1. ASSUME NEW t \in Task, SpawnCount(t) PROVE InFlightConserved'
  <2>1. /\ pc[t] = "count" /\ pc' = [pc EXCEPT ![t] = "submit"]
        /\ submitted' = [submitted EXCEPT ![PoolOf(t)] = @ + 1]
        /\ UNCHANGED <<completed, callback>>
    BY <1>1 DEF SpawnCount, GotoSpawn
  <2>2. callback[t] = "none" /\ t \notin counted /\ counted' = counted \cup {t}
    BY <1>1, <2>1 DEF SpawnCount, CountingInv, TypeOK
  <2>4. ASSUME NEW p \in Executor, p = PoolOf(t)
        PROVE  InFlight(p)' = Cardinality(Holding(p)')
    <3>1. Holding(p)' = Holding(p) \cup {t} /\ t \notin Holding(p)
      BY <2>1, <2>2, <2>4 DEF Holding
    <3>2. Cardinality(Holding(p)') = Cardinality(Holding(p)) + 1
      BY <3>1, HoldingFinite, FS_AddElement
    <3>3. InFlight(p)' = InFlight(p) + 1
      BY <2>1, <2>4 DEF InFlight, TypeOK
    <3> QED
      BY <3>2, <3>3 DEF InFlightConserved
  <2>5. ASSUME NEW p \in Executor, p # PoolOf(t)
        PROVE  InFlight(p)' = Cardinality(Holding(p)')
    <3>1. Holding(p)' = Holding(p)
      BY <2>1, <2>2, <2>5 DEF Holding
    <3>2. InFlight(p)' = InFlight(p)
      BY <2>1, <2>5 DEF InFlight, TypeOK
    <3> QED
      BY <3>1, <3>2 DEF InFlightConserved
  <2> QED
    BY <2>4, <2>5 DEF InFlightConserved
<1>2. ASSUME NEW t \in Task, DoneCallback(t) PROVE InFlightConserved'
  <2>1. /\ callback[t] = "added" /\ callback' = [callback EXCEPT ![t] = "ran"]
        /\ completed' = [completed EXCEPT ![PoolOf(t)] = @ + 1]
        /\ UNCHANGED <<submitted, pc>>
    BY <1>2 DEF DoneCallback, CallbackDue
  <2>2. t \in counted /\ counted' = counted
    BY <1>2, <2>1 DEF DoneCallback, CountingInv
  <2>4. ASSUME NEW p \in Executor, p = PoolOf(t)
        PROVE  InFlight(p)' = Cardinality(Holding(p)')
    <3>1. Holding(p)' = Holding(p) \ {t} /\ t \in Holding(p)
      BY <2>1, <2>2, <2>4 DEF Holding, TypeOK
    <3>2. Cardinality(Holding(p)') = Cardinality(Holding(p)) - 1
      BY <3>1, HoldingFinite, FS_RemoveElement
    <3>3. InFlight(p)' = InFlight(p) - 1
      BY <2>1, <2>4 DEF InFlight, TypeOK
    <3> QED
      BY <3>2, <3>3 DEF InFlightConserved
  <2>5. ASSUME NEW p \in Executor, p # PoolOf(t)
        PROVE  InFlight(p)' = Cardinality(Holding(p)')
    <3>1. Holding(p)' = Holding(p)
      BY <2>1, <2>2, <2>5 DEF Holding, TypeOK
    <3>2. InFlight(p)' = InFlight(p)
      BY <2>1, <2>5 DEF InFlight, TypeOK
    <3> QED
      BY <3>1, <3>2 DEF InFlightConserved
  <2> QED
    BY <2>4, <2>5 DEF InFlightConserved
<1>3. ASSUME NEW t \in Task,
             \/ SpawnRegister(t) \/ SpawnMarkRunning(t) \/ SpawnSubmit(t)
             \/ SpawnCallRaises(t) \/ SpawnUnreadable(t)
             \/ SpawnRejected(t) \/ SpawnAddCallback(t) \/ SpawnPublish(t)
             \/ SpawnRecordFailure(t) \/ SpawnCleanFailure(t)
      PROVE  InFlightConserved'
  <2>1. /\ UNCHANGED <<submitted, completed, counted>>
        /\ \A s \in Task : callback'[s] = "ran" <=> callback[s] = "ran"
    <3>1. CASE SpawnAddCallback(t)
      <4>1. callback[t] = "none" /\ callback' = [callback EXCEPT ![t] = "added"]
        BY <3>1 DEF SpawnAddCallback, GotoSpawn, CountingInv, TypeOK
      <4> QED
        BY <3>1, <4>1 DEF SpawnAddCallback, TypeOK
    <3>2. CASE ~SpawnAddCallback(t)
      BY <1>3, <3>2 DEF SpawnRegister, SpawnMarkRunning, SpawnCallRaises, SpawnUnreadable,
                        SpawnSubmit, SpawnRejected,
                SpawnPublish, SpawnRecordFailure, SpawnCleanFailure,
                RecordFinished, CleanupOldTasks
    <3> QED
      BY <3>1, <3>2
  <2> QED
    BY <2>1, HoldingFrame
<1>4. ASSUME NEW t \in Task,
             \/ WorkerTakes(t) \/ WorkerStart(t) \/ WorkerDrops(t) \/ CoroutineStart(t)
             \/ WorkerRecord(t) \/ WorkerClean(t) \/ BodyEnds(t)
             \/ CoroutineCancelled(t) \/ CoroutineDropped(t)
      PROVE  InFlightConserved'
  <2>1. UNCHANGED <<submitted, completed, counted, callback>>
    BY <1>4 DEF WorkerTakes, WorkerStart, WorkerDrops, CoroutineStart, WorkerRecord,
                WorkerClean, BodyEnds, CoroutineCancelled,
                CoroutineDropped, RecordFinished, CleanupOldTasks
  <2> QED
    BY <2>1, HoldingFrame
<1>5. ASSUME NEW c \in Caller,
             \/ \E t \in Task : BeginCancel(c, t)
             \/ \E o \in Operations : BeginCancelAll(c, o)
             \/ CallerProgress(c)
      PROVE  InFlightConserved'
  <2>1. UNCHANGED <<submitted, completed, counted, callback>>
    BY <1>5 DEF BeginCancel, BeginCancelAll, CallerProgress, SnapshotRunning, CancelToken,
                CancelFuture, CancelMark, CancelReturns, CollectCritical, CriticalEnded,
                WaitTimesOut, CloseCritical, CloseBackground, CloseExecutor, ShutdownReturns
  <2> QED
    BY <2>1, HoldingFrame
<1>6. CASE StopLoop \/ UNCHANGED vars
  BY <1>6, HoldingFrame DEF StopLoop, vars
<1> QED
  BY <1>1, <1>2, <1>3, <1>4, <1>5, <1>6
     DEF Next, SpawnProgress, WorkerProgress, Terminated

(* in_flight is the number of counted submissions whose done callback has  *)
(* not run, for pools and task sets of any size.                           *)
THEOREM InFlightIsConserved == Spec => [](CountingInv /\ InFlightConserved)
<1>1. Init => CountingInv
  BY DEF Init, CountingInv
<1>2. Init => InFlightConserved
  <2> SUFFICES ASSUME Init PROVE InFlightConserved
    OBVIOUS
  <2>1. \A p \in Executor : Holding(p) = {}
    BY DEF Init, Holding
  <2>2. \A p \in Executor : InFlight(p) = 0
    BY DEF Init, InFlight
  <2> QED
    BY <2>1, <2>2, FS_EmptySet DEF InFlightConserved
<1>3. TypeOK /\ TrackingInv /\ CountingInv /\ InFlightConserved /\ [Next]_vars
        => (CountingInv /\ InFlightConserved)'
  BY CountingInductive, InFlightInductive
<1> QED
  BY <1>1, <1>2, <1>3, TypeCorrect, TrackingCorrect, PTL DEF Spec

-----------------------------------------------------------------------------
(* The status of a task.                                                   *)

\* Only these steps assign a status.
LEMMA StatusWriters ==
  ASSUME [Next]_vars, status' # status
  PROVE  \/ \E t \in Task : \/ SpawnMarkRunning(t) \/ SpawnUnreadable(t)
                          \/ SpawnRejected(t) \/ BodyEnds(t)
         \/ \E c \in Caller : CancelMark(c)
<1>1. ASSUME NEW t \in Task,
             \/ SpawnRegister(t) \/ SpawnCallRaises(t) \/ SpawnCount(t) \/ SpawnSubmit(t)
             \/ SpawnAddCallback(t) \/ SpawnPublish(t)
             \/ SpawnRecordFailure(t) \/ SpawnCleanFailure(t)
             \/ WorkerProgress(t) \/ CoroutineCancelled(t) \/ CoroutineDropped(t)
      PROVE  status' = status
  BY <1>1 DEF SpawnRegister, SpawnCallRaises, SpawnCount, SpawnSubmit, SpawnAddCallback,
              SpawnPublish,
              SpawnRecordFailure, SpawnCleanFailure, WorkerProgress, WorkerTakes, WorkerStart,
              WorkerDrops, CoroutineStart,
              WorkerRecord, WorkerClean, DoneCallback, CoroutineCancelled, CoroutineDropped
<1>2. ASSUME NEW c \in Caller,
             \/ \E t \in Task : BeginCancel(c, t)
             \/ \E o \in Operations : BeginCancelAll(c, o)
             \/ CallerProgress(c)
      PROVE  CancelMark(c) \/ status' = status
  BY <1>2 DEF BeginCancel, BeginCancelAll, CallerProgress, SnapshotRunning, CancelToken,
              CancelFuture, CancelReturns, CollectCritical, CriticalEnded,
              WaitTimesOut, CloseCritical, CloseBackground, CloseExecutor, ShutdownReturns
<1>3. StopLoop \/ UNCHANGED vars => status' = status
  BY DEF StopLoop, vars
<1> QED
  BY <1>1, <1>2, <1>3 DEF Next, SpawnProgress, Terminated

\* Every step keeps StatusInv.
LEMMA StatusInductive ==
  ASSUME TypeOK, TrackingInv, StatusInv, [Next]_vars
  PROVE  StatusInv'
<1>1. ASSUME NEW t \in Task, SpawnRegister(t) \/ SpawnProgress(t) PROVE StatusInv'
  <2>1. UNCHANGED <<cpc, cur>> /\ \A s \in Task \ {t} :
          pc'[s] = pc[s] /\ status'[s] = status[s] /\ published'[s] = published[s]
    BY <1>1 DEF SpawnProgress, SpawnRegister, SpawnMarkRunning, SpawnCallRaises,
                SpawnUnreadable, SpawnCount, SpawnSubmit,
                SpawnRejected, SpawnAddCallback, SpawnPublish, SpawnRecordFailure,
                SpawnCleanFailure, GotoSpawn, TypeOK
  <2>2. /\ pc[t] # "returned"
        /\ pc'[t] \in {"idle", "registered", "abandoned"} => pc[t] \in {"idle", "registered"}
    BY <1>1 DEF SpawnProgress, SpawnRegister, SpawnMarkRunning, SpawnCallRaises,
                SpawnUnreadable, SpawnCount, SpawnSubmit,
                SpawnRejected, SpawnAddCallback, SpawnPublish, SpawnRecordFailure,
                SpawnCleanFailure, GotoSpawn, TypeOK
  <2>3. pc'[t] \in {"idle", "registered", "abandoned"} => status'[t] = status[t]
    BY <1>1 DEF SpawnProgress, SpawnRegister, SpawnMarkRunning, SpawnCallRaises,
                SpawnUnreadable, SpawnCount, SpawnSubmit,
                SpawnRejected, SpawnAddCallback, SpawnPublish, SpawnRecordFailure,
                SpawnCleanFailure, GotoSpawn, TypeOK
  <2>4. published'[t] => published[t] \/ pc'[t] = "returned"
    BY <1>1 DEF SpawnProgress, SpawnRegister, SpawnMarkRunning, SpawnCallRaises,
                SpawnUnreadable, SpawnCount, SpawnSubmit,
                SpawnRejected, SpawnAddCallback, SpawnPublish, SpawnRecordFailure,
                SpawnCleanFailure, GotoSpawn, TypeOK
  <2>5. ~published[t]
    BY <2>2 DEF StatusInv
  <2> QED
    BY <2>1, <2>2, <2>3, <2>4, <2>5 DEF StatusInv
<1>2. ASSUME NEW t \in Task, BodyEnds(t) PROVE StatusInv'
  <2>1. pc[t] \notin {"idle", "registered", "abandoned"}
    BY <1>2 DEF BodyEnds, GotoWorker, TrackingInv
  <2>2. UNCHANGED <<pc, published, cpc, cur>>
    BY <1>2 DEF BodyEnds
  <2>3. \A s \in Task \ {t} : status'[s] = status[s]
    BY <1>2 DEF BodyEnds, TypeOK
  <2> QED
    BY <2>1, <2>2, <2>3 DEF StatusInv
<1>3. ASSUME NEW t \in Task,
             WorkerProgress(t) \/ CoroutineCancelled(t) \/ CoroutineDropped(t)
      PROVE  StatusInv'
  <2>1. UNCHANGED <<pc, status, published, cpc, cur>>
    BY <1>3 DEF WorkerProgress, WorkerTakes, WorkerStart, WorkerDrops, CoroutineStart,
                WorkerRecord, WorkerClean, DoneCallback,
                CoroutineCancelled, CoroutineDropped
  <2> QED
    BY <2>1 DEF StatusInv
<1>4. ASSUME NEW c \in Caller, CancelToken(c) PROVE StatusInv'
  <2>1. /\ UNCHANGED <<pc, status, published>>
        /\ \A d \in Caller \ {c} : cpc'[d] = cpc[d] /\ cur'[d] = cur[d]
        /\ cpc'[c] = "future" => cur'[c] \in todo[c] /\ published[cur'[c]]
        /\ cpc'[c] # "mark"
    BY <1>4 DEF CancelToken, GotoCaller, TypeOK
  <2> QED
    BY <2>1 DEF StatusInv, TypeOK
<1>5. ASSUME NEW c \in Caller, CancelFuture(c) PROVE StatusInv'
  BY <1>5 DEF CancelFuture, GotoCaller, StatusInv, TypeOK
<1>6. ASSUME NEW c \in Caller, CancelMark(c) PROVE StatusInv'
  <2>1. /\ cur[c] \in Task /\ pc[cur[c]] = "returned"
        /\ status' = [status EXCEPT ![cur[c]] = "CANCELLED"]
        /\ UNCHANGED <<pc, published>>
        /\ cpc'[c] = "cancelling"
        /\ \A d \in Caller \ {c} : cpc'[d] = cpc[d] /\ cur'[d] = cur[d]
    BY <1>6 DEF CancelMark, GotoCaller, StatusInv, TypeOK
  <2> QED
    BY <2>1 DEF StatusInv, TypeOK
<1>7. ASSUME NEW c \in Caller,
             \/ \E t \in Task : BeginCancel(c, t)
             \/ \E o \in Operations : BeginCancelAll(c, o)
             \/ SnapshotRunning(c) \/ CancelReturns(c) \/ CollectCritical(c)
             \/ CriticalEnded(c) \/ WaitTimesOut(c)
             \/ CloseCritical(c) \/ CloseBackground(c) \/ ShutdownReturns(c)
      PROVE  StatusInv'
  <2>1. /\ UNCHANGED <<pc, status, published, cur>>
        /\ \A d \in Caller : cpc'[d] \in {"future", "mark"} => cpc[d] = cpc'[d]
    BY <1>7 DEF BeginCancel, BeginCancelAll, SnapshotRunning, CancelReturns,
                CollectCritical, CriticalEnded, WaitTimesOut, CloseCritical,
                CloseBackground, ShutdownReturns, GotoCaller, TypeOK
  <2> QED
    BY <2>1 DEF StatusInv
<1>8. CASE StopLoop \/ UNCHANGED vars
  BY <1>8 DEF StopLoop, vars, StatusInv
<1> QED
  BY <1>1, <1>2, <1>3, <1>4, <1>5, <1>6, <1>7, <1>8
     DEF Next, CallerProgress, Terminated

(* COMPLETED, FAILED and CANCELLED may replace one another, but a task     *)
(* that is over is never again PENDING or RUNNING.                         *)
THEOREM TerminalStatusStays == Spec => TerminalStays
<1>1. Init => StatusInv
  BY DEF Init, StatusInv
<1>2. TypeOK /\ TrackingInv /\ StatusInv /\ [Next]_vars => StatusInv'
  BY StatusInductive
<1>3. TypeOK /\ StatusInv /\ [Next]_vars
        => [\A t \in Task : status[t] \in Terminal => status'[t] \in Terminal]_vars
  <2> SUFFICES ASSUME TypeOK, StatusInv, [Next]_vars,
                      NEW t \in Task, status[t] \in Terminal
               PROVE  status'[t] \in Terminal
    OBVIOUS
  <2>1. CASE status' = status
    BY <2>1
  <2>2. ASSUME NEW s \in Task, SpawnMarkRunning(s) PROVE status'[t] \in Terminal
    BY <2>2 DEF SpawnMarkRunning, GotoSpawn, StatusInv, TypeOK, Terminal
  <2>3. ASSUME NEW s \in Task, SpawnUnreadable(s) \/ SpawnRejected(s) \/ BodyEnds(s)
        PROVE  status'[t] \in Terminal
    BY <2>3 DEF SpawnUnreadable, SpawnRejected, BodyEnds, TypeOK, Terminal
  <2>4. ASSUME NEW c \in Caller, CancelMark(c) PROVE status'[t] \in Terminal
    BY <2>4 DEF CancelMark, TypeOK, Terminal
  <2> QED
    BY <2>1, <2>2, <2>3, <2>4, StatusWriters
<1> QED
  BY <1>1, <1>2, <1>3, TypeCorrect, TrackingCorrect, PTL DEF Spec, TerminalStays

-----------------------------------------------------------------------------
(* The bound on finished tasks, and the end of an executor.                *)

Cleaning == {t \in Task : worker[t] = "clean" \/ pc[t] = "clean_failure"}

\* A step that leaves the list and those who are about to clean it alone.
LEMMA RetentionFrame ==
  ASSUME RetentionBounded, finished' = finished,
         \A t \in Task : (worker'[t] = "clean" <=> worker[t] = "clean")
                         /\ (pc'[t] = "clean_failure" <=> pc[t] = "clean_failure")
  PROVE  RetentionBounded'
<1>1. Cleaning' = Cleaning
  BY DEF Cleaning
<1> QED
  BY <1>1 DEF RetentionBounded, Cleaning

\* The thread that appends an id is one more that is about to clean.
LEMMA RecordStaysBounded ==
  ASSUME TypeOK, RetentionBounded, NEW t \in Task, RecordFinished(t),
         t \notin Cleaning, Cleaning' = Cleaning \cup {t}
  PROVE  RetentionBounded'
<1>1. IsFiniteSet(Cleaning)
  BY FS_Subset, ConstantsAssumption DEF Cleaning
<1>2. Cardinality(Cleaning') = Cardinality(Cleaning) + 1
  BY <1>1, FS_AddElement
<1>3. Len(finished') = Len(finished) + 1 /\ Len(finished) \in Nat
  BY DEF RecordFinished, TypeOK
<1>4. Cardinality(Cleaning) \in Nat
  BY <1>1, FS_CardinalityType
<1>5. Len(finished) <= MaxRetained + Cardinality(Cleaning)
  BY DEF RetentionBounded, Cleaning
<1>6. Len(finished') <= MaxRetained + Cardinality(Cleaning')
  BY <1>2, <1>3, <1>4, <1>5, ConstantsAssumption
<1> QED
  BY <1>6 DEF RetentionBounded, Cleaning

\* The eviction leaves no more than the limit, whoever else is about to clean.
LEMMA CleanupBounds ==
  ASSUME TypeOK, CleanupOldTasks
  PROVE  RetentionBounded'
<1>1. Len(finished') = Len(finished) - Excess /\ Len(finished) \in Nat
  BY CleanupKeepsSuffix, ConstantsAssumption DEF TypeOK
<1>2. Len(finished') <= MaxRetained
  BY <1>1, ConstantsAssumption DEF Excess
<1>3. IsFiniteSet(Cleaning')
  <2>1. Cleaning' \subseteq Task
    BY DEF Cleaning
  <2> QED
    BY <2>1, FS_Subset, ConstantsAssumption
<1>4. Cardinality(Cleaning') \in Nat
  BY <1>3, FS_CardinalityType
<1>5. Len(finished') <= MaxRetained + Cardinality(Cleaning')
  BY <1>1, <1>2, <1>4, ConstantsAssumption
<1> QED
  BY <1>5 DEF RetentionBounded, Cleaning

\* Every step keeps the bound.
LEMMA RetentionInductive ==
  ASSUME TypeOK, TrackingInv, RetentionBounded, [Next]_vars
  PROVE  RetentionBounded'
<1>1. ASSUME NEW t \in Task, WorkerRecord(t) PROVE RetentionBounded'
  <2>1. /\ RecordFinished(t) /\ worker[t] = "record"
        /\ worker' = [worker EXCEPT ![t] = "clean"] /\ pc' = pc
    BY <1>1 DEF WorkerRecord, GotoWorker
  <2>2. t \notin Cleaning
    BY <2>1 DEF Cleaning, TrackingInv
  <2>3. Cleaning' = Cleaning \cup {t}
    BY <2>1 DEF Cleaning, TypeOK
  <2> QED
    BY <2>1, <2>2, <2>3, RecordStaysBounded
<1>2. ASSUME NEW t \in Task, SpawnRecordFailure(t) PROVE RetentionBounded'
  <2>1. /\ RecordFinished(t) /\ pc[t] = "record_failure"
        /\ pc' = [pc EXCEPT ![t] = "clean_failure"] /\ worker' = worker
    BY <1>2 DEF SpawnRecordFailure, GotoSpawn
  <2>2. t \notin Cleaning
    BY <2>1 DEF Cleaning, TrackingInv
  <2>3. Cleaning' = Cleaning \cup {t}
    BY <2>1 DEF Cleaning, TypeOK
  <2> QED
    BY <2>1, <2>2, <2>3, RecordStaysBounded
<1>3. ASSUME NEW t \in Task, WorkerClean(t) \/ SpawnCleanFailure(t) PROVE RetentionBounded'
  <2>1. CleanupOldTasks
    BY <1>3 DEF WorkerClean, SpawnCleanFailure
  <2> QED
    BY <2>1, CleanupBounds
<1>4. ASSUME NEW t \in Task,
             \/ SpawnRegister(t) \/ SpawnMarkRunning(t) \/ SpawnCount(t) \/ SpawnSubmit(t)
             \/ SpawnCallRaises(t) \/ SpawnUnreadable(t) \/ SpawnRejected(t) \/ SpawnAddCallback(t) \/ SpawnPublish(t)
      PROVE  RetentionBounded'
  <2>1. /\ UNCHANGED <<finished, worker>>
        /\ \A s \in Task : pc'[s] = "clean_failure" <=> pc[s] = "clean_failure"
    BY <1>4 DEF SpawnRegister, SpawnMarkRunning, SpawnCallRaises, SpawnUnreadable,
                SpawnCount, SpawnSubmit, SpawnRejected,
                SpawnAddCallback, SpawnPublish, GotoSpawn, TypeOK
  <2> QED
    BY <2>1, RetentionFrame
<1>5. ASSUME NEW t \in Task,
             \/ WorkerTakes(t) \/ WorkerStart(t) \/ WorkerDrops(t) \/ CoroutineStart(t)
             \/ BodyEnds(t) \/ CoroutineCancelled(t)
             \/ CoroutineDropped(t) \/ DoneCallback(t)
      PROVE  RetentionBounded'
  <2>1. /\ UNCHANGED <<finished, pc>>
        /\ \A s \in Task : worker'[s] = "clean" <=> worker[s] = "clean"
    BY <1>5 DEF WorkerTakes, WorkerStart, WorkerDrops, CoroutineStart, BodyEnds,
                CoroutineCancelled, CoroutineDropped, DoneCallback,
                GotoWorker, TypeOK
  <2> QED
    BY <2>1, RetentionFrame
<1>6. ASSUME NEW c \in Caller,
             \/ \E t \in Task : BeginCancel(c, t)
             \/ \E o \in Operations : BeginCancelAll(c, o)
             \/ CallerProgress(c)
      PROVE  RetentionBounded'
  <2>1. UNCHANGED <<finished, pc, worker>>
    BY <1>6 DEF BeginCancel, BeginCancelAll, CallerProgress, SnapshotRunning, CancelToken,
                CancelFuture, CancelMark, CancelReturns, CollectCritical, CriticalEnded,
                WaitTimesOut, CloseCritical, CloseBackground, CloseExecutor, ShutdownReturns
  <2> QED
    BY <2>1, RetentionFrame
<1>7. CASE StopLoop \/ UNCHANGED vars
  BY <1>7, RetentionFrame DEF StopLoop, vars
<1> QED
  BY <1>1, <1>2, <1>3, <1>4, <1>5, <1>6, <1>7
     DEF Next, SpawnProgress, WorkerProgress, Terminated

(* The finished list never exceeds the limit by more than the ids of the   *)
(* threads that are about to clean it, for any limit and number of tasks.  *)
THEOREM FinishedListBounded == Spec => []RetentionBounded
<1>1. Init => RetentionBounded
  <2> SUFFICES ASSUME Init PROVE RetentionBounded
    OBVIOUS
  <2>1. Len(finished) = 0
    BY DEF Init
  <2>2. IsFiniteSet(Cleaning)
    BY FS_Subset, ConstantsAssumption DEF Cleaning
  <2>3. Cardinality(Cleaning) \in Nat
    BY <2>2, FS_CardinalityType
  <2>4. Len(finished) <= MaxRetained + Cardinality(Cleaning)
    BY <2>1, <2>3, ConstantsAssumption
  <2> QED
    BY <2>4 DEF RetentionBounded, Cleaning
<1>2. TypeOK /\ TrackingInv /\ RetentionBounded /\ [Next]_vars => RetentionBounded'
  BY RetentionInductive
<1> QED
  BY <1>1, <1>2, TypeCorrect, TrackingCorrect, PTL DEF Spec

\* The queue of an executor that is closed is empty.
ClosedInv == \A p \in Executor : closed[p] => Queued(p) = {}

\* The synchronous tasks whose item is queued.
QueuedItem(t) == t \notin Async /\ fut[t] = "PENDING" /\ worker[t] = "none"

\* Only an executor that is open gets an item.
LEMMA QueueGrows ==
  ASSUME TypeOK, [Next]_vars, NEW t \in Task, QueuedItem(t)'
  PROVE  QueuedItem(t) \/ ~closed[PoolOf(t)]
<1> USE DEF QueuedItem
<1>1. ASSUME NEW s \in Task, SpawnRegister(s) \/ SpawnProgress(s)
      PROVE  QueuedItem(t) \/ ~closed[PoolOf(t)]
  BY <1>1 DEF SpawnRegister, SpawnProgress, SpawnMarkRunning, SpawnCallRaises,
     SpawnUnreadable, SpawnCount, SpawnSubmit, SpawnRejected, SpawnAddCallback,
     SpawnPublish, SpawnRecordFailure, SpawnCleanFailure, TypeOK
<1>2. ASSUME NEW s \in Task,
             \/ WorkerProgress(s) \/ BodyEnds(s)
             \/ CoroutineCancelled(s) \/ CoroutineDropped(s)
      PROVE  QueuedItem(t)
  BY <1>2 DEF WorkerProgress, WorkerTakes, WorkerStart, WorkerDrops, CoroutineStart,
     WorkerRecord, WorkerClean, DoneCallback, BodyEnds, CoroutineCancelled,
     CoroutineDropped, GotoWorker, TypeOK
<1>3. ASSUME NEW c \in Caller,
             \/ \E s \in Task : BeginCancel(c, s)
             \/ \E o \in Operations : BeginCancelAll(c, o)
             \/ CallerProgress(c)
      PROVE  QueuedItem(t)
  BY <1>3 DEF BeginCancel, BeginCancelAll, CallerProgress, SnapshotRunning, CancelToken,
     CancelFuture, CancelMark, CancelReturns, CollectCritical, CriticalEnded,
     WaitTimesOut, CloseCritical, CloseBackground, CloseExecutor, ShutdownReturns, TypeOK
<1>4. StopLoop \/ UNCHANGED vars => QueuedItem(t)
  BY DEF StopLoop, vars
<1> QED
  BY <1>1, <1>2, <1>3, <1>4 DEF Next, Terminated

\* An executor is closed by the step that empties its queue.
LEMMA ClosingEmpties ==
  ASSUME TypeOK, [Next]_vars, NEW p \in Executor, closed'[p], ~closed[p]
  PROVE  Queued(p)' = {}
<1>1. ASSUME NEW c \in Caller, CloseCritical(c) \/ CloseBackground(c)
      PROVE  Queued(p)' = {}
  <2>1. PICK q \in Executor : CloseExecutor(q) /\ UNCHANGED worker
    BY <1>1 DEF CloseCritical, CloseBackground, Executor
  <2>2. q = p
    BY <2>1 DEF CloseExecutor, TypeOK
  <2>3. \A t \in Task : t \in Queued(p) => fut'[t] = "CANCELLED"
    BY <2>1, <2>2 DEF CloseExecutor
  <2>4. \A t \in Task : t \notin Queued(p) => fut'[t] = fut[t]
    BY <2>1, <2>2 DEF CloseExecutor
  <2> QED
    BY <2>1, <2>3, <2>4 DEF Queued
<1>2. StopLoop => closed'[p] = closed[p]
  BY DEF StopLoop, Executor, TypeOK
<1>3. ASSUME NEW t \in Task,
             \/ SpawnRegister(t) \/ SpawnProgress(t) \/ WorkerProgress(t) \/ BodyEnds(t)
             \/ CoroutineCancelled(t) \/ CoroutineDropped(t)
      PROVE  UNCHANGED closed
  BY <1>3 DEF SpawnRegister, SpawnProgress, SpawnMarkRunning, SpawnCallRaises,
     SpawnUnreadable, SpawnCount, SpawnSubmit, SpawnRejected, SpawnAddCallback,
     SpawnPublish, SpawnRecordFailure, SpawnCleanFailure, WorkerProgress, WorkerTakes,
     WorkerStart, WorkerDrops, CoroutineStart, WorkerRecord, WorkerClean, DoneCallback,
     BodyEnds, CoroutineCancelled, CoroutineDropped
<1>4. ASSUME NEW c \in Caller,
             \/ \E t \in Task : BeginCancel(c, t)
             \/ \E o \in Operations : BeginCancelAll(c, o)
             \/ CallerProgress(c)
      PROVE  CloseCritical(c) \/ CloseBackground(c) \/ UNCHANGED closed
  BY <1>4 DEF BeginCancel, BeginCancelAll, CallerProgress, SnapshotRunning, CancelToken,
     CancelFuture, CancelMark, CancelReturns, CollectCritical, CriticalEnded,
     WaitTimesOut, ShutdownReturns
<1>5. UNCHANGED vars => UNCHANGED closed
  BY DEF vars
<1> QED
  BY <1>1, <1>2, <1>3, <1>4, <1>5 DEF Next, Terminated

\* Every step keeps ClosedInv.
LEMMA ClosedInductive ==
  ASSUME TypeOK, ClosedInv, [Next]_vars
  PROVE  ClosedInv'
<1> SUFFICES ASSUME NEW p \in Executor, closed'[p], closed[p]
             PROVE  Queued(p)' = {}
  BY ClosingEmpties DEF ClosedInv
<1>1. ASSUME NEW t \in Queued(p)' PROVE FALSE
  <2>1. t \in Task /\ PoolOf(t) = p /\ QueuedItem(t)'
    BY <1>1 DEF Queued, QueuedItem, PoolOf, Executor
  <2>2. QueuedItem(t)
    BY <2>1, QueueGrows
  <2> QED
    BY <2>1, <2>2 DEF ClosedInv, Queued, QueuedItem
<1> QED
  BY <1>1

(* Once shutdown() has shut an executor down, no thread of the pool takes  *)
(* a callable off its queue, whatever was queued, submitted or cancelled   *)
(* at that moment: only what a thread had in hand by then can still start. *)
THEOREM ClosedExecutorTakesNothing == Spec => NothingTakenAfterShutdown
<1>1. Init => ClosedInv
  BY DEF Init, ClosedInv, Pool
<1>2. TypeOK /\ ClosedInv /\ [Next]_vars => ClosedInv'
  BY ClosedInductive
<1>3. TypeOK /\ ClosedInv /\ [Next]_vars
        => [\A t \in Task \ Async :
              closed[PoolOf(t)] /\ worker[t] = "none" => worker'[t] = "none"]_vars
  <2> SUFFICES ASSUME TypeOK, ClosedInv, [Next]_vars,
                      NEW t \in Task \ Async, closed[PoolOf(t)], worker[t] = "none"
               PROVE  worker'[t] = "none"
    OBVIOUS
  <2>1. \A p \in Executor : t \notin Queued(p)
    BY DEF ClosedInv, Queued
  <2>2. ASSUME NEW s \in Task,
               \/ SpawnRegister(s) \/ SpawnProgress(s) \/ WorkerProgress(s) \/ BodyEnds(s)
               \/ CoroutineCancelled(s) \/ CoroutineDropped(s)
        PROVE  worker'[t] = "none"
    BY <2>1, <2>2 DEF SpawnRegister, SpawnProgress, SpawnMarkRunning, SpawnCallRaises,
       SpawnUnreadable, SpawnCount, SpawnSubmit, SpawnRejected, SpawnAddCallback,
       SpawnPublish, SpawnRecordFailure, SpawnCleanFailure, WorkerProgress, WorkerTakes,
       WorkerStart, WorkerDrops, CoroutineStart, WorkerRecord, WorkerClean,
       DoneCallback, BodyEnds, CoroutineCancelled, CoroutineDropped, GotoWorker, TypeOK
  <2>3. ASSUME NEW c \in Caller,
               \/ \E s \in Task : BeginCancel(c, s)
               \/ \E o \in Operations : BeginCancelAll(c, o)
               \/ CallerProgress(c)
        PROVE  worker' = worker
    BY <2>3 DEF BeginCancel, BeginCancelAll, CallerProgress, SnapshotRunning, CancelToken,
                CancelFuture, CancelMark, CancelReturns, CollectCritical, CriticalEnded,
                WaitTimesOut, CloseCritical, CloseBackground, CloseExecutor, ShutdownReturns
  <2>4. StopLoop \/ UNCHANGED vars => worker' = worker
    BY DEF StopLoop, vars
  <2> QED
    BY <2>2, <2>3, <2>4 DEF Next, Terminated
<1> QED
  BY <1>1, <1>2, <1>3, TypeCorrect, PTL DEF Spec, NothingTakenAfterShutdown

=============================================================================
