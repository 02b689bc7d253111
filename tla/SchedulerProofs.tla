-------------------------- MODULE SchedulerProofs --------------------------
(* Theorems about Scheduler for any number of hosts, loops and jobs.       *)
EXTENDS Scheduler, FiniteSetTheorems, TLAPS

USE DEF jobVars, Goto

-----------------------------------------------------------------------------
(* Types and locks.                                                        *)

Creators == {h \in Host : pc[h] = "create"}
Unused == {l \in Loop : loop[l] = "none"}

\* Hosts and Thread objects can be counted.
LEMMA Counts ==
  /\ IsFiniteSet(Creators) /\ Cardinality(Creators) \in Nat
  /\ IsFiniteSet(Unused) /\ Cardinality(Unused) \in Nat
<1>1. IsFiniteSet(Creators) /\ IsFiniteSet(Unused)
  BY FS_Subset, ConstantsAssumption DEF Creators, Unused
<1> QED
  BY <1>1, FS_CardinalityType

\* A host about to create a thread has a Thread object to create.
LEMMA SomeUnused ==
  ASSUME LockInv, NEW h \in Host, pc[h] = "create"
  PROVE  (CHOOSE l \in Loop : loop[l] = "none") \in Unused
<1>1. Creators # {}
  BY DEF Creators
<1>2. Cardinality(Creators) # 0
  BY <1>1, Counts, FS_EmptySet
<1>3. Cardinality(Creators) <= Cardinality(Unused)
  BY DEF LockInv, Creators, Unused
<1>4. Cardinality(Unused) # 0
  BY <1>2, <1>3, Counts
<1>5. Unused # {}
  BY <1>4, FS_EmptySet
<1> QED
  BY <1>5 DEF Unused

\* Every step keeps the types.
LEMMA TypeInductive ==
  ASSUME TypeOK, LockInv, JobsInv, [Next]_vars
  PROVE  TypeOK'
<1> USE DEF TypeOK
<1>0. user \subseteq Host
  BY ConstantsAssumption
<1>1. ASSUME NEW h \in user, Start(h) \/ Stop(h) PROVE TypeOK'
  BY <1>0, <1>1 DEF Start, Stop
<1>2. ASSUME NEW h \in user, CreateThread(h) PROVE TypeOK'
  <2>1. thread' \in Loop
    BY <1>0, <1>2, SomeUnused DEF CreateThread, Unused
  <2> QED
    BY <1>2, <2>1 DEF CreateThread
<1>3. ASSUME NEW h \in user, LaunchThread(h) PROVE TypeOK'
  BY <1>3 DEF LaunchThread
<1>4. ASSUME NEW h \in user, StopChecks(h) \/ StopJoined(h) \/ StopForgets(h) PROVE TypeOK'
  BY <1>4 DEF StopChecks, StopJoined, StopForgets
<1>5. ASSUME NEW h \in user, NEW j \in Job, AddJob(h, j) PROVE TypeOK'
  BY <1>5 DEF AddJob
<1>6. ASSUME NEW j \in Job, Cancel(j) \/ TimePasses(j) PROVE TypeOK'
  BY <1>6 DEF Cancel, TimePasses
<1>7. ASSUME NEW l \in Loop, LoopEnds(l) \/ TickBegins(l) \/ TickEnds(l) PROVE TypeOK'
  BY <1>7 DEF LoopEnds, TickBegins, TickEnds
<1>8. ASSUME NEW l \in Loop, NEW j \in Job, Dispatch(l, j) \/ TickDies(l, j) PROVE TypeOK'
  <2>0. Spawns(l, j)
    BY <1>8 DEF Dispatch, TickDies
  <2>1. runs[j] < MaxRuns /\ late[j] = 0 /\ MaxRuns \in Nat \ {0}
    BY <2>0, ConstantsAssumption DEF Spawns, JobsInv
  <2>2. /\ runs' \in [Job -> 0..MaxRuns] /\ late' \in [Job -> 0..MaxRuns]
        /\ UNCHANGED <<running, thread, cancelled, pc, was, user>>
    BY <2>0, <2>1 DEF Spawns
  <2>3. CASE Dispatch(l, j)
    BY <2>2, <2>3 DEF Dispatch
  <2>4. CASE TickDies(l, j)
    BY <2>2, <2>4 DEF TickDies
  <2> QED
    BY <1>8, <2>3, <2>4
<1>9. CASE UNCHANGED vars
  BY <1>9 DEF vars
<1> QED
  BY <1>1, <1>2, <1>3, <1>4, <1>5, <1>6, <1>7, <1>8, <1>9
     DEF Next, HostProgress, LoopProgress

\* Every step keeps the lock, and the Thread objects enough.
LEMMA LockInductive ==
  ASSUME TypeOK, LockInv, [Next]_vars
  PROVE  LockInv'
<1> USE DEF TypeOK
<1>a. ASSUME UNCHANGED <<lock, batch>>, \A l \in Loop : loop'[l] = "tick" <=> loop[l] = "tick",
             Cardinality(Creators') <= Cardinality(Unused')
      PROVE  LockInv'
  BY <1>a DEF LockInv, Creators, Unused
<1>b. Cardinality(Creators) <= Cardinality(Unused)
  BY DEF LockInv, Creators, Unused
<1>1. ASSUME NEW h \in Host, Start(h) PROVE LockInv'
  <2>1. Creators' = Creators \cup {h} /\ h \notin Creators /\ Unused' = Unused
    BY <1>1 DEF Start, Creators, Unused
  <2>2. Cardinality(Creators') = Cardinality(Creators) + 1
    BY <2>1, Counts, FS_AddElement
  <2>3. Cardinality(Unused) > Cardinality(Creators)
    BY <1>1 DEF Start, Creators, Unused
  <2>4. Cardinality(Creators') <= Cardinality(Unused')
    BY <2>1, <2>2, <2>3, Counts
  <2> QED
    BY <1>1, <1>a, <2>4 DEF Start
<1>2. ASSUME NEW h \in Host, CreateThread(h) PROVE LockInv'
  <2>1. thread' \in Unused
    BY <1>2, SomeUnused DEF CreateThread
  <2>2. /\ Creators' = Creators \ {h} /\ h \in Creators
        /\ Unused' = Unused \ {thread'}
    BY <1>2, <2>1 DEF CreateThread, Creators, Unused
  <2>3. Cardinality(Creators') = Cardinality(Creators) - 1
    BY <2>2, Counts, FS_RemoveElement
  <2>4. Cardinality(Unused') = Cardinality(Unused) - 1
    BY <2>1, <2>2, Counts, FS_RemoveElement
  <2>5. Cardinality(Creators') <= Cardinality(Unused')
    BY <1>b, <2>3, <2>4, Counts
  <2>6. \A l \in Loop : loop'[l] = "tick" <=> loop[l] = "tick"
    BY <1>2, <2>1 DEF CreateThread, Unused
  <2> QED
    BY <1>2, <1>a, <2>5, <2>6 DEF CreateThread
<1>3. ASSUME NEW h \in Host,
             \/ LaunchThread(h) \/ Stop(h) \/ StopChecks(h) \/ StopJoined(h) \/ StopForgets(h)
             \/ \E j \in Job : AddJob(h, j)
      PROVE  LockInv'
  <2>1. Creators' = Creators /\ Unused' = Unused
    BY <1>3 DEF LaunchThread, Stop, StopChecks, StopJoined, StopForgets, AddJob, Creators, Unused
  <2>2. \A l \in Loop : loop'[l] = "tick" <=> loop[l] = "tick"
    BY <1>3 DEF LaunchThread, Stop, StopChecks, StopJoined, StopForgets, AddJob
  <2>3. UNCHANGED <<lock, batch>>
    BY <1>3 DEF LaunchThread, Stop, StopChecks, StopJoined, StopForgets, AddJob
  <2> QED
    BY <1>a, <1>b, <2>1, <2>2, <2>3
<1>4. ASSUME NEW j \in Job, Cancel(j) \/ TimePasses(j) PROVE LockInv'
  <2>1. UNCHANGED <<lock, batch, loop, pc>>
    BY <1>4 DEF Cancel, TimePasses
  <2>2. Creators' = Creators /\ Unused' = Unused
    BY <2>1 DEF Creators, Unused
  <2> QED
    BY <1>a, <1>b, <2>1, <2>2
<1>5. ASSUME NEW l \in Loop, LoopProgress(l) PROVE LockInv'
  <2>1. Creators' = Creators /\ Unused' = Unused
    BY <1>5 DEF LoopProgress, LoopEnds, TickBegins, Spawns, Dispatch, TickDies, TickEnds, LockInv,
              Creators, Unused
  <2>2. /\ \A k \in Loop : lock' = k <=> loop'[k] = "tick"
        /\ lock' = NoLoop => batch' = {}
    BY <1>5, ConstantsAssumption
       DEF LoopProgress, LoopEnds, TickBegins, Spawns, Dispatch, TickDies, TickEnds, LockInv
  <2> QED
    BY <1>b, <2>1, <2>2 DEF LockInv, Creators, Unused
<1>6. CASE UNCHANGED vars
  BY <1>6 DEF vars, LockInv
<1> QED
  BY <1>1, <1>2, <1>3, <1>4, <1>5, <1>6, ConstantsAssumption DEF Next, HostProgress
-----------------------------------------------------------------------------
(* Jobs.                                                                   *)

\* Every step keeps JobsInv, and with it what is promised of the jobs.
LEMMA JobsInductive ==
  ASSUME TypeOK, LockInv, JobsInv, OneShotRunsOnce, NoJobLost, [Next]_vars
  PROVE  JobsInv' /\ OneShotRunsOnce' /\ NoJobLost'
<1> DEFINE Kept == JobsInv /\ OneShotRunsOnce /\ NoJobLost
<1> SUFFICES Kept'
  OBVIOUS
<1> USE DEF TypeOK, JobsInv, OneShotRunsOnce, NoJobLost
<1>0. MaxRuns \in Nat \ {0} /\ OneShot \subseteq Job
  BY ConstantsAssumption
<1>1. CASE UNCHANGED jobVars
  BY <1>1
<1>2. ASSUME NEW h \in Host, NEW j \in Job, AddJob(h, j) PROVE Kept'
  BY <1>0, <1>2 DEF AddJob
<1>3. ASSUME NEW j \in Job, Cancel(j) PROVE Kept'
  BY <1>3 DEF Cancel
<1>4. ASSUME NEW j \in Job, TimePasses(j) PROVE Kept'
  BY <1>0, <1>4 DEF TimePasses
<1>5. ASSUME NEW l \in Loop, TickBegins(l) PROVE Kept'
  <2>1. batch = {}
    BY <1>5 DEF TickBegins, LockInv
  <2> QED
    BY <1>0, <1>5, <2>1 DEF TickBegins
<1>6. ASSUME NEW l \in Loop, NEW j \in Job, Dispatch(l, j) PROVE Kept'
  <2>1. /\ j \in batch /\ batch' = batch \ {j} /\ j \notin jobs
        /\ runs' = [runs EXCEPT ![j] = @ + 1]
        /\ next[j] = "due" /\ UNCHANGED cancelled /\ late[j] = 0
    BY <1>6 DEF Dispatch, Spawns
  <2>2. CASE j \in OneShot
    BY <1>0, <1>6, <2>1, <2>2 DEF Dispatch, Spawns
  <2>3. CASE j \notin OneShot
    BY <1>0, <1>6, <2>1, <2>3 DEF Dispatch, Spawns
  <2> QED
    BY <2>2, <2>3
<1>10. ASSUME NEW l \in Loop, NEW j \in Job, TickDies(l, j) PROVE Kept'
  <2>1. /\ j \in batch /\ batch' = {} /\ lost' = lost \cup batch /\ j \notin jobs \cup OneShot
        /\ runs' = [runs EXCEPT ![j] = @ + 1]
        /\ next[j] = "due" /\ UNCHANGED cancelled /\ late[j] = 0
    BY <1>10 DEF TickDies, Spawns
  <2>2. CASE UNCHANGED <<jobs, next>>
    BY <1>0, <1>10, <2>1, <2>2 DEF TickDies, Spawns
  <2>3. CASE jobs' = jobs \cup {j} /\ next' = [next EXCEPT ![j] = "none"]
    BY <1>0, <1>10, <2>1, <2>3 DEF TickDies, Spawns
  <2> QED
    BY <1>10, <2>2, <2>3 DEF TickDies
<1>7. ASSUME NEW h \in Host, Start(h) \/ Stop(h) \/ HostProgress(h) PROVE UNCHANGED jobVars
  BY <1>7 DEF Start, Stop, HostProgress, CreateThread, LaunchThread, StopChecks, StopJoined,
              StopForgets
<1>8. ASSUME NEW l \in Loop, LoopEnds(l) \/ TickEnds(l) PROVE UNCHANGED jobVars
  BY <1>8 DEF LoopEnds, TickEnds
<1>9. UNCHANGED vars => UNCHANGED jobVars
  BY DEF vars
<1> QED
  BY <1>1, <1>2, <1>3, <1>4, <1>5, <1>6, <1>7, <1>8, <1>9, <1>10, ConstantsAssumption
     DEF Next, LoopProgress

(* Jobs are neither lost nor run twice, by any number of hosts and loops.  *)
THEOREM JobsCorrect == Spec => [](JobsKept /\ LockInv /\ JobsInv)
<1> DEFINE IInv == TypeOK /\ LockInv /\ JobsInv /\ OneShotRunsOnce /\ NoJobLost
<1>1. Init => IInv
  <2> SUFFICES ASSUME Init PROVE IInv
    OBVIOUS
  <2>1. Creators = {}
    BY DEF Init, Creators
  <2>2. LockInv
    BY <2>1, Counts, FS_EmptySet, ConstantsAssumption DEF Init, LockInv, Creators, Unused
  <2>3. TypeOK
    <3>1. 0 \in 0..MaxRuns
      BY ConstantsAssumption
    <3> QED
      BY <3>1 DEF Init, TypeOK
  <2>4. JobsInv /\ OneShotRunsOnce /\ NoJobLost
    BY ConstantsAssumption DEF Init, JobsInv, OneShotRunsOnce, NoJobLost
  <2> QED
    BY <2>2, <2>3, <2>4
<1>2. IInv /\ [Next]_vars => IInv'
  BY TypeInductive, LockInductive, JobsInductive
<1>3. IInv => JobsKept /\ LockInv /\ JobsInv
  BY DEF JobsKept
<1> QED
  BY <1>1, <1>2, <1>3, PTL DEF Spec

(* A job is spawned once at most after its cancel() returned, however many *)
(* loops are alive: cancel() is late by one tick and no more.              *)
THEOREM SpawnedOnceAfterCancel == Spec => []DroppedByNextTick
<1>1. JobsKept /\ JobsInv => DroppedByNextTick
  BY ConstantsAssumption DEF JobsKept, TypeOK, JobsInv, DroppedByNextTick
<1> QED
  BY <1>1, JobsCorrect, PTL

-----------------------------------------------------------------------------
(* The loop of one host.                                                   *)

\* Every step keeps HostInv.
LEMMA HostInductive ==
  ASSUME TypeOK, LockInv, HostInv, [Next]_vars
  PROVE  HostInv'
<1> USE DEF TypeOK
<1>1. SUFFICES ASSUME NEW h \in Host, user' = {h}
               PROVE  /\ \A g \in Host \ {h} : pc'[g] = "idle"
                      /\ Alive' \subseteq {thread'}
                      /\ pc'[h] \in {"create", "launch", "forget"} => Alive' = {}
  BY DEF HostInv
<1>2. user = {h}
  BY <1>1 DEF Next, vars, HostProgress, LoopProgress, Start, Stop, CreateThread, LaunchThread,
              StopChecks, StopJoined, StopForgets, AddJob, Cancel, TimePasses, LoopEnds,
              TickBegins, Spawns, Dispatch, TickDies, TickEnds
<1>3. /\ \A g \in Host \ {h} : pc[g] = "idle"
      /\ Alive \subseteq {thread}
      /\ pc[h] \in {"create", "launch", "forget"} => Alive = {}
  BY <1>2 DEF HostInv
<1>4. CASE Start(h)
  BY <1>3, <1>4 DEF Start, Alive
<1>5. CASE Stop(h)
  BY <1>3, <1>5 DEF Stop, Alive
<1>6. CASE CreateThread(h)
  BY <1>3, <1>6 DEF CreateThread, Alive
<1>7. CASE LaunchThread(h)
  BY <1>3, <1>7 DEF LaunchThread, Alive
<1>8. CASE StopChecks(h)
  BY <1>3, <1>8 DEF StopChecks, Alive
<1>9. CASE StopJoined(h)
  BY <1>3, <1>9 DEF StopJoined, Alive
<1>10. CASE StopForgets(h)
  BY <1>3, <1>10 DEF StopForgets, Alive
<1>11. CASE \E j \in Job : AddJob(h, j) \/ Cancel(j) \/ TimePasses(j)
  BY <1>3, <1>11 DEF AddJob, Cancel, TimePasses, Alive
<1>12. ASSUME NEW l \in Loop, LoopProgress(l)
       PROVE  UNCHANGED <<thread, pc>> /\ Alive' \subseteq Alive
  BY <1>12, ConstantsAssumption
     DEF LoopProgress, LoopEnds, TickBegins, Spawns, Dispatch, TickDies, TickEnds, Alive,
         LockInv
<1>13. CASE UNCHANGED vars
  BY <1>3, <1>13 DEF vars, Alive
<1> QED
  BY <1>2, <1>3, <1>4, <1>5, <1>6, <1>7, <1>8, <1>9, <1>10, <1>11, <1>12, <1>13
     DEF Next, HostProgress

(* BUG-014: with one host, whatever start() and stop() calls came before,  *)
(* timed out or not, a loop that is alive is the one in self._thread.      *)
THEOREM LoopTracked == Spec => []LoopIsTracked
<1>1. Init => HostInv
  BY DEF Init, HostInv, Alive
<1>2. TypeOK /\ HostInv => LoopIsTracked
  <2> SUFFICES ASSUME TypeOK, HostInv, Cardinality(user) = 1 PROVE Alive \subseteq {thread}
    BY DEF LoopIsTracked
  <2>1. user \subseteq Host /\ IsFiniteSet(user)
    BY FS_Subset, ConstantsAssumption DEF TypeOK
  <2>2. PICK h : user = {h}
    BY <2>1, FS_Singleton
  <2> QED
    BY <2>1, <2>2 DEF HostInv
<1>3. JobsKept => TypeOK
  BY DEF JobsKept
<1> QED
  BY <1>1, <1>2, <1>3, JobsCorrect, HostInductive, PTL DEF Spec
=============================================================================
