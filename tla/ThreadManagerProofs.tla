------------------------ MODULE ThreadManagerProofs ------------------------
(* Theorems about ThreadManager for any number of submitters, closers and  *)
(* workers.                                                                *)
EXTENDS ThreadManager, FiniteSetTheorems, TLAPS

USE DEF locks, pool

-----------------------------------------------------------------------------
(* Every variable holds a value of its kind.                               *)
THEOREM TypeCorrect == PoolSpec => []PoolTypeOK
<1>1. PoolInit => PoolTypeOK
  BY DEF PoolInit, PoolTypeOK
<1>2. PoolTypeOK /\ [PoolNext]_poolVars => PoolTypeOK'
  <2> SUFFICES ASSUME PoolTypeOK, [PoolNext]_poolVars PROVE PoolTypeOK'
    OBVIOUS
  <2> USE DEF PoolTypeOK
  <2>1. ASSUME NEW j \in Job, SubmitCounts(j) PROVE PoolTypeOK'
    BY <2>1 DEF SubmitCounts
  <2>2. ASSUME NEW j \in Job, ExecutorAccepts(j) \/ ExecutorRefuses(j) PROVE PoolTypeOK'
    BY <2>2 DEF ExecutorAccepts, ExecutorRefuses
  <2>3. ASSUME NEW j \in Job, AttachCallback(j) PROVE PoolTypeOK'
    BY <2>3 DEF AttachCallback
  <2>4. ASSUME NEW j \in Job, SubmitterCallback(j) \/ WorkerCallback(j) PROVE PoolTypeOK'
    BY <2>4 DEF SubmitterCallback, WorkerCallback, OnDone
  <2>5. ASSUME NEW j \in Job, WorkerTakesJob(j) \/ WorkerStarts(j) \/ TaskEnds(j) PROVE PoolTypeOK'
    BY <2>5 DEF WorkerTakesJob, WorkerStarts, TaskEnds
  <2>6. ASSUME NEW c \in Closer, PoolShutdown(c) \/ QueueDrained(c) \/ Joined(c) PROVE PoolTypeOK'
    BY <2>6 DEF PoolShutdown, QueueDrained, Joined
  <2>7. ASSUME NEW c \in Closer, NEW j \in Job, CancelQueued(c, j) PROVE PoolTypeOK'
    BY <2>7 DEF CancelQueued
  <2>8. ASSUME NEW c \in Closer, CloserCallback(c) PROVE PoolTypeOK'
    BY <2>8 DEF CloserCallback, OnDone
  <2>9. CASE UNCHANGED poolVars
    BY <2>9 DEF poolVars
  <2> QED
    BY <2>1, <2>2, <2>3, <2>4, <2>5, <2>6, <2>7, <2>8, <2>9
       DEF PoolNext, SubmitProgress, WorkerProgress, CloserProgress, Terminated
<1> QED
  BY <1>1, <1>2, PTL DEF PoolSpec

-----------------------------------------------------------------------------
(* Where each job is.                                                      *)

\* Every step keeps PlaceInv.
LEMMA PlaceInductive ==
  ASSUME PoolTypeOK, PlaceInv, [PoolNext]_poolVars
  PROVE  PlaceInv'
<1> USE DEF PoolTypeOK, PlaceInv
<1>1. ASSUME NEW j \in Job, SubmitCounts(j) PROVE PlaceInv'
  BY <1>1 DEF SubmitCounts
<1>2. ASSUME NEW j \in Job, ExecutorAccepts(j) PROVE PlaceInv'
  BY <1>2 DEF ExecutorAccepts
<1>3. ASSUME NEW j \in Job, ExecutorRefuses(j) PROVE PlaceInv'
  BY <1>3 DEF ExecutorRefuses
<1>4. ASSUME NEW j \in Job, AttachCallback(j) PROVE PlaceInv'
  BY <1>4 DEF AttachCallback
<1>5. ASSUME NEW j \in Job, SubmitterCallback(j) PROVE PlaceInv'
  BY <1>5 DEF SubmitterCallback, OnDone
<1>6. ASSUME NEW j \in Job, WorkerCallback(j) PROVE PlaceInv'
  BY <1>6 DEF WorkerCallback, OnDone
<1>7. ASSUME NEW j \in Job, WorkerTakesJob(j) \/ WorkerStarts(j) PROVE PlaceInv'
  BY <1>7 DEF WorkerTakesJob, WorkerStarts, Queued
<1>8. ASSUME NEW j \in Job, TaskEnds(j) PROVE PlaceInv'
  BY <1>8 DEF TaskEnds
<1>9. ASSUME NEW c \in Closer, PoolShutdown(c) PROVE PlaceInv'
  BY <1>9, ConstantsAssumption DEF PoolShutdown
<1>10. ASSUME NEW c \in Closer, NEW j \in Job, CancelQueued(c, j) PROVE PlaceInv'
  BY <1>10 DEF CancelQueued, Queued
<1>11. ASSUME NEW c \in Closer, CloserCallback(c) PROVE PlaceInv'
  BY <1>11 DEF CloserCallback, OnDone
<1>12. ASSUME NEW c \in Closer, QueueDrained(c) PROVE PlaceInv'
  BY <1>12, ConstantsAssumption DEF QueueDrained
<1>13. ASSUME NEW c \in Closer, Joined(c) PROVE PlaceInv'
  BY <1>13 DEF Joined
<1>14. CASE UNCHANGED poolVars
  BY <1>14 DEF poolVars
<1> QED
  BY <1>1, <1>2, <1>3, <1>4, <1>5, <1>6, <1>7, <1>8, <1>9, <1>10, <1>11, <1>12, <1>13, <1>14
     DEF PoolNext, SubmitProgress, WorkerProgress, CloserProgress, Terminated

(* A job's future, callback and worker are where its submit() says, and    *)
(* only one closer at a time cancels.                                      *)
THEOREM PlacesCorrect == PoolSpec => []PlaceInv
<1>1. PoolInit => PlaceInv
  BY DEF PoolInit, PlaceInv
<1> QED
  BY <1>1, TypeCorrect, PlaceInductive, PTL DEF PoolSpec

-----------------------------------------------------------------------------
(* shutdown().                                                             *)

\* Once no job is accepted, no step adds one to the queue, and what a worker
\* takes comes from there.
LEMMA ClosedFrame ==
  ASSUME PoolTypeOK, PlaceInv, [PoolNext]_poolVars, ~accepting
  PROVE  /\ ~accepting'
         /\ Queued' \subseteq Queued
         /\ Queued = {} => Busy' \subseteq Busy
<1> USE DEF PoolTypeOK, PlaceInv, Queued, Busy
<1>1. ASSUME NEW j \in Job, SubmitCounts(j) \/ SubmitProgress(j)
      PROVE  ~accepting' /\ Queued' \subseteq Queued /\ Busy' \subseteq Busy
  BY <1>1 DEF SubmitCounts, SubmitProgress, ExecutorAccepts, ExecutorRefuses,
              AttachCallback, SubmitterCallback, OnDone
<1>2. ASSUME NEW j \in Job, WorkerTakesJob(j)
      PROVE  ~accepting' /\ Queued' \subseteq Queued /\ Queued # {}
  BY <1>2 DEF WorkerTakesJob
<1>3. ASSUME NEW j \in Job, WorkerStarts(j) \/ WorkerCallback(j) \/ TaskEnds(j)
      PROVE  ~accepting' /\ Queued' \subseteq Queued /\ Busy' \subseteq Busy
  BY <1>3 DEF WorkerStarts, WorkerCallback, TaskEnds, OnDone
<1>4. ASSUME NEW c \in Closer, PoolShutdown(c) \/ CloserProgress(c)
      PROVE  ~accepting' /\ Queued' \subseteq Queued /\ Busy' \subseteq Busy
  BY <1>4 DEF PoolShutdown, CloserProgress, CancelQueued, CloserCallback, QueueDrained,
              Joined, OnDone
<1>5. UNCHANGED poolVars => ~accepting' /\ Queued' \subseteq Queued /\ Busy' \subseteq Busy
  BY DEF poolVars
<1> QED
  BY <1>1, <1>2, <1>3, <1>4, <1>5 DEF PoolNext, WorkerProgress, Terminated

\* What a closer's place says when it changes.
LEMMA CloserMoves ==
  ASSUME PoolTypeOK, [PoolNext]_poolVars, NEW c \in Closer, cpc'[c] # cpc[c]
  PROVE  /\ cpc[c] = "idle" => ~accepting'
         /\ cpc'[c] \in {"joining", "returned"} => Queued' = {} /\ cpc[c] # "idle"
         /\ cpc'[c] # "idle"
         /\ c \in Waiting /\ cpc'[c] = "returned" => Busy' = {}
<1> USE DEF PoolTypeOK, Queued, Busy
<1>1. ASSUME NEW j \in Job,
             SubmitCounts(j) \/ SubmitProgress(j) \/ WorkerProgress(j) \/ TaskEnds(j)
      PROVE  cpc' = cpc
  BY <1>1 DEF SubmitCounts, SubmitProgress, ExecutorAccepts, ExecutorRefuses,
              AttachCallback, SubmitterCallback, OnDone, WorkerProgress, WorkerTakesJob,
              WorkerStarts, WorkerCallback, TaskEnds
<1>2. ASSUME NEW d \in Closer, PoolShutdown(d) \/ CloserProgress(d)
      PROVE  /\ cpc[c] = "idle" => ~accepting'
             /\ cpc'[c] \in {"joining", "returned"} => Queued' = {} /\ cpc[c] # "idle"
             /\ cpc'[c] # "idle"
             /\ c \in Waiting /\ cpc'[c] = "returned" => Busy' = {}
  BY <1>2 DEF PoolShutdown, CloserProgress, CancelQueued, CloserCallback, QueueDrained,
              Joined, OnDone
<1>3. UNCHANGED poolVars => cpc' = cpc
  BY DEF poolVars
<1> QED
  BY <1>1, <1>2, <1>3 DEF PoolNext, Terminated

\* Every step keeps ClosedInv.
LEMMA ClosedInductive ==
  ASSUME PoolTypeOK, PlaceInv, ClosedInv, [PoolNext]_poolVars
  PROVE  ClosedInv'
<1> SUFFICES ASSUME NEW c \in Closer
             PROVE  /\ cpc'[c] # "idle" => ~accepting'
                    /\ cpc'[c] \in {"joining", "returned"} => Queued' = {}
                    /\ c \in Waiting /\ cpc'[c] = "returned" => Busy' = {}
  BY DEF ClosedInv
<1>1. CASE cpc'[c] # cpc[c]
  BY <1>1, CloserMoves, ClosedFrame DEF ClosedInv
<1>2. CASE cpc'[c] = cpc[c]
  BY <1>2, ClosedFrame DEF ClosedInv
<1> QED
  BY <1>1, <1>2

(* Once a shutdown() has returned the threads take no other job, whichever *)
(* submissions were under way; once one that waits has returned, none runs *)
(* or starts.                                                              *)
THEOREM NothingTakenLate == PoolSpec => NoneTakenAfterShutdown
<1>1. PoolInit => ClosedInv
  BY DEF PoolInit, ClosedInv
<1>2. PoolTypeOK /\ PlaceInv /\ ClosedInv /\ ClosedInv' /\ PoolTypeOK' /\ [PoolNext]_poolVars
        => [\A c \in Closer, j \in Job :
              /\ cpc[c] = "returned" /\ worker[j] = "idle" => worker'[j] = "idle"
              /\ c \in Waiting /\ cpc'[c] = "returned"
                   => worker'[j] \in {"idle", "gone"}]_poolVars
  <2> SUFFICES ASSUME PoolTypeOK, PlaceInv, ClosedInv, ClosedInv', PoolTypeOK', [PoolNext]_poolVars,
                      NEW c \in Closer, NEW j \in Job
               PROVE  /\ cpc[c] = "returned" /\ worker[j] = "idle" => worker'[j] = "idle"
                      /\ c \in Waiting /\ cpc'[c] = "returned"
                           => worker'[j] \in {"idle", "gone"}
    OBVIOUS
  <2>1. ASSUME cpc[c] = "returned", worker[j] = "idle" PROVE worker'[j] = "idle"
    <3>1. Queued = {}
      BY <2>1 DEF ClosedInv
    <3>2. ASSUME NEW i \in Job,
                 SubmitCounts(i) \/ SubmitProgress(i) \/ WorkerProgress(i) \/ TaskEnds(i)
          PROVE  worker'[j] = "idle"
      BY <2>1, <3>1, <3>2 DEF SubmitCounts, SubmitProgress, ExecutorAccepts,
         ExecutorRefuses, AttachCallback, SubmitterCallback, OnDone, WorkerProgress,
         WorkerTakesJob, WorkerStarts, WorkerCallback, TaskEnds, PoolTypeOK
    <3>3. ASSUME NEW d \in Closer, PoolShutdown(d) \/ CloserProgress(d) PROVE worker' = worker
      BY <3>3 DEF PoolShutdown, CloserProgress, CancelQueued, CloserCallback, QueueDrained,
                  Joined, OnDone
    <3>4. UNCHANGED poolVars => worker' = worker
      BY DEF poolVars
    <3> QED
      BY <2>1, <3>2, <3>3, <3>4 DEF PoolNext, Terminated
  <2>2. ASSUME c \in Waiting, cpc'[c] = "returned" PROVE worker'[j] \in {"idle", "gone"}
    BY <2>2 DEF ClosedInv, Busy, PoolTypeOK
  <2> QED
    BY <2>1, <2>2
<1> QED
  BY <1>1, <1>2, TypeCorrect, PlacesCorrect, ClosedInductive, PTL
     DEF PoolSpec, NoneTakenAfterShutdown

-----------------------------------------------------------------------------
(* stats(): the counters.                                                  *)

Closing == {c \in Closer : cpc[c] = "callback"}

\* There are finitely many jobs to count, and one closer at most.
LEMMA CountedFinite ==
  ASSUME PlaceInv
  PROVE  /\ IsFiniteSet(Uncounted) /\ Cardinality(Uncounted) \in Nat
         /\ IsFiniteSet(Closing) /\ Cardinality(Closing) \in Nat
<1>1. IsFiniteSet(Uncounted)
  BY FS_Subset, ConstantsAssumption DEF Uncounted
<1>2. Closing \subseteq {shutdownLock}
  BY DEF Closing, PlaceInv
<1>3. IsFiniteSet(Closing)
  BY <1>2, FS_Subset, FS_Singleton
<1> QED
  BY <1>1, <1>3, FS_CardinalityType

\* Steps that count nothing and release nothing.
LEMMA CountFrame ==
  ASSUME InFlightCounts, Uncounted' = Uncounted, Closing' = Closing,
         UNCHANGED <<submitted, completed>>
  PROVE  InFlightCounts'
BY DEF InFlightCounts, Closing

\* Every step keeps the counters equal to the jobs they stand for.
LEMMA CountInductive ==
  ASSUME PoolTypeOK, PlaceInv, InFlightCounts, [PoolNext]_poolVars
  PROVE  InFlightCounts'
<1> USE DEF PoolTypeOK, PlaceInv
<1>1. ASSUME NEW j \in Job, SubmitCounts(j) PROVE InFlightCounts'
  <2>1. Uncounted' = Uncounted \cup {j} /\ j \notin Uncounted /\ Closing' = Closing
    BY <1>1 DEF SubmitCounts, Uncounted, Closing
  <2>2. Cardinality(Uncounted') = Cardinality(Uncounted) + 1
    BY <2>1, CountedFinite, FS_AddElement
  <2>3. submitted' = submitted + 1 /\ completed' = completed
    BY <1>1 DEF SubmitCounts
  <2>4. Cardinality(Closing') = Cardinality(Closing)
    BY <2>1
  <2>5. submitted - completed = Cardinality(Uncounted) + Cardinality(Closing)
    BY DEF InFlightCounts, Closing
  <2>6. submitted' - completed' = Cardinality(Uncounted') + Cardinality(Closing')
    <3>1. /\ submitted \in Nat /\ completed \in Nat
          /\ Cardinality(Uncounted) \in Nat /\ Cardinality(Closing) \in Nat
      BY CountedFinite
    <3> HIDE DEF PoolTypeOK, PlaceInv
    <3> QED
      BY <2>2, <2>3, <2>4, <2>5, <3>1
  <2> QED
    BY <2>6 DEF InFlightCounts, Closing
<1>2. ASSUME NEW j \in Job,
             \/ ExecutorAccepts(j) \/ ExecutorRefuses(j) \/ AttachCallback(j)
             \/ WorkerTakesJob(j) \/ WorkerStarts(j) \/ TaskEnds(j)
      PROVE  InFlightCounts'
  <2>1. Closing' = Closing /\ UNCHANGED <<submitted, completed>>
    BY <1>2 DEF ExecutorAccepts, ExecutorRefuses, AttachCallback, WorkerTakesJob,
                WorkerStarts, TaskEnds, Closing
  <2>2. \A i \in Job : i \in Uncounted' <=> i \in Uncounted
    <3>1. CASE ExecutorAccepts(j) \/ ExecutorRefuses(j)
      BY <3>1 DEF ExecutorAccepts, ExecutorRefuses, Uncounted
    <3>2. CASE AttachCallback(j)
      BY <3>2 DEF AttachCallback, Uncounted
    <3>3. CASE WorkerTakesJob(j)
      BY <3>3 DEF WorkerTakesJob, Queued, Uncounted
    <3>4. CASE WorkerStarts(j)
      BY <3>4 DEF WorkerStarts, Uncounted
    <3>5. CASE TaskEnds(j)
      BY <3>5 DEF TaskEnds, Uncounted
    <3> QED
      BY <1>2, <3>1, <3>2, <3>3, <3>4, <3>5
  <2>3. Uncounted' = Uncounted
    BY <2>2 DEF Uncounted
  <2> QED
    BY <2>1, <2>3, CountFrame
<1>3. ASSUME NEW j \in Job, SubmitterCallback(j) \/ WorkerCallback(j) PROVE InFlightCounts'
  <2>1. Uncounted' = Uncounted \ {j} /\ j \in Uncounted /\ Closing' = Closing
    BY <1>3 DEF SubmitterCallback, WorkerCallback, OnDone, Uncounted, Closing
  <2>2. Cardinality(Uncounted') = Cardinality(Uncounted) - 1
    BY <2>1, CountedFinite, FS_RemoveElement
  <2>3. submitted' = submitted /\ completed' = completed + 1
    BY <1>3 DEF SubmitterCallback, WorkerCallback, OnDone
  <2>4. Cardinality(Closing') = Cardinality(Closing)
    BY <2>1
  <2>5. submitted - completed = Cardinality(Uncounted) + Cardinality(Closing)
    BY DEF InFlightCounts, Closing
  <2>6. submitted' - completed' = Cardinality(Uncounted') + Cardinality(Closing')
    BY <2>2, <2>3, <2>4, <2>5, CountedFinite
  <2> QED
    BY <2>6 DEF InFlightCounts, Closing
<1>4. ASSUME NEW c \in Closer, NEW j \in Job, CancelQueued(c, j), j \in attached
      PROVE  InFlightCounts'
  <2>1. /\ Uncounted' = Uncounted \ {j} /\ j \in Uncounted
        /\ Closing' = Closing \cup {c} /\ c \notin Closing
    BY <1>4 DEF CancelQueued, Uncounted, Closing
  <2>2. Cardinality(Uncounted') = Cardinality(Uncounted) - 1
    BY <2>1, CountedFinite, FS_RemoveElement
  <2>3. Cardinality(Closing') = Cardinality(Closing) + 1
    BY <2>1, CountedFinite, FS_AddElement
  <2>4. UNCHANGED <<submitted, completed>>
    BY <1>4 DEF CancelQueued
  <2>5. submitted - completed = Cardinality(Uncounted) + Cardinality(Closing)
    BY DEF InFlightCounts, Closing
  <2>6. submitted' - completed' = Cardinality(Uncounted') + Cardinality(Closing')
    BY <2>2, <2>3, <2>4, <2>5, CountedFinite
  <2> QED
    BY <2>6 DEF InFlightCounts, Closing
<1>5. ASSUME NEW c \in Closer, CloserCallback(c) PROVE InFlightCounts'
  <2>1. Uncounted' = Uncounted /\ Closing' = Closing \ {c} /\ c \in Closing
    BY <1>5 DEF CloserCallback, OnDone, Uncounted, Closing
  <2>2. Cardinality(Closing') = Cardinality(Closing) - 1
    BY <2>1, CountedFinite, FS_RemoveElement
  <2>3. submitted' = submitted /\ completed' = completed + 1
    BY <1>5 DEF CloserCallback, OnDone
  <2> QED
    BY <2>1, <2>2, <2>3, CountedFinite DEF InFlightCounts, Closing
<1>6. ASSUME NEW c \in Closer,
             \/ PoolShutdown(c) \/ QueueDrained(c) \/ Joined(c)
             \/ \E j \in Job : CancelQueued(c, j) /\ j \notin attached
      PROVE  InFlightCounts'
  <2>1. Uncounted' = Uncounted /\ Closing' = Closing /\ UNCHANGED <<submitted, completed>>
    BY <1>6 DEF PoolShutdown, QueueDrained, Joined, CancelQueued, Uncounted, Closing
  <2> QED
    BY <2>1, CountFrame
<1>7. CASE UNCHANGED poolVars
  BY <1>7, CountFrame DEF poolVars, Uncounted, Closing
<1> QED
  BY <1>1, <1>2, <1>3, <1>4, <1>5, <1>6, <1>7
     DEF PoolNext, SubmitProgress, WorkerProgress, CloserProgress, Terminated

(* submitted - completed is the number of jobs counted in and not yet out, *)
(* whichever of the three kinds of thread counts a job out, for any number *)
(* of submitters, workers and closers.                                     *)
THEOREM CountersAreExact == PoolSpec => []InFlightCounts
<1>1. PoolInit => InFlightCounts
  <2> SUFFICES ASSUME PoolInit PROVE InFlightCounts
    OBVIOUS
  <2>1. Uncounted = {} /\ Closing = {}
    BY DEF PoolInit, Uncounted, Closing
  <2> QED
    BY <2>1, FS_EmptySet DEF PoolInit, InFlightCounts, Closing
<1> QED
  BY <1>1, TypeCorrect, PlacesCorrect, CountInductive, PTL DEF PoolSpec
=============================================================================
