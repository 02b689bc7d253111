---------------------------- MODULE EngineProofs ----------------------------
(***************************************************************************)
(* Proofs about module Engine, for any extensions, services and callers:   *)
(* each readiness callback is called once; the extension manager's lists   *)
(* are in dependency order, whoever calls it; and where stop() is called   *)
(* between boots, the lifecycle's state is true of the engine and          *)
(* extensions are started in the order of what they require.               *)
(***************************************************************************)
EXTENDS Engine, FiniteSetTheorems, TLAPS

\* Where a waiter's callback is: still with its when_ready(), once in one of
\* the two lists, or called.
Listed(w) == \/ \E i \in 1..Len(waiting) : waiting[i] = w
             \/ \E i \in 1..Len(batch) : batch[i] = w

WaitTypeOK ==
  /\ waiting \in Seq(Waiter) /\ batch \in Seq(Waiter)
  /\ wpc \in [Waiter -> {"idle", "append", "done"}]
  /\ ran \in [Waiter -> Nat]

OnceInv ==
  /\ bpc # "callbacks" => batch = <<>>
  /\ \A i, j \in 1..Len(waiting) : waiting[i] = waiting[j] => i = j
  /\ \A i, j \in 1..Len(batch) : batch[i] = batch[j] => i = j
  /\ \A i \in 1..Len(waiting), j \in 1..Len(batch) : waiting[i] # batch[j]
  /\ \A w \in Waiter : Listed(w) => ran[w] = 0
  /\ \A w \in Waiter : wpc[w] # "done" => ran[w] = 0 /\ ~Listed(w)
  /\ \A w \in Waiter : ran[w] <= 1

WaitInv == WaitTypeOK /\ OnceInv

\* Steps of others: the callbacks stay where they are, and set_ready() does not
\* return before it has called those it took.
LEMMA OthersKeep ==
  ASSUME WaitInv, UNCHANGED waitVars,
         bpc = "callbacks" => bpc' = "callbacks" \/ batch = <<>>
  PROVE  WaitInv'
<1>1. waiting' = waiting /\ batch' = batch /\ wpc' = wpc /\ ran' = ran
  BY DEF waitVars
<1>2. WaitTypeOK'
  BY <1>1 DEF WaitInv, WaitTypeOK
<1>3. \A w : Listed(w)' <=> Listed(w)
  BY <1>1 DEF Listed
<1>4. OnceInv'
  BY <1>1, <1>3 DEF WaitInv, OnceInv
<1> QED
  BY <1>2, <1>4 DEF WaitInv

\* set_ready() takes the list and leaves an empty one.
LEMMA SwapKeeps == ASSUME WaitInv, SwapCallbacks PROVE WaitInv'
<1>1. batch = <<>> /\ batch' = waiting /\ waiting' = <<>> /\ wpc' = wpc /\ ran' = ran
      /\ bpc' = "callbacks"
  BY DEF WaitInv, OnceInv, SwapCallbacks, stopVars, runVars
<1>2. Len(batch) = 0 /\ Len(waiting') = 0
  BY <1>1
<1>3. WaitTypeOK'
  BY <1>1 DEF WaitInv, WaitTypeOK
<1>4. \A w : Listed(w)' => Listed(w)
  BY <1>1, <1>2 DEF Listed
<1>5. OnceInv'
  BY <1>1, <1>2, <1>4 DEF WaitInv, WaitTypeOK, OnceInv
<1> QED
  BY <1>3, <1>5 DEF WaitInv

\* Callbacks are called one by one, until one raises.
LEMMA RunKeeps == ASSUME WaitInv, RunCallbacks PROVE WaitInv'
<1>0. waiting' = waiting /\ wpc' = wpc
  BY DEF RunCallbacks
<1>1. CASE batch = <<>>
  <2>1. UNCHANGED waitVars /\ bpc' = "idle"
    BY <1>0, <1>1 DEF RunCallbacks, waitVars
  <2> QED
    BY <1>1, <2>1, OthersKeep
<1>2. CASE batch # <<>>
  <2>1. batch \in Seq(Waiter) /\ Len(batch) \in Nat /\ Len(batch) >= 1
    BY <1>2 DEF WaitInv, WaitTypeOK
  <2>2. Head(batch) = batch[1] /\ batch[1] \in Waiter /\ 1 \in 1..Len(batch)
    BY <2>1
  <2>3. /\ ran' = [ran EXCEPT ![batch[1]] = @ + 1]
        /\ \/ batch' = Tail(batch) /\ bpc' = bpc
           \/ batch' = <<>> /\ bpc' = "idle"
    BY <1>2, <2>2 DEF RunCallbacks
  <2>4. /\ batch' \in Seq(Waiter)
        /\ \A i \in 1..Len(batch') : i + 1 \in 2..Len(batch) /\ batch'[i] = batch[i + 1]
    <3>1. CASE batch' = <<>>
      BY <3>1
    <3>2. CASE batch' = Tail(batch)
      <4>1. /\ Tail(batch) \in Seq(Waiter) /\ Len(Tail(batch)) = Len(batch) - 1
            /\ \A i \in 1..Len(Tail(batch)) : Tail(batch)[i] = batch[i + 1]
        BY <2>1
      <4> QED
        BY <2>1, <3>2, <4>1
    <3> QED
      BY <2>3, <3>1, <3>2
  <2>5. WaitTypeOK'
    <3>1. ran \in [Waiter -> Nat] /\ ran[batch[1]] \in Nat
      BY <2>2 DEF WaitInv, WaitTypeOK
    <3>2. ran' \in [Waiter -> Nat]
      BY <2>2, <2>3, <3>1
    <3> QED
      BY <1>0, <2>4, <3>2 DEF WaitInv, WaitTypeOK
  <2>6. ran[batch[1]] = 0 /\ wpc[batch[1]] = "done"
    BY <2>2 DEF WaitInv, OnceInv, Listed, WaitTypeOK
  <2>7. ASSUME NEW w, Listed(w)' PROVE Listed(w) /\ w # batch[1]
    <3>1. CASE \E i \in 1..Len(waiting) : waiting[i] = w
      BY <2>2, <3>1 DEF WaitInv, OnceInv, Listed
    <3>2. CASE \E i \in 1..Len(batch') : batch'[i] = w
      <4>1. PICK i \in 1..Len(batch') : batch'[i] = w
        BY <3>2
      <4>2. i + 1 \in 1..Len(batch) /\ i + 1 # 1 /\ batch[i + 1] = w
        BY <2>1, <2>4, <4>1
      <4> QED
        BY <2>2, <4>2 DEF WaitInv, OnceInv, Listed
    <3> QED
      BY <1>0, <2>7, <3>1, <3>2 DEF Listed
  <2>8. \A w \in Waiter : ran'[w] = IF w = batch[1] THEN 1 ELSE ran[w]
    BY <2>3, <2>6 DEF WaitInv, WaitTypeOK
  <2>9. bpc' # "callbacks" => batch' = <<>>
    BY <2>3 DEF RunCallbacks
  <2>10. \A i, j \in 1..Len(batch') : batch'[i] = batch'[j] => i = j
    <3> TAKE i, j \in 1..Len(batch')
    <3>1. i + 1 \in 1..Len(batch) /\ j + 1 \in 1..Len(batch)
          /\ batch'[i] = batch[i + 1] /\ batch'[j] = batch[j + 1]
      BY <2>1, <2>4
    <3>2. batch[i + 1] = batch[j + 1] => i + 1 = j + 1
      BY <3>1 DEF WaitInv, OnceInv
    <3>3. i \in Int /\ j \in Int
      OBVIOUS
    <3> QED
      BY <3>1, <3>2, <3>3
  <2>11. \A i \in 1..Len(waiting'), j \in 1..Len(batch') : waiting'[i] # batch'[j]
    BY <1>0, <2>1, <2>4 DEF WaitInv, OnceInv
  <2>12. OnceInv'
    BY <1>0, <2>6, <2>7, <2>8, <2>9, <2>10, <2>11 DEF WaitInv, OnceInv
  <2> QED
    BY <2>5, <2>12 DEF WaitInv
<1> QED
  BY <1>1, <1>2

\* when_ready() calls at once or appends, each only at its turn.
LEMMA WhenReadyKeeps ==
  ASSUME WaitInv, NEW w \in Waiter, WhenReady(w) \/ WhenReadyAppends(w)
  PROVE  WaitInv'
<1>1. CASE WhenReady(w)
  <2>1. waiting' = waiting /\ batch' = batch /\ bpc' = bpc /\ wpc[w] = "idle"
    BY <1>1 DEF WhenReady, bootVars
  <2>2. \/ ran' = [ran EXCEPT ![w] = @ + 1] /\ wpc' = [wpc EXCEPT ![w] = "done"]
        \/ wpc' = [wpc EXCEPT ![w] = "append"] /\ ran' = ran
    BY <1>1 DEF WhenReady
  <2>3. \A x : Listed(x)' <=> Listed(x)
    BY <2>1 DEF Listed
  <2>4. ran[w] = 0 /\ ~Listed(w)
    BY <2>1 DEF WaitInv, OnceInv
  <2>5. WaitTypeOK'
    <3>1. /\ ran \in [Waiter -> Nat] /\ ran[w] \in Nat
          /\ wpc \in [Waiter -> {"idle", "append", "done"}]
      BY DEF WaitInv, WaitTypeOK
    <3>2. ran' \in [Waiter -> Nat] /\ wpc' \in [Waiter -> {"idle", "append", "done"}]
      BY <2>2, <3>1
    <3> QED
      BY <2>1, <3>2 DEF WaitInv, WaitTypeOK
  <2>6. \A x \in Waiter : x # w => ran'[x] = ran[x] /\ wpc'[x] = wpc[x]
    BY <2>2 DEF WaitInv, WaitTypeOK
  <2>7. \/ ran'[w] = 1 /\ wpc'[w] = "done"
        \/ ran'[w] = 0 /\ wpc'[w] = "append"
    BY <2>2, <2>4 DEF WaitInv, WaitTypeOK
  <2>8. OnceInv'
    BY <2>1, <2>3, <2>4, <2>6, <2>7 DEF WaitInv, OnceInv
  <2> QED
    BY <2>5, <2>8 DEF WaitInv
<1>2. CASE WhenReadyAppends(w)
  <2>1. /\ waiting' = Append(waiting, w) /\ batch' = batch /\ bpc' = bpc /\ ran' = ran
        /\ wpc[w] = "append" /\ wpc' = [wpc EXCEPT ![w] = "done"]
    BY <1>2 DEF WhenReadyAppends, bootVars
  <2>2. /\ waiting' \in Seq(Waiter) /\ Len(waiting) \in Nat /\ Len(waiting') = Len(waiting) + 1
        /\ \A i \in 1..Len(waiting) : waiting'[i] = waiting[i]
        /\ waiting'[Len(waiting) + 1] = w
    BY <2>1 DEF WaitInv, WaitTypeOK
  <2>3. WaitTypeOK'
    BY <2>1, <2>2 DEF WaitInv, WaitTypeOK
  <2>4. ran[w] = 0 /\ ~Listed(w)
    BY <2>1 DEF WaitInv, OnceInv
  <2>5. \A x : Listed(x)' => Listed(x) \/ x = w
    BY <2>1, <2>2 DEF Listed
  <2>6. \A i, j \in 1..Len(waiting') : waiting'[i] = waiting'[j] => i = j
    BY <2>2, <2>4 DEF WaitInv, OnceInv, Listed
  <2>7. \A i \in 1..Len(waiting'), j \in 1..Len(batch') : waiting'[i] # batch'[j]
    BY <2>1, <2>2, <2>4 DEF WaitInv, OnceInv, Listed
  <2>8. \A x \in Waiter : wpc'[x] # "done" => x # w /\ wpc[x] # "done"
    BY <2>1 DEF WaitInv, WaitTypeOK
  <2>9. OnceInv'
    BY <2>1, <2>4, <2>5, <2>6, <2>7, <2>8 DEF WaitInv, OnceInv
  <2> QED
    BY <2>3, <2>9 DEF WaitInv
<1> QED
  BY <1>1, <1>2

\* Every other step of boot() leaves the callbacks alone.
LEMMA BootKeeps == ASSUME WaitInv, BootBegins \/ Boot PROVE WaitInv'
<1>1. CASE SwapCallbacks
  BY <1>1, SwapKeeps
<1>2. CASE RunCallbacks
  BY <1>2, RunKeeps
<1>3. CASE \/ BootBegins \/ AsyncStarts \/ ExtensionsBegin \/ ExtensionsEnd \/ HostedStart
           \/ SchedulerStarts \/ CleanupScheduler \/ CleanupHosted \/ CleanupAsync
  <2>1. UNCHANGED waitVars /\ bpc # "callbacks"
    BY <1>3 DEF BootBegins, AsyncStarts, ExtensionsBegin, ExtensionsEnd, HostedStart,
                SchedulerStarts, CleanupScheduler, CleanupHosted, CleanupAsync
  <2> QED
    BY <2>1, OthersKeep
<1>4. CASE ExtensionsStep \/ SetBooted \/ SetReady
  <2>1. UNCHANGED waitVars /\ bpc # "callbacks"
    BY <1>4 DEF ExtensionsStep, SetBooted, SetReady, bootVars
  <2> QED
    BY <2>1, OthersKeep
<1> QED
  BY <1>1, <1>2, <1>3, <1>4 DEF Boot

\* App.use() and App.stop() leave them alone as well.
LEMMA OutsidersKeep ==
  ASSUME WaitInv,
         \/ \E e \in Ext : Use(e)
         \/ \E s \in Stopper : StopBegins(s) \/ StopProgress(s) \/ StepThread(s)
  PROVE  WaitInv'
<1>1. UNCHANGED waitVars /\ bpc' = bpc
  BY DEF Use, StopBegins, StopProgress, StopMarks, StepReturns, StopEnds, StepThread,
         SchedulerStops, HostedStops, ExtensionsStop, TasksShutDown, AsyncStops,
         EventBusStops, bootVars
<1> QED
  BY <1>1, OthersKeep

\* A callback given to when_ready() is called once at most, however boots,
\* stops and when_ready() interleave and whichever callbacks raise, for any
\* number of threads and any extensions.
THEOREM CallbacksCalledOnce == Spec => []CallbacksRunOnce
<1>1. Init => WaitInv
  BY DEF Init, WaitInv, WaitTypeOK, OnceInv, Listed
<1>2. WaitInv /\ [Next]_vars => WaitInv'
  <2> SUFFICES ASSUME WaitInv, [Next]_vars PROVE WaitInv'
    OBVIOUS
  <2>1. CASE UNCHANGED vars
    BY <2>1, OthersKeep DEF vars, bootVars
  <2>2. CASE Next
    BY <2>2, BootKeeps, WhenReadyKeeps, OutsidersKeep DEF Next
  <2> QED
    BY <2>1, <2>2
<1>3. WaitInv => CallbacksRunOnce
  BY DEF WaitInv, OnceInv, CallbacksRunOnce
<1> QED
  BY <1>1, <1>2, <1>3, PTL DEF Spec

-----------------------------------------------------------------------------
(* Lists of extensions *)

\* Lists bounds their length for TLC: what has no repetitions is that short.
LEMMA ListsAre == \A seq : seq \in Lists <=> seq \in Seq(Ext) /\ Distinct(seq)
<1>1. ASSUME NEW seq \in Lists PROVE seq \in Seq(Ext) /\ Distinct(seq)
  <2>1. PICK n \in 0..Cardinality(Ext) : seq \in [1..n -> Ext]
    BY DEF Lists
  <2>2. n \in Nat
    BY <2>1
  <2> QED
    BY <2>1, <2>2 DEF Lists
<1>2. ASSUME NEW seq \in Seq(Ext), Distinct(seq) PROVE seq \in Lists
  <2> DEFINE n == Len(seq)
  <2>1. n \in Nat /\ DOMAIN seq = 1..n /\ seq \in [1..n -> Ext]
    OBVIOUS
  <2> HIDE DEF n
  <2>2. seq \in Injection(1..n, Ext)
    BY <1>2, <2>1 DEF Distinct, Injection, IsInjective
  <2>3. IsFiniteSet(Ext) /\ Cardinality(Ext) \in Nat
    BY ExtensionsAssumption, FS_CardinalityType
  <2>4. Cardinality(1..n) <= Cardinality(Ext)
    BY <2>2, <2>3, FS_Injection
  <2>5. Cardinality(1..n) = n
    BY <2>1, FS_Interval
  <2>6. n \in 0..Cardinality(Ext)
    BY <2>1, <2>3, <2>4, <2>5
  <2> QED
    BY <1>2, <2>1, <2>6 DEF Lists
<1> QED
  BY <1>1, <1>2

\* One more extension at the end of a list.
LEMMA Appended ==
  ASSUME NEW seq \in Lists, NEW e \in Ext, e \notin ToSet(seq)
  PROVE  /\ Append(seq, e) \in Lists
         /\ ToSet(Append(seq, e)) = ToSet(seq) \cup {e}
         /\ DepsFirst(seq) /\ Deps[e] \subseteq ToSet(seq) => DepsFirst(Append(seq, e))
<1> DEFINE n == Len(seq)
           q == Append(seq, e)
<1>1. seq \in Seq(Ext) /\ Distinct(seq)
  BY ListsAre
<1>2. /\ n \in Nat /\ DOMAIN seq = 1..n /\ q \in Seq(Ext) /\ DOMAIN q = 1..n + 1
      /\ \A i \in 1..n : q[i] = seq[i]
      /\ q[n + 1] = e
  BY <1>1
<1> HIDE DEF n, q
<1>3. \A i \in 1..n : seq[i] # e
  BY <1>2 DEF ToSet
<1>4. Distinct(q)
  BY <1>1, <1>2, <1>3 DEF Distinct
<1>5. ToSet(q) = ToSet(seq) \cup {e}
  <2>1. ToSet(q) \subseteq ToSet(seq) \cup {e}
    <3> SUFFICES ASSUME NEW i \in DOMAIN q PROVE q[i] \in ToSet(seq) \cup {e}
      BY DEF ToSet
    <3>1. i = n + 1 \/ i \in 1..n
      BY <1>2
    <3> QED
      BY <1>2, <3>1 DEF ToSet
  <2>2. e \in ToSet(q)
    <3>1. n + 1 \in DOMAIN q
      BY <1>2
    <3> QED
      BY <1>2, <3>1 DEF ToSet
  <2>3. ToSet(seq) \subseteq ToSet(q)
    <3> SUFFICES ASSUME NEW i \in DOMAIN seq PROVE seq[i] \in ToSet(q)
      BY DEF ToSet
    <3>1. i \in DOMAIN q /\ q[i] = seq[i]
      BY <1>2
    <3> QED
      BY <3>1 DEF ToSet
  <2> QED
    BY <2>1, <2>2, <2>3
<1>6. ASSUME DepsFirst(seq), Deps[e] \subseteq ToSet(seq) PROVE DepsFirst(q)
  <2> SUFFICES ASSUME NEW f \in ToSet(q), NEW d \in Deps[f] PROVE Before(q, d, f)
    BY DEF DepsFirst
  <2>1. CASE f = e
    <3>1. PICK i \in DOMAIN seq : seq[i] = d
      BY <1>6, <2>1 DEF ToSet
    <3>2. i \in DOMAIN q /\ n + 1 \in DOMAIN q /\ i < n + 1 /\ q[i] = d /\ q[n + 1] = f
      BY <1>2, <2>1, <3>1
    <3> QED
      BY <3>2 DEF Before
  <2>2. CASE f # e
    <3>1. f \in ToSet(seq)
      BY <1>5, <2>2
    <3>2. PICK i, j \in DOMAIN seq : i < j /\ seq[i] = d /\ seq[j] = f
      BY <1>6, <3>1 DEF DepsFirst, Before
    <3>3. i \in DOMAIN q /\ j \in DOMAIN q /\ q[i] = d /\ q[j] = f
      BY <1>2, <3>2
    <3> QED
      BY <3>2, <3>3 DEF Before
  <2> QED
    BY <2>1, <2>2
<1>7. q \in Lists
  BY <1>2, <1>4, ListsAre
<1> QED
  BY <1>5, <1>6, <1>7 DEF q

\* No extension after one that requires it: how the extensions go down.
DependentsFirst(seq) == \A e \in Ext : \A d \in Deps[e] : ~Before(seq, d, e)

\* The reverse of a list with dependencies first has dependents first.
LEMMA Reversed ==
  ASSUME NEW seq \in Lists, DepsFirst(seq)
  PROVE  /\ Reverse(seq) \in Seq(Ext) /\ ToSet(Reverse(seq)) = ToSet(seq)
         /\ DependentsFirst(Reverse(seq))
<1> DEFINE n == Len(seq)
           q == Reverse(seq)
<1>1. seq \in Seq(Ext) /\ Distinct(seq)
  BY ListsAre
<1>2. n \in Nat /\ DOMAIN seq = 1..n
  BY <1>1
<1>3. q = [i \in 1..n |-> seq[n - i + 1]]
  BY DEF Reverse
<1> HIDE DEF q
<1>4. /\ DOMAIN q = 1..n
      /\ \A i \in 1..n : n - i + 1 \in 1..n /\ q[i] = seq[n - i + 1] /\ q[i] \in Ext
  BY <1>1, <1>2, <1>3
<1> HIDE DEF n
<1>5. q \in Seq(Ext)
  <2>1. q \in [1..n -> Ext]
    BY <1>3, <1>4
  <2> QED
    BY <1>2, <2>1
<1>6. ToSet(q) = ToSet(seq)
  <2>1. ToSet(q) \subseteq ToSet(seq)
    BY <1>2, <1>4 DEF ToSet
  <2>2. ASSUME NEW i \in 1..n PROVE seq[i] \in ToSet(q)
    <3>1. n - i + 1 \in 1..n /\ n - (n - i + 1) + 1 = i
      BY <1>2
    <3>2. q[n - i + 1] = seq[i]
      BY <1>4, <3>1
    <3> QED
      BY <1>4, <3>1, <3>2 DEF ToSet
  <2> QED
    BY <1>2, <2>1, <2>2 DEF ToSet
<1>7. DependentsFirst(q)
  <2> SUFFICES ASSUME NEW e \in Ext, NEW d \in Deps[e],
                      NEW i \in 1..n, NEW j \in 1..n, i < j, q[i] = d, q[j] = e
               PROVE  FALSE
    BY <1>4 DEF DependentsFirst, Before
  <2>1. /\ n - i + 1 \in 1..n /\ n - j + 1 \in 1..n /\ n - j + 1 < n - i + 1
        /\ seq[n - i + 1] = d /\ seq[n - j + 1] = e
    BY <1>2, <1>4
  <2>2. e \in ToSet(seq)
    BY <1>2, <2>1 DEF ToSet
  <2>3. PICK k, l \in DOMAIN seq : k < l /\ seq[k] = d /\ seq[l] = e
    BY <2>2 DEF DepsFirst, Before
  <2>4. k = n - i + 1 /\ l = n - j + 1
    BY <1>1, <1>2, <2>1, <2>3 DEF Distinct
  <2> QED
    BY <1>2, <2>1, <2>3, <2>4
<1> QED
  BY <1>5, <1>6, <1>7 DEF q

-----------------------------------------------------------------------------
(* The extension manager's lists, whoever calls it *)

\* What is sorted is registered and enabled, dependencies first; every loop of
\* stop_and_dispose() has dependents first.
ListInv ==
  /\ registered \in Lists /\ sorted \in Lists /\ initialized \in Lists
  /\ DepsFirst(sorted) /\ ToSet(sorted) \subseteq ToSet(registered) \cap Enabled
  /\ \A s \in Stopper : DependentsFirst(down[s])
  /\ \A s \in Stopper : dpc[s] = "dispose" => down[s] # <<>>

ExtInv == ExtTypeOK /\ ListInv

Phases == [Ext -> {"none", "initialized", "started", "stopped", "disposed"}]

\* The empty list is in every order.
LEMMA EmptyList == <<>> \in Lists /\ ToSet(<<>>) = {} /\ DepsFirst(<<>>) /\ DependentsFirst(<<>>)
<1>1. Distinct(<<>>) /\ ToSet(<<>>) = {} /\ DependentsFirst(<<>>)
  BY DEF Distinct, ToSet, DependentsFirst, Before
<1>2. DepsFirst(<<>>)
  BY <1>1 DEF DepsFirst
<1>3. <<>> \in Seq(Ext)
  OBVIOUS
<1>4. <<>> \in Lists
  BY <1>1, <1>3, ListsAre
<1> QED
  BY <1>1, <1>2, <1>4

\* What is left of a list when its first element has been visited.
LEMMA Rest ==
  ASSUME NEW S, NEW seq \in Seq(S), seq # <<>>
  PROVE  /\ Tail(seq) \in Seq(S) /\ Head(seq) \in S /\ Head(seq) = seq[1]
         /\ Len(seq) \in Nat /\ Len(seq) > 0 /\ Len(Tail(seq)) = Len(seq) - 1
         /\ \A i \in 1..Len(seq) - 1 : Tail(seq)[i] = seq[i + 1]
         /\ DependentsFirst(seq) => DependentsFirst(Tail(seq))
         /\ \A e \in ToSet(seq) : e = Head(seq) \/ e \in ToSet(Tail(seq))
<1> DEFINE n == Len(seq)
           q == Tail(seq)
<1>1. /\ n \in Nat /\ n > 0 /\ DOMAIN seq = 1..n /\ q \in Seq(S) /\ Len(q) = n - 1
      /\ DOMAIN q = 1..n - 1 /\ Head(seq) = seq[1] /\ Head(seq) \in S
      /\ \A i \in 1..n - 1 : q[i] = seq[i + 1]
  OBVIOUS
<1> HIDE DEF n, q
<1>2. \A i \in 1..n - 1 : i + 1 \in 1..n /\ q[i] = seq[i + 1]
  BY <1>1
<1>3. DependentsFirst(seq) => DependentsFirst(q)
  <2> SUFFICES ASSUME NEW e, NEW f, NEW i \in 1..n - 1, NEW j \in 1..n - 1, i < j, q[i] = e, q[j] = f
               PROVE  Before(seq, e, f)
    BY <1>1 DEF DependentsFirst, Before
  <2>1. i + 1 \in DOMAIN seq /\ j + 1 \in DOMAIN seq /\ i + 1 < j + 1 /\ seq[i + 1] = e /\ seq[j + 1] = f
    BY <1>1, <1>2
  <2> QED
    BY <2>1 DEF Before
<1>4. ASSUME NEW i \in 1..n, seq[i] # seq[1] PROVE seq[i] \in ToSet(q)
  <2>1. i - 1 \in 1..n - 1 /\ (i - 1) + 1 = i
    BY <1>1, <1>4
  <2>2. q[i - 1] = seq[i]
    BY <1>1, <2>1
  <2> QED
    BY <1>1, <2>1, <2>2 DEF ToSet
<1> QED
  BY <1>1, <1>3, <1>4 DEF ToSet, n, q

\* A rollback forgets what was initialized, or what it could not undo stays.
LEMMA RollbackKeeps ==
  ASSUME NEW init \in Lists, NEW ph \in Phases, Rollback(init, ph)
  PROVE  initialized' \in {<<>>, init} /\ phase' \in Phases
<1>1. PICK n : /\ phase' = [e \in Ext |-> IF e \in ToSet(SubSeq(init, Len(init) - n + 1, Len(init)))
                                          THEN "disposed" ELSE ph[e]]
               /\ initialized' = IF n = Len(init) THEN <<>> ELSE init
  BY DEF Rollback
<1>2. phase' \in Phases
  BY <1>1 DEF Phases
<1> QED
  BY <1>1, <1>2

\* initialize() is a hook like the others.
LEMMA InitializeTyped == ASSUME NEW ph \in Phases, NEW S PROVE Initialize(ph, S) \in Phases
  BY DEF Initialize, Phases

\* Steps that leave the lists alone.
LEMMA ListsUntouched ==
  ASSUME ExtInv, UNCHANGED <<env, registered, sorted, initialized, down>>,
         phase' \in Phases, work' \in Seq(Ext),
         xpc' \in {"idle", "init", "start", "done", "usual", "other", "unresolved"},
         dpc' \in [Stopper -> {"idle", "stop", "dispose"}],
         \A s \in Stopper : dpc'[s] = "dispose" => down[s] # <<>>
  PROVE  ExtInv'
<1>1. ExtTypeOK'
  BY DEF ExtInv, ExtTypeOK, Phases
<1>2. ListInv'
  BY DEF ExtInv, ListInv
<1> QED
  BY <1>1, <1>2 DEF ExtInv

\* register(): one extension more, and initialized so far as InitOrder says.
LEMMA RegisterKeeps == ASSUME ExtInv, NEW e \in Ext, Register(e) PROVE ExtInv'
<1> DEFINE order == InitOrder(registered', initialized)
           upTo(n) == initialized \o SubSeq(order, 1, n)
           ph(n) == Initialize(phase, ToSet(SubSeq(order, 1, n)))
<1>1. /\ e \notin ToSet(registered) /\ registered' = Append(registered, e)
      /\ UNCHANGED <<env, sorted, xpc, work, dpc, down>>
  BY DEF Register
<1>2. registered' \in Lists /\ ToSet(registered') = ToSet(registered) \cup {e}
  BY <1>1, Appended DEF ExtInv, ListInv
<1>3. order \in Seq(Ext) /\ \A n \in 0..Len(order) : upTo(n) \in Lists
  BY <1>2, OrdersAssumption DEF ExtInv, ListInv
<1>4. phase \in Phases
  BY DEF ExtInv, ExtTypeOK, Phases
<1>5. \A n : ph(n) \in Phases
  BY <1>4, InitializeTyped
<1>6. Len(order) \in Nat
  BY <1>3
<1> HIDE DEF order
<1>7. initialized' \in Lists /\ phase' \in Phases
  <2>1. CASE initialized' = upTo(Len(order)) /\ phase' = ph(Len(order))
    BY <1>3, <1>5, <1>6, <2>1
  <2>2. ASSUME NEW n \in 0..(Len(order) - 1), Rollback(upTo(n), ph(n))
        PROVE  initialized' \in Lists /\ phase' \in Phases
    <3>1. upTo(n) \in Lists
      BY <1>3, <1>6
    <3> HIDE DEF upTo, ph
    <3> QED
      BY <1>5, <2>2, <3>1, RollbackKeeps, EmptyList
  <2>3. ASSUME NEW n \in 0..(Len(order) - 1), initialized' = upTo(n), phase' = ph(n)
        PROVE  initialized' \in Lists /\ phase' \in Phases
    BY <1>3, <1>5, <1>6, <2>3
  <2> QED
    BY <2>1, <2>2, <2>3 DEF Register, order
<1>8. ExtTypeOK'
  BY <1>1, <1>2, <1>7, ListsAre DEF ExtInv, ExtTypeOK, Phases
<1>9. ListInv'
  BY <1>1, <1>2, <1>7 DEF ExtInv, ListInv
<1> QED
  BY <1>8, <1>9 DEF ExtInv

\* _build_and_sort(): the order is that of BuildAndSort, if there is one.
LEMMA SortKeeps == ASSUME ExtInv, SortExtensions PROVE ExtInv'
<1>1. CASE Unresolvable(registered)
  <2>1. UNCHANGED <<env, registered, sorted, initialized, down, phase, work, dpc>> /\ xpc' = "unresolved"
    BY <1>1 DEF SortExtensions
  <2> QED
    BY <2>1, ListsUntouched DEF ExtInv, ExtTypeOK, ListInv, Phases
<1>2. CASE ~Unresolvable(registered)
  <2>1. /\ sorted' = BuildAndSort(registered) /\ work' = sorted' /\ xpc' = "init"
        /\ UNCHANGED <<env, registered, initialized, phase, dpc, down>>
    BY <1>2 DEF SortExtensions
  <2>2. sorted' \in Lists /\ DepsFirst(sorted') /\ ToSet(sorted') = ToSet(registered) \cap Enabled
    BY <1>2, <2>1, OrdersAssumption DEF ExtInv, ListInv
  <2>3. ExtTypeOK'
    BY <2>1, <2>2, ListsAre DEF ExtInv, ExtTypeOK
  <2>4. ListInv'
    BY <2>1, <2>2 DEF ExtInv, ListInv
  <2> QED
    BY <2>3, <2>4 DEF ExtInv
<1> QED
  BY <1>1, <1>2

\* The loops of initialize_and_start(), and its return.
LEMMA StartUpKeeps == ASSUME ExtInv, StartUp \/ Return PROVE ExtInv'
<1> USE DEF Phases
<1>1. /\ phase \in Phases /\ work \in Seq(Ext) /\ dpc \in [Stopper -> {"idle", "stop", "dispose"}]
      /\ initialized \in Lists /\ sorted \in Seq(Ext)
      /\ \A s \in Stopper : dpc[s] = "dispose" => down[s] # <<>>
  BY ListsAre DEF ExtInv, ExtTypeOK, ListInv
<1>2. <<>> \in Seq(Ext) /\ (work # <<>> => Tail(work) \in Seq(Ext) /\ Head(work) \in Ext)
  BY <1>1, Rest
<1>3. CASE InitializeNext
  <2>1. /\ UNCHANGED <<env, registered, sorted, dpc, down>> /\ work # <<>> /\ xpc = "init"
        /\ xpc' \in {"init", "usual", "other"} /\ work' \in {<<>>, Tail(work)}
    BY <1>3 DEF InitializeNext
  <2>2. initialized' \in Lists /\ phase' \in Phases
    <3>1. CASE UNCHANGED <<initialized, phase>>
      BY <1>1, <3>1
    <3>2. CASE /\ Head(work) \notin ToSet(initialized) /\ initialized' = Append(initialized, Head(work))
               /\ phase' = Initialize(phase, {Head(work)})
      BY <1>1, <1>2, <2>1, <3>2, Appended, InitializeTyped
    <3>3. CASE Rollback(initialized, phase)
      BY <1>1, <3>3, RollbackKeeps, EmptyList
    <3> QED
      BY <1>3, <3>1, <3>2, <3>3 DEF InitializeNext
  <2>3. work' \in Seq(Ext)
    BY <1>2, <2>1
  <2>4. ExtTypeOK'
    BY <2>1, <2>2, <2>3, ListsAre DEF ExtInv, ExtTypeOK
  <2>5. ListInv'
    BY <2>1, <2>2 DEF ExtInv, ListInv
  <2> QED
    BY <2>4, <2>5 DEF ExtInv
<1>4. CASE InitializedAll
  BY <1>1, <1>4, ListsUntouched DEF InitializedAll
<1>5. CASE StartNext
  <2>1. /\ UNCHANGED <<env, registered, sorted, initialized, dpc, down>> /\ work # <<>> /\ xpc = "start"
    BY <1>5 DEF StartNext
  <2>2. env.faults \subseteq {"usual", "other"}
    BY ExtensionsAssumption DEF ExtInv, ExtTypeOK
  <2>3. xpc' \in {"start", "usual", "other"} /\ work' \in {<<>>, Tail(work)} /\ phase' \in Phases
    BY <1>1, <1>2, <1>5, <2>1, <2>2 DEF StartNext
  <2>4. work' \in Seq(Ext)
    BY <1>2, <2>1, <2>3
  <2> QED
    BY <1>1, <2>1, <2>3, <2>4, ListsUntouched
<1>6. CASE StartedAll
  BY <1>1, <1>6, ListsUntouched DEF StartedAll
<1>7. CASE Return
  BY <1>1, <1>7, ListsUntouched DEF Return
<1> QED
  BY <1>3, <1>4, <1>5, <1>6, <1>7 DEF StartUp

\* stop_and_dispose(): the loop goes through the sorted extensions reversed.
LEMMA ShutDownKeeps == ASSUME ExtInv, NEW s \in Stopper, StopAndDispose(s) \/ ShutDown(s) PROVE ExtInv'
<1> USE DEF Phases
<1>1. /\ phase \in Phases /\ dpc \in [Stopper -> {"idle", "stop", "dispose"}] /\ down \in [Stopper -> Seq(Ext)]
      /\ \A t \in Stopper : dpc[t] = "dispose" => down[t] # <<>>
      /\ \A t \in Stopper : DependentsFirst(down[t])
  BY DEF ExtInv, ExtTypeOK, ListInv
<1>2. CASE StopAndDispose(s)
  <2>1. /\ dpc' = [dpc EXCEPT ![s] = "stop"] /\ down' = [down EXCEPT ![s] = Reverse(sorted)]
        /\ UNCHANGED <<env, registered, sorted, initialized, phase, xpc, work>>
    BY <1>2 DEF StopAndDispose
  <2>2. Reverse(sorted) \in Seq(Ext) /\ DependentsFirst(Reverse(sorted))
    BY Reversed DEF ExtInv, ListInv
  <2>3. dpc' \in [Stopper -> {"idle", "stop", "dispose"}] /\ down' \in [Stopper -> Seq(Ext)]
    BY <1>1, <2>1, <2>2
  <2>4. ExtTypeOK'
    BY <2>1, <2>3 DEF ExtInv, ExtTypeOK
  <2>5. \A t \in Stopper : DependentsFirst(down'[t]) /\ (dpc'[t] = "dispose" => down'[t] # <<>>)
    BY <1>1, <2>1, <2>2
  <2>6. ListInv'
    BY <2>1, <2>5 DEF ExtInv, ListInv
  <2> QED
    BY <2>4, <2>6 DEF ExtInv
<1>3. CASE StopNext(s) \/ DisposeNext(s)
  <2>1. UNCHANGED <<env, registered, sorted, initialized, xpc, work>> /\ down[s] # <<>>
    BY <1>1, <1>3 DEF StopNext, DisposeNext
  <2>2. Tail(down[s]) \in Seq(Ext) /\ Head(down[s]) \in Ext /\ DependentsFirst(Tail(down[s]))
    BY <1>1, <2>1, Rest
  <2>3. \/ /\ dpc' = [dpc EXCEPT ![s] = "dispose"] /\ phase' = [phase EXCEPT ![Head(down[s])] = "stopped"]
           /\ down' = down
        \/ /\ dpc' = [dpc EXCEPT ![s] = "stop"] /\ phase' = [phase EXCEPT ![Head(down[s])] = "disposed"]
           /\ down' = [down EXCEPT ![s] = Tail(down[s])]
        \/ /\ dpc' = [dpc EXCEPT ![s] = "idle"] /\ phase' = phase /\ down' = [down EXCEPT ![s] = <<>>]
    BY <1>3 DEF StopNext, DisposeNext, LoopRaises
  <2>4. dpc' \in [Stopper -> {"idle", "stop", "dispose"}] /\ down' \in [Stopper -> Seq(Ext)] /\ phase' \in Phases
    <3>1. dpc' \in [Stopper -> {"idle", "stop", "dispose"}]
      BY <1>1, <2>3
    <3>2. <<>> \in Seq(Ext)
      OBVIOUS
    <3>3. down' \in [Stopper -> Seq(Ext)]
      BY <1>1, <2>2, <2>3, <3>2
    <3>4. phase' \in Phases
      BY <1>1, <2>2, <2>3
    <3> QED
      BY <3>1, <3>3, <3>4
  <2>5. ExtTypeOK'
    BY <2>1, <2>4 DEF ExtInv, ExtTypeOK
  <2>6. \A t \in Stopper : DependentsFirst(down'[t]) /\ (dpc'[t] = "dispose" => down'[t] # <<>>)
    BY <1>1, <2>1, <2>2, <2>3, EmptyList
  <2>7. ListInv'
    BY <2>1, <2>6 DEF ExtInv, ListInv
  <2> QED
    BY <2>5, <2>7 DEF ExtInv
<1>4. CASE ClearLists(s)
  <2>1. /\ sorted' = <<>> /\ initialized' = <<>> /\ dpc' = [dpc EXCEPT ![s] = "idle"]
        /\ UNCHANGED <<env, registered, phase, xpc, work, down>>
    BY <1>4 DEF ClearLists
  <2>2. ExtTypeOK'
    BY <1>1, <2>1 DEF ExtInv, ExtTypeOK
  <2>3. ListInv'
    BY <1>1, <2>1, EmptyList DEF ExtInv, ListInv
  <2> QED
    BY <2>2, <2>3 DEF ExtInv
<1> QED
  BY <1>2, <1>3, <1>4 DEF ShutDown

-----------------------------------------------------------------------------
(* Where boot(), stop() and the manager are *)

MainTypeOK ==
  /\ state \in {"created", "booting", "booted", "ready", "stopping", "stopped"}
  /\ asyncOn \in BOOLEAN /\ schedulerOn \in BOOLEAN /\ tasksOpen \in BOOLEAN /\ busOpen \in BOOLEAN
  /\ services \subseteq Service
  /\ bpc \in {"idle", "async", "extensions", "starting", "hosted", "scheduler",
              "set booted", "set ready", "swap", "callbacks", "cleanup 1", "cleanup 2", "cleanup 3"}
  /\ boots \in Nat
  /\ spc \in [Stopper -> {"idle", "mark", "steps", "end", "returned"}]
  /\ step \in [Stopper -> 0..6]
  /\ live \in [Stopper -> SUBSET (1..6)]

\* Extensions come up within a boot and go down within the third step of a
\* stop; if no step hangs, a stop has the thread of one step at a time.
FlowInv ==
  /\ bpc = "starting" <=> xpc # "idle"
  /\ \A s \in Stopper : dpc[s] # "idle" => 3 \in live[s]
  /\ ~env.hangs => \A s \in Stopper :
       /\ spc[s] # "steps" => live[s] = {}
       /\ spc[s] = "steps" => live[s] \subseteq {step[s]} /\ step[s] # 0
       /\ spc[s] = "end" => step[s] = 6

PlaceInv == MainTypeOK /\ FlowInv

\* The names of the steps are those of their numbers.
LEMMA StepNames ==
  /\ Len(Steps) = 6
  /\ \A n \in 1..6 : /\ Steps[n] = "scheduler" <=> n = 1
                     /\ Steps[n] = "hosted services" <=> n = 2
                     /\ Steps[n] = "extensions" <=> n = 3
                     /\ Steps[n] = "task manager" <=> n = 4
                     /\ Steps[n] = "async runtime" <=> n = 5
                     /\ Steps[n] = "event bus" <=> n = 6
  BY DEF Steps

\* Steps of boot() that no stop() sees.
LEMMA FlowUntouched ==
  ASSUME FlowInv, UNCHANGED <<env, dpc, spc, step, live>>, bpc' = "starting" <=> xpc' # "idle"
  PROVE  FlowInv'
  BY DEF FlowInv

\* boot() and App.use() keep to their places.
LEMMA BootFlows == ASSUME ExtInv, PlaceInv, BootBegins \/ Boot \/ \E e \in Ext : Use(e) PROVE PlaceInv'
<1> USE DEF PlaceInv
<1>1. CASE BootBegins \/ AsyncStarts \/ HostedStart \/ SchedulerStarts \/ SetBooted \/ SetReady
  <2>1. UNCHANGED <<env, dpc, xpc, spc, step, live>> /\ bpc # "starting" /\ bpc' # "starting"
    BY <1>1 DEF BootBegins, AsyncStarts, HostedStart, SchedulerStarts, SetBooted, SetReady, extVars, stopVars
  <2>2. FlowInv'
    BY <2>1, FlowUntouched DEF FlowInv
  <2>3. MainTypeOK'
    <3>1. CASE BootBegins
      BY <3>1 DEF MainTypeOK, BootBegins, extVars, stopVars, runVars, waitVars
    <3>2. CASE AsyncStarts \/ SchedulerStarts
      BY <3>2 DEF MainTypeOK, AsyncStarts, SchedulerStarts, extVars, stopVars, waitVars
    <3>3. CASE HostedStart
      BY <3>3 DEF MainTypeOK, HostedStart, extVars, stopVars, waitVars
    <3>4. CASE SetBooted \/ SetReady
      BY <3>4 DEF MainTypeOK, SetBooted, SetReady, extVars, stopVars, runVars, waitVars
    <3> QED
      BY <1>1, <3>1, <3>2, <3>3, <3>4
  <2> QED
    BY <2>2, <2>3
<1>2. CASE SwapCallbacks \/ RunCallbacks \/ CleanupScheduler \/ CleanupHosted \/ CleanupAsync
  <2>1. UNCHANGED <<env, dpc, xpc, spc, step, live>> /\ bpc # "starting" /\ bpc' # "starting"
    BY <1>2 DEF SwapCallbacks, RunCallbacks, CleanupScheduler, CleanupHosted, CleanupAsync, extVars, stopVars
  <2>2. FlowInv'
    BY <2>1, FlowUntouched DEF FlowInv
  <2>3. MainTypeOK'
    BY <1>2 DEF MainTypeOK, SwapCallbacks, RunCallbacks, CleanupScheduler, CleanupHosted, CleanupAsync,
                extVars, stopVars, runVars, waitVars
  <2> QED
    BY <2>2, <2>3
<1>3. CASE ExtensionsBegin
  <2>1. UNCHANGED <<env, dpc, spc, step, live>> /\ bpc' = "starting" /\ xpc' # "idle"
    BY <1>3 DEF ExtensionsBegin, SortExtensions, stopVars
  <2>2. MainTypeOK'
    BY <1>3 DEF MainTypeOK, ExtensionsBegin, stopVars, runVars
  <2> QED
    BY <2>1, <2>2, FlowUntouched
<1>4. CASE ExtensionsStep
  <2>1. UNCHANGED <<env, dpc, spc, step, live>> /\ bpc' = "starting"
    BY <1>4 DEF ExtensionsStep, StartUp, InitializeNext, InitializedAll, StartNext, StartedAll, stopVars, bootVars
  <2>2. xpc' # "idle"
    <3>1. env.faults \subseteq {"usual", "other"}
      BY ExtensionsAssumption DEF ExtInv, ExtTypeOK
    <3> QED
      BY <1>4, <3>1 DEF ExtensionsStep, StartUp, InitializeNext, InitializedAll, StartNext, StartedAll
  <2>3. MainTypeOK'
    BY <1>4 DEF MainTypeOK, ExtensionsStep, stopVars, runVars, bootVars
  <2> QED
    BY <2>1, <2>2, <2>3, FlowUntouched
<1>5. CASE ExtensionsEnd
  <2>1. UNCHANGED <<env, dpc, spc, step, live>> /\ bpc' # "starting" /\ xpc' = "idle"
    BY <1>5 DEF ExtensionsEnd, Return, stopVars
  <2>2. MainTypeOK'
    BY <1>5 DEF MainTypeOK, ExtensionsEnd, stopVars, runVars
  <2> QED
    BY <2>1, <2>2, FlowUntouched
<1>6. CASE \E e \in Ext : Use(e)
  <2>1. UNCHANGED <<env, dpc, xpc, spc, step, live, bpc>>
    BY <1>6 DEF Use, Register, stopVars, bootVars
  <2>2. MainTypeOK'
    BY <1>6 DEF MainTypeOK, Use, stopVars, runVars, bootVars
  <2> QED
    BY <2>1, <2>2, FlowUntouched DEF FlowInv
<1> QED
  BY <1>1, <1>2, <1>3, <1>4, <1>5, <1>6 DEF Boot

\* when_ready() moves nothing but the callbacks.
LEMMA WaitFlows ==
  ASSUME PlaceInv, NEW w \in Waiter, WhenReady(w) \/ WhenReadyAppends(w)
  PROVE  PlaceInv'
<1>1. UNCHANGED <<extVars, state, runVars, bootVars, stopVars>>
  BY DEF WhenReady, WhenReadyAppends
<1>2. MainTypeOK'
  BY <1>1 DEF PlaceInv, MainTypeOK, extVars, runVars, bootVars, stopVars
<1>3. FlowInv'
  BY <1>1 DEF PlaceInv, FlowInv, extVars, runVars, bootVars, stopVars
<1> QED
  BY <1>2, <1>3 DEF PlaceInv

\* The thread in App.stop().
LEMMA StopFlows ==
  ASSUME PlaceInv, NEW s \in Stopper, StopBegins(s) \/ StopProgress(s)
  PROVE  PlaceInv'
<1>1. /\ UNCHANGED <<env, xpc, dpc, bpc, boots, asyncOn, schedulerOn, tasksOpen, busOpen, services>>
  BY DEF StopBegins, StopProgress, StopMarks, StepReturns, StopEnds, extVars, runVars, bootVars
<1>2. /\ spc \in [Stopper -> {"idle", "mark", "steps", "end", "returned"}]
      /\ step \in [Stopper -> 0..6] /\ live \in [Stopper -> SUBSET (1..6)]
  BY DEF PlaceInv, MainTypeOK
<1>3. \A t \in Stopper \ {s} : spc'[t] = spc[t] /\ step'[t] = step[t] /\ live'[t] = live[t]
  BY <1>2 DEF StopBegins, StopProgress, StopMarks, StepReturns, StopEnds, LaunchStep
<1>4. \/ spc[s] = "idle" /\ spc'[s] = "mark" /\ step'[s] = step[s] /\ live'[s] = live[s]
      \/ spc[s] = "mark" /\ spc'[s] = "returned" /\ step'[s] = step[s] /\ live'[s] = live[s]
      \/ spc[s] = "mark" /\ spc'[s] = "steps" /\ step'[s] = 1 /\ live'[s] = live[s] \cup {1}
      \/ spc[s] = "end" /\ spc'[s] = "returned" /\ step'[s] = step[s] /\ live'[s] = live[s]
      \/ /\ spc[s] = "steps" /\ spc'[s] = "steps" /\ step[s] < 6 /\ step'[s] = step[s] + 1
         /\ live'[s] = live[s] \cup {step[s] + 1} /\ (step[s] \notin live[s] \/ env.hangs)
      \/ /\ spc[s] = "steps" /\ spc'[s] = "end" /\ step[s] = 6 /\ step'[s] = step[s]
         /\ live'[s] = live[s] /\ (step[s] \notin live[s] \/ env.hangs)
  <2>1. Len(Steps) = 6 /\ step[s] \in 0..6
    BY <1>2, StepNames
  <2>2. CASE StopBegins(s)
    BY <1>2, <2>2 DEF StopBegins
  <2>3. CASE StopMarks(s)
    BY <1>2, <2>3 DEF StopMarks, LaunchStep
  <2>4. CASE StepReturns(s)
    BY <1>2, <2>1, <2>4 DEF StepReturns, LaunchStep
  <2>5. CASE StopEnds(s)
    BY <1>2, <2>5 DEF StopEnds
  <2> QED
    BY <2>2, <2>3, <2>4, <2>5 DEF StopProgress
<1>5. spc' \in [Stopper -> {"idle", "mark", "steps", "end", "returned"}]
  BY <1>2 DEF StopBegins, StopProgress, StopMarks, StepReturns, StopEnds
<1>6. step' \in [Stopper -> 0..6] /\ live' \in [Stopper -> SUBSET (1..6)]
  <2>1. CASE step' = step /\ live' = live
    BY <1>2, <2>1
  <2>2. CASE LaunchStep(s, 1)
    BY <1>2, <2>2 DEF LaunchStep
  <2>3. CASE step[s] < 6 /\ LaunchStep(s, step[s] + 1)
    <3>1. step[s] + 1 \in 1..6 /\ step[s] + 1 \in 0..6
      BY <1>2, <2>3
    <3> QED
      BY <1>2, <2>3, <3>1 DEF LaunchStep
  <2> QED
    BY <2>1, <2>2, <2>3, StepNames DEF StopBegins, StopProgress, StopMarks, StepReturns, StopEnds
<1>7. state' \in {state, "stopping", "stopped"}
  BY DEF StopBegins, StopProgress, StopMarks, StepReturns, StopEnds
<1>8. MainTypeOK'
  BY <1>1, <1>5, <1>6, <1>7 DEF PlaceInv, MainTypeOK
<1>9. FlowInv'
  <2>1. \A t \in Stopper : live[t] \subseteq live'[t]
    BY <1>3, <1>4
  <2>2. \A t \in Stopper : dpc'[t] # "idle" => 3 \in live'[t]
    BY <1>1, <2>1 DEF PlaceInv, FlowInv
  <2>3. ASSUME ~env.hangs
        PROVE  /\ spc'[s] # "steps" => live'[s] = {}
               /\ spc'[s] = "steps" => live'[s] \subseteq {step'[s]} /\ step'[s] # 0
               /\ spc'[s] = "end" => step'[s] = 6
    <3>1. /\ spc[s] # "steps" => live[s] = {}
          /\ spc[s] = "steps" => live[s] \subseteq {step[s]} /\ step[s] # 0
      BY <2>3 DEF PlaceInv, FlowInv
    <3>2. step[s] \in 0..6
      BY <1>2
    <3> QED
      BY <1>4, <2>3, <3>1, <3>2
  <2>4. ~env.hangs => \A t \in Stopper :
          /\ spc'[t] # "steps" => live'[t] = {}
          /\ spc'[t] = "steps" => live'[t] \subseteq {step'[t]} /\ step'[t] # 0
          /\ spc'[t] = "end" => step'[t] = 6
    BY <1>3, <2>3 DEF PlaceInv, FlowInv
  <2> QED
    BY <1>1, <2>2, <2>4 DEF PlaceInv, FlowInv
<1> QED
  BY <1>8, <1>9 DEF PlaceInv

\* The threads of the steps.
LEMMA StepFlows == ASSUME ExtInv, PlaceInv, NEW s \in Stopper, StepThread(s) PROVE PlaceInv'
<1>1. UNCHANGED <<env, xpc, state, bpc, boots, spc, step>>
  BY DEF StepThread, SchedulerStops, HostedStops, ExtensionsStop, TasksShutDown, AsyncStops, EventBusStops,
         extVars, bootVars, StopAndDispose, ShutDown, StopNext, DisposeNext, ClearLists
<1>2. /\ asyncOn' \in {asyncOn, FALSE} /\ schedulerOn' \in {schedulerOn, FALSE}
      /\ tasksOpen' \in {tasksOpen, FALSE} /\ busOpen' \in {busOpen, FALSE} /\ services' \in {services, {}}
  BY DEF StepThread, SchedulerStops, HostedStops, ExtensionsStop, TasksShutDown, AsyncStops, EventBusStops, runVars
<1>3. live \in [Stopper -> SUBSET (1..6)] /\ dpc \in [Stopper -> {"idle", "stop", "dispose"}]
  BY DEF PlaceInv, MainTypeOK, ExtInv, ExtTypeOK
<1>4. /\ \A t \in Stopper \ {s} : live'[t] = live[t] /\ dpc'[t] = dpc[t]
      /\ live' \in [Stopper -> SUBSET (1..6)]
      /\ live'[s] \subseteq live[s] /\ (dpc'[s] # "idle" => 3 \in live'[s])
  <2>1. CASE SchedulerStops(s) \/ HostedStops(s) \/ TasksShutDown(s) \/ AsyncStops(s) \/ EventBusStops(s)
    <3>1. PICK n \in live[s] : Steps[n] # "extensions" /\ live' = [live EXCEPT ![s] = @ \ {n}]
      BY <2>1 DEF SchedulerStops, HostedStops, TasksShutDown, AsyncStops, EventBusStops, StepEnds
    <3>2. n # 3
      BY <1>3, <3>1, StepNames
    <3>3. dpc' = dpc
      BY <2>1 DEF SchedulerStops, HostedStops, TasksShutDown, AsyncStops, EventBusStops, extVars
    <3>4. dpc[s] # "idle" => 3 \in live[s]
      BY DEF PlaceInv, FlowInv
    <3> QED
      BY <1>3, <3>1, <3>2, <3>3, <3>4
  <2>2. CASE ExtensionsStop(s)
    <3>1. 3 \in live[s]
      BY <2>2 DEF ExtensionsStop
    <3>2. \/ live' = live
          \/ dpc'[s] = "idle" /\ \E n \in live[s] : live' = [live EXCEPT ![s] = @ \ {n}]
      BY <2>2 DEF ExtensionsStop, StepEnds
    <3>3. \A t \in Stopper \ {s} : dpc'[t] = dpc[t]
      BY <1>3, <2>2 DEF ExtensionsStop, StopAndDispose, ShutDown, StopNext, DisposeNext, ClearLists, LoopRaises
    <3> QED
      BY <1>3, <3>1, <3>2, <3>3
  <2> QED
    BY <2>1, <2>2 DEF StepThread
<1>5. MainTypeOK'
  <2>1. /\ asyncOn' \in BOOLEAN /\ schedulerOn' \in BOOLEAN /\ tasksOpen' \in BOOLEAN
        /\ busOpen' \in BOOLEAN
    BY <1>2 DEF PlaceInv, MainTypeOK
  <2>2. services' \subseteq Service
    BY <1>2 DEF PlaceInv, MainTypeOK
  <2> QED
    BY <1>1, <1>4, <2>1, <2>2 DEF PlaceInv, MainTypeOK
<1>6. \A t \in Stopper : dpc'[t] # "idle" => 3 \in live'[t]
  BY <1>4 DEF PlaceInv, FlowInv
<1>7. \A t \in Stopper : live'[t] \subseteq live[t]
  BY <1>4
<1>8. ~env.hangs => \A t \in Stopper :
        /\ spc[t] # "steps" => live'[t] = {}
        /\ spc[t] = "steps" => live'[t] \subseteq {step[t]} /\ step[t] # 0
        /\ spc[t] = "end" => step[t] = 6
  BY <1>7 DEF PlaceInv, FlowInv
<1>9. FlowInv'
  BY <1>1, <1>6, <1>8 DEF PlaceInv, FlowInv
<1> QED
  BY <1>5, <1>9 DEF PlaceInv
-----------------------------------------------------------------------------
(* Where stop() is called between boots *)

\* The places of boot(), from the one where it has done what the name says.
WithCallbacks == {"swap", "callbacks"}
WithScheduler == {"set booted", "set ready"} \cup WithCallbacks
WithHosted == {"scheduler"} \cup WithScheduler
WithExtensions == {"hosted"} \cup WithHosted
WithAsync == {"extensions", "starting"} \cup WithExtensions

\* boot() and the calls of stop() take turns, and the state says whose turn it is.
TurnInv ==
  /\ \A s \in Stopper : spc[s] \in {"mark", "steps", "end"} =>
       bpc = "idle" /\ \A t \in Stopper : t # s => spc[t] \in {"idle", "returned"}
  /\ \A s \in Stopper : spc[s] \in {"steps", "end"} => state = "stopping"
  /\ bpc \notin {"idle", "set ready"} \cup WithCallbacks => state = "booting"
  /\ bpc = "set ready" => state = "booted"
  /\ bpc \in WithCallbacks => state = "ready"
  /\ bpc # "idle" \/ state \in {"booting", "booted", "ready"} => boots > 0

AllStarted == \A e \in ToSet(registered) \cap Enabled : phase[e] = "started"

\* What boot() has brought up so far is up, and stays up in a ready engine.
UpInv ==
  /\ bpc \in WithAsync => asyncOn
  /\ bpc \in WithExtensions => AllStarted
  /\ bpc \in WithHosted => services = Service
  /\ bpc \in WithScheduler => schedulerOn
  /\ state \in {"booted", "ready"} =>
       asyncOn /\ schedulerOn /\ services = Service /\ (~env.late => AllStarted)

\* How many of the sorted extensions the loop has visited: those before work.
Visited == Len(sorted) - Len(work)

\* The loops of initialize_and_start() go through what is enabled, and what
\* they have visited is initialized, then started.
WorkInv ==
  /\ DepsFirst(initialized)
  /\ xpc \in {"init", "start", "done"} => ToSet(sorted) = ToSet(registered) \cap Enabled
  /\ xpc \in {"init", "start"} =>
       Len(work) <= Len(sorted) /\ \A i \in 1..Len(work) : work[i] = sorted[Visited + i]
  /\ xpc = "init" => \A i \in 1..Visited : sorted[i] \in ToSet(initialized)
  /\ xpc \in {"start", "done"} => ToSet(sorted) \subseteq ToSet(initialized)
  /\ xpc = "start" => \A i \in 1..Visited : phase[sorted[i]] = "started"
  /\ xpc = "done" => \A e \in ToSet(sorted) : phase[e] = "started"

\* What is started can be stopped: it is among the sorted extensions, and in a
\* loop of stop_and_dispose() it is still to come.
PhaseInv ==
  /\ (\A s \in Stopper : dpc[s] = "idle") =>
       \A e \in ToSet(initialized) : phase[e] \in {"initialized", "started"}
  /\ \A e \in Ext : phase[e] = "started" => e \in ToSet(sorted)
  /\ \A s \in Stopper : dpc[s] # "idle" =>
       \A e \in Ext : phase[e] = "started" => e \in ToSet(down[s])

\* The step of a stop has ended.
Past(s, n) == step[s] > n \/ (step[s] = n /\ n \notin live[s])
NoneStarted == \A e \in Ext : phase[e] # "started"

\* Nothing that a stop has taken down comes up again before the next boot.
DownInv ==
  /\ \A s \in Stopper : spc[s] \in {"steps", "end"} =>
       /\ Past(s, 1) => ~schedulerOn
       /\ Past(s, 2) => services = {}
       /\ Past(s, 3) => NoneStarted
       /\ Past(s, 4) => ~tasksOpen
       /\ Past(s, 5) => ~asyncOn
       /\ Past(s, 6) => ~busOpen
  /\ state = "stopped" =>
       ~schedulerOn /\ services = {} /\ NoneStarted /\ ~tasksOpen /\ ~asyncOn /\ ~busOpen

AloneInv ==
  env.alone => /\ TurnInv /\ UpInv /\ WorkInv
               /\ "other" \notin env.faults => PhaseInv /\ DownInv

EngInv == ExtInv /\ PlaceInv /\ AloneInv

\* The steps of boot() that leave the manager to itself.
BootStep ==
  \/ AsyncStarts \/ HostedStart \/ SchedulerStarts \/ SetBooted \/ SetReady
  \/ SwapCallbacks \/ RunCallbacks \/ CleanupScheduler \/ CleanupHosted \/ CleanupAsync

\* When boot() runs, no stop() does.
LEMMA BootsAlone ==
  ASSUME EngInv, env.alone, bpc # "idle", NEW s \in Stopper
  PROVE  spc[s] \in {"idle", "returned"} /\ live[s] = {} /\ dpc[s] = "idle"
<1>1. spc[s] \in {"idle", "returned"}
  BY DEF EngInv, AloneInv, TurnInv, PlaceInv, MainTypeOK
<1>2. ~env.hangs
  BY EngineAssumption DEF EngInv, ExtInv, ExtTypeOK
<1>3. live[s] = {}
  BY <1>1, <1>2 DEF EngInv, PlaceInv, FlowInv
<1> QED
  BY <1>1, <1>3 DEF EngInv, PlaceInv, FlowInv

\* When a step of a stop() runs, nothing else does.
LEMMA StopsAlone ==
  ASSUME EngInv, env.alone, NEW s \in Stopper, live[s] # {}
  PROVE  /\ spc[s] = "steps" /\ live[s] = {step[s]} /\ bpc = "idle" /\ xpc = "idle" /\ state = "stopping"
         /\ \A t \in Stopper : t # s => spc[t] \in {"idle", "returned"} /\ live[t] = {} /\ dpc[t] = "idle"
<1>1. ~env.hangs
  BY EngineAssumption DEF EngInv, ExtInv, ExtTypeOK
<1>2. spc[s] = "steps" /\ live[s] = {step[s]}
  BY <1>1 DEF EngInv, PlaceInv, FlowInv
<1>3. /\ bpc = "idle" /\ state = "stopping"
      /\ \A t \in Stopper : t # s => spc[t] \in {"idle", "returned"}
  BY <1>2 DEF EngInv, AloneInv, TurnInv
<1>4. xpc = "idle"
  BY <1>3 DEF EngInv, PlaceInv, FlowInv
<1>5. \A t \in Stopper : t # s => live[t] = {} /\ dpc[t] = "idle"
  BY <1>1, <1>3 DEF EngInv, PlaceInv, FlowInv
<1> QED
  BY <1>2, <1>3, <1>4, <1>5

\* The environment is chosen once.
LEMMA SameEnv == Next => env' = env
<1>1. (\E e \in Ext : Use(e)) => env' = env
  BY DEF Use, Register
<1>2. BootBegins \/ BootStep => env' = env
  BY DEF BootBegins, BootStep, AsyncStarts, HostedStart, SchedulerStarts, SetBooted, SetReady, SwapCallbacks,
         RunCallbacks, CleanupScheduler, CleanupHosted, CleanupAsync, extVars
<1>3. ExtensionsBegin \/ ExtensionsStep \/ ExtensionsEnd => env' = env
  BY DEF ExtensionsBegin, ExtensionsStep, ExtensionsEnd, SortExtensions, StartUp, InitializeNext,
         InitializedAll, StartNext, StartedAll, Return
<1>4. \A w \in Waiter : WhenReady(w) \/ WhenReadyAppends(w) => env' = env
  BY DEF WhenReady, WhenReadyAppends, extVars
<1>5. \A s \in Stopper : StopBegins(s) \/ StopProgress(s) => env' = env
  BY DEF StopBegins, StopProgress, StopMarks, StepReturns, StopEnds, extVars
<1>6. \A s \in Stopper : StepThread(s) => env' = env
  BY DEF StepThread, SchedulerStops, HostedStops, ExtensionsStop, TasksShutDown, AsyncStops, EventBusStops,
         extVars, StopAndDispose, ShutDown, StopNext, DisposeNext, ClearLists
<1> QED
  BY <1>1, <1>2, <1>3, <1>4, <1>5, <1>6 DEF Next, Boot, BootStep

\* Boots and stops go on taking turns.
LEMMA TurnKeeps == ASSUME EngInv, env.alone, Next PROVE TurnInv'
<1>0. /\ TurnInv /\ boots \in Nat
      /\ bpc \in {"idle", "async", "extensions", "starting", "hosted", "scheduler", "set booted",
                  "set ready", "swap", "callbacks", "cleanup 1", "cleanup 2", "cleanup 3"}
      /\ spc \in [Stopper -> {"idle", "mark", "steps", "end", "returned"}]
  BY DEF EngInv, AloneInv, PlaceInv, MainTypeOK
<1>1. CASE \E e \in Ext : Use(e)
  <2>1. UNCHANGED <<state, bpc, boots, spc>>
    BY <1>1 DEF Use, bootVars, stopVars
  <2> QED
    BY <1>0, <2>1 DEF TurnInv, WithCallbacks
<1>2. CASE BootBegins
  <2>1. /\ state' = "booting" /\ bpc' = "async" /\ boots' = boots + 1 /\ spc' = spc
        /\ \A s \in Stopper : spc[s] \in {"idle", "returned"}
    BY <1>2 DEF BootBegins, NoStop, stopVars
  <2>2. boots' > 0
    <3>1. boots \in Nat /\ boots' = boots + 1
      BY <1>2 DEF BootBegins, EngInv, PlaceInv, MainTypeOK
    <3> QED
      BY <3>1
  <2>3. \A s \in Stopper : spc'[s] \notin {"mark", "steps", "end"}
    BY <2>1
  <2> QED
    BY <2>1, <2>2, <2>3 DEF TurnInv, WithCallbacks
<1>3. CASE Boot
  <2>1. bpc # "idle" /\ boots' = boots /\ spc' = spc
    BY <1>3 DEF Boot, AsyncStarts, HostedStart, SchedulerStarts, SetBooted, SetReady, SwapCallbacks,
         RunCallbacks, CleanupScheduler, CleanupHosted, CleanupAsync, ExtensionsBegin, ExtensionsStep,
         ExtensionsEnd, stopVars, bootVars
  <2>2. \A s \in Stopper : spc'[s] \in {"idle", "returned"}
    BY <2>1, BootsAlone
  <2>3. /\ bpc' \notin {"idle", "set ready"} \cup WithCallbacks => state' = "booting"
        /\ bpc' = "set ready" => state' = "booted"
        /\ bpc' \in WithCallbacks => state' = "ready"
    <3>1. CASE AsyncStarts \/ HostedStart \/ SchedulerStarts \/ CleanupScheduler \/ CleanupHosted \/ CleanupAsync
      BY <1>0, <3>1 DEF TurnInv, WithCallbacks, AsyncStarts, HostedStart, SchedulerStarts, CleanupScheduler,
           CleanupHosted, CleanupAsync
    <3>2. CASE SetBooted \/ SetReady \/ SwapCallbacks \/ RunCallbacks
      BY <1>0, <3>2 DEF TurnInv, WithCallbacks, SetBooted, SetReady, SwapCallbacks, RunCallbacks
    <3>3. CASE ExtensionsBegin \/ ExtensionsEnd \/ ExtensionsStep
      BY <1>0, <3>3 DEF TurnInv, WithCallbacks, ExtensionsBegin, ExtensionsEnd, ExtensionsStep, bootVars
    <3> QED
      BY <1>3, <3>1, <3>2, <3>3 DEF Boot
  <2>4. boots' > 0
    BY <1>0, <2>1 DEF TurnInv
  <2> QED
    BY <2>2, <2>3, <2>4 DEF TurnInv
<1>4. CASE \E w \in Waiter : WhenReady(w) \/ WhenReadyAppends(w)
  <2>1. UNCHANGED <<state, bpc, boots, spc>>
    BY <1>4 DEF WhenReady, WhenReadyAppends, bootVars, stopVars
  <2> QED
    BY <1>0, <2>1 DEF TurnInv, WithCallbacks
<1>5. ASSUME NEW s \in Stopper, StopBegins(s) PROVE TurnInv'
  <2>1. /\ UNCHANGED <<state, bpc, boots>> /\ bpc = "idle" /\ spc' = [spc EXCEPT ![s] = "mark"]
        /\ \A t \in Stopper : spc[t] \in {"idle", "returned"}
    BY <1>5 DEF StopBegins, NoStop, bootVars
  <2>2. spc'[s] = "mark" /\ \A t \in Stopper : t # s => spc'[t] \in {"idle", "returned"}
    BY <1>0, <2>1
  <2> QED
    BY <1>0, <2>1, <2>2 DEF TurnInv, WithCallbacks
<1>6. ASSUME NEW s \in Stopper, StopProgress(s) PROVE TurnInv'
  <2>1. UNCHANGED <<bpc, boots>> /\ spc[s] \in {"mark", "steps", "end"}
    BY <1>6 DEF StopProgress, StopMarks, StepReturns, StopEnds, bootVars
  <2>2. bpc = "idle" /\ \A t \in Stopper : t # s => spc[t] \in {"idle", "returned"}
    BY <1>0, <2>1 DEF TurnInv
  <2>3. \A t \in Stopper : t # s => spc'[t] = spc[t]
    BY <1>0, <1>6 DEF StopProgress, StopMarks, StepReturns, StopEnds
  <2>4. /\ spc'[s] \in {"steps", "end"} => state' = "stopping"
        /\ state' \in {"stopping", "stopped"}
    <3>1. CASE StopMarks(s)
      BY <1>0, <3>1 DEF StopMarks
    <3>2. CASE StepReturns(s)
      BY <1>0, <3>2 DEF StepReturns, TurnInv
    <3>3. CASE StopEnds(s)
      BY <1>0, <3>3 DEF StopEnds
    <3> QED
      BY <1>6, <3>1, <3>2, <3>3 DEF StopProgress
  <2> QED
    BY <2>1, <2>2, <2>3, <2>4 DEF TurnInv, WithCallbacks
<1>7. ASSUME NEW s \in Stopper, StepThread(s) PROVE TurnInv'
  <2>1. UNCHANGED <<state, bpc, boots, spc>>
    BY <1>7 DEF StepThread, SchedulerStops, HostedStops, ExtensionsStop, TasksShutDown, AsyncStops,
         EventBusStops, bootVars
  <2> QED
    BY <1>0, <2>1 DEF TurnInv, WithCallbacks
<1> QED
  BY <1>1, <1>2, <1>3, <1>4, <1>5, <1>6, <1>7 DEF Next

\* Boot brings one thing up after another, and a stop waits for its end.
LEMMA UpKeeps == ASSUME EngInv, env.alone, Next PROVE UpInv'
<1> USE DEF WithAsync, WithExtensions, WithHosted, WithScheduler, WithCallbacks
<1>0. TurnInv /\ UpInv /\ WorkInv /\ FlowInv /\ env' = env
  BY SameEnv DEF EngInv, AloneInv, PlaceInv
<1>1. CASE \E e \in Ext : Use(e)
  <2>1. /\ UNCHANGED <<state, bpc, asyncOn, schedulerOn, services>>
        /\ bpc = "idle" /\ (boots > 0 => env.late)
    BY <1>1 DEF Use, bootVars, runVars
  <2>2. state \in {"booted", "ready"} => env.late
    BY <1>0, <2>1 DEF TurnInv
  <2> QED
    BY <1>0, <2>1, <2>2 DEF UpInv
<1>2. CASE BootBegins
  <2>1. state' = "booting" /\ bpc' = "async"
    BY <1>2 DEF BootBegins
  <2> QED
    BY <2>1 DEF UpInv
<1>3. CASE BootStep
  <2>1. UNCHANGED <<registered, phase>>
    BY <1>3 DEF BootStep, AsyncStarts, HostedStart, SchedulerStarts, SetBooted, SetReady, SwapCallbacks,
         RunCallbacks, CleanupScheduler, CleanupHosted, CleanupAsync, extVars
  <2>2. AllStarted' <=> AllStarted
    BY <2>1 DEF AllStarted
  <2>3. CASE AsyncStarts
    BY <1>0, <2>2, <2>3 DEF UpInv, TurnInv, AsyncStarts
  <2>4. CASE HostedStart
    BY <1>0, <2>2, <2>4 DEF UpInv, TurnInv, HostedStart
  <2>5. CASE SchedulerStarts
    BY <1>0, <2>2, <2>5 DEF UpInv, TurnInv, SchedulerStarts
  <2>6. CASE SetBooted \/ SetReady
    BY <1>0, <2>2, <2>6 DEF UpInv, TurnInv, SetBooted, SetReady, runVars
  <2>7. CASE SwapCallbacks \/ RunCallbacks
    BY <1>0, <2>2, <2>7 DEF UpInv, TurnInv, SwapCallbacks, RunCallbacks, runVars
  <2>8. CASE CleanupScheduler \/ CleanupHosted \/ CleanupAsync
    BY <1>0, <2>2, <2>8 DEF UpInv, TurnInv, CleanupScheduler, CleanupHosted, CleanupAsync
  <2> QED
    BY <1>3, <2>3, <2>4, <2>5, <2>6, <2>7, <2>8 DEF BootStep
<1>4. CASE ExtensionsBegin
  <2>1. bpc = "extensions" /\ bpc' = "starting" /\ UNCHANGED <<state, asyncOn, schedulerOn, services>>
    BY <1>4 DEF ExtensionsBegin, runVars
  <2>2. state = "booting"
    BY <1>0, <2>1 DEF TurnInv
  <2> QED
    BY <1>0, <2>1, <2>2 DEF UpInv
<1>5. CASE ExtensionsStep
  <2>1. bpc = "starting" /\ bpc' = "starting" /\ UNCHANGED <<state, asyncOn, schedulerOn, services>>
    BY <1>5 DEF ExtensionsStep, runVars, bootVars
  <2>2. state = "booting"
    BY <1>0, <2>1 DEF TurnInv
  <2> QED
    BY <1>0, <2>1, <2>2 DEF UpInv
<1>6. CASE ExtensionsEnd
  <2>1. /\ bpc = "starting" /\ UNCHANGED <<state, asyncOn, schedulerOn, services, registered, phase>>
        /\ bpc' \in {"hosted", "cleanup 1", "idle"} /\ (bpc' = "hosted" => xpc = "done")
    BY <1>6 DEF ExtensionsEnd, Return, runVars
  <2>2. state = "booting"
    BY <1>0, <2>1 DEF TurnInv
  <2>3. xpc = "done" => AllStarted
    BY <1>0 DEF WorkInv, AllStarted
  <2>4. AllStarted' <=> AllStarted
    BY <2>1 DEF AllStarted
  <2> QED
    BY <1>0, <2>1, <2>2, <2>3, <2>4 DEF UpInv
<1>7. ASSUME UNCHANGED <<state, bpc, asyncOn, schedulerOn, services, registered, phase>> PROVE UpInv'
  <2>1. AllStarted' <=> AllStarted
    BY <1>7 DEF AllStarted
  <2> QED
    BY <1>0, <1>7, <2>1 DEF UpInv
<1>8. CASE \E w \in Waiter : WhenReady(w) \/ WhenReadyAppends(w)
  BY <1>7, <1>8 DEF WhenReady, WhenReadyAppends, extVars, runVars, bootVars
<1>9. ASSUME NEW s \in Stopper, StopBegins(s) PROVE UpInv'
  BY <1>7, <1>9 DEF StopBegins, extVars, runVars, bootVars
<1>10. ASSUME NEW s \in Stopper, StopProgress(s) PROVE UpInv'
  <2>1. /\ bpc' = bpc /\ spc[s] \in {"mark", "steps", "end"}
        /\ UNCHANGED <<asyncOn, schedulerOn, services, registered, phase>>
        /\ state' \in {state, "stopping", "stopped"}
    BY <1>10 DEF StopProgress, StopMarks, StepReturns, StopEnds, extVars, runVars, bootVars
  <2>2. bpc = "idle"
    BY <1>0, <2>1 DEF TurnInv
  <2>3. AllStarted' <=> AllStarted
    BY <2>1 DEF AllStarted
  <2> QED
    BY <1>0, <2>1, <2>2, <2>3 DEF UpInv
<1>11. ASSUME NEW s \in Stopper, StepThread(s) PROVE UpInv'
  <2>1. live[s] # {} /\ UNCHANGED <<state, bpc>>
    BY <1>11 DEF StepThread, SchedulerStops, HostedStops, ExtensionsStop, TasksShutDown, AsyncStops,
         EventBusStops, StepEnds, bootVars
  <2>2. bpc = "idle" /\ state = "stopping"
    BY <2>1, StopsAlone
  <2> QED
    BY <2>1, <2>2 DEF UpInv
<1> QED
  BY <1>1, <1>2, <1>3, <1>4, <1>5, <1>6, <1>8, <1>9, <1>10, <1>11 DEF Next, Boot, BootStep

\* The extension a loop visits next, and those that it has visited before it.
LEMMA HeadIs ==
  ASSUME ExtInv, WorkInv, xpc \in {"init", "start"}, work # <<>>
  PROVE  /\ Visited \in Nat /\ Visited + 1 \in 1..Len(sorted) /\ Head(work) = sorted[Visited + 1]
         /\ Head(work) \in Ext /\ Len(sorted) \in Nat /\ DOMAIN sorted = 1..Len(sorted)
         /\ \A d \in Deps[Head(work)] : \E i \in 1..Visited : sorted[i] = d
         /\ Len(sorted) - Len(Tail(work)) = Visited + 1 /\ Len(Tail(work)) <= Len(sorted)
         /\ \A i \in 1..Len(Tail(work)) : Tail(work)[i] = sorted[Visited + 1 + i]
<1>1. sorted \in Seq(Ext) /\ Distinct(sorted) /\ DepsFirst(sorted) /\ work \in Seq(Ext)
  BY ListsAre DEF ExtInv, ExtTypeOK, ListInv
<1>2. /\ Len(work) \in Nat /\ Len(work) > 0 /\ Head(work) = work[1] /\ Head(work) \in Ext
      /\ Len(Tail(work)) = Len(work) - 1 /\ \A i \in 1..Len(work) - 1 : Tail(work)[i] = work[i + 1]
  BY <1>1, Rest
<1>3. Len(sorted) \in Nat /\ DOMAIN sorted = 1..Len(sorted)
  BY <1>1
<1>4. /\ Len(work) <= Len(sorted) /\ \A i \in 1..Len(work) : work[i] = sorted[Visited + i]
  BY DEF WorkInv
<1>5. Visited = Len(sorted) - Len(work)
  BY DEF Visited
<1>6. Visited \in Nat /\ Visited + 1 \in 1..Len(sorted)
  BY <1>2, <1>3, <1>4, <1>5
<1>7. Head(work) = sorted[Visited + 1]
  <2>1. 1 \in 1..Len(work)
    BY <1>2
  <2> QED
    BY <1>2, <1>4, <2>1
<1>8. ASSUME NEW d \in Deps[Head(work)] PROVE \E i \in 1..Visited : sorted[i] = d
  <2>1. Head(work) \in ToSet(sorted)
    BY <1>3, <1>6, <1>7 DEF ToSet
  <2>2. PICK i, j \in DOMAIN sorted : i < j /\ sorted[i] = d /\ sorted[j] = Head(work)
    BY <1>1, <2>1 DEF DepsFirst, Before
  <2>3. j = Visited + 1
    BY <1>1, <1>3, <1>6, <1>7, <2>2 DEF Distinct
  <2>4. i \in 1..Visited
    BY <1>3, <1>6, <2>2, <2>3
  <2> QED
    BY <2>2, <2>4
<1>9. ASSUME NEW i \in 1..Len(Tail(work)) PROVE Tail(work)[i] = sorted[Visited + 1 + i]
  <2>1. i + 1 \in 1..Len(work) /\ Visited + (i + 1) = Visited + 1 + i /\ i \in 1..Len(work) - 1
    BY <1>2, <1>6
  <2> QED
    BY <1>2, <1>4, <2>1
<1>10. Len(sorted) - Len(Tail(work)) = Visited + 1 /\ Len(Tail(work)) <= Len(sorted)
  BY <1>2, <1>3, <1>4, <1>5
<1>11. Head(work) \in Ext
  BY <1>2
<1> QED
  BY <1>3, <1>6, <1>7, <1>8, <1>9, <1>10, <1>11

\* Register() initializes in order, rolls back to nothing, or stops half-way.
LEMMA RegisterWorks == ASSUME ExtInv, WorkInv, NEW e \in Ext, Register(e) PROVE DepsFirst(initialized')
<1> DEFINE order == InitOrder(registered', initialized)
           upTo(n) == initialized \o SubSeq(order, 1, n)
           ph(n) == Initialize(phase, ToSet(SubSeq(order, 1, n)))
<1>1. e \notin ToSet(registered) /\ registered' = Append(registered, e)
  BY DEF Register
<1>2. registered' \in Lists
  BY <1>1, Appended DEF ExtInv, ListInv
<1>3. order \in Seq(Ext) /\ \A n \in 0..Len(order) : upTo(n) \in Lists /\ DepsFirst(upTo(n))
  BY <1>2, OrdersAssumption DEF ExtInv, ListInv, WorkInv
<1>4. phase \in Phases
  BY DEF ExtInv, ExtTypeOK, Phases
<1>5. \A n : ph(n) \in Phases
  BY <1>4, InitializeTyped
<1>6. Len(order) \in Nat
  BY <1>3
<1> HIDE DEF order
<1>7. CASE initialized' = upTo(Len(order))
  BY <1>3, <1>6, <1>7
<1>8. ASSUME NEW n \in 0..(Len(order) - 1), Rollback(upTo(n), ph(n)) \/ initialized' = upTo(n)
      PROVE  DepsFirst(initialized')
  <2>1. upTo(n) \in Lists /\ DepsFirst(upTo(n))
    BY <1>3, <1>6
  <2> HIDE DEF upTo, ph
  <2> QED
    BY <1>5, <1>8, <2>1, RollbackKeeps, EmptyList
<1> QED
  BY <1>7, <1>8 DEF Register, order

\* initialize_and_start() begins with all that is enabled, and has visited none.
LEMMA SortWorks == ASSUME ExtInv, WorkInv, SortExtensions PROVE WorkInv'
<1>1. CASE Unresolvable(registered)
  BY <1>1 DEF SortExtensions, WorkInv
<1>2. CASE ~Unresolvable(registered)
  <2>1. /\ sorted' = BuildAndSort(registered) /\ work' = sorted' /\ xpc' = "init"
        /\ UNCHANGED <<registered, initialized>>
    BY <1>2 DEF SortExtensions
  <2>2. sorted' \in Lists /\ ToSet(sorted') = ToSet(registered) \cap Enabled
    BY <1>2, <2>1, OrdersAssumption DEF ExtInv, ListInv
  <2>3. sorted' \in Seq(Ext)
    BY <2>2, ListsAre
  <2>4. Visited' = 0 /\ Len(sorted') \in Nat
    BY <2>1, <2>3 DEF Visited
  <2> QED
    BY <2>1, <2>2, <2>4 DEF WorkInv
<1> QED
  BY <1>1, <1>2

\* The loops of initialize_and_start().
LEMMA StartUpWorks == ASSUME ExtInv, WorkInv, StartUp PROVE WorkInv'
<1>1. /\ initialized \in Lists /\ sorted \in Seq(Ext) /\ work \in Seq(Ext)
      /\ phase \in Phases /\ Len(sorted) \in Nat /\ DOMAIN sorted = 1..Len(sorted)
  BY ListsAre DEF ExtInv, ExtTypeOK, ListInv, Phases
<1>2. CASE InitializeNext
  <2>1. xpc = "init" /\ work # <<>> /\ UNCHANGED <<registered, sorted>>
    BY <1>2 DEF InitializeNext
  <2> DEFINE e == Head(work)
  <2>2. /\ Visited \in Nat /\ Visited + 1 \in 1..Len(sorted) /\ e = sorted[Visited + 1] /\ e \in Ext
        /\ \A d \in Deps[e] : \E i \in 1..Visited : sorted[i] = d
        /\ Len(sorted) - Len(Tail(work)) = Visited + 1 /\ Len(Tail(work)) <= Len(sorted)
        /\ \A i \in 1..Len(Tail(work)) : Tail(work)[i] = sorted[Visited + 1 + i]
    BY <2>1, HeadIs
  <2>3. /\ DepsFirst(initialized) /\ \A i \in 1..Visited : sorted[i] \in ToSet(initialized)
        /\ ToSet(sorted) = ToSet(registered) \cap Enabled
    BY <2>1 DEF WorkInv
  <2>4. Deps[e] \subseteq ToSet(initialized)
    BY <2>2, <2>3
  <2> HIDE DEF e
  <2>5. CASE /\ work' = Tail(work) /\ xpc' = xpc /\ DepsFirst(initialized')
             /\ ToSet(initialized) \cup {e} \subseteq ToSet(initialized')
    <3>1. Visited' = Visited + 1
      BY <2>1, <2>2, <2>5 DEF Visited
    <3>2. \A i \in 1..Visited + 1 : i \in 1..Visited \/ i = Visited + 1
      BY <2>2
    <3>3. \A i \in 1..Visited + 1 : sorted[i] \in ToSet(initialized')
      BY <2>2, <2>3, <2>5, <3>2
    <3>4. Len(work') <= Len(sorted)
      BY <2>2, <2>5
    <3> QED
      BY <2>1, <2>2, <2>3, <2>5, <3>1, <3>3, <3>4 DEF WorkInv
  <2>6. CASE xpc' \in {"usual", "other"} /\ DepsFirst(initialized')
    BY <2>6 DEF WorkInv
  <2>7. \/ e \in ToSet(initialized) /\ work' = Tail(work) /\ UNCHANGED <<initialized, xpc>>
        \/ /\ e \notin ToSet(initialized) /\ work' = Tail(work) /\ initialized' = Append(initialized, e)
           /\ xpc' = xpc
        \/ xpc' = "usual" /\ Rollback(initialized, phase)
        \/ xpc' = "other" /\ initialized' = initialized
    BY <1>2 DEF InitializeNext, e
  <2>8. ASSUME e \notin ToSet(initialized), initialized' = Append(initialized, e)
        PROVE  DepsFirst(initialized') /\ ToSet(initialized) \cup {e} \subseteq ToSet(initialized')
    BY <1>1, <2>2, <2>3, <2>4, <2>8, Appended
  <2>9. ASSUME Rollback(initialized, phase) PROVE DepsFirst(initialized')
    BY <1>1, <2>3, <2>9, RollbackKeeps, EmptyList
  <2> QED
    BY <2>3, <2>5, <2>6, <2>7, <2>8, <2>9
<1>3. CASE InitializedAll
  <2>1. /\ xpc = "init" /\ work = <<>> /\ xpc' = "start" /\ work' = sorted
        /\ UNCHANGED <<registered, sorted, initialized, phase>>
    BY <1>3 DEF InitializedAll
  <2>2. Visited = Len(sorted) /\ Visited' = 0
    BY <1>1, <2>1 DEF Visited
  <2>3. ToSet(sorted) \subseteq ToSet(initialized)
    BY <1>1, <2>1, <2>2 DEF WorkInv, ToSet
  <2> QED
    BY <1>1, <2>1, <2>2, <2>3 DEF WorkInv
<1>4. CASE StartNext
  <2>1. xpc = "start" /\ work # <<>> /\ UNCHANGED <<registered, sorted, initialized>>
    BY <1>4 DEF StartNext
  <2>2. /\ Visited \in Nat /\ Visited + 1 \in 1..Len(sorted) /\ Head(work) = sorted[Visited + 1]
        /\ Len(sorted) - Len(Tail(work)) = Visited + 1 /\ Len(Tail(work)) <= Len(sorted)
        /\ \A i \in 1..Len(Tail(work)) : Tail(work)[i] = sorted[Visited + 1 + i]
    BY <2>1, HeadIs
  <2>3. CASE xpc' \in {"usual", "other"}
    BY <2>1, <2>3 DEF WorkInv
  <2>4. CASE work' = Tail(work) /\ phase' = [phase EXCEPT ![Head(work)] = "started"] /\ xpc' = xpc
    <3>1. Visited' = Visited + 1
      BY <2>1, <2>2, <2>4 DEF Visited
    <3>2. \A i \in 1..Visited + 1 : i \in 1..Visited \/ i = Visited + 1
      BY <2>2
    <3>3. \A i \in 1..Visited + 1 : sorted[i] \in Ext
      BY <1>1, <2>2
    <3>4. \A i \in 1..Visited : phase[sorted[i]] = "started"
      BY <2>1 DEF WorkInv
    <3>5. \A i \in 1..Visited + 1 : phase'[sorted[i]] = "started"
      BY <1>1, <2>2, <2>4, <3>2, <3>3, <3>4 DEF Phases
    <3>6. Len(work') <= Len(sorted)
      BY <2>2, <2>4
    <3> QED
      BY <2>1, <2>2, <2>4, <3>1, <3>5, <3>6 DEF WorkInv
  <2>5. env.faults \subseteq {"usual", "other"}
    BY ExtensionsAssumption DEF ExtInv, ExtTypeOK
  <2> QED
    BY <1>4, <2>3, <2>4, <2>5 DEF StartNext
<1>5. CASE StartedAll
  <2>1. /\ xpc = "start" /\ work = <<>> /\ xpc' = "done"
        /\ UNCHANGED <<registered, sorted, initialized, phase>>
    BY <1>5 DEF StartedAll
  <2>2. Visited = Len(sorted)
    BY <1>1, <2>1 DEF Visited
  <2>3. \A e \in ToSet(sorted) : phase[e] = "started"
    BY <1>1, <2>1, <2>2 DEF WorkInv, ToSet
  <2> QED
    BY <2>1, <2>3 DEF WorkInv
<1> QED
  BY <1>2, <1>3, <1>4, <1>5 DEF StartUp

\* The loops run within boot(), and nobody else touches what they go through.
LEMMA WorkKeeps == ASSUME EngInv, env.alone, Next PROVE WorkInv'
<1>0. ExtInv /\ WorkInv /\ FlowInv
  BY DEF EngInv, AloneInv, PlaceInv
<1>1. ASSUME UNCHANGED extVars PROVE WorkInv'
  BY <1>0, <1>1 DEF WorkInv, Visited, extVars
<1>2. ASSUME xpc' = "idle", DepsFirst(initialized') PROVE WorkInv'
  BY <1>2 DEF WorkInv
<1>3. ASSUME NEW e \in Ext, Use(e) PROVE WorkInv'
  <2>1. Register(e) /\ xpc' = "idle"
    BY <1>3 DEF Use, Register
  <2> QED
    BY <1>0, <1>2, <2>1, RegisterWorks
<1>4. CASE BootBegins \/ BootStep
  BY <1>1, <1>4 DEF BootBegins, BootStep, AsyncStarts, HostedStart, SchedulerStarts, SetBooted, SetReady,
       SwapCallbacks, RunCallbacks, CleanupScheduler, CleanupHosted, CleanupAsync
<1>5. CASE ExtensionsBegin \/ ExtensionsStep
  BY <1>0, <1>5, SortWorks, StartUpWorks DEF ExtensionsBegin, ExtensionsStep
<1>6. CASE ExtensionsEnd
  BY <1>0, <1>2, <1>6 DEF ExtensionsEnd, Return, WorkInv
<1>7. CASE \E w \in Waiter : WhenReady(w) \/ WhenReadyAppends(w)
  BY <1>1, <1>7 DEF WhenReady, WhenReadyAppends
<1>8. ASSUME NEW s \in Stopper, StopBegins(s) \/ StopProgress(s) PROVE WorkInv'
  BY <1>1, <1>8 DEF StopBegins, StopProgress, StopMarks, StepReturns, StopEnds
<1>9. ASSUME NEW s \in Stopper, StepThread(s) PROVE WorkInv'
  <2>1. CASE ExtensionsStop(s)
    <3>1. xpc = "idle"
      BY <2>1, StopsAlone DEF ExtensionsStop
    <3>2. xpc' = xpc /\ initialized' \in {initialized, <<>>}
      BY <2>1 DEF ExtensionsStop, StopAndDispose, ShutDown, StopNext, DisposeNext, ClearLists
    <3>3. DepsFirst(initialized')
      BY <1>0, <3>2, EmptyList DEF WorkInv
    <3> QED
      BY <1>2, <3>1, <3>2, <3>3
  <2>2. CASE ~ExtensionsStop(s)
    BY <1>1, <1>9, <2>2 DEF StepThread, SchedulerStops, HostedStops, TasksShutDown, AsyncStops, EventBusStops
  <2> QED
    BY <2>1, <2>2
<1> QED
  BY <1>3, <1>4, <1>5, <1>6, <1>7, <1>8, <1>9 DEF Next, Boot, BootStep

\* Where no exception gets past the manager, a rollback is complete.
LEMMA RollbackAll ==
  ASSUME NEW init \in Lists, NEW ph \in Phases, Rollback(init, ph), "other" \notin env.faults
  PROVE  initialized' = <<>> /\ \A e \in Ext : phase'[e] = "started" => ph[e] = "started"
  BY DEF Rollback, Phases

\* Registration starts nothing.
LEMMA RegisterPhases ==
  ASSUME ExtInv, PhaseInv, NEW x \in Ext, Register(x), "other" \notin env.faults
  PROVE  PhaseInv' /\ \A e \in Ext : phase'[e] = "started" => phase[e] = "started"
<1> DEFINE order == InitOrder(registered', initialized)
           upTo(n) == initialized \o SubSeq(order, 1, n)
           ph(n) == Initialize(phase, ToSet(SubSeq(order, 1, n)))
<1>1. /\ x \notin ToSet(registered) /\ registered' = Append(registered, x)
      /\ UNCHANGED <<sorted, dpc, down>>
  BY DEF Register
<1>2. registered' \in Lists
  BY <1>1, Appended DEF ExtInv, ListInv
<1>3. order \in Seq(Ext) /\ \A n \in 0..Len(order) : upTo(n) \in Lists
  BY <1>2, OrdersAssumption DEF ExtInv, ListInv
<1>4. phase \in Phases /\ initialized \in Seq(Ext)
  BY DEF ExtInv, ExtTypeOK, Phases
<1>5. \A n : ph(n) \in Phases /\ \A e \in Ext : ph(n)[e] = "started" => phase[e] = "started"
  BY <1>4 DEF Initialize, Phases
<1>6. Len(order) \in Nat
  BY <1>3
<1>7. ASSUME NEW n \in 0..Len(order), NEW e \in Ext, e \in ToSet(upTo(n))
      PROVE  e \in ToSet(initialized) \/ ph(n)[e] = "initialized"
  <2>1. SubSeq(order, 1, n) \in Seq(Ext)
    BY <1>3
  <2> DEFINE q == SubSeq(order, 1, n)
  <2> HIDE DEF q
  <2>2. e \in ToSet(initialized \o q)
    BY <1>7 DEF q
  <2>3. q \in Seq(Ext)
    BY <2>1 DEF q
  <2>4. e \in ToSet(initialized) \/ e \in ToSet(q)
    BY <1>4, <2>2, <2>3 DEF ToSet
  <2>5. e \in ToSet(q) => Initialize(phase, ToSet(q))[e] = "initialized"
    BY DEF Initialize
  <2> QED
    BY <2>4, <2>5 DEF q
<1> HIDE DEF order
<1>8. ASSUME \A e \in Ext : phase'[e] = "started" => phase[e] = "started",
             (\A s \in Stopper : dpc[s] = "idle") =>
                \A e \in ToSet(initialized') : phase'[e] \in {"initialized", "started"}
      PROVE  PhaseInv' /\ \A e \in Ext : phase'[e] = "started" => phase[e] = "started"
  BY <1>1, <1>8 DEF PhaseInv
<1>9. CASE initialized' = upTo(Len(order)) /\ phase' = ph(Len(order))
  <2>1. ToSet(initialized') \subseteq Ext
    <3>1. upTo(Len(order)) \in Lists
      BY <1>3, <1>6
    <3>2. initialized' \in Seq(Ext)
      BY <1>9, <3>1, ListsAre
    <3> QED
      BY <3>2 DEF ToSet
  <2>2. ASSUME \A s \in Stopper : dpc[s] = "idle", NEW e \in ToSet(initialized')
        PROVE  phase'[e] \in {"initialized", "started"}
    <3>1. e \in Ext /\ (e \in ToSet(initialized) \/ phase'[e] = "initialized")
      BY <1>6, <1>7, <1>9, <2>1
    <3>2. e \in ToSet(initialized) => phase[e] \in {"initialized", "started"}
      BY <2>2 DEF PhaseInv
    <3>3. phase'[e] \in {"initialized", phase[e]}
      BY <1>9, <3>1 DEF Initialize
    <3> QED
      BY <3>1, <3>2, <3>3
  <2>3. \A e \in Ext : phase'[e] = "started" => phase[e] = "started"
    BY <1>5, <1>9
  <2> QED
    BY <1>8, <2>2, <2>3
<1>10. ASSUME NEW n \in 0..(Len(order) - 1), Rollback(upTo(n), ph(n))
       PROVE  PhaseInv' /\ \A e \in Ext : phase'[e] = "started" => phase[e] = "started"
  <2>1. upTo(n) \in Lists /\ ph(n) \in Phases /\ \A e \in Ext : ph(n)[e] = "started" => phase[e] = "started"
    BY <1>3, <1>5, <1>6
  <2> HIDE DEF upTo, ph
  <2>2. initialized' = <<>> /\ \A e \in Ext : phase'[e] = "started" => phase[e] = "started"
    BY <1>10, <2>1, RollbackAll
  <2> QED
    BY <1>8, <2>2, EmptyList
<1> QED
  BY <1>9, <1>10 DEF Register, order

\* What was sorted before is sorted again.
LEMMA SortPhases == ASSUME ExtInv, PhaseInv, SortExtensions PROVE PhaseInv'
<1>1. UNCHANGED <<initialized, phase, dpc, down>>
  BY DEF SortExtensions
<1>2. ToSet(sorted) \subseteq ToSet(sorted')
  <2>1. CASE Unresolvable(registered)
    BY <2>1 DEF SortExtensions
  <2>2. CASE ~Unresolvable(registered)
    <3>1. sorted' = BuildAndSort(registered)
      BY <2>2 DEF SortExtensions
    <3>2. ToSet(sorted') = ToSet(registered) \cap Enabled
      BY <2>2, <3>1, OrdersAssumption DEF ExtInv, ListInv
    <3> QED
      BY <3>2 DEF ExtInv, ListInv
  <2> QED
    BY <2>1, <2>2
<1> QED
  BY <1>1, <1>2 DEF PhaseInv

\* The loops start what is sorted, and initialize what they put in the list.
LEMMA StartUpPhases ==
  ASSUME ExtInv, WorkInv, PhaseInv, \A s \in Stopper : dpc[s] = "idle", "other" \notin env.faults, StartUp
  PROVE  PhaseInv'
<1>1. initialized \in Lists /\ phase \in Phases /\ ToSet(initialized) \subseteq Ext
  BY ListsAre DEF ExtInv, ExtTypeOK, ListInv, Phases, ToSet
<1>2. UNCHANGED <<dpc, down, sorted>>
  BY DEF StartUp, InitializeNext, InitializedAll, StartNext, StartedAll
<1>3. ASSUME \A e \in ToSet(initialized') : phase'[e] \in {"initialized", "started"},
             \A e \in Ext : phase'[e] = "started" => phase[e] = "started" \/ e \in ToSet(sorted)
      PROVE  PhaseInv'
  BY <1>2, <1>3 DEF PhaseInv
<1>4. \A e \in ToSet(initialized) : phase[e] \in {"initialized", "started"}
  BY DEF PhaseInv
<1>5. CASE UNCHANGED <<initialized, phase>>
  BY <1>3, <1>4, <1>5
<1>6. ASSUME NEW e \in Ext, e \notin ToSet(initialized), initialized' = Append(initialized, e),
             phase' = Initialize(phase, {e})
      PROVE  PhaseInv'
  <2>1. ToSet(initialized') = ToSet(initialized) \cup {e}
    BY <1>1, <1>6, Appended
  <2>2. \A f \in Ext : phase'[f] = IF f = e THEN "initialized" ELSE phase[f]
    BY <1>6 DEF Initialize
  <2> QED
    BY <1>1, <1>3, <1>4, <2>1, <2>2
<1>7. CASE Rollback(initialized, phase)
  BY <1>1, <1>3, <1>7, RollbackAll, EmptyList
<1>8. ASSUME xpc = "start", work # <<>>, phase' = [phase EXCEPT ![Head(work)] = "started"],
             initialized' = initialized
      PROVE  PhaseInv'
  <2>1. Visited + 1 \in DOMAIN sorted /\ Head(work) = sorted[Visited + 1]
    BY <1>8, HeadIs
  <2>2. Head(work) \in ToSet(sorted)
    BY <2>1 DEF ToSet
  <2>3. \A f \in Ext : phase'[f] = IF f = Head(work) THEN "started" ELSE phase[f]
    BY <1>1, <1>8 DEF Phases
  <2> QED
    BY <1>1, <1>3, <1>4, <1>8, <2>2, <2>3
<1>9. work # <<>> /\ xpc \in {"init", "start"} => Head(work) \in Ext
  BY HeadIs
<1>10. CASE InitializeNext
  BY <1>5, <1>6, <1>7, <1>9, <1>10 DEF InitializeNext
<1>11. CASE StartNext
  BY <1>5, <1>8, <1>11 DEF StartNext
<1>12. CASE InitializedAll \/ StartedAll
  BY <1>5, <1>12 DEF InitializedAll, StartedAll
<1> QED
  BY <1>10, <1>11, <1>12 DEF StartUp

\* stop_and_dispose() starts nothing, and has stopped it all when it is through.
LEMMA ShutDownPhases ==
  ASSUME ExtInv, PhaseInv, NEW s \in Stopper, \A t \in Stopper : t # s => dpc[t] = "idle",
         "other" \notin env.faults, StopAndDispose(s) \/ ShutDown(s)
  PROVE  /\ PhaseInv' /\ \A e \in Ext : phase'[e] = "started" => phase[e] = "started"
         /\ ShutDown(s) /\ dpc'[s] = "idle" => NoneStarted'
<1>1. /\ phase \in Phases /\ dpc \in [Stopper -> {"idle", "stop", "dispose"}] /\ down \in [Stopper -> Seq(Ext)]
      /\ sorted \in Lists /\ DepsFirst(sorted)
      /\ \A t \in Stopper : dpc[t] = "dispose" => down[t] # <<>>
  BY DEF ExtInv, ExtTypeOK, ListInv, Phases
<1>2. \A e \in Ext : phase[e] = "started" => e \in ToSet(sorted)
  BY DEF PhaseInv
<1>3. dpc[s] # "idle" => \A e \in Ext : phase[e] = "started" => e \in ToSet(down[s])
  BY DEF PhaseInv
<1>4. CASE StopAndDispose(s)
  <2>1. /\ dpc' = [dpc EXCEPT ![s] = "stop"] /\ down' = [down EXCEPT ![s] = Reverse(sorted)]
        /\ UNCHANGED <<sorted, initialized, phase>> /\ dpc[s] = "idle"
    BY <1>4 DEF StopAndDispose
  <2>2. ToSet(Reverse(sorted)) = ToSet(sorted)
    BY <1>1, Reversed
  <2>3. dpc'[s] = "stop" /\ down'[s] = Reverse(sorted) /\ \A t \in Stopper : t # s => dpc'[t] = "idle"
    BY <1>1, <2>1
  <2>4. PhaseInv'
    BY <1>2, <2>1, <2>2, <2>3 DEF PhaseInv
  <2>5. ~ShutDown(s)
    BY <2>1 DEF ShutDown, StopNext, DisposeNext, ClearLists
  <2> QED
    BY <2>1, <2>4, <2>5
<1>5. CASE StopNext(s) \/ DisposeNext(s)
  <2>1. UNCHANGED <<sorted, initialized>> /\ down[s] # <<>> /\ dpc[s] # "idle"
    BY <1>1, <1>5 DEF StopNext, DisposeNext
  <2>2. Head(down[s]) \in Ext /\ \A e \in ToSet(down[s]) : e = Head(down[s]) \/ e \in ToSet(Tail(down[s]))
    BY <1>1, <2>1, Rest
  <2>3. \/ /\ dpc' = [dpc EXCEPT ![s] = "dispose"] /\ phase' = [phase EXCEPT ![Head(down[s])] = "stopped"]
           /\ down' = down
        \/ /\ dpc' = [dpc EXCEPT ![s] = "stop"] /\ phase' = [phase EXCEPT ![Head(down[s])] = "disposed"]
           /\ down' = [down EXCEPT ![s] = Tail(down[s])]
    BY <1>5 DEF StopNext, DisposeNext, LoopRaises
  <2>4. dpc'[s] # "idle" /\ \A t \in Stopper : t # s => dpc'[t] = "idle"
    BY <1>1, <2>3
  <2>5. \A e \in Ext : phase'[e] = "started" => phase[e] = "started" /\ e # Head(down[s])
    BY <1>1, <2>2, <2>3 DEF Phases
  <2>6. down'[s] \in {down[s], Tail(down[s])}
    BY <1>1, <2>3
  <2>7. \A e \in Ext : phase'[e] = "started" => e \in ToSet(down'[s])
    BY <1>3, <2>1, <2>2, <2>5, <2>6
  <2>8. PhaseInv'
    BY <1>2, <2>1, <2>4, <2>5, <2>7 DEF PhaseInv
  <2> QED
    BY <2>4, <2>5, <2>8
<1>6. CASE ClearLists(s)
  <2>1. /\ initialized' = <<>> /\ phase' = phase /\ dpc' = [dpc EXCEPT ![s] = "idle"]
        /\ dpc[s] = "stop" /\ down[s] = <<>>
    BY <1>6 DEF ClearLists
  <2>2. NoneStarted
    BY <1>3, <2>1, EmptyList DEF NoneStarted
  <2>3. \A t \in Stopper : dpc'[t] = "idle"
    BY <1>1, <2>1
  <2>4. NoneStarted'
    BY <2>1, <2>2 DEF NoneStarted
  <2>5. PhaseInv'
    BY <2>1, <2>3, <2>4, EmptyList DEF PhaseInv, NoneStarted
  <2> QED
    BY <2>1, <2>4, <2>5
<1> QED
  BY <1>4, <1>5, <1>6 DEF ShutDown

\* Everything started can be stopped, whatever boot() and stop() do next.
LEMMA PhaseKeeps == ASSUME EngInv, env.alone, "other" \notin env.faults, Next PROVE PhaseInv'
<1>0. ExtInv /\ WorkInv /\ PhaseInv
  BY DEF EngInv, AloneInv
<1>1. ASSUME UNCHANGED <<sorted, initialized, phase, dpc, down>> PROVE PhaseInv'
  BY <1>0, <1>1 DEF PhaseInv
<1>2. CASE \E e \in Ext : Use(e)
  BY <1>0, <1>2, RegisterPhases DEF Use
<1>3. CASE BootBegins \/ BootStep
  BY <1>1, <1>3 DEF extVars, BootBegins, BootStep, AsyncStarts, HostedStart, SchedulerStarts, SetBooted,
       SetReady, SwapCallbacks, RunCallbacks, CleanupScheduler, CleanupHosted, CleanupAsync
<1>4. CASE ExtensionsBegin
  BY <1>0, <1>4, SortPhases DEF ExtensionsBegin
<1>5. CASE ExtensionsStep
  <2>1. StartUp /\ bpc # "idle"
    BY <1>5 DEF ExtensionsStep
  <2>2. \A s \in Stopper : dpc[s] = "idle"
    BY <2>1, BootsAlone
  <2> QED
    BY <1>0, <2>1, <2>2, StartUpPhases
<1>6. CASE ExtensionsEnd
  BY <1>1, <1>6 DEF ExtensionsEnd, Return
<1>7. CASE \E w \in Waiter : WhenReady(w) \/ WhenReadyAppends(w)
  BY <1>1, <1>7 DEF WhenReady, WhenReadyAppends, extVars
<1>8. ASSUME NEW s \in Stopper, StopBegins(s) \/ StopProgress(s) PROVE PhaseInv'
  BY <1>1, <1>8 DEF StopBegins, StopProgress, StopMarks, StepReturns, StopEnds, extVars
<1>9. ASSUME NEW s \in Stopper, StepThread(s) PROVE PhaseInv'
  <2>1. CASE ExtensionsStop(s)
    <3>1. \A t \in Stopper : t # s => dpc[t] = "idle"
      BY <2>1, StopsAlone DEF ExtensionsStop
    <3> QED
      BY <1>0, <2>1, <3>1, ShutDownPhases DEF ExtensionsStop
  <2>2. CASE ~ExtensionsStop(s)
    BY <1>1, <1>9, <2>2 DEF StepThread, SchedulerStops, HostedStops, TasksShutDown, AsyncStops,
         EventBusStops, extVars
  <2> QED
    BY <2>1, <2>2
<1> QED
  BY <1>2, <1>3, <1>4, <1>5, <1>6, <1>7, <1>8, <1>9 DEF Next, Boot, BootStep

\* The steps of a stop end in turn, and nothing comes up behind them.
LEMMA DownKeeps == ASSUME EngInv, env.alone, "other" \notin env.faults, Next PROVE DownInv'
<1>0. /\ ExtInv /\ TurnInv /\ PhaseInv /\ DownInv /\ FlowInv
      /\ spc \in [Stopper -> {"idle", "mark", "steps", "end", "returned"}]
      /\ step \in [Stopper -> 0..6] /\ live \in [Stopper -> SUBSET (1..6)]
  BY DEF EngInv, AloneInv, PlaceInv, MainTypeOK
<1>1. ~env.hangs
  BY <1>0, EngineAssumption DEF ExtInv, ExtTypeOK
<1> DEFINE Quiet == \A s \in Stopper : spc'[s] \notin {"steps", "end"}
<1>2. ASSUME Quiet, state' # "stopped" PROVE DownInv'
  BY <1>2 DEF DownInv
<1>3. ASSUME Quiet, UNCHANGED <<state, asyncOn, schedulerOn, tasksOpen, busOpen, services>>,
             \A e \in Ext : phase'[e] = "started" => phase[e] = "started"
      PROVE  DownInv'
  <2>1. NoneStarted => NoneStarted'
    BY <1>3 DEF NoneStarted
  <2> QED
    BY <1>0, <1>3, <2>1 DEF DownInv
<1>4. CASE \E e \in Ext : Use(e)
  <2>1. PICK e \in Ext : Use(e)
    BY <1>4
  <2>2. Quiet
    BY <2>1 DEF Use, NoStop, stopVars
  <2>3. UNCHANGED <<state, asyncOn, schedulerOn, tasksOpen, busOpen, services>> /\ Register(e)
    BY <2>1 DEF Use, runVars
  <2>4. \A f \in Ext : phase'[f] = "started" => phase[f] = "started"
    BY <1>0, <2>3, RegisterPhases
  <2> QED
    BY <1>3, <2>2, <2>3, <2>4
<1>5. CASE BootBegins
  <2>1. Quiet /\ state' = "booting"
    BY <1>5 DEF BootBegins, NoStop, stopVars
  <2> QED
    BY <1>2, <2>1
<1>6. CASE Boot
  <2>1. bpc # "idle" /\ spc' = spc /\ state' \in {state, "booted", "ready"}
    BY <1>6 DEF Boot, AsyncStarts, HostedStart, SchedulerStarts, SetBooted, SetReady, SwapCallbacks,
         RunCallbacks, CleanupScheduler, CleanupHosted, CleanupAsync, ExtensionsBegin, ExtensionsStep,
         ExtensionsEnd, stopVars, bootVars
  <2>2. Quiet
    BY <2>1, BootsAlone
  <2>3. state # "stopped"
    BY <1>0, <2>1 DEF TurnInv, WithCallbacks
  <2> QED
    BY <1>2, <2>1, <2>2, <2>3
<1>7. CASE \E w \in Waiter : WhenReady(w) \/ WhenReadyAppends(w)
  <2>1. UNCHANGED <<extVars, state, runVars, stopVars>>
    BY <1>7 DEF WhenReady, WhenReadyAppends
  <2> QED
    BY <1>0, <2>1 DEF DownInv, Past, NoneStarted, extVars, runVars, stopVars
<1>8. ASSUME NEW s \in Stopper, StopBegins(s) PROVE DownInv'
  <2>1. UNCHANGED <<state, extVars, runVars>> /\ spc' = [spc EXCEPT ![s] = "mark"]
        /\ \A t \in Stopper : spc[t] \in {"idle", "returned"}
    BY <1>8 DEF StopBegins, NoStop
  <2>2. Quiet
    BY <1>0, <2>1
  <2> QED
    BY <1>3, <2>1, <2>2 DEF extVars, runVars
<1>9. ASSUME NEW s \in Stopper, StopProgress(s) PROVE DownInv'
  <2>1. UNCHANGED <<extVars, runVars>> /\ spc[s] \in {"mark", "steps", "end"}
    BY <1>9 DEF StopProgress, StopMarks, StepReturns, StopEnds
  <2>2. \A t \in Stopper : t # s => spc[t] \in {"idle", "returned"}
    BY <1>0, <2>1 DEF TurnInv
  <2>3. \A t \in Stopper : t # s => spc'[t] = spc[t]
    BY <1>0, <1>9 DEF StopProgress, StopMarks, StepReturns, StopEnds
  <2>4. NoneStarted' <=> NoneStarted
    BY <2>1 DEF NoneStarted, extVars
  <2>5. UNCHANGED <<asyncOn, schedulerOn, tasksOpen, busOpen, services>>
    BY <2>1 DEF runVars
  <2>6. CASE StopMarks(s) /\ spc'[s] = "returned"
    <3>1. state' = state
      BY <1>0, <2>6 DEF StopMarks
    <3>2. Quiet
      BY <2>2, <2>3, <2>6
    <3>3. phase' = phase
      BY <2>1 DEF extVars
    <3> QED
      BY <1>3, <2>5, <3>1, <3>2, <3>3
  <2>7. CASE StopMarks(s) /\ spc'[s] # "returned"
    <3>1. state' = "stopping" /\ step'[s] = 1 /\ 1 \in live'[s]
      BY <1>0, <2>7 DEF StopMarks, LaunchStep
    <3>2. \A n \in 1..6 : ~Past(s, n)'
      BY <3>1 DEF Past
    <3> QED
      BY <2>2, <2>3, <3>1, <3>2 DEF DownInv
  <2>8. CASE StepReturns(s)
    <3>1. spc[s] = "steps" /\ state' = state /\ step[s] \in 0..6 /\ live[s] = {}
      BY <1>0, <1>1, <2>8 DEF StepReturns, FlowInv
    <3>2. state' = "stopping"
      BY <1>0, <3>1 DEF TurnInv
    <3>3. \/ step'[s] = step[s] + 1 /\ step[s] + 1 \in live'[s]
          \/ step'[s] = step[s] /\ live'[s] = live[s]
      BY <1>0, <2>8 DEF StepReturns, LaunchStep
    <3>4. \A n \in 1..6 : Past(s, n)' => Past(s, n)
      BY <3>1, <3>3 DEF Past
    <3>5. /\ Past(s, 1)' => ~schedulerOn
          /\ Past(s, 2)' => services = {}
          /\ Past(s, 3)' => NoneStarted
          /\ Past(s, 4)' => ~tasksOpen
          /\ Past(s, 5)' => ~asyncOn
          /\ Past(s, 6)' => ~busOpen
      BY <1>0, <3>1, <3>4 DEF DownInv
    <3> QED
      BY <2>2, <2>3, <2>4, <2>5, <3>2, <3>5 DEF DownInv
  <2>9. CASE StopEnds(s)
    <3>1. spc[s] = "end" /\ spc'[s] = "returned" /\ state' = "stopped"
      BY <1>0, <2>9 DEF StopEnds
    <3>2. step[s] = 6 /\ live[s] = {}
      BY <1>0, <1>1, <3>1 DEF FlowInv
    <3>3. \A n \in 1..6 : Past(s, n)
      BY <3>2 DEF Past
    <3>4. ~schedulerOn /\ services = {} /\ NoneStarted /\ ~tasksOpen /\ ~asyncOn /\ ~busOpen
      BY <1>0, <3>1, <3>3 DEF DownInv
    <3> QED
      BY <2>2, <2>3, <2>4, <2>5, <3>1, <3>4 DEF DownInv
  <2> QED
    BY <1>9, <2>6, <2>7, <2>8, <2>9 DEF StopProgress
<1>10. ASSUME NEW s \in Stopper, StepThread(s) PROVE DownInv'
  <2>1. UNCHANGED <<state, spc, step>> /\ live[s] # {}
    BY <1>10 DEF StepThread, SchedulerStops, HostedStops, ExtensionsStop, TasksShutDown, AsyncStops,
         EventBusStops, StepEnds
  <2>2. /\ spc[s] = "steps" /\ live[s] = {step[s]} /\ state' = "stopping"
        /\ \A t \in Stopper : t # s => spc[t] \in {"idle", "returned"} /\ dpc[t] = "idle"
    BY <2>1, StopsAlone
  <2>3. step[s] \in 1..6
    BY <1>0, <2>2
  <2>4. \A n \in 1..6 : Past(s, n) <=> n < step[s]
    BY <2>2, <2>3 DEF Past
  <2>5. \A n \in 1..6 : Past(s, n)' => n < step[s] \/ (n = step[s] /\ step[s] \notin live'[s])
    BY <2>1, <2>3 DEF Past
  <2>6. /\ 1 < step[s] => ~schedulerOn
        /\ 2 < step[s] => services = {}
        /\ 3 < step[s] => NoneStarted
        /\ 4 < step[s] => ~tasksOpen
        /\ 5 < step[s] => ~asyncOn
    BY <1>0, <2>2, <2>4 DEF DownInv
  <2>7. ASSUME ~schedulerOn' \/ (step[s] # 1 /\ schedulerOn' = schedulerOn),
               services' = {} \/ (step[s] # 2 /\ services' = services),
               NoneStarted' \/ (step[s] # 3 /\ (NoneStarted => NoneStarted'))
                            \/ (step[s] = 3 /\ 3 \in live'[s]),
               ~tasksOpen' \/ (step[s] # 4 /\ tasksOpen' = tasksOpen),
               ~asyncOn' \/ (step[s] # 5 /\ asyncOn' = asyncOn),
               ~busOpen' \/ step[s] # 6
        PROVE  DownInv'
    <3>1. \A n \in 1..6 : Past(s, n)' => n < step[s] \/ (n = step[s] /\ n \notin live'[s])
      BY <2>5
    <3>2. ~(6 < step[s]) /\ (step[s] = 3 => ~(3 < step[s]))
      BY <2>3
    <3>3. /\ Past(s, 1)' => ~schedulerOn'
          /\ Past(s, 2)' => services' = {}
          /\ Past(s, 3)' => NoneStarted'
          /\ Past(s, 4)' => ~tasksOpen'
          /\ Past(s, 5)' => ~asyncOn'
          /\ Past(s, 6)' => ~busOpen'
      BY <2>6, <2>7, <3>1, <3>2
    <3> QED
      BY <2>1, <2>2, <3>3 DEF DownInv
  <2>8. CASE ExtensionsStop(s)
    <3>1. step[s] = 3 /\ UNCHANGED <<asyncOn, schedulerOn, tasksOpen, busOpen, services>>
      BY <2>2, <2>8 DEF ExtensionsStop, runVars
    <3>2. NoneStarted' \/ 3 \in live'[s]
      <4>1. StopAndDispose(s) \/ ShutDown(s)
        BY <2>8 DEF ExtensionsStop
      <4>2. ShutDown(s) /\ dpc'[s] = "idle" => NoneStarted'
        BY <1>0, <2>2, <4>1, ShutDownPhases
      <4>3. 3 \in live[s] /\ (live' = live \/ (ShutDown(s) /\ dpc'[s] = "idle"))
        BY <2>8 DEF ExtensionsStop
      <4> QED
        BY <4>2, <4>3
    <3>3. step[s] # 1 /\ step[s] # 2 /\ step[s] # 4 /\ step[s] # 5 /\ step[s] # 6
      BY <3>1
    <3> QED
      BY <2>7, <3>1, <3>2, <3>3
  <2>9. CASE ~ExtensionsStop(s)
    <3>1. NoneStarted => NoneStarted'
      BY <1>10, <2>9 DEF StepThread, SchedulerStops, HostedStops, TasksShutDown, AsyncStops, EventBusStops,
           extVars, NoneStarted
    <3>2. \A name : StepEnds(s, name) => Steps[step[s]] = name
      BY <2>2 DEF StepEnds
    <3>3. /\ Steps[step[s]] = "scheduler" <=> step[s] = 1
          /\ Steps[step[s]] = "hosted services" <=> step[s] = 2
          /\ Steps[step[s]] = "task manager" <=> step[s] = 4
          /\ Steps[step[s]] = "async runtime" <=> step[s] = 5
          /\ Steps[step[s]] = "event bus" <=> step[s] = 6
      BY <2>3, StepNames
    <3>4. CASE SchedulerStops(s)
      <4>1. step[s] = 1
        BY <3>2, <3>3, <3>4 DEF SchedulerStops
      <4>2. step[s] # 2 /\ step[s] # 3 /\ step[s] # 4 /\ step[s] # 5 /\ step[s] # 6
        BY <4>1
      <4> QED
        BY <2>7, <3>1, <3>4, <4>2 DEF SchedulerStops
    <3>5. CASE HostedStops(s)
      <4>1. step[s] = 2
        BY <3>2, <3>3, <3>5 DEF HostedStops
      <4>2. step[s] # 1 /\ step[s] # 3 /\ step[s] # 4 /\ step[s] # 5 /\ step[s] # 6
        BY <4>1
      <4> QED
        BY <2>7, <3>1, <3>5, <4>2 DEF HostedStops
    <3>6. CASE TasksShutDown(s)
      <4>1. step[s] = 4
        BY <3>2, <3>3, <3>6 DEF TasksShutDown
      <4>2. step[s] # 1 /\ step[s] # 2 /\ step[s] # 3 /\ step[s] # 5 /\ step[s] # 6
        BY <4>1
      <4> QED
        BY <2>7, <3>1, <3>6, <4>2 DEF TasksShutDown
    <3>7. CASE AsyncStops(s)
      <4>1. step[s] = 5
        BY <3>2, <3>3, <3>7 DEF AsyncStops
      <4>2. step[s] # 1 /\ step[s] # 2 /\ step[s] # 3 /\ step[s] # 4 /\ step[s] # 6
        BY <4>1
      <4> QED
        BY <2>7, <3>1, <3>7, <4>2 DEF AsyncStops
    <3>8. CASE EventBusStops(s)
      <4>1. step[s] = 6
        BY <3>2, <3>3, <3>8 DEF EventBusStops
      <4>2. step[s] # 1 /\ step[s] # 2 /\ step[s] # 3 /\ step[s] # 4 /\ step[s] # 5
        BY <4>1
      <4> QED
        BY <2>7, <3>1, <3>8, <4>2 DEF EventBusStops
    <3> QED
      BY <1>10, <2>9, <3>4, <3>5, <3>6, <3>7, <3>8 DEF StepThread
  <2> QED
    BY <2>8, <2>9
<1> QED
  BY <1>4, <1>5, <1>6, <1>7, <1>8, <1>9, <1>10 DEF Next

-----------------------------------------------------------------------------
(* Any number of extensions, services, stoppers and boots *)

\* The manager's lists are changed by its own operations only.
LEMMA ExtKeeps == ASSUME ExtInv, Next PROVE ExtInv'
<1>1. ASSUME UNCHANGED extVars PROVE ExtInv'
  BY <1>1 DEF extVars, ExtInv, ExtTypeOK, ListInv
<1>2. CASE \E e \in Ext : Use(e)
  BY <1>2, RegisterKeeps DEF Use
<1>3. CASE BootBegins \/ BootStep
  BY <1>1, <1>3 DEF BootBegins, BootStep, AsyncStarts, HostedStart, SchedulerStarts, SetBooted, SetReady,
       SwapCallbacks, RunCallbacks, CleanupScheduler, CleanupHosted, CleanupAsync
<1>4. CASE ExtensionsBegin
  BY <1>4, SortKeeps DEF ExtensionsBegin
<1>5. CASE ExtensionsStep \/ ExtensionsEnd
  BY <1>5, StartUpKeeps DEF ExtensionsStep, ExtensionsEnd
<1>6. CASE \E w \in Waiter : WhenReady(w) \/ WhenReadyAppends(w)
  BY <1>1, <1>6 DEF WhenReady, WhenReadyAppends
<1>7. ASSUME NEW s \in Stopper, StopBegins(s) \/ StopProgress(s) PROVE ExtInv'
  BY <1>1, <1>7 DEF StopBegins, StopProgress, StopMarks, StepReturns, StopEnds
<1>8. ASSUME NEW s \in Stopper, StepThread(s) PROVE ExtInv'
  <2>1. CASE ExtensionsStop(s)
    BY <2>1, ShutDownKeeps DEF ExtensionsStop
  <2>2. CASE ~ExtensionsStop(s)
    BY <1>1, <1>8, <2>2 DEF StepThread, SchedulerStops, HostedStops, TasksShutDown, AsyncStops, EventBusStops
  <2> QED
    BY <2>1, <2>2
<1> QED
  BY <1>2, <1>3, <1>4, <1>5, <1>6, <1>7, <1>8 DEF Next, Boot, BootStep

\* boot(), stop() and the manager keep to their places.
LEMMA PlaceKeeps == ASSUME ExtInv, PlaceInv, Next PROVE PlaceInv'
  BY BootFlows, WaitFlows, StopFlows, StepFlows DEF Next

\* A new engine.
LEMMA EngStarts == Init => EngInv /\ WaitInv
<1> SUFFICES ASSUME Init PROVE EngInv /\ WaitInv
  OBVIOUS
<1>1. /\ env \in Envs /\ registered = <<>> /\ sorted = <<>> /\ initialized = <<>> /\ work = <<>>
      /\ phase = [e \in Ext |-> "none"] /\ xpc = "idle"
      /\ dpc = [s \in Stopper |-> "idle"] /\ down = [s \in Stopper |-> <<>>]
  BY DEF Init, ExtInit
<1>2. /\ state = "created" /\ services = {} /\ bpc = "idle" /\ boots = 0
      /\ asyncOn = FALSE /\ schedulerOn = FALSE /\ tasksOpen = TRUE /\ busOpen = TRUE
      /\ spc = [s \in Stopper |-> "idle"] /\ step = [s \in Stopper |-> 0] /\ live = [s \in Stopper |-> {}]
  BY DEF Init
<1>3. ExtTypeOK
  <2>1. <<>> \in Seq(Ext)
    OBVIOUS
  <2> QED
    BY <1>1, <2>1 DEF ExtTypeOK
<1>4. ListInv
  BY <1>1, EmptyList DEF ListInv
<1>5. PlaceInv
  <2>1. MainTypeOK
    <3>1. /\ spc \in [Stopper -> {"idle", "mark", "steps", "end", "returned"}]
          /\ step \in [Stopper -> 0..6] /\ live \in [Stopper -> SUBSET (1..6)]
      BY <1>2
    <3>2. services \subseteq Service /\ boots \in Nat
      BY <1>2
    <3> QED
      BY <1>2, <3>1, <3>2 DEF MainTypeOK
  <2>2. FlowInv
    BY <1>1, <1>2 DEF FlowInv
  <2> QED
    BY <2>1, <2>2 DEF PlaceInv
<1>6. TurnInv /\ UpInv
  BY <1>2 DEF TurnInv, UpInv, WithAsync, WithExtensions, WithHosted, WithScheduler, WithCallbacks
<1>7. WorkInv
  BY <1>1, EmptyList DEF WorkInv
<1>8. PhaseInv /\ DownInv
  BY <1>1, <1>2, EmptyList DEF PhaseInv, DownInv
<1>9. WaitInv
  BY DEF Init, WaitInv, WaitTypeOK, OnceInv, Listed
<1> QED
  BY <1>3, <1>4, <1>5, <1>6, <1>7, <1>8, <1>9 DEF EngInv, ExtInv, AloneInv

\* Each part of the invariant is kept by the help of the others.
LEMMA EngKeeps == EngInv /\ [Next]_vars => EngInv'
<1> SUFFICES ASSUME EngInv, [Next]_vars PROVE EngInv'
  OBVIOUS
<1>1. CASE Next
  <2>1. ExtInv' /\ PlaceInv'
    BY <1>1, ExtKeeps, PlaceKeeps DEF EngInv
  <2>2. env' = env
    BY <1>1, SameEnv
  <2>3. env.alone => TurnInv' /\ UpInv' /\ WorkInv'
    BY <1>1, TurnKeeps, UpKeeps, WorkKeeps
  <2>4. env.alone /\ "other" \notin env.faults => PhaseInv' /\ DownInv'
    BY <1>1, PhaseKeeps, DownKeeps
  <2> QED
    BY <2>1, <2>2, <2>3, <2>4 DEF EngInv, AloneInv
<1>2. CASE UNCHANGED vars
  <2>1. UNCHANGED extVars /\ UNCHANGED <<state, runVars, bootVars, stopVars>>
    BY <1>2 DEF vars
  <2>2. ExtInv'
    BY <2>1 DEF EngInv, ExtInv, ExtTypeOK, ListInv, extVars
  <2>3. PlaceInv'
    <3>1. MainTypeOK'
      BY <2>1 DEF EngInv, PlaceInv, MainTypeOK, extVars, runVars, bootVars, stopVars
    <3>2. FlowInv'
      BY <2>1 DEF EngInv, PlaceInv, FlowInv, extVars, runVars, bootVars, stopVars
    <3> QED
      BY <3>1, <3>2 DEF PlaceInv
  <2>4. /\ (TurnInv /\ UpInv => TurnInv' /\ UpInv') /\ (WorkInv => WorkInv')
        /\ (PhaseInv /\ DownInv => PhaseInv' /\ DownInv') /\ env' = env
    BY <2>1 DEF TurnInv, UpInv, AllStarted, WorkInv, Visited, PhaseInv, DownInv, Past, NoneStarted,
         extVars, runVars, bootVars, stopVars
  <2> QED
    BY <2>2, <2>3, <2>4 DEF EngInv, AloneInv
<1> QED
  BY <1>1, <1>2

\* The inductive invariant holds, for any constants.
LEMMA EngHolds == Spec => []EngInv
  BY EngStarts, EngKeeps, PTL DEF Spec

\* What the lifecycle says is so: in a ready engine everything is up, in a stopped
\* one everything is down, however many boots failed or were stopped before.
THEOREM EngineStateIsTrue == Spec => []StateIsTrue
<1>1. WaitInv /\ [Next]_vars => WaitInv'
  <2> SUFFICES ASSUME WaitInv, [Next]_vars PROVE WaitInv'
    OBVIOUS
  <2>1. CASE UNCHANGED vars
    BY <2>1, OthersKeep DEF vars, bootVars
  <2>2. CASE Next
    BY <2>2, BootKeeps, WhenReadyKeeps, OutsidersKeep DEF Next
  <2> QED
    BY <2>1, <2>2
<1>2. EngInv /\ WaitInv => StateIsTrue
  <2> SUFFICES ASSUME EngInv, WaitInv PROVE StateIsTrue
    OBVIOUS
  <2>1. TypeOK
    BY StepNames DEF TypeOK, EngInv, ExtInv, PlaceInv, MainTypeOK, WaitInv, WaitTypeOK
  <2>2. ReadyIsUp
    BY DEF ReadyIsUp, EngInv, AloneInv, UpInv, AllStarted
  <2>3. StoppedIsDown
    BY DEF StoppedIsDown, EngInv, AloneInv, DownInv, NoneStarted
  <2> QED
    BY <2>1, <2>2, <2>3 DEF StateIsTrue
<1> QED
  BY <1>1, <1>2, EngStarts, EngHolds, PTL DEF Spec

\* Extensions are initialized after what they require, boot() leaves none out,
\* and stop() leaves none to stop after what it requires.
THEOREM UpAndDownInOrder == Spec => []ExtensionsInOrder
<1>1. EngInv => ExtensionsInOrder
  <2> SUFFICES ASSUME EngInv PROVE ExtensionsInOrder
    OBVIOUS
  <2>1. InitializedInOrder
    BY ListsAre DEF InitializedInOrder, EngInv, ExtInv, ListInv, AloneInv, WorkInv
  <2>2. DependentsStopFirst
    BY DEF DependentsStopFirst, DependentsFirst, EngInv, ExtInv, ListInv
  <2>3. NothingStranded
    BY DEF NothingStranded, EngInv, AloneInv, WorkInv
  <2> QED
    BY <2>1, <2>2, <2>3 DEF ExtensionsInOrder
<1> QED
  BY <1>1, EngHolds, PTL

\* start() is called on what was initialized last, or is still started from a boot
\* that failed, once in a boot and after start() of all it requires.
THEOREM StartedAfterDeps == Spec => []StartedInOrder
<1>1. EngInv => StartedInOrder
  <2> SUFFICES ASSUME EngInv, env.alone, "other" \notin env.faults, xpc = "start", work # <<>>
               PROVE  /\ phase[Head(work)] \in {"initialized", "started"} /\ Head(work) \notin Passed
                      /\ \A d \in Deps[Head(work)] : d \in Passed /\ phase[d] = "started"
    BY DEF StartedInOrder
  <2>1. ExtInv /\ WorkInv /\ PhaseInv
    BY DEF EngInv, AloneInv
  <2>2. /\ Visited \in Nat /\ Visited + 1 \in DOMAIN sorted /\ Head(work) = sorted[Visited + 1]
        /\ DOMAIN sorted = 1..Len(sorted) /\ Len(sorted) \in Nat
        /\ \A d \in Deps[Head(work)] : \E i \in 1..Visited : sorted[i] = d
    BY <2>1, HeadIs
  <2>3. Passed = {sorted[i] : i \in 1..Visited}
    BY DEF Passed, Visited
  <2>4. ToSet(sorted) \subseteq ToSet(initialized) /\ \A i \in 1..Visited : phase[sorted[i]] = "started"
    BY <2>1 DEF WorkInv
  <2>5. \A s \in Stopper : dpc[s] = "idle"
    <3>1. bpc # "idle"
      BY DEF EngInv, PlaceInv, FlowInv
    <3> QED
      BY <3>1, BootsAlone
  <2>6. phase[Head(work)] \in {"initialized", "started"}
    <3>1. Head(work) \in ToSet(sorted)
      BY <2>2 DEF ToSet
    <3> QED
      BY <2>1, <2>4, <2>5, <3>1 DEF PhaseInv
  <2>7. Head(work) \notin Passed
    <3>1. Distinct(sorted)
      BY <2>1, ListsAre DEF ExtInv, ListInv
    <3>2. \A i \in 1..Visited : i \in DOMAIN sorted /\ i # Visited + 1
      BY <2>2
    <3> QED
      BY <2>2, <2>3, <3>1, <3>2 DEF Distinct
  <2>8. \A d \in Deps[Head(work)] : d \in Passed /\ phase[d] = "started"
    BY <2>2, <2>3, <2>4
  <2> QED
    BY <2>6, <2>7, <2>8
<1> QED
  BY <1>1, EngHolds, PTL
=============================================================================
