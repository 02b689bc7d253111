---------------------------- MODULE TrackedWork ----------------------------
(***************************************************************************)
(* What an application keeps track of in runtime/: the coroutines of the   *)
(* AsyncRuntime, the run that holds the slot of an ExclusiveAction, and    *)
(* the resources of a ResourceScope.  They share no state: the system is   *)
(* the conjunction of the three, each taking its steps when it likes.      *)
(*                                                                         *)
(* ExclusiveAction: one slot for actions that exclude each other, taken by *)
(* try_start() and held until the future of the submitted run settles.     *)
(* ResourceScope: a stack of resources that threads add to and dispose of; *)
(* they are numbered in the order they are added.                          *)
(***************************************************************************)
EXTENDS AsyncRuntime, Sequences

CONSTANTS Keys,         \* actions that exclude each other
          Callers,      \* threads that start them, or dispose of a scope
          MaxRuns,      \* bound: runs submitted
          Free,         \* _running_key is None
          MaxResources  \* bound: resources added

ASSUME FreeAssumption == Free \notin Keys
ASSUME BoundAssumption == MaxResources \in Nat

VARIABLES
    slot,  \* _running_key
    step,  \* what each caller does: "idle", "reserved" or "submitted"
    key,   \* the key a caller has to release: by finish(), by a callback, or never
    runs,  \* the runs submitted
    mine   \* the run of a caller that is in submit()

VARIABLES
    added,      \* resources added so far
    scope,      \* _registrations
    disposing,  \* the callers inside dispose_all()
    hand,       \* the resource a caller has popped and is disposing of, or 0
    failures,   \* how many dispose() raised in the caller's dispose_all()
    disposed,   \* how often each resource was disposed of
    overlap     \* has an add() or a second dispose_all() overlapped a disposal

exclusiveVars == <<slot, step, key, runs, mine>>

ExclusiveInit ==
    /\ slot = Free
    /\ step = [c \in Callers |-> "idle"]
    /\ key = [c \in Callers |-> Free]
    /\ runs = <<>>
    /\ mine = [c \in Callers |-> 0]

\* finish(): only the holder's key frees the slot.
Finished(k) == IF slot = k THEN Free ELSE slot
CanStart_OtherKey(k) == slot # k

\* try_start() answers False while any key holds the slot.
CanStart(k) == slot = Free

TryStart(c, k) ==
    /\ step[c] = "idle" /\ CanStart(k) /\ Len(runs) < MaxRuns
    /\ slot' = k
    /\ key' = [key EXCEPT ![c] = k]
    /\ step' = [step EXCEPT ![c] = "reserved"]
    /\ UNCHANGED <<runs, mine>>

\* The owner gives up before it submits.
Finish(c) ==
    /\ step[c] = "reserved"
    /\ slot' = Finished(key[c])
    /\ key' = [key EXCEPT ![c] = Free]
    /\ step' = [step EXCEPT ![c] = "idle"]
    /\ UNCHANGED <<runs, mine>>

\* submit(): the thread manager takes the task ...
Submit(c) ==
    /\ step[c] = "reserved"
    /\ runs' = Append(runs, [key |-> key[c], state |-> "queued", callback |-> FALSE])
    /\ mine' = [mine EXCEPT ![c] = Len(runs) + 1]
    /\ step' = [step EXCEPT ![c] = "submitted"]
    /\ UNCHANGED <<slot, key>>

\* ... or refuses it: the exception leaves submit() and the slot stays taken.
SubmitRaises(c) ==
    /\ step[c] = "reserved"
    /\ step' = [step EXCEPT ![c] = "idle"]
    /\ UNCHANGED <<slot, key, runs, mine>>

\* add_done_callback(): a future that has settled calls back at once.
AddCallback(c) ==
    LET r == mine[c] IN
    /\ step[c] = "submitted"
    /\ runs' = [runs EXCEPT ![r].callback = TRUE]
    /\ slot' = IF runs[r].state = "settled" THEN Finished(runs[r].key) ELSE slot
    /\ key' = [key EXCEPT ![c] = Free]
    /\ step' = [step EXCEPT ![c] = "idle"]
    /\ UNCHANGED mine

RunStarts(r) ==
    /\ runs[r].state = "queued"
    /\ runs' = [runs EXCEPT ![r].state = "running"]
    /\ UNCHANGED <<slot, step, key, mine>>

\* The task returns or raises, or its future is cancelled while queued.
RunSettles(r) ==
    /\ runs[r].state \in {"queued", "running"}
    /\ runs' = [runs EXCEPT ![r].state = "settled"]
    /\ slot' = IF runs[r].callback THEN Finished(runs[r].key) ELSE slot
    /\ UNCHANGED <<step, key, mine>>

ExclusiveNext ==
    \/ \E c \in Callers, k \in Keys : TryStart(c, k)
    \/ \E c \in Callers : Finish(c) \/ Submit(c) \/ SubmitRaises(c) \/ AddCallback(c)
    \/ \E r \in DOMAIN runs : RunStarts(r) \/ RunSettles(r)

ExclusiveSpec == ExclusiveInit /\ [][ExclusiveNext]_exclusiveVars
----------------------------------------------------------------------------
scopeVars == <<added, scope, disposing, hand, failures, disposed, overlap>>

ScopeInit ==
    /\ added = 0 /\ scope = <<>> /\ disposing = {} /\ overlap = FALSE
    /\ hand = [c \in Callers |-> 0]
    /\ failures = [c \in Callers |-> 0]
    /\ disposed = [n \in 1..MaxResources |-> 0]

Add ==
    /\ added < MaxResources
    /\ added' = added + 1
    /\ scope' = Append(scope, added + 1)
    /\ overlap' = (overlap \/ disposing # {})
    /\ UNCHANGED <<disposing, hand, failures, disposed>>

DisposeAll(c) ==
    /\ c \notin disposing
    /\ disposing' = disposing \cup {c}
    /\ overlap' = (disposing # {})
    /\ failures' = [failures EXCEPT ![c] = 0]
    /\ UNCHANGED <<added, scope, hand, disposed>>

Popped_First == [resource |-> Head(scope), rest |-> Tail(scope)]

\* The last registration is popped under the lock; dispose() runs outside it.
Popped == [resource |-> scope[Len(scope)], rest |-> SubSeq(scope, 1, Len(scope) - 1)]

Pop(c) ==
    /\ c \in disposing /\ hand[c] = 0 /\ scope # <<>>
    /\ hand' = [hand EXCEPT ![c] = Popped.resource]
    /\ scope' = Popped.rest
    /\ UNCHANGED <<added, disposing, failures, disposed, overlap>>

\* dispose() returns or raises; the loop goes on in both cases.
Dispose(c) ==
    /\ hand[c] # 0
    /\ disposed' = [disposed EXCEPT ![hand[c]] = @ + 1]
    /\ failures' \in {failures, [failures EXCEPT ![c] = @ + 1]}
    /\ hand' = [hand EXCEPT ![c] = 0]
    /\ UNCHANGED <<added, scope, disposing, overlap>>

\* The end of the loop, with or without an ExceptionGroup of what was raised.
DisposeAllReturns(c) ==
    /\ c \in disposing /\ hand[c] = 0 /\ scope = <<>>
    /\ disposing' = disposing \ {c}
    /\ UNCHANGED <<added, scope, hand, failures, disposed, overlap>>

ScopeNext ==
    \/ Add
    \/ \E c \in Callers : DisposeAll(c) \/ Pop(c) \/ Dispose(c) \/ DisposeAllReturns(c)

ScopeSpec == ScopeInit /\ [][ScopeNext]_scopeVars
----------------------------------------------------------------------------
WorkSpec == AsyncSpec /\ ExclusiveSpec /\ ScopeSpec
----------------------------------------------------------------------------
\* Of the actions that share an instance at most one run is in flight, whoever
\* starts, fails or is cancelled.  The slot names that run as long as it is in
\* flight, and is never held for nobody: a caller still has to release it (which
\* one whose submit() raised must remember to do), or a run that calls back.
OneRunAtATime ==
    /\ \A r \in DOMAIN runs : runs[r].state # "settled" =>
         /\ slot = runs[r].key
         /\ \A s \in DOMAIN runs : runs[s].state # "settled" => r = s
    /\ slot # Free => \/ \E c \in Callers : key[c] = slot
                      \/ \E r \in DOMAIN runs : runs[r].state # "settled" /\ runs[r].callback

\* However disposals, additions and failures of dispose() overlap, a resource
\* is in the scope, in one disposer's hand, or disposed of, exactly once; and a
\* disposal with nothing beside it releases a resource before those it contains,
\* which were registered before it.
ResourcesReleasedOnce ==
    /\ \A n \in 1..added :
         LET inScope == {i \in DOMAIN scope : scope[i] = n}
             inHand == {c \in Callers : hand[c] = n}
         IN  \/ disposed[n] = 1 /\ inScope = {} /\ inHand = {}
             \/ disposed[n] = 0 /\ \E x \in {inScope, inHand} :
                  /\ \E y \in x : x = {y}
                  /\ inScope = {} \/ inHand = {}
    /\ ~overlap => \A c \in Callers, i \in DOMAIN scope : hand[c] = 0 \/ scope[i] < hand[c]

\* What is tracked is kept: stop() of the loop ends every coroutine it took and its
\* clean-up, unless it is excused; an exclusive action runs once at a time; what a
\* scope was given is released once.
WorkKept == TasksCleanUp /\ OneRunAtATime /\ ResourcesReleasedOnce
=============================================================================
