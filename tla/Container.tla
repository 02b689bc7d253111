----------------------------- MODULE Container -----------------------------
(***************************************************************************)
(* Container: threads resolve types while others are being registered.     *)
(* _resolve() is recursive; every thread has a stack of its calls.  All but *)
(* the call of a factory runs without the lock.                            *)
(***************************************************************************)
EXTENDS Integers, Sequences

CONSTANTS Resolvers,
          Abstract,   \* types that cannot be instantiated
          Deps,       \* [class -> sequence of the types its __init__ takes]
          Optional,   \* <<class, type>>: the parameter has a default
          Lazy,       \* [type -> class]: singleton(type, class)
          Callable,   \* [type -> class]: singleton(type, lambda c: c.resolve(class))
          Bound,      \* [type -> class]: bind(type, class)
          Scoped,     \* types registered with scoped()
          MaxResolutions,   \* bound: resolve() calls
          MaxScopes,  \* bound: nested scopes of a thread
          MaxErrors   \* bound: constructors that raise

Types == DOMAIN Deps \cup Abstract
Singletons == DOMAIN Lazy \cup DOMAIN Callable

ASSUME TypesAssumption ==
    /\ Deps \in [DOMAIN Deps -> Seq(Types)]
    /\ Singletons \cup DOMAIN Bound \cup Scoped \subseteq Types
    /\ \A f \in {Lazy, Callable, Bound} : \A a \in DOMAIN f : f[a] \in Types

\* A type is registered in one way.
ASSUME OneWayAssumption ==
    DOMAIN Lazy \cap DOMAIN Callable = {} /\ Singletons \cap Scoped = {}

\* What resolving a type of S may resolve is in S.
Closed(S) == \A a \in S :
    /\ a \in DOMAIN Deps => \A i \in DOMAIN Deps[a] : Deps[a][i] \in S
    /\ \A f \in {Lazy, Callable, Bound} : a \in DOMAIN f => f[a] \in S

\* A callable that comes back to its own type would call itself without end: its
\* class is resolved with an empty `resolving`, which detects no cycle.
ASSUME CallableAssumption == \A a \in DOMAIN Callable :
    \E S \in SUBSET Types : Callable[a] \in S /\ a \notin S /\ Closed(S)

VARIABLES
    registered, \* what has been registered so far
    factories,  \* the types in _factories
    instances,  \* _instances: [type -> instance, or 0]
    stack,      \* [thread -> its calls of _resolve()]
    answer,     \* what the innermost call returned: an instance, Raised or None
    scopes,     \* [thread -> its nested scopes, each type -> instance or 0]
    openScopes, \* _open_scopes
    built,      \* instances constructed
    errors,     \* constructors that raised
    resolutions,      \* resolve() calls
    asked,      \* [thread -> was the type registered when its resolve() began?]
    answers     \* <<type, instance>>: answers of calls begun after the registration

containerVars == <<registered, factories, instances, stack, answer, scopes, openScopes,
          built, errors, resolutions, asked, answers>>

None == -1
Raised == 0

ContainerInit ==
    /\ registered = {} /\ factories = {} /\ answers = {}
    /\ instances = [a \in Types |-> 0]
    /\ stack = [t \in Resolvers |-> <<>>]
    /\ answer = [t \in Resolvers |-> None]
    /\ scopes = [t \in Resolvers |-> <<>>]
    /\ asked = [t \in Resolvers |-> FALSE]
    /\ openScopes = 0 /\ built = 0 /\ errors = 0 /\ resolutions = 0

\* A thread holds _lock while a factory it called has not returned.
Making(t) == {i \in DOMAIN stack[t] : stack[t][i].pc = "making"}
LockFreeFor(t) == \A u \in Resolvers \ {t} : Making(u) = {}

\* singleton() with a class or a callable; bind() and scoped() touch neither
\* dictionary of the singletons.
Register(t, a) ==
    /\ stack[t] = <<>> /\ LockFreeFor(t) /\ a \notin registered
    /\ registered' = registered \cup {a}
    /\ factories' = factories \cup ({a} \cap Singletons)
    /\ UNCHANGED <<instances, stack, answer, scopes, openScopes, built, errors, resolutions, asked, answers>>

\* registrations(): the lifetime each type is reported with, instances and
\* factories over bindings, scoped over all.
Reported(a) ==
    IF a \in registered \cap Scoped THEN "scoped"
    ELSE IF a \in factories \/ instances[a] # 0 THEN "singleton"
    ELSE IF a \in registered \cap DOMAIN Bound THEN "transient" ELSE "none"

EnterScope(t) ==
    /\ stack[t] = <<>> /\ Len(scopes[t]) < MaxScopes /\ LockFreeFor(t)
    /\ scopes' = [scopes EXCEPT ![t] = Append(@, [a \in Scoped |-> 0])]
    /\ openScopes' = openScopes + 1
    /\ UNCHANGED <<registered, factories, instances, stack, answer, built, errors, resolutions, asked, answers>>

ExitScope(t) ==
    /\ stack[t] = <<>> /\ scopes[t] # <<>> /\ LockFreeFor(t)
    /\ scopes' = [scopes EXCEPT ![t] = SubSeq(@, 1, Len(@) - 1)]
    /\ openScopes' = IF openScopes > 0 THEN openScopes - 1 ELSE 0
    /\ UNCHANGED <<registered, factories, instances, stack, answer, built, errors, resolutions, asked, answers>>

\* ScopeContext.resolve(): the instance of the innermost scope, made on first use.
ResolveScoped(t, a) ==
    /\ stack[t] = <<>> /\ answer[t] = None /\ resolutions < MaxResolutions
    /\ a \in registered \cap Scoped /\ scopes[t] # <<>>
    /\ LET top == Len(scopes[t]) IN
         /\ IF scopes[t][top][a] # 0
            THEN UNCHANGED <<scopes, built>>
            ELSE built' = built + 1 /\ scopes' = [scopes EXCEPT ![t][top][a] = built + 1]
    /\ resolutions' = resolutions + 1
    /\ UNCHANGED <<registered, factories, instances, stack, answer, openScopes, errors, asked, answers>>

Call(a, resolving) == [type |-> a, pc |-> "instances", resolving |-> resolving, todo |-> <<>>]

Resolve(t, a) ==
    /\ stack[t] = <<>> /\ resolutions < MaxResolutions
    /\ a \in registered \cap Scoped => scopes[t] = <<>>
    /\ stack' = [stack EXCEPT ![t] = <<Call(a, {})>>]
    /\ asked' = [asked EXCEPT ![t] = a \in registered]
    /\ resolutions' = resolutions + 1
    /\ UNCHANGED <<registered, factories, instances, answer, scopes, openScopes, built, errors, answers>>

----------------------------------------------------------------------------
\* The steps of _resolve() in the innermost call of a thread.

Depth(t) == Len(stack[t])
Top(t) == stack[t][Depth(t)]
At(t, pc) == stack[t] # <<>> /\ answer[t] = None /\ Top(t).pc = pc
Goto(t, pc) == stack' = [stack EXCEPT ![t][Depth(t)].pc = pc]
Push(t, pc, a, resolving) ==
    stack' = [stack EXCEPT ![t] = Append([@ EXCEPT ![Depth(t)].pc = pc], Call(a, resolving))]
Returned(t, result) ==
    /\ stack' = [stack EXCEPT ![t] = SubSeq(@, 1, Depth(t) - 1)]
    /\ answer' = [answer EXCEPT ![t] = IF Depth(t) = 1 THEN None ELSE result]
    /\ answers' = IF Depth(t) = 1 /\ asked[t] /\ result # Raised
                  THEN answers \cup {<<Top(t).type, result>>} ELSE answers
    /\ UNCHANGED <<asked, registered>>
Return(t, result) == Returned(t, result) /\ UNCHANGED <<scopes, openScopes, resolutions>>
Keeps == UNCHANGED <<asked, registered, scopes, openScopes, resolutions, answers>>

\* What a callable asks the container for goes through resolve(): in a scope, the
\* innermost one answers for a scoped type.
AsksScope(t) ==
    /\ Depth(t) > 1 /\ stack[t][Depth(t) - 1].pc = "making" /\ stack[t][Depth(t) - 1].type \in DOMAIN Callable
    /\ Top(t).type \in registered \cap Scoped /\ scopes[t] # <<>>

ScopeAnswers(t) ==
    /\ At(t, "instances") /\ AsksScope(t)
    /\ LET top == Len(scopes[t])
           object == scopes[t][top][Top(t).type]
       IN
         \/ object # 0 /\ Returned(t, object) /\ UNCHANGED <<scopes, built, errors>>
         \/ /\ object = 0 /\ built' = built + 1 /\ Returned(t, built + 1)
            /\ scopes' = [scopes EXCEPT ![t][top][Top(t).type] = built + 1] /\ UNCHANGED errors
         \/ /\ object = 0 /\ errors < MaxErrors /\ errors' = errors + 1 /\ Returned(t, Raised)
            /\ UNCHANGED <<scopes, built>>
    /\ UNCHANGED <<factories, instances, openScopes, resolutions>>

\* Lock-free.
ReadInstances(t) ==
    /\ At(t, "instances") /\ ~AsksScope(t)
    /\ IF instances[Top(t).type] # 0
       THEN Return(t, instances[Top(t).type])
       ELSE Goto(t, "factories") /\ UNCHANGED answer /\ Keeps
    /\ UNCHANGED <<factories, instances, built, errors>>

\* Lock-free.
ReadFactories(t) ==
    /\ At(t, "factories")
    /\ Goto(t, IF Top(t).type \in factories THEN "lock" ELSE "class")
    /\ UNCHANGED <<factories, instances, answer, built, errors>> /\ Keeps

Stored_Unchecked(a) == 0

\* The second look at _instances.
Stored(a) == instances[a]

\* The class a factory resolves.
Made(a) == IF a \in DOMAIN Lazy THEN Lazy[a] ELSE Callable[a]

\* A lazy factory removes itself and resolves its class, a callable asks resolve()
\* for it: either starts with an empty `resolving`.
CallFactory(t) ==
    /\ At(t, "lock") /\ LockFreeFor(t)
    /\ LET a == Top(t).type IN
         IF Stored(a) # 0 THEN Return(t, Stored(a)) /\ UNCHANGED factories
         ELSE IF a \notin factories
         THEN Goto(t, "class") /\ UNCHANGED <<factories, answer>> /\ Keeps
         ELSE /\ factories' = factories \ ({a} \cap DOMAIN Lazy)
              /\ Push(t, "making", Made(a), {})
              /\ UNCHANGED answer /\ Keeps
    /\ UNCHANGED <<instances, built, errors>>

Restored_Lost(a) == {}

\* The factory goes back when what it resolved raised.
Restored(a) == {a} \cap DOMAIN Lazy

FactoryReturns(t) ==
    /\ stack[t] # <<>> /\ answer[t] # None /\ Top(t).pc = "making"
    /\ LET a == Top(t).type IN
         IF answer[t] = Raised
         THEN factories' = factories \cup Restored(a) /\ UNCHANGED instances
         ELSE instances' = [instances EXCEPT ![a] = answer[t]] /\ UNCHANGED factories
    /\ Return(t, answer[t])
    /\ UNCHANGED <<built, errors>>

Class(a) == IF a \in registered \cap DOMAIN Bound THEN Bound[a] ELSE a

\* A class that is being resolved or cannot be instantiated raises; the types
\* its __init__ takes are read once and cached.
InspectClass(t) ==
    /\ At(t, "class")
    /\ LET class == Class(Top(t).type) IN
         IF class \in Top(t).resolving \cup Abstract
         THEN Return(t, Raised)
         ELSE /\ stack' = [stack EXCEPT ![t][Depth(t)] =
                    [Top(t) EXCEPT !.pc = "inject", !.todo = Deps[class],
                                   !.resolving = @ \cup {class}]]
              /\ UNCHANGED answer /\ Keeps
    /\ UNCHANGED <<factories, instances, built, errors>>

Inject(t) ==
    /\ At(t, "inject") /\ Top(t).todo # <<>>
    /\ Push(t, "inject", Head(Top(t).todo), Top(t).resolving)
    /\ UNCHANGED <<factories, instances, answer, built, errors>> /\ Keeps

\* A dependency that cannot be resolved is replaced by the parameter's default.
Injected(t) ==
    /\ stack[t] # <<>> /\ answer[t] # None /\ Top(t).pc = "inject"
    /\ IF answer[t] = Raised /\ <<Class(Top(t).type), Head(Top(t).todo)>> \notin Optional
       THEN Return(t, Raised)
       ELSE /\ stack' = [stack EXCEPT ![t][Depth(t)].todo = Tail(@)]
            /\ answer' = [answer EXCEPT ![t] = None] /\ Keeps
    /\ UNCHANGED <<factories, instances, built, errors>>

Construct(t) ==
    /\ At(t, "inject") /\ Top(t).todo = <<>>
    /\ \/ built' = built + 1 /\ Return(t, built + 1) /\ UNCHANGED errors
       \/ errors < MaxErrors /\ errors' = errors + 1 /\ Return(t, Raised) /\ UNCHANGED built
    /\ UNCHANGED <<factories, instances>>

ContainerNext == \E t \in Resolvers :
    \/ \E a \in Singletons \cup DOMAIN Bound \cup Scoped : Register(t, a)
    \/ EnterScope(t) \/ ExitScope(t)
    \/ \E a \in Types : Resolve(t, a)
    \/ \E a \in Scoped : ResolveScoped(t, a)
    \/ ScopeAnswers(t) \/ ReadInstances(t) \/ ReadFactories(t) \/ CallFactory(t) \/ FactoryReturns(t)
    \/ InspectClass(t) \/ Inject(t) \/ Injected(t) \/ Construct(t)

ContainerSpec == ContainerInit /\ [][ContainerNext]_containerVars
----------------------------------------------------------------------------
\* A singleton's registration survives constructors that raise, cycles and
\* concurrent callers: whenever no factory runs, registrations() reports it as
\* a singleton and resolve() can still answer.
RegistrationsKept ==
    (\A t \in Resolvers : Making(t) = {}) =>
        \A a \in registered \cap Singletons : Reported(a) = "singleton"

Shared(kind) == \A x, y \in answers : x[1] = y[1] /\ x[1] \in kind => x[2] = y[2]

\* A callable factory runs to its end once: every caller is given the same
\* object, whichever threads look without the lock while it is being made.
CallablesAreShared == Shared(DOMAIN Callable)

\* The comment in singleton() on a class: after the factory returns the result
\* is stored, "so the factory is never invoked again" - one shared instance.  Not
\* kept: a thread that found the factory before it was removed invokes it again.
SingletonIsShared == Shared(DOMAIN Lazy)

\* A registration that failed to build is not lost, and what a callable makes is one
\* instance.
ContainerKept == RegistrationsKept /\ CallablesAreShared
=============================================================================
