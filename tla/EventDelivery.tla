--------------------------- MODULE EventDelivery ---------------------------
(***************************************************************************)
(* The event buses inside one process: MemoryEventBus, AsyncioEventBus and *)
(* ThreadPoolEventBus, each used bare or behind a ResilientEventBus.       *)
(*                                                                         *)
(* A registration is a pair <<handler, n>>: on the resilient bus the n-th  *)
(* retry wrapper made for the handler, on a bare bus always n = 0, since   *)
(* the handler itself is what the bus stores.  A delivery is a pair        *)
(* <<emission, registration>>.  One event name is modelled, always spelled *)
(* in the same way by on(), off() and emit().                              *)
(***************************************************************************)
EXTENDS Integers, FiniteSets

CONSTANTS Handlers,     \* what subscribers register
          Callers,      \* threads that call the bus
          Workers,      \* threads of the pool of a ThreadPoolEventBus
          MaxRetries,   \* ResilientEventBus.max_retries
          MaxEmits,     \* bound: emissions in a behaviour
          MaxWrappers   \* bound: wrappers ever made

VARIABLES
    kind,        \* which bus holds the handlers: "sync" or "pool"
    resilient,   \* is it wrapped in a ResilientEventBus
    registry,    \* registrations in the bus's copy-on-write tuple
    wrapperMap,  \* _wrapper_map: handlers with a live wrapper, and which one
    made,        \* wrappers made so far
    emitted,     \* emissions so far
    pc,          \* what each caller is in the middle of
    arg,         \* the registration an on() or off() still has to apply, as a set
    todo,        \* deliveries a caller's emit() or reprocess() still holds
    job,         \* the delivery each thread is running, as a set
    attempt,     \* the retries of that delivery so far
    queue,       \* work items the pool has accepted and not started
    closed,      \* the pool has been shut down
    dlq,         \* _dlq
    handled,     \* deliveries whose handler returned
    reported,    \* deliveries of a bare bus whose failure was reported
    accepted,    \* every delivery an emission ever took on
    refused      \* deliveries emit() lost when the pool refused one

setup == <<kind, resilient>>
subs  == <<registry, wrapperMap, made>>
flow  == <<emitted, accepted>>
calls == <<pc, arg, todo>>
work  == <<job, attempt, queue, closed>>
ends  == <<dlq, handled, reported, refused>>
vars  == <<setup, subs, flow, calls, work, ends>>

Threads == Callers \cup Workers
----------------------------------------------------------------------------
Init ==
    /\ kind \in {"sync", "pool"} /\ resilient \in BOOLEAN
    /\ registry = {} /\ wrapperMap = <<>> /\ made = 0 /\ emitted = 0
    /\ pc = [c \in Callers |-> "idle"]
    /\ arg = [c \in Callers |-> {}]
    /\ todo = [c \in Callers |-> {}]
    /\ job = [t \in Threads |-> {}]
    /\ attempt = [t \in Threads |-> 0]
    /\ queue = {} /\ closed = FALSE /\ dlq = {}
    /\ handled = {} /\ reported = {} /\ accepted = {} /\ refused = {}

\* MemoryEventBus.on(): added once, under the lock, to a fresh tuple.
Subscribed(r) == registry \cup r

Unsubscribed_EveryWrapper(r) == {x \in registry : \A y \in r : x[1] # y[1]}

\* MemoryEventBus.off(): a fresh tuple without it; unknown ones are ignored.
Unsubscribed(r) == registry \ r

\* on() of a bare bus is one step under its lock.
On(c, h) ==
    /\ pc[c] = "idle" /\ ~resilient
    /\ registry' = Subscribed({<<h, 0>>})
    /\ UNCHANGED <<setup, wrapperMap, made, flow, calls, work, ends>>

Off(c, h) ==
    /\ pc[c] = "idle" /\ ~resilient
    /\ registry' = Unsubscribed({<<h, 0>>})
    /\ UNCHANGED <<setup, wrapperMap, made, flow, calls, work, ends>>

\* ResilientEventBus.on(): the wrapper enters the map under the lock, and the
\* inner bus only after the lock is released.
OnMaps(c, h) ==
    /\ pc[c] = "idle" /\ resilient
    /\ h \notin DOMAIN wrapperMap /\ made < MaxWrappers
    /\ made' = made + 1
    /\ wrapperMap' = [x \in DOMAIN wrapperMap \cup {h} |->
                        IF x = h THEN made + 1 ELSE wrapperMap[x]]
    /\ pc' = [pc EXCEPT ![c] = "on"]
    /\ arg' = [arg EXCEPT ![c] = {<<h, made + 1>>}]
    /\ UNCHANGED <<setup, registry, flow, todo, work, ends>>

\* ResilientEventBus.off() pops the wrapper under the lock ...
OffPops(c, h) ==
    /\ pc[c] = "idle" /\ resilient /\ h \in DOMAIN wrapperMap
    /\ wrapperMap' = [x \in DOMAIN wrapperMap \ {h} |-> wrapperMap[x]]
    /\ pc' = [pc EXCEPT ![c] = "off"]
    /\ arg' = [arg EXCEPT ![c] = {<<h, wrapperMap[h]>>}]
    /\ UNCHANGED <<setup, registry, made, flow, todo, work, ends>>

\* ... and both then tell the inner bus.
TellInner(c) ==
    /\ pc[c] \in {"on", "off"}
    /\ registry' = IF pc[c] = "on" THEN Subscribed(arg[c]) ELSE Unsubscribed(arg[c])
    /\ pc' = [pc EXCEPT ![c] = "idle"]
    /\ arg' = [arg EXCEPT ![c] = {}]
    /\ UNCHANGED <<setup, wrapperMap, made, flow, todo, work, ends>>
----------------------------------------------------------------------------
\* emit() reads the tuple once, without the lock: later on() and off() calls
\* do not change who this emission goes to.  log_event_emitted() only counts.
Emit(c) ==
    LET e == emitted + 1
        snapshot == {<<e, r>> : r \in registry}
    IN  /\ pc[c] = "idle" /\ emitted < MaxEmits /\ registry # {}
        /\ emitted' = e
        /\ pc' = [pc EXCEPT ![c] = "emit"]
        /\ todo' = [todo EXCEPT ![c] = snapshot]
        /\ accepted' = accepted \cup snapshot
        /\ UNCHANGED <<setup, subs, arg, work, ends>>

Take(t, d) ==
    /\ job' = [job EXCEPT ![t] = {d}]
    /\ attempt' = [attempt EXCEPT ![t] = 0]

CallNext(c) ==
    /\ job[c] = {}
    /\ \/ pc[c] = "emit" /\ kind = "sync"
       \/ pc[c] = "reprocess"
    /\ \E d \in todo[c] : Take(c, d) /\ todo' = [todo EXCEPT ![c] = @ \ {d}]
    /\ UNCHANGED <<setup, subs, flow, pc, arg, queue, closed, ends>>

\* ThreadPoolEventBus.emit() submits one work item per handler.  A closed
\* executor raises, and the exception leaves emit() with the rest unsubmitted.
SubmitNext(c) ==
    /\ pc[c] = "emit" /\ kind = "pool" /\ todo[c] # {}
    /\ IF closed
       THEN /\ refused' = refused \cup todo[c]
            /\ todo' = [todo EXCEPT ![c] = {}]
            /\ queue' = queue
       ELSE /\ \E d \in todo[c] : /\ queue' = queue \cup {d}
                                  /\ todo' = [todo EXCEPT ![c] = @ \ {d}]
            /\ refused' = refused
    /\ UNCHANGED <<setup, subs, flow, pc, arg, job, attempt, closed, dlq, handled, reported>>

\* emit() or reprocess() has nothing left and returns.
Returns(c) ==
    /\ pc[c] \in {"emit", "reprocess"} /\ todo[c] = {} /\ job[c] = {}
    /\ pc' = [pc EXCEPT ![c] = "idle"]
    /\ UNCHANGED <<setup, subs, flow, arg, todo, work, ends>>

\* A pool thread takes a work item.
WorkerTakes(w) ==
    /\ job[w] = {}
    /\ \E d \in queue : Take(w, d) /\ queue' = queue \ {d}
    /\ UNCHANGED <<setup, subs, flow, calls, closed, ends>>

\* The handler returns.
HandlerReturns(t) ==
    /\ job[t] # {}
    /\ handled' = handled \cup job[t]
    /\ job' = [job EXCEPT ![t] = {}]
    /\ UNCHANGED <<setup, subs, flow, calls, attempt, queue, closed, dlq, reported, refused>>

\* The handler raises and attempts are left: the retry wrapper calls again.
HandlerRetried(t) ==
    /\ job[t] # {} /\ resilient /\ attempt[t] < MaxRetries
    /\ attempt' = [attempt EXCEPT ![t] = @ + 1]
    /\ UNCHANGED <<setup, subs, flow, calls, job, queue, closed, ends>>

HandlerParked_GoesOn(t) ==
    /\ job[t] # {} /\ resilient /\ attempt[t] = MaxRetries
    /\ dlq' = dlq \cup job[t]
    /\ UNCHANGED <<setup, subs, flow, calls, job, attempt, queue, closed,
                   handled, reported, refused>>

\* It raises for the last time: reported, and parked in the dead letters.
HandlerParked(t) ==
    /\ job[t] # {} /\ resilient /\ attempt[t] = MaxRetries
    /\ dlq' = dlq \cup job[t]
    /\ job' = [job EXCEPT ![t] = {}]
    /\ UNCHANGED <<setup, subs, flow, calls, attempt, queue, closed, handled, reported, refused>>

\* On a bare bus a handler that raises is reported and the next one is called.
HandlerReported(t) ==
    /\ job[t] # {} /\ ~resilient
    /\ reported' = reported \cup job[t]
    /\ job' = [job EXCEPT ![t] = {}]
    /\ UNCHANGED <<setup, subs, flow, calls, attempt, queue, closed, dlq, handled, refused>>

DlqAfterSwap_Copied == dlq

\* What reprocess() leaves in the dead letters: it swaps the list for an empty
\* one under the lock, so what is parked from then on stays for the next call.
DlqAfterSwap == {}

Reprocess(c) ==
    /\ pc[c] = "idle" /\ resilient /\ dlq # {}
    /\ todo' = [todo EXCEPT ![c] = dlq]
    /\ dlq' = DlqAfterSwap
    /\ pc' = [pc EXCEPT ![c] = "reprocess"]
    /\ UNCHANGED <<setup, subs, flow, arg, work, handled, reported, refused>>

\* ThreadPoolEventBus.shutdown(wait): no new work; accepted work still runs.
Shutdown(c) ==
    /\ pc[c] = "idle" /\ kind = "pool" /\ ~closed
    /\ closed' = TRUE
    /\ UNCHANGED <<setup, subs, flow, calls, job, attempt, queue, ends>>

Run(t) == HandlerReturns(t) \/ HandlerRetried(t) \/ HandlerParked(t) \/ HandlerReported(t)
Deliver(c) == CallNext(c) \/ SubmitNext(c) \/ Returns(c) \/ TellInner(c)

Next ==
    \/ \E c \in Callers, h \in Handlers : On(c, h) \/ Off(c, h) \/ OnMaps(c, h) \/ OffPops(c, h)
    \/ \E c \in Callers : Emit(c) \/ Deliver(c) \/ Reprocess(c) \/ Shutdown(c)
    \/ \E w \in Workers : WorkerTakes(w)
    \/ \E t \in Threads : Run(t)

Spec == Init /\ [][Next]_vars
----------------------------------------------------------------------------
\* What is pending is in a call's remaining list, in the pool's queue or in a
\* thread's hands.
Pending == (UNION {todo[c] : c \in Callers}) \cup (UNION {job[t] : t \in Threads}) \cup queue
Done == handled \cup reported \cup refused

\* The places that hold a delivery, and what each of them holds.
Places == [in : {"call", "thread"}, of : Threads] \cup [in : {"queue", "dlq", "done"}]
Held(p) == CASE p.in = "call"   -> IF p.of \in Callers THEN todo[p.of] ELSE {}
             [] p.in = "thread" -> job[p.of]
             [] p.in = "queue"  -> queue
             [] p.in = "dlq"    -> dlq
             [] p.in = "done"   -> Done

\* A delivery is never lost and never doubled: from the moment emit() read the
\* handlers it is in exactly one place.  It is what makes get_dlq() and
\* reprocess() a recovery mechanism under concurrent failures.
DeliveredOnce ==
    /\ accepted = UNION {Held(p) : p \in Places}
    /\ \A p, q \in Places : p # q => Held(p) \cap Held(q) = {}

\* Outside a call of on() or off(), a wrapper in _wrapper_map is subscribed on
\* the inner bus, so off() can always reach what on() added through the map.
MappedIsSubscribed ==
    \A h \in DOMAIN wrapperMap :
        LET r == <<h, wrapperMap[h]>> IN
        r \in registry \/ \E c \in Callers : pc[c] = "on" /\ r \in arg[c]

\* The buses keep the promise of Delivery, through every interleaving of
\* emissions, pool threads, failures, retries, reprocess() and shutdown().
Promise == INSTANCE Delivery WITH pending <- Pending, parked <- dlq, done <- Done
KeepsPromise == Promise!Spec
=============================================================================
