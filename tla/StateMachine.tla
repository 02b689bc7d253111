---------------------------- MODULE StateMachine ----------------------------
(***************************************************************************)
(* A DeclarativeStateMachine whose callbacks dispatch events and make      *)
(* transitions themselves, the view that a presenter binds to it, and the  *)
(* watcher that logs it for a console.  Callbacks run on the thread that   *)
(* holds the machine's re-entrant lock.                                    *)
(***************************************************************************)
EXTENDS Integers, Sequences

CONSTANTS Threads, Nobody, States, Events,
          Matrix,    \* _event_matrix: [<<state, event>> -> state], partial
          Initial,
          MaxCalls   \* bound: dispatch() and transition_to() calls

ASSUME NobodyAssumption == Nobody \notin Threads
\* add_event_transition() registers the state an event leads to.
ASSUME MatrixAssumption == Initial \in States /\ \A x \in DOMAIN Matrix : Matrix[x] \in States

VARIABLES
    owner,    \* the thread that holds _lock, or Nobody
    calls,    \* the calls the owner is in, innermost last
    state,    \* _current_state
    queue,    \* _event_queue, events with the number of their dispatch()
    made,     \* dispatch() and transition_to() calls so far
    last,     \* the number of the last event taken from the queue
    log,      \* transitions the watcher recorded, as <<from, to>>
    rejected, \* its _rejected_count
    shown,    \* [thread -> what its collect() has read so far]
    mode,     \* the state the view was last told, or "unset"
    interrupted \* a callback left a state that was being left, or told (history)

told == <<log, mode>>
machineVars == <<owner, calls, state, queue, made, last, told, rejected, shown, interrupted>>

NotAsked == [seen |-> -1, state |-> Initial]

\* _bind_fsm_to_ui() tells the view no mode until the machine first moves.
Unset == "unset"

MachineInit ==
    /\ owner = Nobody /\ calls = <<>> /\ state = Initial /\ queue = <<>>
    /\ made = 0 /\ last = 0 /\ log = <<>> /\ rejected = 0
    /\ mode = Unset /\ interrupted = FALSE
    /\ shown = [t \in Threads |-> NotAsked]

\* transition_to() accepts every step some event makes (add_event_transition()).
Allowed(s) == {Matrix[x] : x \in {y \in DOMAIN Matrix : y[1] = s}}
CanDispatch(e) == <<state, e>> \in DOMAIN Matrix

Inner == calls[Len(calls)]
Outer == SubSeq(calls, 1, Len(calls) - 1)
In(phase) == calls # <<>> /\ Inner.phase = phase
MoveTo(phase) == calls' = [calls EXCEPT ![Len(calls)].phase = phase]
Frame(kind, phase, from, to) == [kind |-> kind, phase |-> phase, from |-> from, to |-> to]

InDispatch == \E i \in DOMAIN calls : calls[i].kind = "dispatch"

IsDispatching_Never == FALSE

\* _is_dispatching
IsDispatching == InDispatch

\* The lock is released when the outermost call ends.
EndCall ==
    /\ calls' = Outer
    /\ owner' = IF Outer = <<>> THEN Nobody ELSE owner

\* The watcher's wrapper counts what the call raises.
Refuse == rejected' = rejected + 1

\* A call by a thread outside the machine, or by a callback of the owner: one
\* of on_exit, a global one that is told before the others, or a later one.
InCallback == In("exit") \/ In("tell") \/ In("enter")
MayCall(t) == made < MaxCalls /\ (owner = Nobody \/ (owner = t /\ InCallback))

\* The callback's own transition is over before the state that was being left
\* changes, or is told: both then happen with the older transition.
Interrupts == interrupted' = (interrupted \/ In("exit") \/ In("tell"))

\* A dispatch() inside a dispatch() only queues its event.
Dispatch(t, e) ==
    /\ MayCall(t)
    /\ made' = made + 1 /\ owner' = t
    /\ queue' = Append(queue, [event |-> e, number |-> made + 1])
    /\ calls' = IF IsDispatching THEN calls
                ELSE Append(calls, Frame("dispatch", "next", state, state))
    /\ IF InDispatch THEN UNCHANGED interrupted ELSE Interrupts
    /\ UNCHANGED <<state, last, told, rejected, shown>>

\* transition_to()
TransitionTo(t, s) ==
    /\ MayCall(t) /\ made' = made + 1
    /\ IF s \in Allowed(state)
       THEN /\ owner' = t /\ Interrupts
            /\ calls' = Append(calls, Frame("transition", "exit", state, s))
            /\ UNCHANGED rejected
       ELSE Refuse /\ UNCHANGED <<owner, calls, interrupted>>
    /\ UNCHANGED <<state, queue, last, told, shown>>

\* The loop of dispatch().  An event that is not valid empties the queue and raises.
NextEvent ==
    /\ In("next") /\ queue # <<>>
    /\ last' = Head(queue).number
    /\ IF CanDispatch(Head(queue).event)
       THEN /\ queue' = Tail(queue)
            /\ calls' = Append(Outer, Frame("dispatch", "exit", state, Matrix[<<state, Head(queue).event>>]))
            /\ UNCHANGED <<owner, rejected>>
       ELSE queue' = <<>> /\ EndCall /\ Refuse
    /\ UNCHANGED <<state, made, told, shown, interrupted>>

DispatchReturns ==
    /\ In("next") /\ queue = <<>> /\ EndCall
    /\ UNCHANGED <<state, queue, made, last, told, rejected, shown, interrupted>>

\* The on_exit callbacks are done: the state changes ...
Change ==
    /\ In("exit") /\ MoveTo("tell")
    /\ state' = Inner.to
    /\ UNCHANGED <<owner, queue, made, last, told, rejected, shown, interrupted>>

\* ... and the global callbacks are told: the presenter's, which applies the
\* mode to the view, and the watcher's.  Those of the event and on_enter follow.
Tell ==
    /\ In("tell") /\ MoveTo("enter")
    /\ mode' = Inner.to
    /\ log' = Append(log, <<Inner.from, Inner.to>>)
    /\ UNCHANGED <<owner, state, queue, made, last, rejected, shown, interrupted>>

\* The on_enter callbacks are done; what they raised was logged.
Entered ==
    /\ In("enter")
    /\ IF Inner.kind = "dispatch" THEN MoveTo("next") /\ UNCHANGED owner ELSE EndCall
    /\ UNCHANGED <<state, queue, made, last, told, rejected, shown, interrupted>>

\* collect() copies the log, then reads current_state, which waits for the lock.
CollectLog(t) ==
    /\ shown[t].seen = -1 /\ owner # t
    /\ shown' = [shown EXCEPT ![t].seen = Len(log)]
    /\ UNCHANGED <<owner, calls, state, queue, made, last, told, rejected, interrupted>>

CollectState(t) ==
    /\ shown[t].seen # -1 /\ owner = Nobody
    /\ shown' = [shown EXCEPT ![t] = [seen |-> -1, state |-> state]]
    /\ UNCHANGED <<owner, calls, state, queue, made, last, told, rejected, interrupted>>

MachineNext ==
    \/ NextEvent \/ DispatchReturns \/ Change \/ Tell \/ Entered
    \/ \E t \in Threads : CollectLog(t) \/ CollectState(t)
    \/ \E t \in Threads, e \in Events : Dispatch(t, e)
    \/ \E t \in Threads, s \in States : TransitionTo(t, s)

MachineSpec == MachineInit /\ [][MachineNext]_machineVars
----------------------------------------------------------------------------
\* However callbacks and threads call into the machine, the transitions that the
\* watcher is told of form one path, and once all are told the path ends in the
\* current state and the view shows that state's mode -- unless a callback made a
\* transition of its own while the state was being left or told.
TransitionsChain ==
    ~interrupted =>
        /\ \A i \in 1..Len(log) - 1 : log[i][2] = log[i + 1][1]
        /\ ~In("tell") /\ log # <<>> => log[Len(log)][2] = state /\ mode = state

\* Events are taken in the order they were dispatched in, and none is left in the
\* queue for a later dispatch() of another thread.
EventsInOrder ==
    /\ \A i, j \in DOMAIN queue : i < j => queue[i].number < queue[j].number
    /\ \A i \in DOMAIN queue : last < queue[i].number
    /\ owner = Nobody => queue = <<>>

\* What a machine tells and what it takes is in order.
MachineKept == TransitionsChain /\ EventsInOrder
=============================================================================
