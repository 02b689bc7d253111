------------------------------- MODULE IpcBus -------------------------------
(***************************************************************************)
(* Events between processes: each process has an IPCQueueEventBus with a   *)
(* subscriber queue, all publish to one queue, and an IPCBroker copies     *)
(* what is published to the subscriber queues.  Broker and buses run the   *)
(* same kind of listener thread: it takes from its inbox until a stop flag *)
(* or a stop marker ends it.                                               *)
(***************************************************************************)
EXTENDS Integers, Sequences

CONSTANTS Buses, Broker,  \* the listeners
          Capacity,       \* bound of a subscriber queue
          MaxMessages,    \* bound: messages published
          MaxCalls,       \* bound: start() and stop() calls on one listener
          StopMarker      \* the ("_STOP_", None) message

Nodes == Buses \cup {Broker}

VARIABLES
    inbox,        \* the publish queue for the broker, a subscriber queue for a bus
    thread,       \* "none", "checking", "getting" or "holding"
    held,         \* the message the thread works on, and what it still has to do
    stopFlag,     \* _stop_event
    starting,     \* where a start() of the node is
    stopping,     \* where a stop() of the node is
    subscribers,  \* IPCBroker._subscriber_queues
    published,    \* messages published so far, which number them
    asked,        \* start() and stop() calls so far
    received      \* what each bus dispatched, in order

ipcVars == <<inbox, thread, held, stopFlag, starting, stopping, subscribers, published, asked,
             received>>
loop == <<thread, held>>
control == <<stopFlag, starting, stopping, asked>>

Alive(n) == thread[n] # "none"

\* A subscriber queue is bounded; the publish queue is not.
Room(n) == n = Broker \/ Len(inbox[n]) < Capacity

IpcInit ==
    /\ inbox = [n \in Nodes |-> <<>>]
    /\ thread = [n \in Nodes |-> "none"]
    /\ held = [n \in Nodes |-> [message |-> StopMarker, targets |-> {}]]
    /\ stopFlag = [n \in Nodes |-> FALSE]
    /\ starting = [n \in Nodes |-> "no"] /\ stopping = [n \in Nodes |-> "no"]
    /\ subscribers = {}
    /\ published = 0
    /\ asked = [n \in Nodes |-> 0]
    /\ received = [b \in Buses |-> <<>>]
----------------------------------------------------------------------------
\* IPCQueueEventBus.emit()
Publish ==
    /\ published < MaxMessages
    /\ published' = published + 1
    /\ inbox' = [inbox EXCEPT ![Broker] = Append(@, published + 1)]
    /\ UNCHANGED <<loop, control, subscribers, received>>

\* start() returns at once when the thread lives.  One thread starts a node and
\* one stops it, each whatever the other is doing.
Start(n) ==
    /\ starting[n] = "no" /\ asked[n] < MaxCalls
    /\ asked' = [asked EXCEPT ![n] = @ + 1]
    /\ starting' = [starting EXCEPT ![n] = IF Alive(n) THEN "no" ELSE "clearing"]
    /\ UNCHANGED <<inbox, loop, stopFlag, stopping, subscribers, published, received>>

\* Else it clears the stop event, which a stop() may have set since, and starts
\* a new thread.
StartThread(n) ==
    /\ starting[n] = "clearing"
    /\ stopFlag' = [stopFlag EXCEPT ![n] = FALSE]
    /\ thread' = [thread EXCEPT ![n] = "checking"]
    /\ starting' = [starting EXCEPT ![n] = "no"]
    /\ UNCHANGED <<inbox, held, stopping, subscribers, published, asked, received>>

\* stop() sets the flag, puts the marker once there is room, and joins the
\* thread for two seconds: it returns when the thread is dead or time is up.
StopSets(n) ==
    /\ stopping[n] = "no" /\ asked[n] \in 1..(MaxCalls - 1)
    /\ asked' = [asked EXCEPT ![n] = @ + 1]
    /\ stopFlag' = [stopFlag EXCEPT ![n] = TRUE]
    /\ stopping' = [stopping EXCEPT ![n] = "putting"]
    /\ UNCHANGED <<inbox, loop, starting, subscribers, published, received>>

StopPuts(n) ==
    /\ stopping[n] = "putting" /\ Room(n)
    /\ inbox' = [inbox EXCEPT ![n] = Append(@, StopMarker)]
    /\ stopping' = [stopping EXCEPT ![n] = "joining"]
    /\ UNCHANGED <<loop, stopFlag, starting, subscribers, published, asked, received>>

StopReturns(n) ==
    /\ stopping[n] = "joining"
    /\ stopping' = [stopping EXCEPT ![n] = "no"]
    /\ UNCHANGED <<inbox, loop, stopFlag, starting, subscribers, published, asked, received>>

\* The broker holds its lock while it copies a message to the subscribers.
Locked == thread[Broker] = "holding"

AddSubscriber(b) ==
    /\ ~Locked /\ b \notin subscribers
    /\ subscribers' = subscribers \cup {b}
    /\ UNCHANGED <<inbox, loop, control, published, received>>

RemoveSubscriber(b) ==
    /\ ~Locked /\ b \in subscribers
    /\ subscribers' = subscribers \ {b}
    /\ UNCHANGED <<inbox, loop, control, published, received>>
----------------------------------------------------------------------------
\* The loop looks at the stop event before every get().
Check(n) ==
    /\ thread[n] = "checking"
    /\ thread' = [thread EXCEPT ![n] = IF stopFlag[n] THEN "none" ELSE "getting"]
    /\ UNCHANGED <<inbox, held, control, subscribers, published, received>>

\* get(timeout=0.1) finds nothing.
GetTimesOut(n) ==
    /\ thread[n] = "getting" /\ inbox[n] = <<>>
    /\ thread' = [thread EXCEPT ![n] = "checking"]
    /\ UNCHANGED <<inbox, held, control, subscribers, published, received>>

\* get() returns a message: a marker, even one an earlier stop() left behind,
\* ends the loop.
Get(n) ==
    /\ thread[n] = "getting" /\ inbox[n] # <<>>
    /\ inbox' = [inbox EXCEPT ![n] = Tail(@)]
    /\ IF Head(inbox[n]) = StopMarker
       THEN thread' = [thread EXCEPT ![n] = "none"] /\ held' = held
       ELSE /\ thread' = [thread EXCEPT ![n] = "holding"]
            /\ held' = [held EXCEPT ![n] = [message |-> Head(inbox[n]),
                                            targets |-> IF n = Broker THEN subscribers ELSE {}]]
    /\ UNCHANGED <<control, subscribers, published, received>>

Put_Retried(b) ==
    IF Room(b) THEN [inbox EXCEPT ![b] = Append(@, held[Broker].message)]
    ELSE [inbox EXCEPT ![Broker] = Append(@, held[Broker].message)]

\* A subscriber queue that stays full loses the message after a short wait.
Put(b) ==
    IF Room(b) THEN [inbox EXCEPT ![b] = Append(@, held[Broker].message)] ELSE inbox

CanPut_Blocks(b) == Room(b)

CanPut(b) == TRUE

\* IPCBroker._run(): one subscriber after another.
Forward(b) ==
    /\ Locked /\ b \in held[Broker].targets /\ CanPut(b)
    /\ inbox' = Put(b)
    /\ held' = [held EXCEPT ![Broker].targets = @ \ {b}]
    /\ UNCHANGED <<thread, control, subscribers, published, received>>

Forwarded ==
    /\ Locked /\ held[Broker].targets = {}
    /\ thread' = [thread EXCEPT ![Broker] = "checking"]
    /\ UNCHANGED <<inbox, held, control, subscribers, published, received>>

\* IPCQueueEventBus._dispatch(): the handlers run; one that raises is reported.
Dispatch(b) ==
    /\ thread[b] = "holding"
    /\ received' = [received EXCEPT ![b] = Append(@, held[b].message)]
    /\ thread' = [thread EXCEPT ![b] = "checking"]
    /\ UNCHANGED <<inbox, held, control, subscribers, published>>

Loop(n) == Check(n) \/ GetTimesOut(n) \/ Get(n)
Copy == Forwarded \/ \E b \in Buses : Forward(b)

IpcNext ==
    \/ Publish
    \/ \E n \in Nodes :
         Start(n) \/ StartThread(n) \/ StopSets(n) \/ StopPuts(n) \/ StopReturns(n) \/ Loop(n)
    \/ \E b \in Buses : AddSubscriber(b) \/ RemoveSubscriber(b) \/ Dispatch(b)
    \/ Copy

\* Listener threads are scheduled, and their waits are bounded by timeouts; a
\* stop() puts its marker when the queue has room and stays so.
Fairness ==
    /\ \A n \in Nodes : WF_ipcVars(Loop(n)) /\ WF_ipcVars(StopPuts(n))
    /\ \A b \in Buses : WF_ipcVars(Dispatch(b))
    /\ WF_ipcVars(Copy)

IpcSpec == IpcInit /\ [][IpcNext]_ipcVars /\ Fairness
----------------------------------------------------------------------------
\* The queues and the broker keep the published order and never repeat: what
\* a bus dispatches is a subsequence of what was published, across drops on
\* full queues, restarts and changes of the subscribers.
ReceivedInOrder ==
    \A b \in Buses : \A i, j \in DOMAIN received[b] :
        i < j => received[b][i] < received[b][j]

\* A loop told to stop ends: a full or abandoned subscriber queue cannot hold
\* the broker, and a start() during the stop does not take the order back.  Also
\* when it clears the flag that a stop() has just set, and brings up its thread
\* behind it, the marker of that stop() ends the thread.
StopEndsLoop ==
    \A n \in Nodes : Alive(n) /\ (stopFlag[n] \/ stopping[n] = "putting") ~> ~Alive(n)
=============================================================================
