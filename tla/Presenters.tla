----------------------------- MODULE Presenters ----------------------------
(***************************************************************************)
(* PresenterManager, the presenters it makes when their screen is first    *)
(* shown, and the QtEventBridge through which each hears the event bus:    *)
(* events come from any thread, handlers run on the GUI thread.            *)
(***************************************************************************)
EXTENDS Integers, Sequences, SequencesExt, FiniteSets

CONSTANTS Screens,   \* the screens, in the order they were registered
          MaxEvents,  \* bound: events emitted
          MaxUpsets  \* bound: calls that raise, presenters freed, resubscriptions

Names == ToSet(Screens)

ASSUME ScreensAssumption == Screens \in Seq(Names)

Origins == {"gui", "worker"}

VARIABLES
    presenter,     \* [screen -> "none", "ready", "disposed", or "freed" without that]
    shut,       \* PresenterManager's teardown: "no", "running", "done"
    left,       \* the screens still to be torn down
    torn,       \* [screen -> how often its presenter's shutdown() hook ran]
    forwarders, \* screens whose bridge has a forwarder for the event
    bus,        \* the forwarders on the bus, in the order they subscribed
    emitting,   \* [thread -> the event it emits and the forwarders left to call]
    deliveries,      \* deliveries posted to the GUI thread: <<screen, event, thread>>
    delivered,        \* deliveries that ran, in order
    heard,      \* [event -> screens that were subscribed when it was emitted]
    emitted, upsets

managing == <<presenter, shut, left, torn>>
bridge == <<forwarders, bus>>
delivery == <<emitting, deliveries, delivered, heard, emitted>>
screensVars == <<managing, bridge, delivery, upsets>>

Upset == upsets < MaxUpsets /\ upsets' = upsets + 1

Quiet == [event |-> 0, left |-> <<>>]

ScreensInit ==
    /\ presenter = [s \in Names |-> "none"]
    /\ shut = "no" /\ left = <<>> /\ torn = [s \in Names |-> 0]
    /\ forwarders = {} /\ bus = <<>>
    /\ emitting = [t \in Origins |-> Quiet] /\ deliveries = <<>> /\ delivered = <<>>
    /\ heard = <<>> /\ emitted = 0 /\ upsets = 0
----------------------------------------------------------------------------
\* on(): subscribing twice is a no-op; what the bus holds is the forwarder.
On(s) ==
    /\ forwarders' = forwarders \cup {s}
    /\ bus' = IF s \in forwarders THEN bus ELSE Append(bus, s)

Off_Handler(s) ==
    /\ forwarders' = forwarders \ {s}
    /\ UNCHANGED bus

\* off() and off_all() pass the bus the forwarder they remember, which it holds once.
Off(s) ==
    /\ forwarders' = forwarders \ {s}
    /\ bus' = IF s \in forwarders THEN RemoveAt(bus, CHOOSE i \in DOMAIN bus : bus[i] = s) ELSE bus

\* navigate_to() makes view, presenter and page the first time; which page shows
\* is left out.
NavigateTo(s) ==
    /\ shut = "no" /\ presenter[s] = "none"
    /\ presenter' = [presenter EXCEPT ![s] = "ready"]
    /\ On(s)
    /\ UNCHANGED <<shut, left, torn, delivery, upsets>>

\* A presenter whose constructor raises, before the subscriptions at its end, is
\* not kept; the screen can be tried again, with a view of its own.
ConstructorRaises(s) ==
    /\ shut = "no" /\ presenter[s] = "none" /\ Upset
    /\ UNCHANGED <<managing, bridge, delivery>>

\* subscribe() again, or unsubscribe(), by the presenter itself.
Resubscribe(s) ==
    /\ presenter[s] = "ready" /\ Upset
    /\ On(s) \/ Off(s)
    /\ UNCHANGED <<managing, delivery>>

\* dispose(): once, the subscriptions first, then the author's shutdown().
Disposed(s, status) ==
    IF status # "ready" THEN UNCHANGED <<presenter, torn, bridge>>
    ELSE /\ presenter' = [presenter EXCEPT ![s] = "disposed"]
         /\ Off(s)
         /\ torn' = [torn EXCEPT ![s] = @ + 1]

DisposePresenter(s) ==
    /\ presenter[s] = "ready"
    /\ Disposed(s, presenter[s])
    /\ UNCHANGED <<shut, left, delivery, upsets>>

\* A screen whose owner lets its presenter go, while nothing is posted to it,
\* leaves a forwarder on the bus that holds nobody.
FreePresenter(s) ==
    /\ presenter[s] = "ready" /\ \A i \in DOMAIN deliveries : deliveries[i][1] # s
    /\ Upset
    /\ presenter' = [presenter EXCEPT ![s] = "freed"]
    /\ UNCHANGED <<shut, left, torn, bridge, delivery>>

ShutdownOrder == Reverse(Screens)

ShutdownAll ==
    /\ shut = "no"
    /\ shut' = "running" /\ left' = ShutdownOrder
    /\ UNCHANGED <<presenter, torn, bridge, delivery, upsets>>

AfterHookRaised_Stops == <<>>

\* The exception is contained: the next presenter is torn down all the same.
AfterHookRaised == Tail(left)

\* The hook raises once the subscriptions are gone.
TeardownNext(raises) ==
    /\ shut = "running" /\ left # <<>>
    /\ IF raises THEN presenter[Head(left)] = "ready" /\ Upset ELSE UNCHANGED upsets
    /\ Disposed(Head(left), presenter[Head(left)])
    /\ left' = IF raises THEN AfterHookRaised ELSE Tail(left)
    /\ UNCHANGED <<shut, delivery>>

ShutdownReturns ==
    /\ shut = "running" /\ left = <<>>
    /\ shut' = "done"
    /\ UNCHANGED <<presenter, left, torn, bridge, delivery, upsets>>
----------------------------------------------------------------------------
\* emit() copies the bus's handlers, then calls one after the other.
EmitEvent(t) ==
    /\ emitting[t] = Quiet /\ emitted < MaxEvents
    /\ emitted' = emitted + 1
    /\ emitting' = [emitting EXCEPT ![t] = [event |-> emitted', left |-> bus]]
    /\ heard' = Append(heard, ToSet(bus))
    /\ UNCHANGED <<managing, bridge, deliveries, delivered, upsets>>

\* forward(): the bridge's signal is delivered now on its own thread, and is
\* posted from another; a freed presenter gets nothing.
Forward(t) ==
    /\ emitting[t].left # <<>>
    /\ LET s == Head(emitting[t].left)
           d == <<s, emitting[t].event, t>> IN
         IF presenter[s] = "freed" THEN UNCHANGED <<deliveries, delivered>>
         ELSE IF t = "gui" THEN delivered' = Append(delivered, d) /\ UNCHANGED deliveries
         ELSE deliveries' = Append(deliveries, d) /\ UNCHANGED delivered
    /\ emitting' = [emitting EXCEPT ![t].left = Tail(@)]
    /\ UNCHANGED <<managing, bridge, heard, emitted, upsets>>

EmitReturns(t) ==
    /\ emitting[t] # Quiet /\ emitting[t].left = <<>>
    /\ emitting' = [emitting EXCEPT ![t] = Quiet]
    /\ UNCHANGED <<managing, bridge, deliveries, delivered, heard, emitted, upsets>>

\* _on_deliver(), in the GUI thread's event loop; what the handler raises is
\* reported.  Nothing asks whether the presenter was disposed meanwhile.
OnDeliver ==
    /\ deliveries # <<>>
    /\ delivered' = Append(delivered, Head(deliveries)) /\ deliveries' = Tail(deliveries)
    /\ UNCHANGED <<managing, bridge, emitting, heard, emitted, upsets>>

ScreensNext ==
    \/ \E s \in Names : NavigateTo(s) \/ ConstructorRaises(s) \/ Resubscribe(s) \/ DisposePresenter(s) \/ FreePresenter(s)
    \/ ShutdownAll \/ ShutdownReturns \/ \E b \in BOOLEAN : TeardownNext(b)
    \/ \E t \in Origins : EmitEvent(t) \/ Forward(t) \/ EmitReturns(t)
    \/ OnDeliver

ScreensSpec == ScreensInit /\ [][ScreensNext]_screensVars
----------------------------------------------------------------------------
\* A presenter hears an event at most once, the events of one thread in the
\* order they were emitted, and none that was emitted when it did not subscribe:
\* one it hears after dispose() was already on its way.
HeardOnce ==
    \A i \in DOMAIN delivered :
        /\ delivered[i][1] \in heard[delivered[i][2]]
        /\ \A j \in DOMAIN delivered :
             (i < j /\ delivered[i][1] = delivered[j][1]) =>
                delivered[i][2] # delivered[j][2] /\ (delivered[i][3] = delivered[j][3] => delivered[i][2] < delivered[j][2])

\* Teardown is complete: after it every presenter that was made and kept was
\* disposed exactly once and is not on the bus, whichever teardown raised; and
\* the bus holds exactly the forwarders the bridges have not taken back, those
\* of freed presenters among them.
TornDownOnce ==
    /\ shut = "done" => \A s \in Names : presenter[s] # "ready"
    /\ \A s \in Names : presenter[s] = "disposed" =>
         s \notin ToSet(bus) /\ torn[s] = 1
    /\ ToSet(bus) = forwarders

\* A presenter hears what it subscribed to for as long as it lives.
PresentersKept == HeardOnce /\ TornDownOnce
=============================================================================
