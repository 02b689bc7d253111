---------------------------- MODULE TraceStream ----------------------------
(***************************************************************************)
(* The TraceRecorder's ring buffer and taps, the TraceServer that serves   *)
(* them over a connection, and sagittarius-trace (cli.py) at the other end *)
(* of it, which attaches to the stream or asks for one state snapshot.     *)
(* Rows are numbered in the order they enter the buffer.                   *)
(***************************************************************************)
EXTENDS Integers, Sequences

CONSTANTS Recorders,     \* threads that record
          Clients,       \* connections
          RingCapacity,  \* TraceRecorder.capacity
          MaxRows        \* bound: rows recorded

VARIABLES
    rows,      \* rows recorded so far
    buffer,    \* the ring buffer
    dropped,   \* TraceRecorder._dropped
    evicted,   \* rows the full buffer really lost
    capture,   \* what each recording thread is in the middle of
    taps,      \* TraceRecorder._taps
    handler,   \* where the server's coroutine for a client is
    gone,      \* rows no longer in the buffer when the backlog was read
    tapped,    \* rows its tap received and the forward loop has not sent
    wire,      \* messages on the way to the client
    requests,  \* snapshot requests on the way to the server
    client     \* the command at the other end

recorder == <<rows, buffer, dropped, evicted, capture>>
server == <<taps, handler, gone, tapped>>
streamVars == <<recorder, server, wire, requests, client>>

NoCapture == [step |-> "none", row |-> 0]
NewClient(command) == [command |-> command, state |-> "new", seen |-> {}, printed |-> FALSE]

StreamInit ==
    /\ rows = 0 /\ buffer = <<>> /\ dropped = 0 /\ evicted = 0
    /\ capture = [t \in Recorders |-> NoCapture]
    /\ taps = {}
    /\ handler = [c \in Clients |-> "none"]
    /\ gone = [c \in Clients |-> {}]
    /\ tapped = [c \in Clients |-> {}]
    /\ wire = [c \in Clients |-> <<>>]
    /\ requests = [c \in Clients |-> 0]
    /\ client \in [Clients -> {NewClient("attach"), NewClient("snapshot")}]

Retained == {buffer[i] : i \in DOMAIN buffer}
Send(c, message) == wire' = [wire EXCEPT ![c] = Append(@, message)]
Message(type, content) == [type |-> type, rows |-> content]
----------------------------------------------------------------------------
\* instant(), span_begin() and span_end(): no lock.  The length is compared
\* with the capacity, the row appended, and the taps told, as three steps.
CompareLength(t) ==
    /\ capture[t].step = "none" /\ rows < MaxRows
    /\ dropped' = IF Len(buffer) = RingCapacity THEN dropped + 1 ELSE dropped
    /\ capture' = [capture EXCEPT ![t].step = "compared"]
    /\ UNCHANGED <<rows, buffer, evicted, server, wire, requests, client>>

AppendRow(t) ==
    LET full == Len(buffer) = RingCapacity IN
    /\ capture[t].step = "compared" /\ rows < MaxRows
    /\ rows' = rows + 1
    /\ buffer' = IF full THEN Tail(Append(buffer, rows + 1)) ELSE Append(buffer, rows + 1)
    /\ evicted' = IF full THEN evicted + 1 ELSE evicted
    /\ capture' = [capture EXCEPT ![t] = [step |-> "appended", row |-> rows + 1]]
    /\ UNCHANGED <<dropped, server, wire, requests, client>>

\* _notify_taps(); a tap that raises is counted and contained.
NotifyTaps(t) ==
    /\ capture[t].step = "appended"
    /\ tapped' = [c \in Clients |-> IF c \in taps THEN tapped[c] \cup {capture[t].row} ELSE tapped[c]]
    /\ capture' = [capture EXCEPT ![t] = NoCapture]
    /\ UNCHANGED <<rows, buffer, dropped, evicted, taps, handler, gone,
                   wire, requests, client>>

\* drain() takes rows out one by one.
Drain ==
    /\ buffer # <<>>
    /\ buffer' = Tail(buffer)
    /\ UNCHANGED <<rows, dropped, evicted, capture, server, wire, requests, client>>
----------------------------------------------------------------------------
NextStep_BacklogFirst(step) == CASE step = "hello"   -> "backlog"
                                 [] step = "backlog" -> "tap"
                                 [] step = "tap"     -> "live"

\* The steps of TraceServer._handle(): hello, then the tap, then the backlog.
NextStep(step) == CASE step = "hello"   -> "tap"
                    [] step = "tap"     -> "backlog"
                    [] step = "backlog" -> "live"
At(c, step) == handler[c] = step
ToNext(c) == handler' = [handler EXCEPT ![c] = NextStep(@)]

Connect(c) ==
    /\ client[c].state = "new" /\ At(c, "none")
    /\ client' = [client EXCEPT ![c].state = "hello"]
    /\ handler' = [handler EXCEPT ![c] = "hello"]
    /\ UNCHANGED <<recorder, taps, gone, tapped, wire, requests>>

SendHello(c) ==
    /\ At(c, "hello")
    /\ Send(c, Message("hello", {}))
    /\ ToNext(c)
    /\ UNCHANGED <<recorder, taps, gone, tapped, requests, client>>

AddTap(c) ==
    /\ At(c, "tap")
    /\ taps' = taps \cup {c}
    /\ ToNext(c)
    /\ UNCHANGED <<recorder, gone, tapped, wire, requests, client>>

SendBacklog(c) ==
    /\ At(c, "backlog")
    /\ gone' = [gone EXCEPT ![c] = (1..rows) \ Retained]
    /\ IF buffer = <<>> THEN wire' = wire ELSE Send(c, Message("trace", Retained))
    /\ ToNext(c)
    /\ UNCHANGED <<recorder, taps, tapped, requests, client>>

\* _forward_loop(): what the tap queued goes out as one batch.
ForwardBatch(c) ==
    /\ At(c, "live") /\ tapped[c] # {}
    /\ Send(c, Message("trace", tapped[c]))
    /\ tapped' = [tapped EXCEPT ![c] = {}]
    /\ UNCHANGED <<recorder, taps, handler, gone, requests, client>>

\* _snapshot_request_loop(): one snapshot per frame the client sent.
Answer(c) ==
    /\ At(c, "live") /\ requests[c] > 0
    /\ requests' = [requests EXCEPT ![c] = @ - 1]
    /\ Send(c, Message("snapshot", {}))
    /\ UNCHANGED <<recorder, server, client>>

\* The connection is closed, by the client's exit or by stop(): the finally
\* clauses take the tap away.
Close(c) ==
    /\ handler[c] \notin {"none", "closed"}
    /\ handler' = [handler EXCEPT ![c] = "closed"]
    /\ taps' = taps \ {c}
    /\ UNCHANGED <<recorder, gone, tapped, wire, requests, client>>
----------------------------------------------------------------------------
\* cli.py: the next message of the connection.
Arrived(c) == Head(wire[c])
NextMessage(c) == wire[c] # <<>> /\ wire' = [wire EXCEPT ![c] = Tail(@)]

\* The first message has to be the hello; snapshot() then sends its request.
ClientHello(c) ==
    /\ client[c].state = "hello" /\ NextMessage(c) /\ Arrived(c).type = "hello"
    /\ client' = [client EXCEPT ![c].state = "reading"]
    /\ requests' = IF client[c].command = "snapshot"
                   THEN [requests EXCEPT ![c] = @ + 1] ELSE requests
    /\ UNCHANGED <<recorder, server>>

\* attach(): every trace message is printed and kept for --save.
ClientAttached(c) ==
    /\ client[c].state = "reading" /\ client[c].command = "attach" /\ NextMessage(c)
    /\ client' = [client EXCEPT ![c].seen = @ \cup Arrived(c).rows]
    /\ UNCHANGED <<recorder, server, requests>>

\* snapshot() without --watch reads one message, whatever it is, and leaves.
ClientSnapshot(c) ==
    /\ client[c].state = "reading" /\ client[c].command = "snapshot" /\ NextMessage(c)
    /\ client' = [client EXCEPT ![c].printed = (Arrived(c).type = "snapshot"),
                                ![c].state = "exited"]
    /\ UNCHANGED <<recorder, server, requests>>

\* Ctrl+C or the end of the stream ends attach(), which saves what it saw.
Detach(c) ==
    /\ client[c].state = "reading" /\ client[c].command = "attach"
    /\ At(c, "closed") => wire[c] = <<>>
    /\ client' = [client EXCEPT ![c].state = "exited"]
    /\ UNCHANGED <<recorder, server, wire, requests>>

StreamNext ==
    \/ \E t \in Recorders : CompareLength(t) \/ AppendRow(t) \/ NotifyTaps(t)
    \/ Drain
    \/ \E c \in Clients : \/ Connect(c) \/ SendHello(c) \/ AddTap(c) \/ SendBacklog(c)
                          \/ ForwardBatch(c) \/ Answer(c) \/ Close(c)
                          \/ ClientHello(c) \/ ClientAttached(c) \/ ClientSnapshot(c)
                          \/ Detach(c)

StreamSpec == StreamInit /\ [][StreamNext]_streamVars
----------------------------------------------------------------------------
OnWire(c) == UNION {wire[c][i].rows : i \in DOMAIN wire[c]}
BeingTold == {capture[t].row : t \in {x \in Recorders : capture[x].step = "appended"}}

\* A client that attached late has no silent gap: each row ever recorded has
\* reached it, or is queued or on its way, unless the buffer had already lost
\* it when the backlog was read.
NoSilentGap ==
    \A c \in Clients :
        (At(c, "live") /\ client[c].command = "attach" /\ client[c].state # "exited") =>
            1..rows \subseteq client[c].seen \cup OnWire(c) \cup tapped[c] \cup BeingTold \cup gone[c]

\* A one-shot "snapshot" that ends without an error has printed a snapshot, as
\* its docstring and its --help promise: "requested and printed once".  Not kept:
\* the first message may be a row.
SnapshotPrinted ==
    \A c \in Clients :
        client[c].command = "snapshot" /\ client[c].state = "exited" => client[c].printed

\* Every eviction is counted, as the recorder's docstring says.  Not kept: two
\* threads may compare before either appends.
EvictionsCounted ==
    (\A t \in Recorders : capture[t].step # "compared") => dropped >= evicted
=============================================================================
