----------------------------- MODULE LogViewer -----------------------------
(***************************************************************************)
(* TcpLogViewerHandler: emit() puts records into a bounded queue, and one  *)
(* worker thread sends each as a line over TCP to a viewer that may be     *)
(* away, slow, or gone without a word.  Records carry the handler's _seq.  *)
(***************************************************************************)
EXTENDS Integers, Sequences, SequencesExt

CONSTANTS Capacity,   \* max_queue_size
          MaxRecords, \* bound: records emitted
          MaxFaults   \* bound: faults of the viewer, the network and the records

VARIABLES
    seq,     \* _seq
    records,   \* _queue: records, those that cannot be serialised as negative numbers
    dropped, \* records that found the queue full
    workerPc,      \* the worker: "check", "get", "attempt", "send", "exited", or "dead" by an exception
    inHand,    \* the record it has taken, or 0
    sock,    \* its socket: "none", "open", or "broken" while it does not know
    viewer,  \* does the viewer listen?
    lines,   \* [connection -> the lines the viewer read, a torn one as 0]
    stop,    \* _stop_event
    logFaults

logsVars == <<seq, records, dropped, workerPc, inHand, sock, viewer, lines, stop, logFaults>>

LogsInit ==
    /\ seq = 0 /\ records = <<>> /\ dropped = {}
    /\ workerPc = "check" /\ inHand = 0 /\ sock = "none"
    /\ viewer \in BOOLEAN /\ lines = <<>> /\ stop = FALSE /\ logFaults = 0

Fault == logFaults < MaxFaults /\ logFaults' = logFaults + 1

\* handle() calls emit() under the handler's lock; the queue does not block.
EmitRecord(serialisable) ==
    /\ seq < MaxRecords /\ seq' = seq + 1
    /\ IF serialisable THEN UNCHANGED logFaults ELSE Fault
    /\ IF Len(records) < Capacity
       THEN /\ records' = Append(records, IF serialisable THEN seq' ELSE -seq')
            /\ UNCHANGED dropped
       ELSE dropped' = dropped \cup {seq'} /\ UNCHANGED records
    /\ UNCHANGED <<workerPc, inHand, sock, viewer, lines, stop>>

\* close(), which waits for the worker for one second.
CloseHandler ==
    /\ ~stop /\ stop' = TRUE
    /\ UNCHANGED <<seq, records, dropped, workerPc, inHand, sock, viewer, lines, logFaults>>
----------------------------------------------------------------------------
\* The head of the worker's loop; its way out closes the socket.
CheckStop ==
    /\ workerPc = "check"
    /\ IF stop THEN workerPc' = "exited" /\ sock' = "none" ELSE workerPc' = "get" /\ UNCHANGED sock
    /\ UNCHANGED <<seq, records, dropped, inHand, viewer, lines, stop, logFaults>>

\* get() times out after half a second.  json.dumps() is in no try.
GetRecord ==
    /\ workerPc = "get"
    /\ IF records = <<>> THEN workerPc' = "check" /\ UNCHANGED <<records, inHand>>
       ELSE /\ records' = Tail(records) /\ inHand' = Head(records)
            /\ workerPc' = IF Head(records) < 0 THEN "dead" ELSE "attempt"
    /\ UNCHANGED <<seq, dropped, sock, viewer, lines, stop, logFaults>>

AfterFailedSend_Requeues == IF Len(records) < Capacity THEN Append(records, inHand) ELSE records

\* A record whose connection failed is not sent again.
AfterFailedSend == records

Failed ==
    /\ workerPc' = "check" /\ inHand' = 0 /\ sock' = "none"
    /\ records' = AfterFailedSend

\* The head of the inner loop: the record in hand is given up once close() began.
Attempt ==
    /\ workerPc = "attempt"
    /\ IF stop THEN workerPc' = "check" /\ inHand' = 0 ELSE workerPc' = "send" /\ UNCHANGED inHand
    /\ UNCHANGED <<seq, records, dropped, sock, viewer, lines, stop, logFaults>>

ConnectViewer ==
    /\ workerPc = "send" /\ sock = "none"
    /\ IF viewer
       THEN /\ sock' = "open" /\ lines' = Append(lines, <<>>)
            /\ UNCHANGED <<workerPc, inHand, records>>
       ELSE Failed /\ UNCHANGED lines
    /\ UNCHANGED <<seq, dropped, viewer, stop, logFaults>>

\* sendall() into a connection the viewer has left is an error, or is buffered
\* and lost without one.
SendAll ==
    /\ workerPc = "send" /\ sock # "none"
    /\ \/ /\ workerPc' = "check" /\ inHand' = 0
          /\ lines' = IF sock = "open" THEN [lines EXCEPT ![Len(lines)] = Append(@, inHand)] ELSE lines
          /\ UNCHANGED <<records, sock>>
       \/ sock = "broken" /\ Failed /\ UNCHANGED lines
    /\ UNCHANGED <<seq, dropped, viewer, stop, logFaults>>

\* A viewer that reads too slowly: the timeout strikes in the middle of a line.
TimesOut ==
    /\ workerPc = "send" /\ sock = "open" /\ Fault
    /\ lines' = [lines EXCEPT ![Len(lines)] = Append(@, 0)]
    /\ Failed
    /\ UNCHANGED <<seq, dropped, viewer, stop>>

\* The viewer goes away or comes back.
Viewer ==
    /\ Fault
    /\ viewer' = ~viewer
    /\ sock' = IF sock = "open" THEN "broken" ELSE sock
    /\ UNCHANGED <<seq, records, dropped, workerPc, inHand, lines, stop>>

LogsNext ==
    \/ \E b \in BOOLEAN : EmitRecord(b)
    \/ CloseHandler \/ CheckStop \/ GetRecord \/ Attempt \/ ConnectViewer \/ SendAll \/ TimesOut \/ Viewer

LogsSpec == LogsInit /\ [][LogsNext]_logsVars
----------------------------------------------------------------------------
\* What the viewer read, in the order it did: <<connection, line of it>>, torn ones left out.
Whole == {x \in UNION {{c} \X DOMAIN lines[c] : c \in DOMAIN lines} : lines[x[1]][x[2]] # 0}
Before(x, y) == x[1] < y[1] \/ (x[1] = y[1] /\ x[2] < y[2])
Record(x) == lines[x[1]][x[2]]

\* The viewer reads each record once and in the order they were emitted, however
\* often the connection was lost and made again, and a torn line is the last one
\* of its connection; while viewer, network and records are without fault, the
\* only records missing are those that met a full queue.
LogsKept ==
    /\ \A x, y \in Whole : Before(x, y) => Record(x) < Record(y)
    /\ \A c \in DOMAIN lines : \A i \in DOMAIN lines[c] : lines[c][i] = 0 => i = Len(lines[c])
    /\ (logFaults = 0 /\ viewer /\ ~stop) =>
         {Record(x) : x \in Whole} \cup ToSet(records) \cup ({inHand} \ {0}) = (1..seq) \ dropped
=============================================================================
