---------------------------- MODULE TraceCapture ----------------------------
(***************************************************************************)
(* What tracing records of dispatches and of an application's own spans:   *)
(* Dispatcher, MiddlewarePipeline, ctx.trace and the TraceRecorder,        *)
(* and what the exporters make of a recording.                             *)
(*                                                                         *)
(* The levels of a dispatch are numbered from outside: 0 is the dispatch   *)
(* span, 1..Middlewares the frames, then the handler.  One more stands for *)
(* a span of ctx.trace.  A level stands for the (lane, name, cat) of its   *)
(* records.  The recorder is one object: tracing that is switched off and  *)
(* on again goes on with it.  A clock read costs more than the clock's     *)
(* resolution, so every capture has a later time stamp than the one before.*)
(***************************************************************************)
EXTENDS Integers, Sequences, FiniteSets

CONSTANTS Dispatchers,  \* threads that dispatch
          Middlewares,  \* length of the chain
          MaxCaptures   \* bound: rows of a recording

ASSUME MiddlewaresAssumption == Middlewares \in Nat

Handler == Middlewares + 1
UserSpan == Middlewares + 2

VARIABLES
    tracing,   \* context.recorder is not None
    clock,     \* perf_counter_ns()
    nextCid,   \* _next_cid
    stack,     \* the spans each thread has open, by their begin rows, innermost last
    captured   \* every row appended to the recorder, in order

captureVars == <<tracing, clock, nextCid, stack, captured>>

CaptureInit ==
    /\ tracing \in BOOLEAN /\ clock = 0 /\ nextCid = 0
    /\ stack = [t \in Dispatchers |-> <<>>]
    /\ captured = <<>>

Innermost(t) == stack[t][Len(stack[t])]
OpenSpans == UNION {{t} \X DOMAIN stack[t] : t \in Dispatchers}
----------------------------------------------------------------------------
\* enable_tracing() and disable_tracing(), also while dispatches run.
SwitchTracing ==
    /\ tracing' = ~tracing
    /\ UNCHANGED <<clock, nextCid, stack, captured>>

\* A capture appends one row; what the ring buffer then keeps of the rows is
\* the subject of TraceStream.
Capture(row) ==
    /\ clock' = clock + 1
    /\ captured' = Append(captured, row)

\* span_begin(): the caller keeps the start, the row has no duration yet.  `up`
\* is the start of the span of the same dispatch it is called from, which the
\* recorder does not see (history).
Begin(t, level, cid, up) ==
    LET row == [level |-> level, cid |-> cid, t |-> clock + 1, dur |-> 0, up |-> up] IN
    /\ clock + Cardinality(OpenSpans) + 2 <= MaxCaptures
    /\ Capture(row)
    /\ stack' = [stack EXCEPT ![t] = Append(@, row)]

\* Code of the application is what runs: outside of any dispatch, in a
\* middleware, a handler or a span of its own.
InApplication(t) == stack[t] # <<>> => Innermost(t).level # 0

\* Dispatcher.dispatch(), which a handler may call for another command: it reads
\* the recorder once and takes a cid under the recorder's lock, then begins the
\* dispatch span.  Without a recorder it captures nothing, and is no step here.
BeginDispatch(t) ==
    /\ tracing /\ InApplication(t)
    /\ nextCid' = nextCid + 1
    /\ Begin(t, 0, nextCid + 1, 0)
    /\ UNCHANGED tracing

\* The chain is called once by a dispatch; a middleware may call on repeatedly.
Called(cid) == \E i \in DOMAIN captured : captured[i].cid = cid /\ captured[i].level = 1

\* A dispatch or a frame calls the next one in, with the dispatch's recorder and
\* cid: a frame or, in the end, the handler.
CallInner(t) ==
    /\ stack[t] # <<>>
    /\ LET caller == Innermost(t) IN
         /\ caller.level < Handler
         /\ caller.level = 0 => ~Called(caller.cid)
         /\ Begin(t, caller.level + 1, caller.cid, caller.t)
    /\ UNCHANGED <<tracing, nextCid>>

\* ctx.trace.span(), in a dispatch or outside: it asks for a recorder itself, and
\* passes no cid to span_begin().
BeginUserSpan(t) ==
    /\ tracing /\ InApplication(t)
    /\ Begin(t, UserSpan, 0, 0)
    /\ UNCHANGED <<tracing, nextCid>>

Closes_WhileTracing == tracing

\* Whether a span that is left is closed: the finally clause does it, on a
\* return and on an exception, and whatever context.recorder is by then.
Closes == TRUE

\* The innermost span is left, by a return or an exception: span_end().
Leave(t) ==
    LET span == Innermost(t) IN
    /\ stack[t] # <<>>
    /\ IF Closes
       THEN Capture([span EXCEPT !.t = clock + 1, !.dur = clock + 1 - span.t])
       ELSE UNCHANGED <<clock, captured>>
    /\ stack' = [stack EXCEPT ![t] = SubSeq(@, 1, Len(@) - 1)]
    /\ UNCHANGED <<tracing, nextCid>>

CaptureNext ==
    \/ SwitchTracing
    \/ \E t \in Dispatchers :
         BeginDispatch(t) \/ CallInner(t) \/ BeginUserSpan(t) \/ Leave(t)

CaptureSpec == CaptureInit /\ [][CaptureNext]_captureVars
----------------------------------------------------------------------------
\* What the exporters compute from a sequence of rows.  Perfetto draws a span
\* by its end row and skips a begin row, OpenTelemetry replays end rows only.

Rows(s) == {s[i] : i \in DOMAIN s}
Begins(s) == {r \in Rows(s) : r.dur = 0}
Ends(s) == {r \in Rows(s) : r.dur > 0}
\* to_perfetto_trace(): one event per closed span, on its lane's track.
Drawn(s) == {[track |-> r.level, ts |-> r.t - r.dur, dur |-> r.dur] : r \in Ends(s)}

\* _count_unclosed() pairs begins and ends by number, per (lane, name, cat, cid).
SpanKey(r) == [level |-> r.level, cid |-> r.cid]
SameKey(S, k) == {r \in S : SpanKey(r) = k}
Excess(s, k) == Cardinality(SameKey(Begins(s), k)) - Cardinality(SameKey(Ends(s), k))
Unpaired(s) ==
    UNION {{k} \X (1..Excess(s, k)) : k \in {x \in {SpanKey(r) : r \in Begins(s)} : Excess(s, x) > 0}}
CountUnclosed(s) == Cardinality(Unpaired(s))

\* _parents_within_group() sweeps the closed spans of one cid by start time;
\* the parent is the innermost one that has not ended.
StartOf(r) == r.t - r.dur
Outlives(group, r) == {p \in group : StartOf(p) < StartOf(r) /\ p.t > StartOf(r)}
ParentOf(group, r) ==
    {p \in Outlives(group, r) : \A q \in Outlives(group, r) : StartOf(q) <= StartOf(p)}

Group_AnyCid(s, cid) == Ends(s)

\* The spans of one cid; those without, cid 0, get no parent and no children.
Group(s, cid) == {r \in Ends(s) : r.cid = cid}
----------------------------------------------------------------------------
\* On whatever path dispatches end, however they nest and threads interleave,
\* and though the spans of ctx.trace all share one cid, the recording has an end
\* row for every span but those still open: the exporters report as many spans
\* unclosed as are still running, and Perfetto draws every other one that was
\* begun, none over another's event.
UnclosedAreOpen ==
    /\ CountUnclosed(captured) = Cardinality(OpenSpans)
    /\ Cardinality(Drawn(captured)) = Cardinality(Begins(captured)) - Cardinality(OpenSpans)

\* "Reconstructing parent/child from a flat record stream": of a dispatch that is
\* over, each span's parent, as containment in time gives it, is the one span
\* that called it, whatever dispatches and spans of ctx.trace ran inside it or
\* beside it, and however often a middleware called on.
ParentsRecovered ==
    \A cid \in 1..nextCid :
        (\A t \in Dispatchers : \A i \in DOMAIN stack[t] : stack[t][i].cid # cid) =>
            \A r \in Group(captured, cid) :
                {StartOf(p) : p \in ParentOf(Group(captured, cid), r)}
                  = IF r.up = 0 THEN {} ELSE {r.up}
=============================================================================
