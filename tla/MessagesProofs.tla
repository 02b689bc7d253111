--------------------------- MODULE MessagesProofs ---------------------------
(***************************************************************************)
(* Theorems about what moves messages, for any of the constants.           *)
(* Tracing: what the engine sends is what a consumer reads, for every      *)
(* message of the protocol (WireCodec); a client of the trace server has   *)
(* no silent gap (TraceStream); the rows of a recording tell which calls   *)
(* are open and which called which (TraceCapture).                         *)
(* Messages between processes arrive in order (IpcBus).                    *)
(* What an emission took on is in exactly one place, so the buses          *)
(* implement Delivery (EventDelivery).                                     *)
(***************************************************************************)
EXTENDS TraceCapture, TraceStream, WireCodec, IpcBus, EventDelivery, FiniteSetTheorems, TLAPS

\* A class whose fields, when to_dict() leaves them out, are read back by
\* from_dict() as the value they had.
Sound(s) == \A k \in DOMAIN s : \A v \in s[k].values \cap s[k].omit : v = s[k].default

\* Each way to declare a field is sound, for any keys.
LEMMA FieldsSound ==
    ASSUME NEW keys
    PROVE  Sound(Required(keys)) /\ Sound(Sent(keys)) /\ Sound(Nullable(keys))
             /\ Sound(Sparse(keys)) /\ Sound(Optional(keys))
    BY DEF Sound, Required, Sent, Nullable, Sparse, Optional, Fields, Plain

\* A class made of sound parts is sound.
LEMMA JoinedSound ==
    ASSUME NEW s, NEW t, Sound(s), Sound(t)
    PROVE  Sound(s ++ t)
    BY DEF Sound, ++

\* Every class of the protocol is sound.
LEMMA SchemasSound ==
    ASSUME NEW s \in Schemas \cup {ConfigSchema}
    PROVE  Sound(s)
<1>1. Sound(TraceRecordSchema) /\ Sound(HelloSchema) /\ Sound(EnvelopeSchema)
    BY FieldsSound, JoinedSound DEF TraceRecordSchema, HelloSchema, EnvelopeSchema
<1>2. Sound(FindingSchema) /\ Sound(LifecycleSchema) /\ Sound(EventSchema)
    BY FieldsSound, JoinedSound DEF FindingSchema, LifecycleSchema, EventSchema
<1>3. Sound(RegistrationSchema) /\ Sound(ContainerSchema) /\ Sound(TaskSchema)
    BY FieldsSound, JoinedSound DEF RegistrationSchema, ContainerSchema, TaskSchema
<1>4. Sound(PoolSchema) /\ Sound(BoundedSchema) /\ Sound(DeadLetterSchema)
    BY FieldsSound, JoinedSound DEF PoolSchema, BoundedSchema, DeadLetterSchema
<1>5. Sound(TransitionSchema) /\ Sound(MachineSchema) /\ Sound(UiThreadSchema)
    BY FieldsSound, JoinedSound DEF TransitionSchema, MachineSchema, UiThreadSchema
<1>6. Sound(SignalsSchema) /\ Sound(SnapshotSchema) /\ Sound(ConfigSchema)
    BY FieldsSound, JoinedSound DEF SignalsSchema, SnapshotSchema, ConfigSchema
<1> QED
    BY <1>1, <1>2, <1>3, <1>4, <1>5, <1>6 DEF Schemas

\* from_dict() undoes to_dict(), for any sound class and any record of it.
LEMMA RoundTrip ==
    ASSUME NEW s, Sound(s), NEW r \in Records(s)
    PROVE  FromDict(s, ToDict(s, r)) = r
<1>1. r \in [DOMAIN s -> {"none", "empty", "some"}] /\ \A k \in DOMAIN s : r[k] \in s[k].values
    BY DEF Records
<1>2. ASSUME NEW k \in DOMAIN s
      PROVE  FromDict(s, ToDict(s, r))[k] = r[k]
    BY <1>1, <1>2 DEF FromDict, ToDict, Sound
<1>3. FromDict(s, ToDict(s, r)) = [k \in DOMAIN s |-> r[k]]
    BY <1>2 DEF FromDict
<1> QED
    BY <1>1, <1>3

\* What a configuration entry is sent as is a record of its class, and a masked
\* one leaves its value behind.
LEMMA ConfigEntries ==
    ASSUME NEW named \in BOOLEAN, NEW userinfo \in BOOLEAN, NEW reveal \in BOOLEAN,
           NEW source \in Plain, NEW value \in Plain
    PROVE  LET r == MaskedEntry(named, userinfo, reveal, source, value)
           IN  /\ ConfigSchema # Nothing
               /\ r \in Records(ConfigSchema)
               /\ (named \/ userinfo) /\ ~reveal => "value" \notin DOMAIN ToDict(ConfigSchema, r)
<1> DEFINE r == MaskedEntry(named, userinfo, reveal, source, value)
<1>1. DOMAIN ConfigSchema = {"key", "masked", "source", "value"}
    BY DEF ConfigSchema, ++, Fields, Required, Sent, Sparse, Optional
<1>2. /\ ConfigSchema["key"].values = Plain /\ ConfigSchema["masked"].values = Plain
      /\ ConfigSchema["source"].values = Plain
      /\ ConfigSchema["value"].values = {"none", "empty", "some"}
      /\ ConfigSchema["value"].omit = {"none"}
    BY <1>1 DEF ConfigSchema, ++, Fields, Required, Sent, Sparse, Optional
<1>3. /\ r \in [DOMAIN ConfigSchema -> {"none", "empty", "some"}]
      /\ r["key"] \in Plain /\ r["masked"] \in Plain /\ r["source"] \in Plain
      /\ r["value"] \in {"none", "empty", "some"}
      /\ (named \/ userinfo) /\ ~reveal => r["value"] = "none"
    BY <1>1 DEF MaskedEntry, IsSecret, Plain
<1>4. r \in Records(ConfigSchema)
    BY <1>1, <1>2, <1>3 DEF Records
<1>5. ConfigSchema # Nothing
    BY <1>1, DOMAIN Nothing = {} DEF Nothing
<1> QED
    BY <1>1, <1>2, <1>3, <1>4, <1>5 DEF ToDict

\* A message is one of its class, what is on the wire is what to_dict() makes of
\* it, and what was built from that is the message.
CodecInv ==
    /\ schema = Nothing => got = Nothing /\ ~secret
    /\ schema # Nothing => /\ Sound(schema)
                           /\ sent \in Records(schema)
                           /\ data = ToDict(schema, sent)
    /\ got # Nothing => got = sent
    /\ secret => "value" \notin DOMAIN data

\* Whatever is sent -- any class, any values of its fields, any configuration
\* entry -- is built again by the consumer as it was, and a secret value stays
\* behind.
THEOREM CodecCorrect == CodecSpec => []WireIsFaithful
<1>1. CodecInit => CodecInv
    BY DEF CodecInit, CodecInv, Nothing
<1>2. ASSUME CodecInv, SendConfig PROVE CodecInv'
  <2>1. PICK named \in BOOLEAN, userinfo \in BOOLEAN, reveal \in BOOLEAN,
             source \in Plain, value \in Plain :
            /\ schema' = ConfigSchema
            /\ sent' = MaskedEntry(named, userinfo, reveal, source, value)
            /\ secret' = ((named \/ userinfo) /\ ~reveal)
            /\ data' = ToDict(ConfigSchema, sent')
            /\ got' = Nothing
    BY <1>2 DEF SendConfig, CodecInv
  <2> QED
    BY <2>1, ConfigEntries, SchemasSound DEF CodecInv
<1>3. ASSUME CodecInv, SendRecord PROVE CodecInv'
    BY <1>3, SchemasSound DEF SendRecord, CodecInv
<1>4. ASSUME CodecInv, Decode PROVE CodecInv'
    BY <1>4, RoundTrip DEF Decode, CodecInv
<1>5. CodecInv /\ UNCHANGED codecVars => CodecInv'
    BY DEF CodecInv, codecVars
<1>6. CodecInv /\ [CodecNext]_codecVars => CodecInv'
    BY <1>2, <1>3, <1>4, <1>5 DEF CodecNext
<1>7. CodecInv => WireIsFaithful
    BY DEF CodecInv, WireIsFaithful
<1> QED
    BY <1>1, <1>6, <1>7, PTL DEF CodecSpec
----------------------------------------------------------------------------
(* The trace stream. *)

Messages == [type : {"hello", "trace", "snapshot"}, rows : SUBSET Nat]
Captures == [step : {"none", "compared", "appended"}, row : Nat]
ClientRecords == [command : {"attach", "snapshot"},
                  state : {"new", "hello", "reading", "exited"},
                  seen : SUBSET Nat, printed : BOOLEAN]

StreamTypeInv ==
    /\ rows \in Nat /\ buffer \in Seq(Nat)
    /\ capture \in [Recorders -> Captures]
    /\ taps \in SUBSET Clients
    /\ handler \in [Clients -> {"none", "hello", "tap", "backlog", "live", "closed"}]
    /\ gone \in [Clients -> SUBSET Nat]
    /\ tapped \in [Clients -> SUBSET Nat]
    /\ wire \in [Clients -> Seq(Messages)]
    /\ client \in [Clients -> ClientRecords]

\* The server taps the recorder before it reads the backlog, and keeps the tap
\* as long as the connection lives; a hello carries no rows.
TapInv ==
    /\ \A c \in Clients : At(c, "backlog") \/ At(c, "live") => c \in taps
    /\ \A c \in Clients : \A i \in DOMAIN wire[c] :
            wire[c][i].type = "hello" => wire[c][i].rows = {}

\* Where a row can be for a client.
Covered(c) == client[c].seen \cup OnWire(c) \cup tapped[c] \cup BeingTold \cup gone[c]
Follows(c) == At(c, "live") /\ client[c].command = "attach" /\ client[c].state # "exited"
CoverInv == \A c \in Clients : Follows(c) => 1..rows \subseteq Covered(c)

StreamInv == StreamTypeInv /\ TapInv /\ CoverInv

\* The rows of a sequence of messages, and how they change at its two ends.
RowsIn(s) == UNION {s[i].rows : i \in DOMAIN s}

\* The rows of a sequence of messages, with one more.
LEMMA RowsAppended ==
    ASSUME NEW s \in Seq(Messages), NEW m \in Messages
    PROVE  RowsIn(Append(s, m)) = RowsIn(s) \cup m.rows
<1>1. /\ DOMAIN Append(s, m) = DOMAIN s \cup {Len(s) + 1}
      /\ \A i \in DOMAIN s : Append(s, m)[i] = s[i]
      /\ Append(s, m)[Len(s) + 1] = m
    OBVIOUS
<1> QED
    BY <1>1 DEF RowsIn

\* The rows of a sequence of messages whose first is taken.
LEMMA RowsTaken ==
    ASSUME NEW s \in Seq(Messages), s # <<>>
    PROVE  RowsIn(s) = RowsIn(Tail(s)) \cup Head(s).rows
<1>1. /\ \A i \in DOMAIN Tail(s) : i + 1 \in DOMAIN s /\ Tail(s)[i] = s[i + 1]
      /\ \A i \in DOMAIN s : i = 1 \/ (i - 1 \in DOMAIN Tail(s) /\ Tail(s)[i - 1] = s[i])
      /\ 1 \in DOMAIN s /\ Head(s) = s[1]
    OBVIOUS
<1>2. RowsIn(s) \subseteq RowsIn(Tail(s)) \cup Head(s).rows
  <2> SUFFICES ASSUME NEW i \in DOMAIN s
               PROVE  s[i].rows \subseteq RowsIn(Tail(s)) \cup Head(s).rows
      BY DEF RowsIn
  <2>1. CASE i = 1
      BY <1>1, <2>1
  <2>2. CASE i # 1
    <3>1. i - 1 \in DOMAIN Tail(s) /\ Tail(s)[i - 1] = s[i]
        BY <1>1, <2>2
    <3> QED
        BY <3>1 DEF RowsIn
  <2> QED
      BY <2>1, <2>2
<1>3. RowsIn(Tail(s)) \cup Head(s).rows \subseteq RowsIn(s)
  <2>1. ASSUME NEW i \in DOMAIN Tail(s) PROVE Tail(s)[i].rows \subseteq RowsIn(s)
      BY <1>1 DEF RowsIn
  <2>2. Head(s).rows \subseteq RowsIn(s)
      BY <1>1 DEF RowsIn
  <2> QED
      BY <2>1, <2>2 DEF RowsIn
<1> QED
    BY <1>2, <1>3

\* What a hello carries is nothing, whatever is appended or taken.
HellosEmpty(s) == \A i \in DOMAIN s : s[i].type = "hello" => s[i].rows = {}

\* Hellos stay without rows when a message is sent or taken.
LEMMA HellosKept ==
    ASSUME NEW s \in Seq(Messages), HellosEmpty(s)
    PROVE  /\ \A m \in Messages : (m.type = "hello" => m.rows = {}) => HellosEmpty(Append(s, m))
           /\ s # <<>> => /\ HellosEmpty(Tail(s))
                          /\ Head(s).type = "hello" => Head(s).rows = {}
           /\ s # <<>> => Tail(s) \in Seq(Messages) /\ Head(s) \in Messages
<1>1. ASSUME NEW m \in Messages, m.type = "hello" => m.rows = {}
      PROVE  HellosEmpty(Append(s, m))
    BY <1>1 DEF HellosEmpty
<1>2. ASSUME s # <<>>
      PROVE  HellosEmpty(Tail(s)) /\ (Head(s).type = "hello" => Head(s).rows = {})
    BY <1>2 DEF HellosEmpty
<1> QED
    BY <1>1, <1>2

\* A new recorder, with no client yet.
LEMMA StreamStarts == StreamInit => StreamInv
<1> SUFFICES ASSUME StreamInit PROVE StreamInv
    OBVIOUS
<1>1. NoCapture \in Captures /\ NewClient("attach") \in ClientRecords
        /\ NewClient("snapshot") \in ClientRecords
    BY DEF NoCapture, Captures, NewClient, ClientRecords
<1>t. StreamTypeInv
    BY <1>1 DEF StreamInit, StreamTypeInv
<1>2. TapInv /\ CoverInv
    BY DEF StreamInit, TapInv, CoverInv, Follows, At
<1> QED
    BY <1>t, <1>2 DEF StreamInv

\* Comparing the length, and draining, tell nobody of a row.
LEMMA CompareKeeps ==
    ASSUME StreamInv, NEW t \in Recorders, CompareLength(t)
    PROVE  StreamInv'
<1> USE DEF StreamInv, recorder, server
<1>1. [capture[t] EXCEPT !.step = "compared"] \in Captures
    BY DEF StreamTypeInv, Captures
<1>2. StreamTypeInv'
    BY <1>1 DEF StreamTypeInv, CompareLength
<1>3. TapInv'
    BY DEF TapInv, At, CompareLength
<1>4. /\ capture[t].step # "appended"
      /\ capture'[t] = [capture[t] EXCEPT !.step = "compared"]
      /\ capture[t] \in Captures
      /\ \A x \in Recorders : x # t => capture'[x] = capture[x]
    BY DEF StreamTypeInv, CompareLength
<1>5. capture'[t].step # "appended"
    BY <1>4 DEF Captures
<1>6. BeingTold' = BeingTold /\ rows' = rows
    BY <1>4, <1>5 DEF BeingTold, CompareLength
<1>7. CoverInv'
    BY <1>6 DEF CoverInv, Covered, Follows, OnWire, At, CompareLength
<1> QED
    BY <1>2, <1>3, <1>7

\* Draining gives the rows away and keeps what is known to be gone.
LEMMA DrainKeeps ==
    ASSUME StreamInv, Drain
    PROVE  StreamInv'
<1> USE DEF StreamInv, Drain, recorder, server
<1>1. StreamTypeInv'
    BY DEF StreamTypeInv
<1>2. TapInv'
    BY DEF TapInv, At
<1>3. CoverInv'
    BY DEF CoverInv, Covered, Follows, OnWire, At, BeingTold
<1> QED
    BY <1>1, <1>2, <1>3

\* A row that enters the buffer is about to be told to the taps.
LEMMA AppendKeeps ==
    ASSUME StreamInv, NEW t \in Recorders, AppendRow(t)
    PROVE  StreamInv'
<1> USE DEF StreamInv, recorder, server
<1>1. StreamTypeInv'
  <2>1. Append(buffer, rows + 1) \in Seq(Nat) /\ Len(Append(buffer, rows + 1)) # 0
      BY DEF StreamTypeInv
  <2>2. buffer' \in Seq(Nat)
      BY <2>1 DEF AppendRow
  <2> QED
      BY <2>2 DEF StreamTypeInv, AppendRow, Captures
<1>2. TapInv'
    BY DEF TapInv, At, AppendRow
<1>3. BeingTold' = BeingTold \cup {rows + 1} /\ rows' = rows + 1 /\ rows \in Nat
  <2>1. /\ capture[t].step # "appended"
        /\ capture'[t].step = "appended" /\ capture'[t].row = rows + 1
        /\ \A x \in Recorders : x # t => capture'[x] = capture[x]
      BY DEF StreamTypeInv, AppendRow
  <2> QED
      BY <2>1 DEF StreamTypeInv, BeingTold, AppendRow
<1>4. 1..rows' = 1..rows \cup {rows + 1}
    BY <1>3
<1>5. CoverInv'
    BY <1>3, <1>4 DEF CoverInv, Covered, Follows, OnWire, At, AppendRow
<1> QED
    BY <1>1, <1>2, <1>5

\* A client that reads or has read the backlog is among the taps told.
LEMMA NotifyKeeps ==
    ASSUME StreamInv, NEW t \in Recorders, NotifyTaps(t)
    PROVE  StreamInv'
<1> USE DEF StreamInv
<1>1. StreamTypeInv'
    BY DEF StreamTypeInv, NotifyTaps, Captures, NoCapture
<1>2. TapInv'
    BY DEF TapInv, At, NotifyTaps
<1>3. BeingTold = BeingTold' \cup {capture[t].row}
  <2>1. /\ capture[t].step = "appended" /\ capture'[t].step = "none"
        /\ \A x \in Recorders : x # t => capture'[x] = capture[x]
      BY DEF StreamTypeInv, NotifyTaps, NoCapture
  <2> QED
      BY <2>1 DEF BeingTold
<1>4. CoverInv'
  <2> SUFFICES ASSUME NEW c \in Clients, Follows(c)'
               PROVE  (1..rows \subseteq Covered(c))'
      BY DEF CoverInv
  <2>1. c \in taps /\ tapped'[c] = tapped[c] \cup {capture[t].row} /\ 1..rows \subseteq Covered(c)
      BY DEF TapInv, CoverInv, Follows, At, NotifyTaps
  <2> QED
      BY <1>3, <2>1 DEF Covered, OnWire, NotifyTaps
<1> QED
    BY <1>1, <1>2, <1>4

\* A step of one connection changes nothing for the other clients.
LEMMA OneConnection ==
    ASSUME StreamInv, NEW c \in Clients, StreamTypeInv',
           UNCHANGED <<rows, capture>>,
           \A d \in Clients : d # c =>
               /\ d \in taps' <=> d \in taps
               /\ handler'[d] = handler[d] /\ tapped'[d] = tapped[d] /\ gone'[d] = gone[d]
               /\ wire'[d] = wire[d] /\ client'[d] = client[d],
           At(c, "backlog")' \/ At(c, "live")' => c \in taps',
           HellosEmpty(wire'[c]),
           Follows(c)' => (1..rows \subseteq Covered(c))'
    PROVE  StreamInv'
<1>1. TapInv'
    BY DEF StreamInv, TapInv, At, HellosEmpty
<1>2. ASSUME NEW d \in Clients, d # c, Follows(d)'
      PROVE  (1..rows \subseteq Covered(d))'
  <2>1. Follows(d) /\ 1..rows \subseteq Covered(d)
      BY <1>2 DEF StreamInv, CoverInv, Follows, At
  <2> QED
      BY <1>2, <2>1 DEF Covered, OnWire, BeingTold
<1>3. CoverInv'
    BY <1>2 DEF CoverInv
<1> QED
    BY <1>1, <1>3 DEF StreamInv

\* What the wire of a client is, and that its rows are those of RowsIn.
LEMMA WireTyped ==
    ASSUME StreamInv, NEW c \in Clients
    PROVE  /\ wire[c] \in Seq(Messages) /\ HellosEmpty(wire[c])
           /\ OnWire(c) = RowsIn(wire[c])
           /\ client[c] \in ClientRecords
           /\ DOMAIN handler = Clients /\ DOMAIN wire = Clients /\ DOMAIN client = Clients
           /\ DOMAIN tapped = Clients /\ DOMAIN gone = Clients
    BY DEF StreamInv, StreamTypeInv, TapInv, HellosEmpty, OnWire, RowsIn

\* Connecting, the tap, and the end of a connection.
LEMMA ConnectionKeeps ==
    ASSUME StreamInv, NEW c \in Clients, Connect(c) \/ AddTap(c) \/ Close(c)
    PROVE  StreamInv'
<1> USE DEF recorder, server
<1>1. StreamTypeInv'
  <2>1. CASE Connect(c)
    <3>1. [client[c] EXCEPT !.state = "hello"] \in ClientRecords
        BY WireTyped DEF ClientRecords
    <3> QED
        BY <2>1, <3>1 DEF StreamInv, StreamTypeInv, Connect
  <2>2. CASE AddTap(c)
      BY <2>2 DEF StreamInv, StreamTypeInv, AddTap, ToNext, NextStep, At
  <2>3. CASE Close(c)
      BY <2>3 DEF StreamInv, StreamTypeInv, Close
  <2> QED
      BY <2>1, <2>2, <2>3
<1>2. /\ UNCHANGED <<rows, capture, wire, gone, tapped>>
      /\ \A d \in Clients : d # c => /\ d \in taps' <=> d \in taps
                                     /\ handler'[d] = handler[d] /\ client'[d] = client[d]
      /\ handler'[c] \in {"hello", "backlog", "closed"}
      /\ handler'[c] = "backlog" => c \in taps'
    BY WireTyped DEF Connect, AddTap, Close, ToNext, NextStep, At
<1> QED
    BY <1>1, <1>2, OneConnection, WireTyped DEF Follows, At

\* The hello, and an answer to a snapshot request, add a message without rows.
LEMMA PlainMessageKeeps ==
    ASSUME StreamInv, NEW c \in Clients, SendHello(c) \/ Answer(c)
    PROVE  StreamInv'
<1> USE DEF recorder, server
<1>1. PICK m \in {Message("hello", {}), Message("snapshot", {})} :
            /\ wire' = [wire EXCEPT ![c] = Append(@, m)]
            /\ UNCHANGED <<rows, buffer, capture, gone, tapped, taps, client>>
            /\ \/ handler' = [handler EXCEPT ![c] = "tap"]
               \/ handler' = handler
    BY DEF SendHello, Answer, Send, ToNext, NextStep, At
<1>2. m \in Messages /\ m.rows = {}
    BY DEF Message, Messages
<1>3. /\ Append(wire[c], m) \in Seq(Messages) /\ HellosEmpty(Append(wire[c], m))
      /\ RowsIn(Append(wire[c], m)) = RowsIn(wire[c])
  <2>1. wire[c] \in Seq(Messages) /\ HellosEmpty(wire[c])
      BY WireTyped
  <2>2. HellosEmpty(Append(wire[c], m))
      BY <1>2, <2>1, HellosKept
  <2>3. RowsIn(Append(wire[c], m)) = RowsIn(wire[c]) \cup m.rows
      BY <1>2, <2>1, RowsAppended
  <2> QED
      BY <1>2, <2>1, <2>2, <2>3
<1>4. StreamTypeInv'
    BY <1>1, <1>3 DEF StreamInv, StreamTypeInv
<1>5. wire'[c] = Append(wire[c], m) /\ \A d \in Clients : d # c => wire'[d] = wire[d]
    BY <1>1, WireTyped
<1>6. OnWire(c)' = OnWire(c)
    BY <1>3, <1>5, WireTyped DEF OnWire, RowsIn
<1>7. Follows(c)' => (1..rows \subseteq Covered(c))'
    BY <1>1, <1>6, WireTyped DEF StreamInv, CoverInv, Covered, Follows, At, BeingTold
<1>8. At(c, "backlog")' \/ At(c, "live")' => c \in taps'
    BY <1>1, WireTyped DEF StreamInv, TapInv, At
<1>9. \A d \in Clients : d # c => handler'[d] = handler[d]
    BY <1>1, WireTyped
<1> QED
    BY <1>1, <1>3, <1>4, <1>5, <1>7, <1>8, <1>9, OneConnection

\* The backlog: a row is in it, or is known to be gone.
LEMMA BacklogKeeps ==
    ASSUME StreamInv, NEW c \in Clients, SendBacklog(c)
    PROVE  StreamInv'
<1> USE DEF recorder, server
<1> DEFINE m == Message("trace", Retained)
<1>1. m \in Messages /\ m.rows = Retained /\ m.type # "hello"
    BY DEF Message, Messages, Retained, StreamInv, StreamTypeInv
<1>2. wire[c] \in Seq(Messages) /\ HellosEmpty(wire[c])
    BY WireTyped
<1>3. /\ Append(wire[c], m) \in Seq(Messages) /\ HellosEmpty(Append(wire[c], m))
      /\ RowsIn(Append(wire[c], m)) = RowsIn(wire[c]) \cup Retained
  <2>1. HellosEmpty(Append(wire[c], m))
      BY <1>1, <1>2, HellosKept
  <2>2. RowsIn(Append(wire[c], m)) = RowsIn(wire[c]) \cup m.rows
      BY <1>1, <1>2, RowsAppended
  <2> QED
      BY <1>1, <1>2, <2>1, <2>2
<1>4. /\ handler' = [handler EXCEPT ![c] = "live"]
      /\ gone' = [gone EXCEPT ![c] = (1..rows) \ Retained]
      /\ UNCHANGED <<rows, buffer, capture, taps, tapped, client>>
      /\ c \in taps
    BY DEF SendBacklog, ToNext, NextStep, At, StreamInv, TapInv
<1>5. /\ \/ buffer = <<>> /\ wire' = wire
         \/ wire' = [wire EXCEPT ![c] = Append(@, m)]
    BY DEF SendBacklog, Send
<1>6. StreamTypeInv'
  <2>1. wire' \in [Clients -> Seq(Messages)]
      BY <1>3, <1>5 DEF StreamInv, StreamTypeInv
  <2>2. gone' \in [Clients -> SUBSET Nat]
      BY <1>4 DEF StreamInv, StreamTypeInv
  <2> QED
      BY <1>4, <2>1, <2>2 DEF StreamInv, StreamTypeInv
<1>7. /\ \A d \in Clients : d # c => /\ wire'[d] = wire[d] /\ gone'[d] = gone[d]
                                     /\ handler'[d] = handler[d]
      /\ gone'[c] = (1..rows) \ Retained
      /\ HellosEmpty(wire'[c])
      /\ Retained \subseteq RowsIn(wire'[c])
  <2>1. /\ \A d \in Clients : d # c => gone'[d] = gone[d] /\ handler'[d] = handler[d]
        /\ gone'[c] = (1..rows) \ Retained
      BY <1>4, WireTyped
  <2>2. CASE buffer = <<>> /\ wire' = wire
    <3>1. Retained = {}
        BY <2>2 DEF Retained
    <3> QED
        BY <1>2, <2>1, <2>2, <3>1
  <2>3. CASE wire' = [wire EXCEPT ![c] = Append(@, m)]
    <3>1. wire'[c] = Append(wire[c], m) /\ \A d \in Clients : d # c => wire'[d] = wire[d]
        BY <2>3, WireTyped
    <3> QED
        BY <1>3, <2>1, <3>1
  <2> QED
      BY <1>5, <2>2, <2>3
<1>8. (1..rows \subseteq Covered(c))'
    BY <1>4, <1>7 DEF Covered, OnWire, RowsIn
<1> QED
    BY <1>4, <1>6, <1>7, <1>8, OneConnection

\* A batch goes from the queue of the tap to the wire.
LEMMA ForwardKeeps ==
    ASSUME StreamInv, NEW c \in Clients, ForwardBatch(c)
    PROVE  StreamInv'
<1> USE DEF recorder, server
<1> DEFINE m == Message("trace", tapped[c])
<1>1. m \in Messages /\ m.rows = tapped[c] /\ m.type # "hello"
    BY DEF Message, Messages, StreamInv, StreamTypeInv
<1>2. wire[c] \in Seq(Messages) /\ HellosEmpty(wire[c])
    BY WireTyped
<1>3. /\ Append(wire[c], m) \in Seq(Messages) /\ HellosEmpty(Append(wire[c], m))
      /\ RowsIn(Append(wire[c], m)) = RowsIn(wire[c]) \cup tapped[c]
  <2>1. HellosEmpty(Append(wire[c], m))
      BY <1>1, <1>2, HellosKept
  <2>2. RowsIn(Append(wire[c], m)) = RowsIn(wire[c]) \cup m.rows
      BY <1>1, <1>2, RowsAppended
  <2> QED
      BY <1>1, <1>2, <2>1, <2>2
<1>4. /\ wire' = [wire EXCEPT ![c] = Append(@, m)]
      /\ tapped' = [tapped EXCEPT ![c] = {}]
      /\ UNCHANGED <<rows, buffer, capture, taps, handler, gone, client>>
    BY DEF ForwardBatch, Send
<1>5. StreamTypeInv'
    BY <1>3, <1>4 DEF StreamInv, StreamTypeInv
<1>6. /\ \A d \in Clients : d # c => wire'[d] = wire[d] /\ tapped'[d] = tapped[d]
      /\ wire'[c] = Append(wire[c], m)
    BY <1>4, WireTyped
<1>7. OnWire(c)' = OnWire(c) \cup tapped[c]
    BY <1>3, <1>6, WireTyped DEF OnWire, RowsIn
<1>8. Follows(c)' => (1..rows \subseteq Covered(c))'
    BY <1>4, <1>7, WireTyped DEF StreamInv, CoverInv, Covered, Follows, At, BeingTold
<1>9. At(c, "backlog")' \/ At(c, "live")' => c \in taps'
    BY <1>4 DEF StreamInv, TapInv, At
<1> QED
    BY <1>3, <1>4, <1>5, <1>6, <1>8, <1>9, OneConnection

\* A message that an attached client takes from the wire is kept by it.
LEMMA ClientKeeps ==
    ASSUME StreamInv, NEW c \in Clients,
           ClientHello(c) \/ ClientAttached(c) \/ ClientSnapshot(c) \/ Detach(c)
    PROVE  StreamInv'
<1> USE DEF recorder, server
<1>0. /\ wire[c] \in Seq(Messages) /\ HellosEmpty(wire[c]) /\ OnWire(c) = RowsIn(wire[c])
      /\ client[c] \in ClientRecords
    BY WireTyped
<1>1. CASE Detach(c)
  <2>1. [client[c] EXCEPT !.state = "exited"] \in ClientRecords
      BY <1>0 DEF ClientRecords
  <2>2. /\ client' = [client EXCEPT ![c].state = "exited"]
        /\ UNCHANGED <<rows, buffer, capture, taps, handler, gone, tapped, wire>>
      BY <1>1 DEF Detach
  <2>3. StreamTypeInv'
      BY <2>1, <2>2 DEF StreamInv, StreamTypeInv
  <2>4. client'[c].state = "exited" /\ \A d \in Clients : d # c => client'[d] = client[d]
      BY <1>0, <2>2, WireTyped DEF ClientRecords
  <2> QED
      BY <1>0, <2>2, <2>3, <2>4, OneConnection DEF Follows, StreamInv, TapInv, At
<1>2. CASE ClientHello(c) \/ ClientAttached(c) \/ ClientSnapshot(c)
  <2>1. /\ wire[c] # <<>> /\ wire' = [wire EXCEPT ![c] = Tail(@)]
        /\ UNCHANGED <<rows, buffer, capture, taps, handler, gone, tapped>>
      BY <1>2 DEF ClientHello, ClientAttached, ClientSnapshot, NextMessage
  <2>2. /\ Tail(wire[c]) \in Seq(Messages) /\ Head(wire[c]) \in Messages
        /\ HellosEmpty(Tail(wire[c]))
        /\ Head(wire[c]).type = "hello" => Head(wire[c]).rows = {}
        /\ RowsIn(wire[c]) = RowsIn(Tail(wire[c])) \cup Head(wire[c]).rows
      BY <1>0, <2>1, HellosKept, RowsTaken
  <2>3. PICK r \in ClientRecords :
          /\ client' = [client EXCEPT ![c] = r]
          /\ r.command = client[c].command
          /\ r.command = "attach" /\ r.state # "exited" =>
                client[c].state # "exited" /\ r.seen = client[c].seen \cup Head(wire[c]).rows
    <3>1. CASE ClientHello(c)
      <4> DEFINE r == [client[c] EXCEPT !.state = "reading"]
      <4>1. r \in ClientRecords /\ r.command = client[c].command /\ r.seen = client[c].seen
          BY <1>0 DEF ClientRecords
      <4>2. client' = [client EXCEPT ![c] = r] /\ client[c].state = "hello"
            /\ Head(wire[c]).rows = {}
          BY <3>1, <2>2 DEF ClientHello, Arrived
      <4> QED
          BY <4>1, <4>2
    <3>2. CASE ClientAttached(c)
      <4> DEFINE r == [client[c] EXCEPT !.seen = @ \cup Head(wire[c]).rows]
      <4>1. /\ r \in ClientRecords /\ r.command = client[c].command
            /\ r.seen = client[c].seen \cup Head(wire[c]).rows
          BY <1>0, <2>2 DEF ClientRecords, Messages
      <4>2. client' = [client EXCEPT ![c] = r] /\ client[c].state = "reading"
          BY <3>2 DEF ClientAttached, Arrived
      <4> QED
          BY <4>1, <4>2
    <3>3. CASE ClientSnapshot(c)
      <4> DEFINE p == Head(wire[c]).type = "snapshot"
                 r == [client[c] EXCEPT !.printed = p, !.state = "exited"]
      <4>1. r \in ClientRecords /\ r.command = client[c].command /\ r.state = "exited"
          BY <1>0 DEF ClientRecords
      <4>2. client' = [client EXCEPT ![c] = r]
          BY <3>3 DEF ClientSnapshot, Arrived
      <4> QED
          BY <4>1, <4>2
    <3> QED
        BY <1>2, <3>1, <3>2, <3>3
  <2>4. StreamTypeInv'
      BY <2>1, <2>2, <2>3 DEF StreamInv, StreamTypeInv
  <2>5. /\ \A d \in Clients : d # c => wire'[d] = wire[d] /\ client'[d] = client[d]
        /\ wire'[c] = Tail(wire[c]) /\ client'[c] = r
      BY <2>1, <2>3, WireTyped
  <2>6. OnWire(c)' = RowsIn(Tail(wire[c]))
      BY <2>5 DEF OnWire, RowsIn
  <2>7. Follows(c)' => (1..rows \subseteq Covered(c))'
    <3> SUFFICES ASSUME Follows(c)' PROVE (1..rows \subseteq Covered(c))'
        OBVIOUS
    <3>1. Follows(c) /\ client'[c].seen = client[c].seen \cup Head(wire[c]).rows
        BY <2>1, <2>3, <2>5 DEF Follows, At
    <3>2. 1..rows \subseteq Covered(c)
        BY <3>1 DEF StreamInv, CoverInv
    <3> QED
        BY <1>0, <2>1, <2>2, <2>6, <3>1, <3>2 DEF Covered, BeingTold
  <2>8. At(c, "backlog")' \/ At(c, "live")' => c \in taps'
      BY <2>1 DEF StreamInv, TapInv, At
  <2> QED
      BY <2>1, <2>2, <2>4, <2>5, <2>7, <2>8, OneConnection
<1> QED
    BY <1>1, <1>2

\* However recording, batches, connections and clients interleave, a client that
\* attached late and is still there has every row ever recorded, or it is on its
\* way, unless the buffer had lost it when the backlog was read.
THEOREM StreamCorrect == StreamSpec => []NoSilentGap
<1>1. StreamInv /\ UNCHANGED streamVars => StreamInv'
  <2> USE DEF streamVars, recorder, server
  <2>1. StreamTypeInv /\ UNCHANGED streamVars => StreamTypeInv'
      BY DEF StreamTypeInv
  <2>2. TapInv /\ UNCHANGED streamVars => TapInv'
      BY DEF TapInv, At
  <2>3. CoverInv /\ UNCHANGED streamVars => CoverInv'
      BY DEF CoverInv, Covered, Follows, At, OnWire, BeingTold
  <2> QED
      BY <2>1, <2>2, <2>3 DEF StreamInv
<1>3. StreamInv /\ [StreamNext]_streamVars => StreamInv'
    BY <1>1, CompareKeeps, DrainKeeps, AppendKeeps, NotifyKeeps, ConnectionKeeps,
       PlainMessageKeeps, BacklogKeeps, ForwardKeeps, ClientKeeps DEF StreamNext
<1>4. StreamInv => NoSilentGap
    BY DEF StreamInv, CoverInv, Covered, Follows, NoSilentGap
<1> QED
    BY <1>3, <1>4, StreamStarts, PTL DEF StreamSpec
----------------------------------------------------------------------------
(* Trace capture. *)

TraceRows == [level : Nat, cid : Nat, t : Nat, dur : Nat, up : Nat]

CaptureTypeInv ==
    /\ tracing \in BOOLEAN /\ clock \in Nat /\ nextCid \in Nat
    /\ stack \in [Dispatchers -> Seq(TraceRows)]
    /\ captured \in Seq(TraceRows)

B == Begins(captured)
E == Ends(captured)

\* The begin rows of the spans that threads have open.
OpenRows == {stack[x[1]][x[2]] : x \in OpenSpans}

\* Each open span has its begin row, a thread's spans began one in the other, and
\* only one thread has spans of a dispatch.
StackInv ==
    \A t, u \in Dispatchers : \A i \in DOMAIN stack[t], j \in DOMAIN stack[u] :
        /\ stack[t][i] \in B
        /\ t = u /\ i < j => stack[t][i].t < stack[u][j].t
        /\ stack[t][i].t = stack[u][j].t => t = u
        /\ stack[t][i].cid # 0 /\ stack[t][i].cid = stack[u][j].cid => t = u

\* A row was taken before now, with a cid that was handed out; a begin row is
\* known by its time.  A span that was begun is open or has its end row, not both,
\* and an end row has its begin row.
RowInv ==
    /\ \A r \in B \cup E : r.t <= clock /\ r.cid <= nextCid
    /\ \A r \in B : r.t > 0
    /\ \A r, p \in B : r.t = p.t => r = p
    /\ \A e \in E : \E b \in B : b.t = StartOf(e) /\ b.cid = e.cid /\ b.up = e.up
    /\ \A e \in E, o \in OpenRows : StartOf(e) # o.t
    /\ \A b \in B : b \in OpenRows \/ \E e \in E : StartOf(e) = b.t /\ e.cid = b.cid

\* A span begun while another one of its dispatch is open, or was by what became
\* known later, was called from that one or from one inside it; and it was begun
\* while the one it was called from ran.
NestInv ==
    /\ \A b \in B, o \in OpenRows : b.cid # 0 /\ o.cid = b.cid /\ o.t < b.t => o.t <= b.up
    /\ \A b \in B, e \in E :
         b.cid # 0 /\ e.cid = b.cid /\ StartOf(e) < b.t /\ b.t < e.t => StartOf(e) <= b.up
    /\ \A b \in B : b.up # 0 =>
         /\ \E p \in B : p.cid = b.cid /\ p.t = b.up /\ p.t < b.t
         /\ \A e \in E : e.cid = b.cid /\ StartOf(e) = b.up => b.t < e.t

\* Of each (lane, name, cat, cid), as many begins lack an end as spans are open.
CountInv ==
    /\ IsFiniteSet(B) /\ IsFiniteSet(E) /\ IsFiniteSet(OpenSpans) /\ IsFiniteSet(OpenRows)
    /\ IsFiniteSet(Unpaired(captured)) /\ IsFiniteSet(Drawn(captured))
    /\ \A k : Excess(captured, k) = Cardinality(SameKey(OpenRows, k))
    /\ Cardinality(Unpaired(captured)) = Cardinality(OpenSpans)
    /\ Cardinality(Drawn(captured)) = Cardinality(B) - Cardinality(OpenSpans)

CaptureInv == CaptureTypeInv /\ StackInv /\ RowInv /\ NestInv /\ CountInv

\* The rows of a recording are typed, begin or end.
LEMMA RowsTyped ==
    ASSUME CaptureTypeInv
    PROVE  /\ B \subseteq TraceRows /\ E \subseteq TraceRows
           /\ \A r \in E : StartOf(r) \in Int /\ StartOf(r) < r.t /\ r.dur \in Nat /\ r.dur > 0
           /\ \A r \in B : r.dur = 0
           /\ \A r \in B \cup E : r.t \in Nat /\ r.cid \in Nat /\ r.up \in Nat
<1>1. Rows(captured) \subseteq TraceRows
    BY DEF CaptureTypeInv, Rows
<1>2. /\ B \subseteq TraceRows /\ E \subseteq TraceRows
      /\ \A r \in E : r.dur > 0
      /\ \A r \in B : r.dur = 0
    BY <1>1 DEF B, E, Begins, Ends
<1>3. \A r \in TraceRows : r.t \in Nat /\ r.dur \in Nat /\ r.cid \in Nat /\ r.up \in Nat
    BY DEF TraceRows
<1> QED
    BY <1>2, <1>3 DEF StartOf

\* One more row is one more begin or one more end.
LEMMA RowAdded ==
    ASSUME CaptureTypeInv, NEW row \in TraceRows, captured' = Append(captured, row)
    PROVE  /\ B' = IF row.dur = 0 THEN B \cup {row} ELSE B
           /\ E' = IF row.dur = 0 THEN E ELSE E \cup {row}
           /\ captured' \in Seq(TraceRows)
<1>1. /\ DOMAIN captured' = DOMAIN captured \cup {Len(captured) + 1}
      /\ \A i \in DOMAIN captured : captured'[i] = captured[i]
      /\ captured'[Len(captured) + 1] = row
      /\ captured' \in Seq(TraceRows)
    BY DEF CaptureTypeInv
<1>2. Rows(captured') = Rows(captured) \cup {row}
    BY <1>1 DEF Rows
<1>3. row.dur \in Nat
    BY DEF TraceRows
<1> QED
    BY <1>1, <1>2, <1>3 DEF B, E, Begins, Ends

\* Spans are those of the stacks st, by thread and depth, with the rows found there.
Indexed(st, spans, entries) ==
    /\ \A t \in Dispatchers : \A i : <<t, i>> \in spans <=> i \in DOMAIN st[t]
    /\ \A x \in spans : \E t \in Dispatchers : \E i \in DOMAIN st[t] : x = <<t, i>>
    /\ \A o : o \in entries <=> \E t \in Dispatchers : \E i \in DOMAIN st[t] : o = st[t][i]

LEMMA SpansIndexed ==
    ASSUME NEW st, NEW spans, NEW entries,
           spans = UNION {{t} \X DOMAIN st[t] : t \in Dispatchers},
           entries = {st[x[1]][x[2]] : x \in spans}
    PROVE  Indexed(st, spans, entries)
<1>1. /\ \A t \in Dispatchers : \A i : <<t, i>> \in spans <=> i \in DOMAIN st[t]
      /\ \A x \in spans : \E t \in Dispatchers : \E i \in DOMAIN st[t] : x = <<t, i>>
    OBVIOUS
<1>2. ASSUME NEW o \in entries PROVE \E t \in Dispatchers : \E i \in DOMAIN st[t] : o = st[t][i]
  <2>1. PICK x \in spans : o = st[x[1]][x[2]]
      BY <1>2
  <2>2. PICK t \in Dispatchers : \E i \in DOMAIN st[t] : x = <<t, i>>
      BY <1>1
  <2> QED
      BY <2>1, <2>2
<1>3. ASSUME NEW t \in Dispatchers, NEW i \in DOMAIN st[t] PROVE st[t][i] \in entries
  <2>1. <<t, i>> \in spans
      BY <1>1
  <2>2. st[t][i] = st[<<t, i>>[1]][<<t, i>>[2]]
      OBVIOUS
  <2> QED
      BY <2>1, <2>2
<1> QED
    BY <1>1, <1>2, <1>3 DEF Indexed

\* The spans that are open before and after a step.
LEMMA OpenSpansAre ==
    Indexed(stack, OpenSpans, OpenRows) /\ Indexed(stack', OpenSpans', OpenRows')
BY SpansIndexed DEF OpenSpans, OpenRows

\* A thread begins a span within those it has open.
LEMMA SpanPushed ==
    ASSUME CaptureTypeInv, NEW t \in Dispatchers, NEW row \in TraceRows,
           stack' = [stack EXCEPT ![t] = Append(@, row)]
    PROVE  /\ stack' \in [Dispatchers -> Seq(TraceRows)]
           /\ \A u \in Dispatchers : u # t => stack'[u] = stack[u]
           /\ DOMAIN stack'[t] = DOMAIN stack[t] \cup {Len(stack[t]) + 1}
           /\ \A i \in DOMAIN stack[t] : i \in Nat /\ i < Len(stack[t]) + 1 /\ stack'[t][i] = stack[t][i]
           /\ stack'[t][Len(stack[t]) + 1] = row
           /\ OpenRows' = OpenRows \cup {row}
           /\ OpenSpans' = OpenSpans \cup {<<t, Len(stack[t]) + 1>>}
           /\ <<t, Len(stack[t]) + 1>> \notin OpenSpans
<1> DEFINE n == Len(stack[t]) + 1
<1>0. Indexed(stack, OpenSpans, OpenRows) /\ Indexed(stack', OpenSpans', OpenRows')
    BY OpenSpansAre
<1>1. /\ stack[t] \in Seq(TraceRows) /\ DOMAIN stack = Dispatchers
      /\ stack'[t] = Append(stack[t], row)
      /\ \A u \in Dispatchers : u # t => stack'[u] = stack[u]
    BY DEF CaptureTypeInv
<1>2. /\ DOMAIN stack'[t] = DOMAIN stack[t] \cup {n}
      /\ \A i \in DOMAIN stack[t] : i \in Nat /\ i < n /\ stack'[t][i] = stack[t][i]
      /\ stack'[t][n] = row /\ n \in Nat
      /\ stack'[t] \in Seq(TraceRows)
    BY <1>1
<1>3. stack' \in [Dispatchers -> Seq(TraceRows)]
    BY <1>1, <1>2 DEF CaptureTypeInv
<1> HIDE DEF n
<1>4. OpenSpans' = OpenSpans \cup {<<t, n>>}
  <2>1. ASSUME NEW x \in OpenSpans' PROVE x \in OpenSpans \cup {<<t, n>>}
    <3>1. PICK u \in Dispatchers : \E i \in DOMAIN stack'[u] : x = <<u, i>>
        BY <1>0, <2>1 DEF Indexed
    <3> QED
        BY <1>0, <1>1, <1>2, <3>1 DEF Indexed
  <2>2. ASSUME NEW x \in OpenSpans \cup {<<t, n>>} PROVE x \in OpenSpans'
    <3>1. \E u \in Dispatchers : \E i \in DOMAIN stack'[u] : x = <<u, i>>
        BY <1>0, <1>1, <1>2, <2>2 DEF Indexed
    <3> QED
        BY <1>0, <3>1 DEF Indexed
  <2> QED
      BY <2>1, <2>2
<1>5. OpenRows' = OpenRows \cup {row}
  <2>1. ASSUME NEW o \in OpenRows' PROVE o \in OpenRows \cup {row}
    <3>1. PICK u \in Dispatchers : \E i \in DOMAIN stack'[u] : o = stack'[u][i]
        BY <1>0, <2>1 DEF Indexed
    <3> QED
        BY <1>0, <1>1, <1>2, <3>1 DEF Indexed
  <2>2. ASSUME NEW o \in OpenRows \cup {row} PROVE o \in OpenRows'
    <3>1. \E u \in Dispatchers : \E i \in DOMAIN stack'[u] : o = stack'[u][i]
        BY <1>0, <1>1, <1>2, <2>2 DEF Indexed
    <3> QED
        BY <1>0, <3>1 DEF Indexed
  <2> QED
      BY <2>1, <2>2
<1>6. <<t, n>> \notin OpenSpans
    BY <1>0, <1>2 DEF Indexed
<1> QED
    BY <1>1, <1>2, <1>3, <1>4, <1>5, <1>6 DEF n

\* A thread leaves the innermost of its open spans.
LEMMA SpanPopped ==
    ASSUME CaptureTypeInv, StackInv, NEW t \in Dispatchers, stack[t] # <<>>,
           stack' = [stack EXCEPT ![t] = SubSeq(@, 1, Len(@) - 1)]
    PROVE  /\ stack' \in [Dispatchers -> Seq(TraceRows)]
           /\ Innermost(t) \in TraceRows /\ Innermost(t) \in OpenRows
           /\ \A u \in Dispatchers : \A i \in DOMAIN stack'[u] :
                i \in DOMAIN stack[u] /\ stack'[u][i] = stack[u][i]
           /\ OpenRows' = OpenRows \ {Innermost(t)}
           /\ OpenSpans' = OpenSpans \ {<<t, Len(stack[t])>>}
           /\ <<t, Len(stack[t])>> \in OpenSpans
<1> DEFINE n == Len(stack[t])
<1>0. Indexed(stack, OpenSpans, OpenRows) /\ Indexed(stack', OpenSpans', OpenRows')
    BY OpenSpansAre
<1>1. /\ stack[t] \in Seq(TraceRows) /\ DOMAIN stack = Dispatchers
      /\ stack'[t] = SubSeq(stack[t], 1, n - 1)
      /\ \A u \in Dispatchers : u # t => stack'[u] = stack[u]
    BY DEF CaptureTypeInv
<1>2. /\ DOMAIN stack[t] = 1..n /\ n \in Nat /\ n > 0 /\ DOMAIN stack'[t] = 1..(n - 1)
      /\ \A i \in 1..(n - 1) : stack'[t][i] = stack[t][i]
      /\ stack'[t] \in Seq(TraceRows)
    BY <1>1
<1>3. /\ DOMAIN stack[t] = DOMAIN stack'[t] \cup {n} /\ n \notin DOMAIN stack'[t]
      /\ n \in DOMAIN stack[t]
      /\ \A i \in DOMAIN stack'[t] : stack'[t][i] = stack[t][i] /\ i \in Nat /\ i < n
    BY <1>2
<1>4. stack' \in [Dispatchers -> Seq(TraceRows)]
    BY <1>1, <1>2 DEF CaptureTypeInv
<1>5. /\ Innermost(t) = stack[t][n] /\ Innermost(t) \in TraceRows
      /\ Innermost(t) \in OpenRows /\ Innermost(t).t \in Nat
  <2>1. Innermost(t) = stack[t][n]
      BY DEF Innermost
  <2>2. stack[t][n] \in TraceRows
      BY <1>1, <1>2
  <2>3. stack[t][n] \in OpenRows
      BY <1>0, <1>3 DEF Indexed
  <2> QED
      BY <2>1, <2>2, <2>3 DEF TraceRows
<1> HIDE DEF n
<1>6. \A u \in Dispatchers : \A i \in DOMAIN stack'[u] :
          i \in DOMAIN stack[u] /\ stack'[u][i] = stack[u][i]
    BY <1>1, <1>3
<1>7. OpenSpans' = OpenSpans \ {<<t, n>>}
  <2>1. ASSUME NEW x \in OpenSpans' PROVE x \in OpenSpans /\ x # <<t, n>>
    <3>1. PICK u \in Dispatchers : \E i \in DOMAIN stack'[u] : x = <<u, i>>
        BY <1>0, <2>1 DEF Indexed
    <3> QED
        BY <1>0, <1>3, <1>6, <3>1 DEF Indexed
  <2>2. ASSUME NEW x \in OpenSpans, x # <<t, n>> PROVE x \in OpenSpans'
    <3>1. PICK u \in Dispatchers : \E i \in DOMAIN stack[u] : x = <<u, i>>
        BY <1>0, <2>2 DEF Indexed
    <3>2. \E i \in DOMAIN stack'[u] : x = <<u, i>>
        BY <1>1, <1>3, <2>2, <3>1
    <3> QED
        BY <1>0, <3>2 DEF Indexed
  <2> QED
      BY <2>1, <2>2
<1>8. \A u \in Dispatchers : \A i \in DOMAIN stack[u] :
          stack[u][i] = stack[t][n] => u = t /\ i = n
  <2> SUFFICES ASSUME NEW u \in Dispatchers, NEW i \in DOMAIN stack[u], stack[u][i] = stack[t][n]
               PROVE  u = t /\ i = n
      OBVIOUS
  <2>1. u = t
      BY <1>3 DEF StackInv
  <2>2. i = n \/ (i \in Nat /\ i < n)
      BY <1>3, <2>1
  <2>3. i < n => stack[t][i].t < stack[t][n].t
      BY <1>3, <2>1 DEF StackInv
  <2> QED
      BY <1>5, <2>1, <2>2, <2>3
<1>9. OpenRows' = OpenRows \ {stack[t][n]}
  <2>1. ASSUME NEW o \in OpenRows' PROVE o \in OpenRows /\ o # stack[t][n]
    <3>1. PICK u \in Dispatchers : \E i \in DOMAIN stack'[u] : o = stack'[u][i]
        BY <1>0, <2>1 DEF Indexed
    <3>2. PICK i \in DOMAIN stack'[u] : o = stack'[u][i]
        BY <3>1
    <3>3. i \in DOMAIN stack[u] /\ o = stack[u][i]
        BY <1>6, <3>2
    <3> QED
        BY <1>0, <1>3, <1>8, <3>2, <3>3 DEF Indexed
  <2>2. ASSUME NEW o \in OpenRows, o # stack[t][n] PROVE o \in OpenRows'
    <3>1. PICK u \in Dispatchers : \E i \in DOMAIN stack[u] : o = stack[u][i]
        BY <1>0, <2>2 DEF Indexed
    <3>2. \E i \in DOMAIN stack'[u] : o = stack'[u][i]
        BY <1>1, <1>3, <2>2, <3>1
    <3> QED
        BY <1>0, <3>2 DEF Indexed
  <2> QED
      BY <2>1, <2>2
<1>10. <<t, n>> \in OpenSpans
    BY <1>0, <1>3 DEF Indexed
<1> QED
    BY <1>4, <1>5, <1>6, <1>7, <1>9, <1>10 DEF n

\* What one more or one less in a set of rows does to the rows of each key.
LEMMA OneMore ==
    ASSUME NEW S, NEW r, IsFiniteSet(S), r \notin S
    PROVE  \A k : Cardinality(SameKey(S \cup {r}, k)) =
                     Cardinality(SameKey(S, k)) + (IF SpanKey(r) = k THEN 1 ELSE 0)
<1> SUFFICES ASSUME NEW k
             PROVE  Cardinality(SameKey(S \cup {r}, k)) =
                       Cardinality(SameKey(S, k)) + (IF SpanKey(r) = k THEN 1 ELSE 0)
    OBVIOUS
<1>1. IsFiniteSet(SameKey(S, k))
    BY FS_Subset DEF SameKey
<1>2. Cardinality(SameKey(S, k)) \in Nat
    BY <1>1, FS_CardinalityType
<1>3. CASE SpanKey(r) = k
  <2>1. SameKey(S \cup {r}, k) = SameKey(S, k) \cup {r} /\ r \notin SameKey(S, k)
      BY <1>3 DEF SameKey
  <2> QED
      BY <1>1, <1>3, <2>1, FS_AddElement
<1>4. CASE SpanKey(r) # k
  <2>1. SameKey(S \cup {r}, k) = SameKey(S, k)
      BY <1>4 DEF SameKey
  <2> QED
      BY <1>2, <1>4, <2>1
<1> QED
    BY <1>3, <1>4

LEMMA KeysCounted ==
    ASSUME NEW S, IsFiniteSet(S)
    PROVE  \A k : IsFiniteSet(SameKey(S, k)) /\ Cardinality(SameKey(S, k)) \in Nat
<1>1. \A k : IsFiniteSet(SameKey(S, k))
    BY FS_Subset DEF SameKey
<1> QED
    BY <1>1, FS_CardinalityType

\* The rows O are those whose begins lack an end in the recording s.
OpenIn(s, O) ==
    IsFiniteSet(O) /\ O \subseteq Begins(s) /\ \A k : Excess(s, k) = Cardinality(SameKey(O, k))

\* What _count_unclosed() counts of such a recording.
LEMMA UnpairedAre ==
    ASSUME NEW s, NEW O, OpenIn(s, O)
    PROVE  /\ \A k : Excess(s, k) \in Nat
           /\ \A x : x \in Unpaired(s) <=> \E k : \E m \in 1..Excess(s, k) : x = <<k, m>>
<1>1. \A k : Excess(s, k) \in Nat
    BY KeysCounted DEF OpenIn
<1>2. ASSUME NEW k, Excess(s, k) > 0 PROVE k \in {SpanKey(r) : r \in Begins(s)}
  <2>1. SameKey(O, k) # {}
      BY <1>2, FS_EmptySet DEF OpenIn
  <2> QED
      BY <2>1 DEF OpenIn, SameKey
<1>3. \A k : \A m \in 1..Excess(s, k) : Excess(s, k) > 0
    BY <1>1
<1>4. ASSUME NEW k, NEW m \in 1..Excess(s, k) PROVE <<k, m>> \in Unpaired(s)
  <2>1. k \in {x \in {SpanKey(r) : r \in Begins(s)} : Excess(s, x) > 0}
      BY <1>2, <1>3, <1>4
  <2> QED
      BY <2>1 DEF Unpaired
<1>5. \A x \in Unpaired(s) : \E k : \E m \in 1..Excess(s, k) : x = <<k, m>>
    BY DEF Unpaired
<1> QED
    BY <1>1, <1>4, <1>5

\* One more begin of some key that lacks its end is one more counted.
LEMMA OneUnpairedMore ==
    ASSUME NEW s, NEW O, OpenIn(s, O), NEW s2, NEW O2, OpenIn(s2, O2), NEW key,
           \A k : Excess(s2, k) = Excess(s, k) + (IF key = k THEN 1 ELSE 0)
    PROVE  /\ Unpaired(s2) = Unpaired(s) \cup {<<key, Excess(s, key) + 1>>}
           /\ <<key, Excess(s, key) + 1>> \notin Unpaired(s)
<1>1. /\ \A k : Excess(s, k) \in Nat
      /\ \A x : x \in Unpaired(s) <=> \E k : \E m \in 1..Excess(s, k) : x = <<k, m>>
      /\ \A x : x \in Unpaired(s2) <=> \E k : \E m \in 1..Excess(s2, k) : x = <<k, m>>
    BY UnpairedAre
<1>2. /\ \A k : key # k => 1..Excess(s2, k) = 1..Excess(s, k)
      /\ 1..Excess(s2, key) = (1..Excess(s, key)) \cup {Excess(s, key) + 1}
      /\ Excess(s, key) + 1 \notin 1..Excess(s, key)
    BY <1>1
<1>3. ASSUME NEW x \in Unpaired(s2) PROVE x \in Unpaired(s) \cup {<<key, Excess(s, key) + 1>>}
    BY <1>1, <1>2, <1>3
<1>4. \A k : \A m \in 1..Excess(s, k) : m \in 1..Excess(s2, k)
    BY <1>2
<1>5. ASSUME NEW x \in Unpaired(s) PROVE x \in Unpaired(s2)
    BY <1>1, <1>4, <1>5
<1>6. <<key, Excess(s, key) + 1>> \in Unpaired(s2)
    BY <1>1, <1>2
<1>7. <<key, Excess(s, key) + 1>> \notin Unpaired(s)
    BY <1>1, <1>2
<1> QED
    BY <1>3, <1>5, <1>6, <1>7

\* A recorder that has just been made: no span is open, and there are no rows.
LEMMA CaptureStarts == CaptureInit => CaptureInv
<1> SUFFICES ASSUME CaptureInit PROVE CaptureInv
    OBVIOUS
<1>1. B = {} /\ E = {} /\ Drawn(captured) = {} /\ Unpaired(captured) = {}
    BY DEF CaptureInit, B, E, Begins, Ends, Rows, Drawn, Unpaired
<1>2. \A t \in Dispatchers : stack[t] = <<>> /\ DOMAIN stack[t] = {}
    BY DEF CaptureInit
<1>3. OpenSpans = {} /\ OpenRows = {}
    BY <1>2 DEF OpenSpans, OpenRows
<1>4. CaptureTypeInv
    BY DEF CaptureInit, CaptureTypeInv
<1>5. StackInv /\ RowInv /\ NestInv
    BY <1>1, <1>2, <1>3 DEF StackInv, RowInv, NestInv
<1>6. CountInv
  <2>1. \A k : SameKey({}, k) = {}
      BY DEF SameKey
  <2>2. \A k : Excess(captured, k) = 0
      BY <1>1, <2>1, FS_EmptySet DEF Excess, B, E
  <2> QED
      BY <1>1, <1>3, <2>1, <2>2, FS_EmptySet DEF CountInv
<1> QED
    BY <1>4, <1>5, <1>6 DEF CaptureInv

\* A span begins: with a cid that no open span has, or called from the last
\* one open of those that have it.
LEMMA BeginKeeps ==
    ASSUME CaptureInv, NEW t \in Dispatchers, NEW level \in Nat, NEW cid \in Nat, NEW up \in Nat,
           Begin(t, level, cid, up),
           tracing' \in BOOLEAN, nextCid' \in Nat, nextCid <= nextCid', cid <= nextCid',
           \A u \in Dispatchers : \A i \in DOMAIN stack[u] :
               cid # 0 /\ stack[u][i].cid = cid => u = t /\ stack[u][i].t <= up,
           up # 0 => \E p \in OpenRows : p.cid = cid /\ p.t = up
    PROVE  CaptureInv'
<1> DEFINE row == [level |-> level, cid |-> cid, t |-> clock + 1, dur |-> 0, up |-> up]
           n == Len(stack[t]) + 1
<1>1. /\ captured' = Append(captured, row) /\ clock' = clock + 1
      /\ stack' = [stack EXCEPT ![t] = Append(@, row)]
    BY DEF Begin, Capture
<1>2. clock \in Nat /\ nextCid \in Nat
    BY DEF CaptureInv, CaptureTypeInv
<1>3. /\ row \in TraceRows /\ row.dur = 0 /\ row.cid = cid /\ row.t = clock + 1 /\ row.up = up
    BY <1>2 DEF TraceRows
<1> HIDE DEF row
<1>4. B' = B \cup {row} /\ E' = E /\ captured' \in Seq(TraceRows)
    BY <1>1, <1>3, RowAdded DEF CaptureInv
<1>5. /\ stack' \in [Dispatchers -> Seq(TraceRows)]
      /\ \A u \in Dispatchers : u # t => stack'[u] = stack[u]
      /\ DOMAIN stack'[t] = DOMAIN stack[t] \cup {n}
      /\ \A i \in DOMAIN stack[t] : i \in Nat /\ i < n /\ stack'[t][i] = stack[t][i]
      /\ stack'[t][n] = row
      /\ OpenRows' = OpenRows \cup {row}
      /\ OpenSpans' = OpenSpans \cup {<<t, n>>}
      /\ <<t, n>> \notin OpenSpans
    BY <1>1, <1>3, SpanPushed DEF CaptureInv
<1> HIDE DEF n
<1>6. /\ \A r \in B \cup E : r.t \in Nat /\ r.t <= clock /\ r.cid \in Nat /\ r.cid <= nextCid /\ r.up \in Nat
      /\ \A r \in E : StartOf(r) \in Int /\ StartOf(r) < r.t
      /\ OpenRows \subseteq B
      /\ \A o \in OpenRows : cid # 0 /\ o.cid = cid => o.t <= up
      /\ Indexed(stack, OpenSpans, OpenRows)
    BY RowsTyped, OpenSpansAre DEF CaptureInv, RowInv, StackInv, Indexed
<1>7. row \notin B /\ \A r \in B : r.t < row.t
    BY <1>2, <1>3, <1>6
<1>8. CaptureTypeInv'
    BY <1>1, <1>2, <1>4, <1>5 DEF CaptureTypeInv
<1>9. StackInv'
  <2> SUFFICES ASSUME NEW u \in Dispatchers, NEW v \in Dispatchers,
                      NEW i \in DOMAIN stack'[u], NEW j \in DOMAIN stack'[v]
               PROVE  /\ stack'[u][i] \in B'
                      /\ u = v /\ i < j => stack'[u][i].t < stack'[v][j].t
                      /\ stack'[u][i].t = stack'[v][j].t => u = v
                      /\ stack'[u][i].cid # 0 /\ stack'[u][i].cid = stack'[v][j].cid => u = v
      BY DEF StackInv
  <2> DEFINE new(w, k) == w = t /\ k = n
  <2>1. ASSUME NEW w \in Dispatchers, NEW k \in DOMAIN stack'[w], ~ new(w, k)
        PROVE  k \in DOMAIN stack[w] /\ stack'[w][k] = stack[w][k] /\ stack[w][k] \in B
    <3>1. k \in DOMAIN stack[w] /\ stack'[w][k] = stack[w][k]
        BY <1>5, <2>1
    <3> QED
        BY <3>1 DEF CaptureInv, StackInv
  <2>2. CASE ~ new(u, i) /\ ~ new(v, j)
      BY <1>4, <2>1, <2>2 DEF CaptureInv, StackInv
  <2>3. CASE new(u, i) /\ new(v, j)
    <3>1. n \notin DOMAIN stack[t] /\ (i < j => FALSE)
        BY <1>2, <1>5, <2>3, SpanPushed DEF CaptureInv, CaptureTypeInv, n
    <3> QED
        BY <1>4, <1>5, <2>3, <3>1
  <2>4. CASE new(u, i) /\ ~ new(v, j)
    <3>1. u = v => j < n /\ j \in Nat
        BY <1>5, <2>1, <2>4
    <3>2. n \in Nat
        BY DEF n, CaptureInv, CaptureTypeInv
    <3>3. stack'[v][j].t < row.t /\ stack'[v][j].t \in Nat /\ row.t \in Nat
        BY <1>2, <1>3, <1>6, <1>7, <2>1, <2>4
    <3>4. cid # 0 /\ stack'[v][j].cid = cid => v = t
        BY <2>1, <2>4
    <3> QED
        BY <1>3, <1>4, <1>5, <2>4, <3>1, <3>2, <3>3, <3>4
  <2>5. CASE ~ new(u, i) /\ new(v, j)
    <3>1. stack'[u][i].t < row.t /\ stack'[u][i].t \in Nat /\ row.t \in Nat /\ stack'[u][i] \in B
        BY <1>2, <1>3, <1>6, <1>7, <2>1, <2>5
    <3>2. cid # 0 /\ stack'[u][i].cid = cid => u = t
        BY <2>1, <2>5
    <3> QED
        BY <1>3, <1>4, <1>5, <2>5, <3>1, <3>2
  <2> QED
      BY <2>2, <2>3, <2>4, <2>5
<1>10. RowInv'
  <2>1. (\A r \in B \cup E : r.t <= clock /\ r.cid <= nextCid)'
      BY <1>1, <1>2, <1>3, <1>4, <1>6
  <2>2. (\A r \in B : r.t > 0)'
      BY <1>2, <1>3, <1>4 DEF CaptureInv, RowInv
  <2>3. (\A r, p \in B : r.t = p.t => r = p)'
      BY <1>2, <1>3, <1>4, <1>6 DEF CaptureInv, RowInv
  <2>4. (\A e \in E : \E b \in B : b.t = StartOf(e) /\ b.cid = e.cid /\ b.up = e.up)'
      BY <1>4 DEF CaptureInv, RowInv
  <2>5. (\A e \in E, o \in OpenRows : StartOf(e) # o.t)'
    <3>1. \A e \in E : StartOf(e) # row.t
        BY <1>2, <1>3, <1>6
    <3> QED
        BY <1>4, <1>5, <3>1 DEF CaptureInv, RowInv
  <2>6. (\A b \in B : b \in OpenRows \/ \E e \in E : StartOf(e) = b.t /\ e.cid = b.cid)'
      BY <1>4, <1>5 DEF CaptureInv, RowInv
  <2> QED
      BY <2>1, <2>2, <2>3, <2>4, <2>5, <2>6 DEF RowInv
<1>11. NestInv'
  <2>1. (\A b \in B, o \in OpenRows : b.cid # 0 /\ o.cid = b.cid /\ o.t < b.t => o.t <= b.up)'
    <3>1. ASSUME NEW b \in B', NEW o \in OpenRows', b.cid # 0, o.cid = b.cid, o.t < b.t
          PROVE  o.t <= b.up
      <4>1. CASE o = row
          BY <1>2, <1>3, <1>4, <1>6, <3>1, <4>1
      <4>2. CASE o \in OpenRows /\ b = row
          BY <1>3, <1>6, <3>1, <4>2
      <4>3. CASE o \in OpenRows /\ b \in B
          BY <3>1, <4>3 DEF CaptureInv, NestInv
      <4> QED
          BY <1>4, <1>5, <4>1, <4>2, <4>3
    <3> QED
        BY <3>1
  <2>2. (\A b \in B, e \in E :
          b.cid # 0 /\ e.cid = b.cid /\ StartOf(e) < b.t /\ b.t < e.t => StartOf(e) <= b.up)'
    <3>1. \A e \in E : ~ (row.t < e.t)
        BY <1>2, <1>3, <1>6
    <3> QED
        BY <1>4, <3>1 DEF CaptureInv, NestInv
  <2>3. (\A b \in B : b.up # 0 =>
          /\ \E p \in B : p.cid = b.cid /\ p.t = b.up /\ p.t < b.t
          /\ \A e \in E : e.cid = b.cid /\ StartOf(e) = b.up => b.t < e.t)'
    <3>1. ASSUME up # 0
          PROVE  /\ \E p \in B : p.cid = row.cid /\ p.t = row.up /\ p.t < row.t
                 /\ \A e \in E : StartOf(e) # row.up
      <4>1. PICK p \in OpenRows : p.cid = cid /\ p.t = up
          BY <3>1
      <4>2. \A e \in E : StartOf(e) # p.t
          BY DEF CaptureInv, RowInv
      <4> QED
          BY <1>3, <1>6, <1>7, <4>1, <4>2
    <3> QED
        BY <1>3, <1>4, <3>1 DEF CaptureInv, NestInv
  <2> QED
      BY <2>1, <2>2, <2>3 DEF NestInv
<1>12. CountInv'
  <2>1. /\ IsFiniteSet(B) /\ IsFiniteSet(E) /\ IsFiniteSet(OpenSpans) /\ IsFiniteSet(OpenRows)
        /\ IsFiniteSet(Unpaired(captured)) /\ IsFiniteSet(Drawn(captured))
        /\ \A k : Excess(captured, k) = Cardinality(SameKey(OpenRows, k))
        /\ Cardinality(Unpaired(captured)) = Cardinality(OpenSpans)
        /\ Cardinality(Drawn(captured)) = Cardinality(B) - Cardinality(OpenSpans)
      BY DEF CaptureInv, CountInv
  <2>2. row \notin OpenRows
      BY <1>6, <1>7
  <2>3. /\ IsFiniteSet(B') /\ Cardinality(B') = Cardinality(B) + 1
        /\ IsFiniteSet(OpenRows')
        /\ IsFiniteSet(OpenSpans') /\ Cardinality(OpenSpans') = Cardinality(OpenSpans) + 1
      BY <1>4, <1>5, <1>7, <2>1, <2>2, FS_AddElement
  <2>4. /\ \A k : Excess(captured', k) = Excess(captured, k) + (IF SpanKey(row) = k THEN 1 ELSE 0)
        /\ \A k : Excess(captured', k) = Cardinality(SameKey(OpenRows', k))
    <3>1. \A k : /\ Cardinality(SameKey(B, k)) \in Nat /\ Cardinality(SameKey(E, k)) \in Nat
                 /\ Cardinality(SameKey(OpenRows, k)) \in Nat
        BY <2>1, KeysCounted
    <3>2. /\ \A k : Cardinality(SameKey(B', k)) = Cardinality(SameKey(B, k)) + (IF SpanKey(row) = k THEN 1 ELSE 0)
          /\ \A k : Cardinality(SameKey(OpenRows', k)) = Cardinality(SameKey(OpenRows, k)) + (IF SpanKey(row) = k THEN 1 ELSE 0)
        BY <1>4, <1>5, <1>7, <2>1, <2>2, OneMore
    <3>3. /\ \A k : Excess(captured, k) = Cardinality(SameKey(B, k)) - Cardinality(SameKey(E, k))
          /\ \A k : Excess(captured', k) = Cardinality(SameKey(B', k)) - Cardinality(SameKey(E', k))
        BY DEF Excess, B, E
    <3>4. \A k : Cardinality(SameKey(E', k)) = Cardinality(SameKey(E, k))
        BY <1>4
    <3> QED
        BY <2>1, <3>1, <3>2, <3>3, <3>4
  <2>5. OpenIn(captured, OpenRows) /\ OpenIn(captured', OpenRows')
      BY <1>4, <1>5, <1>6, <2>1, <2>3, <2>4 DEF OpenIn, B
  <2> DEFINE x == <<SpanKey(row), Excess(captured, SpanKey(row)) + 1>>
  <2>6. Unpaired(captured') = Unpaired(captured) \cup {x} /\ x \notin Unpaired(captured)
      BY <2>4, <2>5, OneUnpairedMore
  <2> HIDE DEF x
  <2>7. /\ IsFiniteSet(Unpaired(captured'))
        /\ Cardinality(Unpaired(captured')) = Cardinality(Unpaired(captured)) + 1
      BY <2>1, <2>6, FS_AddElement
  <2>8. Drawn(captured') = Drawn(captured)
      BY <1>4 DEF Drawn, E
  <2>9. Cardinality(B) \in Nat /\ Cardinality(OpenSpans) \in Nat
      BY <2>1, FS_CardinalityType
  <2> QED
      BY <1>4, <2>1, <2>3, <2>4, <2>7, <2>8, <2>9 DEF CountInv
<1> QED
    BY <1>8, <1>9, <1>10, <1>11, <1>12 DEF CaptureInv

\* A span that is left gets its end row, and the spans around it stay open.
LEMMA LeaveKeeps ==
    ASSUME CaptureInv, NEW t \in Dispatchers, Leave(t)
    PROVE  CaptureInv'
<1> DEFINE span == Innermost(t)
           row == [span EXCEPT !.t = clock + 1, !.dur = clock + 1 - span.t]
           n == Len(stack[t])
<1>1. /\ stack[t] # <<>> /\ captured' = Append(captured, row) /\ clock' = clock + 1
      /\ stack' = [stack EXCEPT ![t] = SubSeq(@, 1, Len(@) - 1)]
      /\ UNCHANGED <<tracing, nextCid>>
    BY DEF Leave, Closes, Capture
<1>2. clock \in Nat /\ nextCid \in Nat
    BY DEF CaptureInv, CaptureTypeInv
<1>3. /\ stack' \in [Dispatchers -> Seq(TraceRows)]
      /\ span \in TraceRows /\ span \in OpenRows
      /\ \A u \in Dispatchers : \A i \in DOMAIN stack'[u] :
           i \in DOMAIN stack[u] /\ stack'[u][i] = stack[u][i]
      /\ OpenRows' = OpenRows \ {span}
      /\ OpenSpans' = OpenSpans \ {<<t, n>>}
      /\ <<t, n>> \in OpenSpans
    BY <1>1, SpanPopped DEF CaptureInv
<1>4. /\ \A r \in B \cup E : r.t \in Nat /\ r.t <= clock /\ r.cid \in Nat /\ r.cid <= nextCid /\ r.up \in Nat
      /\ \A r \in E : StartOf(r) \in Int /\ StartOf(r) < r.t /\ r.dur \in Nat
      /\ OpenRows \subseteq B
    BY RowsTyped, OpenSpansAre DEF CaptureInv, RowInv, StackInv, Indexed
<1>5. span.t \in Nat /\ span.t <= clock /\ span \in B
    BY <1>3, <1>4
<1>6. /\ row \in TraceRows /\ row.dur > 0 /\ row.dur \in Nat /\ row.t = clock + 1
      /\ row.cid = span.cid /\ row.up = span.up /\ StartOf(row) = span.t
      /\ SpanKey(row) = SpanKey(span)
  <2>1. clock + 1 - span.t \in Nat /\ clock + 1 - span.t > 0 /\ clock + 1 \in Nat
      BY <1>2, <1>5
  <2> HIDE DEF span
  <2>2. /\ row \in TraceRows /\ row.level = span.level /\ row.cid = span.cid /\ row.up = span.up
        /\ row.t = clock + 1 /\ row.dur = clock + 1 - span.t
      BY <1>3, <2>1 DEF TraceRows
  <2> HIDE DEF row
  <2>3. StartOf(row) = span.t
      BY <1>2, <1>5, <2>2 DEF StartOf
  <2> QED
      BY <2>1, <2>2, <2>3 DEF SpanKey
<1> HIDE DEF row, span, n
<1>7. B' = B /\ E' = E \cup {row} /\ captured' \in Seq(TraceRows)
    BY <1>1, <1>6, RowAdded DEF CaptureInv
<1>8. row \notin E
    BY <1>2, <1>4, <1>6
<1>9. CaptureTypeInv'
    BY <1>1, <1>2, <1>3, <1>7 DEF CaptureInv, CaptureTypeInv
<1>10. StackInv'
  <2> SUFFICES ASSUME NEW u \in Dispatchers, NEW v \in Dispatchers,
                      NEW i \in DOMAIN stack'[u], NEW j \in DOMAIN stack'[v]
               PROVE  /\ stack'[u][i] \in B'
                      /\ u = v /\ i < j => stack'[u][i].t < stack'[v][j].t
                      /\ stack'[u][i].t = stack'[v][j].t => u = v
                      /\ stack'[u][i].cid # 0 /\ stack'[u][i].cid = stack'[v][j].cid => u = v
      BY DEF StackInv
  <2> QED
      BY <1>3, <1>7 DEF CaptureInv, StackInv
<1>11. \A p \in B : p.t = span.t => p = span
    BY <1>5 DEF CaptureInv, RowInv
<1>12. RowInv'
  <2>1. (\A r \in B \cup E : r.t <= clock /\ r.cid <= nextCid)'
      BY <1>1, <1>2, <1>4, <1>5, <1>6, <1>7
  <2>2. (/\ \A r \in B : r.t > 0
         /\ \A r, p \in B : r.t = p.t => r = p)'
      BY <1>7 DEF CaptureInv, RowInv
  <2>3. (\A e \in E : \E b \in B : b.t = StartOf(e) /\ b.cid = e.cid /\ b.up = e.up)'
      BY <1>5, <1>6, <1>7 DEF CaptureInv, RowInv
  <2>4. (\A e \in E, o \in OpenRows : StartOf(e) # o.t)'
      BY <1>3, <1>4, <1>6, <1>7, <1>11 DEF CaptureInv, RowInv
  <2>5. (\A b \in B : b \in OpenRows \/ \E e \in E : StartOf(e) = b.t /\ e.cid = b.cid)'
      BY <1>3, <1>6, <1>7 DEF CaptureInv, RowInv
  <2> QED
      BY <2>1, <2>2, <2>3, <2>4, <2>5 DEF RowInv
<1>13. NestInv'
  <2>1. (\A b \in B, o \in OpenRows : b.cid # 0 /\ o.cid = b.cid /\ o.t < b.t => o.t <= b.up)'
      BY <1>3, <1>7 DEF CaptureInv, NestInv
  <2>2. (\A b \in B, e \in E :
          b.cid # 0 /\ e.cid = b.cid /\ StartOf(e) < b.t /\ b.t < e.t => StartOf(e) <= b.up)'
    <3>1. \A b \in B : b.cid # 0 /\ row.cid = b.cid /\ StartOf(row) < b.t => StartOf(row) <= b.up
      <4>1. \A b \in B : b.cid # 0 /\ span.cid = b.cid /\ span.t < b.t => span.t <= b.up
          BY <1>3 DEF CaptureInv, NestInv
      <4> QED
          BY <1>6, <4>1
    <3> QED
        BY <1>7, <3>1 DEF CaptureInv, NestInv
  <2>3. (\A b \in B : b.up # 0 =>
          /\ \E p \in B : p.cid = b.cid /\ p.t = b.up /\ p.t < b.t
          /\ \A e \in E : e.cid = b.cid /\ StartOf(e) = b.up => b.t < e.t)'
    <3>1. \A b \in B : b.t < row.t
        BY <1>2, <1>4, <1>6
    <3> QED
        BY <1>7, <3>1 DEF CaptureInv, NestInv
  <2> QED
      BY <2>1, <2>2, <2>3 DEF NestInv
<1>14. CountInv'
  <2>1. /\ IsFiniteSet(B) /\ IsFiniteSet(E) /\ IsFiniteSet(OpenSpans) /\ IsFiniteSet(OpenRows)
        /\ IsFiniteSet(Unpaired(captured)) /\ IsFiniteSet(Drawn(captured))
        /\ \A k : Excess(captured, k) = Cardinality(SameKey(OpenRows, k))
        /\ Cardinality(Unpaired(captured)) = Cardinality(OpenSpans)
        /\ Cardinality(Drawn(captured)) = Cardinality(B) - Cardinality(OpenSpans)
      BY DEF CaptureInv, CountInv
  <2>2. /\ OpenRows = OpenRows' \cup {span} /\ span \notin OpenRows'
        /\ IsFiniteSet(OpenRows')
      BY <1>3, <2>1, FS_RemoveElement
  <2>3. /\ IsFiniteSet(E')
        /\ IsFiniteSet(OpenSpans') /\ Cardinality(OpenSpans') = Cardinality(OpenSpans) - 1
      BY <1>3, <1>7, <1>8, <2>1, FS_AddElement, FS_RemoveElement
  <2>4. /\ \A k : Excess(captured, k) = Excess(captured', k) + (IF SpanKey(span) = k THEN 1 ELSE 0)
        /\ \A k : Excess(captured', k) = Cardinality(SameKey(OpenRows', k))
    <3>1. \A k : /\ Cardinality(SameKey(B, k)) \in Nat /\ Cardinality(SameKey(E, k)) \in Nat
                 /\ Cardinality(SameKey(OpenRows', k)) \in Nat
        BY <2>1, <2>2, KeysCounted
    <3>2. /\ \A k : Cardinality(SameKey(E', k)) = Cardinality(SameKey(E, k)) + (IF SpanKey(span) = k THEN 1 ELSE 0)
          /\ \A k : Cardinality(SameKey(OpenRows, k)) = Cardinality(SameKey(OpenRows', k)) + (IF SpanKey(span) = k THEN 1 ELSE 0)
        BY <1>6, <1>7, <1>8, <2>1, <2>2, OneMore
    <3>3. /\ \A k : Excess(captured, k) = Cardinality(SameKey(B, k)) - Cardinality(SameKey(E, k))
          /\ \A k : Excess(captured', k) = Cardinality(SameKey(B', k)) - Cardinality(SameKey(E', k))
        BY DEF Excess, B, E
    <3>4. \A k : Cardinality(SameKey(B', k)) = Cardinality(SameKey(B, k))
        BY <1>7
    <3> QED
        BY <2>1, <3>1, <3>2, <3>3, <3>4
  <2>5. OpenIn(captured, OpenRows) /\ OpenIn(captured', OpenRows')
      BY <1>3, <1>4, <1>7, <2>1, <2>2, <2>4 DEF OpenIn, B
  <2> DEFINE x == <<SpanKey(span), Excess(captured', SpanKey(span)) + 1>>
  <2>6. Unpaired(captured) = Unpaired(captured') \cup {x} /\ x \notin Unpaired(captured')
      BY <2>4, <2>5, OneUnpairedMore
  <2> HIDE DEF x
  <2>7. Unpaired(captured') = Unpaired(captured) \ {x} /\ x \in Unpaired(captured)
      BY <2>6
  <2>8. /\ IsFiniteSet(Unpaired(captured'))
        /\ Cardinality(Unpaired(captured')) = Cardinality(Unpaired(captured)) - 1
      BY <2>1, <2>7, FS_RemoveElement
  <2>9. /\ IsFiniteSet(Drawn(captured'))
        /\ Cardinality(Drawn(captured')) = Cardinality(Drawn(captured)) + 1
    <3> DEFINE drawn(r) == [track |-> r.level, ts |-> r.t - r.dur, dur |-> r.dur]
    <3>1. Drawn(captured) = {drawn(r) : r \in E} /\ Drawn(captured') = {drawn(r) : r \in E'}
        BY DEF Drawn, E
    <3>2. ASSUME NEW r \in E, drawn(r) = drawn(row) PROVE FALSE
      <4>1. r.t - r.dur = row.t - row.dur /\ r.dur = row.dur
          BY <3>2
      <4> QED
          BY <1>2, <1>4, <1>6, <4>1
    <3> HIDE DEF drawn
    <3>3. drawn(row) \notin Drawn(captured) /\ Drawn(captured') = Drawn(captured) \cup {drawn(row)}
        BY <1>7, <3>1, <3>2
    <3> QED
        BY <2>1, <3>3, FS_AddElement
  <2>10. Cardinality(B) \in Nat /\ Cardinality(OpenSpans) \in Nat
      BY <2>1, FS_CardinalityType
  <2> QED
      BY <1>7, <2>1, <2>2, <2>3, <2>4, <2>8, <2>9, <2>10 DEF CountInv
<1> QED
    BY <1>9, <1>10, <1>12, <1>13, <1>14 DEF CaptureInv

\* The three ways a span begins.
LEMMA CallsKeep ==
    ASSUME CaptureInv, NEW t \in Dispatchers,
           BeginDispatch(t) \/ CallInner(t) \/ BeginUserSpan(t)
    PROVE  CaptureInv'
<1>1. /\ nextCid \in Nat /\ tracing \in BOOLEAN /\ Middlewares \in Nat
      /\ \A u \in Dispatchers : \A i \in DOMAIN stack[u] :
           stack[u][i] \in TraceRows /\ stack[u][i].cid <= nextCid /\ stack[u][i].cid \in Nat
    BY MiddlewaresAssumption, RowsTyped DEF CaptureInv, CaptureTypeInv, StackInv, RowInv
<1>2. CASE BeginDispatch(t)
  <2>1. Begin(t, 0, nextCid + 1, 0) /\ nextCid' = nextCid + 1 /\ tracing' = tracing
      BY <1>2 DEF BeginDispatch
  <2>2. \A u \in Dispatchers : \A i \in DOMAIN stack[u] : stack[u][i].cid # nextCid + 1
      BY <1>1
  <2> QED
      BY <1>1, <2>1, <2>2, BeginKeeps
<1>3. CASE BeginUserSpan(t)
  <2>1. Begin(t, UserSpan, 0, 0) /\ nextCid' = nextCid /\ tracing' = tracing
      BY <1>3 DEF BeginUserSpan
  <2>2. UserSpan \in Nat
      BY <1>1 DEF UserSpan
  <2> QED
      BY <1>1, <2>1, <2>2, BeginKeeps
<1>4. CASE CallInner(t)
  <2> DEFINE caller == Innermost(t)
             n == Len(stack[t])
  <2>1. /\ stack[t] # <<>> /\ nextCid' = nextCid /\ tracing' = tracing
        /\ Begin(t, caller.level + 1, caller.cid, caller.t)
      BY <1>4 DEF CallInner
  <2>2. /\ stack[t] \in Seq(TraceRows) /\ caller = stack[t][n]
      BY DEF CaptureInv, CaptureTypeInv, Innermost
  <2>3. /\ DOMAIN stack[t] = 1..n /\ n \in DOMAIN stack[t] /\ n \in Nat
      BY <2>1, <2>2
  <2>4. /\ caller \in TraceRows /\ caller.level \in Nat /\ caller.cid \in Nat /\ caller.t \in Nat
        /\ caller.cid <= nextCid
      BY <1>1, <2>2, <2>3 DEF TraceRows
  <2>5. caller \in OpenRows
      BY <2>2, <2>3, OpenSpansAre DEF Indexed
  <2>6. ASSUME NEW u \in Dispatchers, NEW i \in DOMAIN stack[u],
               caller.cid # 0, stack[u][i].cid = caller.cid
        PROVE  u = t /\ stack[u][i].t <= caller.t
    <3>1. u = t
        BY <2>2, <2>3, <2>6 DEF CaptureInv, StackInv
    <3>2. i = n \/ i < n
        BY <2>3, <2>6, <3>1
    <3>3. stack[t][i].t \in Nat
        BY <1>1, <2>6, <3>1 DEF TraceRows
    <3>4. i < n => stack[t][i].t < stack[t][n].t
        BY <2>3, <2>6, <3>1 DEF CaptureInv, StackInv
    <3> QED
        BY <2>2, <2>4, <3>1, <3>2, <3>3, <3>4
  <2> HIDE DEF caller, n
  <2>7. /\ \A u \in Dispatchers : \A i \in DOMAIN stack[u] :
             caller.cid # 0 /\ stack[u][i].cid = caller.cid => u = t /\ stack[u][i].t <= caller.t
        /\ caller.t # 0 => \E p \in OpenRows : p.cid = caller.cid /\ p.t = caller.t
        /\ caller.level + 1 \in Nat /\ nextCid <= nextCid'
      BY <1>1, <2>1, <2>4, <2>5, <2>6
  <2> QED
      BY <1>1, <2>1, <2>4, <2>7, BeginKeeps
<1> QED
    BY <1>2, <1>3, <1>4

\* Of a dispatch that is over, the innermost closed span around another one is
\* the one it was called from.
LEMMA CallersFound ==
    ASSUME CaptureInv, NEW cid \in 1..nextCid,
           \A t \in Dispatchers : \A i \in DOMAIN stack[t] : stack[t][i].cid # cid,
           NEW r \in Group(captured, cid)
    PROVE  {StartOf(p) : p \in ParentOf(Group(captured, cid), r)}
             = IF r.up = 0 THEN {} ELSE {r.up}
<1> DEFINE G == Group(captured, cid)
<1>1. /\ \A p : p \in G <=> p \in E /\ p.cid = cid
      /\ cid # 0
    BY DEF CaptureInv, CaptureTypeInv, Group, E
<1>2. /\ \A p \in E : StartOf(p) \in Int /\ p.t \in Nat /\ StartOf(p) < p.t
      /\ \A p \in E : StartOf(p) > 0
      /\ \A b \in B : b.t \in Nat /\ b.up \in Nat
    BY RowsTyped DEF CaptureInv, RowInv
<1>3. \A o \in OpenRows : o.cid # cid
    BY OpenSpansAre DEF Indexed
<1>4. PICK b \in B : b.t = StartOf(r) /\ b.cid = cid /\ b.up = r.up
    BY <1>1 DEF CaptureInv, RowInv
<1> HIDE DEF G
<1>5. \A p \in Outlives(G, r) : p \in G /\ StartOf(p) <= r.up
    BY <1>1, <1>4 DEF Outlives, CaptureInv, NestInv
<1>6. CASE r.up = 0
  <2>1. Outlives(G, r) = {}
      BY <1>1, <1>2, <1>5, <1>6
  <2>2. ParentOf(G, r) = {}
      BY <2>1 DEF ParentOf
  <2> QED
      BY <1>6, <2>2 DEF G
<1>7. CASE r.up # 0
  <2>1. PICK p \in B : p.cid = cid /\ p.t = r.up /\ p.t < b.t
      BY <1>4, <1>7 DEF CaptureInv, NestInv
  <2>2. PICK e \in E : StartOf(e) = r.up /\ e.cid = cid
      BY <1>3, <2>1 DEF CaptureInv, RowInv
  <2>3. e \in Outlives(G, r)
      BY <1>1, <1>4, <1>7, <2>1, <2>2 DEF Outlives, CaptureInv, NestInv
  <2>4. e \in ParentOf(G, r)
      BY <1>5, <2>2, <2>3 DEF ParentOf
  <2>5. ASSUME NEW q \in ParentOf(G, r) PROVE StartOf(q) = r.up
    <3>1. q \in Outlives(G, r) /\ r.up <= StartOf(q)
        BY <2>2, <2>3 DEF ParentOf
    <3> QED
        BY <1>1, <1>2, <1>4, <1>5, <3>1
  <2> QED
      BY <1>7, <2>2, <2>4, <2>5 DEF G
<1> QED
    BY <1>6, <1>7

\* However dispatches nest, threads interleave and tracing is switched, each span
\* that was begun is open or has one end row, and began while its caller was open.
THEOREM CaptureCorrect == CaptureSpec => []CaptureInv
<1>1. CaptureInv /\ (SwitchTracing \/ UNCHANGED captureVars) => CaptureInv'
  <2> SUFFICES ASSUME CaptureInv, tracing' \in BOOLEAN, UNCHANGED <<clock, nextCid, stack, captured>>
               PROVE  CaptureInv'
      BY DEF CaptureInv, CaptureTypeInv, SwitchTracing, captureVars
  <2>1. B' = B /\ E' = E /\ OpenSpans' = OpenSpans /\ OpenRows' = OpenRows
      BY DEF B, E, OpenSpans, OpenRows
  <2>2. CaptureTypeInv' /\ StackInv' /\ RowInv' /\ NestInv'
      BY <2>1 DEF CaptureInv, CaptureTypeInv, StackInv, RowInv, NestInv
  <2>3. CountInv'
      BY <2>1 DEF CaptureInv, CountInv
  <2> QED
      BY <2>2, <2>3 DEF CaptureInv
<1>2. CaptureInv /\ [CaptureNext]_captureVars => CaptureInv'
    BY <1>1, CallsKeep, LeaveKeeps DEF CaptureNext
<1> QED
    BY <1>2, CaptureStarts, PTL DEF CaptureSpec

\* What the exporters report as unclosed is what still runs, on whatever path
\* dispatches ended, and Perfetto draws every other span once.
THEOREM UnclosedStillRun == CaptureSpec => []UnclosedAreOpen
<1>1. CaptureInv => UnclosedAreOpen
    BY DEF CaptureInv, CountInv, UnclosedAreOpen, CountUnclosed, B
<1> QED
    BY <1>1, CaptureCorrect, PTL

\* Containment in time gives back which span of a finished dispatch was called
\* from which, for any number of middlewares, calls and dispatches within.
THEOREM CallTreeRecovered == CaptureSpec => []ParentsRecovered
<1>1. CaptureInv => ParentsRecovered
    BY CallersFound DEF CaptureInv, ParentsRecovered
<1> QED
    BY <1>1, CaptureCorrect, PTL

-----------------------------------------------------------------------------
(* IpcBus: queues of messages and stop markers. *)

\* The messages in a queue.
Numbers(s) == {s[i] : i \in 1..Len(s)} \ {StopMarker}

Increasing(s) ==
    \A i, j \in 1..Len(s) :
        i < j /\ s[i] # StopMarker /\ s[j] # StopMarker => s[i] < s[j]

\* Append() leaves what was there where it was.
LEMMA AppendIndex ==
    ASSUME NEW s \in Seq(Int), NEW x \in Int
    PROVE  /\ Append(s, x) \in Seq(Int) /\ Len(s) \in Nat
           /\ Len(Append(s, x)) = Len(s) + 1
           /\ \A i \in 1..Len(s) : Append(s, x)[i] = s[i]
           /\ Append(s, x)[Len(s) + 1] = x
OBVIOUS

\* A marker at the end of a queue changes neither its messages nor their order.
LEMMA AppendMarker ==
    ASSUME StopMarker \in Int, NEW s \in Seq(Int), Increasing(s)
    PROVE  /\ Append(s, StopMarker) \in Seq(Int)
           /\ Increasing(Append(s, StopMarker))
           /\ Numbers(Append(s, StopMarker)) = Numbers(s)
<1> DEFINE t == Append(s, StopMarker)
<1>1. /\ t \in Seq(Int) /\ Len(s) \in Nat /\ Len(t) = Len(s) + 1
      /\ \A i \in 1..Len(s) : t[i] = s[i]
      /\ t[Len(s) + 1] = StopMarker
    BY AppendIndex
<1> HIDE DEF t
<1>2. \A i \in 1..Len(t) : t[i] # StopMarker => i \in 1..Len(s)
    BY <1>1
<1>3. Increasing(t)
    BY <1>1, <1>2 DEF Increasing
<1>4. \A m : m \in Numbers(t) => m \in Numbers(s)
    BY <1>1, <1>2 DEF Numbers
<1>5. \A m : m \in Numbers(s) => m \in Numbers(t)
    BY <1>1 DEF Numbers
<1>6. Numbers(t) = Numbers(s)
    BY <1>4, <1>5
<1> QED
    BY <1>1, <1>3, <1>6 DEF t

\* A message newer than all in a queue goes to its end.
LEMMA AppendNumber ==
    ASSUME StopMarker \in Int, NEW s \in Seq(Int), Increasing(s),
           NEW x \in Int, x # StopMarker, \A m \in Numbers(s) : m < x
    PROVE  /\ Append(s, x) \in Seq(Int)
           /\ Increasing(Append(s, x))
           /\ Numbers(Append(s, x)) = Numbers(s) \cup {x}
<1> DEFINE t == Append(s, x)
<1>1. /\ t \in Seq(Int) /\ Len(s) \in Nat /\ Len(t) = Len(s) + 1
      /\ \A i \in 1..Len(s) : t[i] = s[i]
      /\ t[Len(s) + 1] = x
    BY AppendIndex
<1> HIDE DEF t
<1>2. \A i \in 1..Len(s) : s[i] # StopMarker => s[i] < x
    BY DEF Numbers
<1>3. Increasing(t)
  <2> SUFFICES ASSUME NEW i \in 1..Len(t), NEW j \in 1..Len(t), i < j,
                      t[i] # StopMarker, t[j] # StopMarker
               PROVE  t[i] < t[j]
      BY DEF Increasing
  <2>1. i \in 1..Len(s) /\ t[i] = s[i]
      BY <1>1
  <2>2. CASE j \in 1..Len(s)
      BY <1>1, <2>1, <2>2 DEF Increasing
  <2>3. CASE j = Len(s) + 1
      BY <1>1, <1>2, <2>1, <2>3
  <2>4. j \in 1..Len(s) \/ j = Len(s) + 1
      BY <1>1
  <2> QED
      BY <2>2, <2>3, <2>4
<1>4. Numbers(t) = Numbers(s) \cup {x}
  <2>1. ASSUME NEW m \in Numbers(t) PROVE m \in Numbers(s) \cup {x}
    <3>1. PICK i \in 1..Len(t) : m = t[i] /\ m # StopMarker
        BY DEF Numbers
    <3>2. CASE i \in 1..Len(s)
        BY <1>1, <3>1, <3>2 DEF Numbers
    <3>3. CASE i = Len(s) + 1
        BY <1>1, <3>1, <3>3
    <3> QED
        BY <1>1, <3>1, <3>2, <3>3
  <2>2. ASSUME NEW m \in Numbers(s) PROVE m \in Numbers(t)
    <3>1. PICK i \in 1..Len(s) : m = s[i] /\ m # StopMarker
        BY DEF Numbers
    <3>2. i \in 1..Len(t) /\ m = t[i]
        BY <1>1, <3>1
    <3> QED
        BY <3>1, <3>2 DEF Numbers
  <2>3. x \in Numbers(t)
    <3>1. Len(s) + 1 \in 1..Len(t)
        BY <1>1
    <3> QED
        BY <1>1, <3>1 DEF Numbers
  <2> QED
      BY <2>1, <2>2, <2>3
<1> QED
    BY <1>1, <1>3, <1>4 DEF t

\* The oldest message is taken: those left are newer.
LEMMA TakeHead ==
    ASSUME StopMarker \in Int, NEW s \in Seq(Int), s # <<>>, Increasing(s)
    PROVE  /\ Tail(s) \in Seq(Int) /\ Head(s) \in Int
           /\ Increasing(Tail(s))
           /\ Numbers(Tail(s)) \subseteq Numbers(s)
           /\ Head(s) # StopMarker => /\ Head(s) \in Numbers(s)
                                      /\ \A m \in Numbers(Tail(s)) : Head(s) < m
<1> DEFINE t == Tail(s)
<1>1. /\ t \in Seq(Int) /\ Len(s) \in Nat /\ Len(s) >= 1 /\ Len(t) = Len(s) - 1
      /\ \A i \in 1..Len(t) : t[i] = s[i + 1]
      /\ Head(s) = s[1] /\ s[1] \in Int
    OBVIOUS
<1> HIDE DEF t
<1>2. \A i \in 1..Len(t) : i + 1 \in 1..Len(s) /\ 1 < i + 1
    BY <1>1
<1>3. Increasing(t)
  <2> SUFFICES ASSUME NEW i \in 1..Len(t), NEW j \in 1..Len(t), i < j,
                      t[i] # StopMarker, t[j] # StopMarker
               PROVE  t[i] < t[j]
      BY DEF Increasing
  <2>1. t[i] = s[i + 1] /\ t[j] = s[j + 1] /\ i + 1 < j + 1
      BY <1>1
  <2> QED
      BY <1>2, <2>1 DEF Increasing
<1>4. Numbers(t) \subseteq Numbers(s)
    BY <1>1, <1>2 DEF Numbers
<1>5. 1 \in 1..Len(s)
    BY <1>1
<1>6. Head(s) # StopMarker => Head(s) \in Numbers(s)
    BY <1>1, <1>5 DEF Numbers
<1>7. ASSUME Head(s) # StopMarker, NEW m \in Numbers(t) PROVE Head(s) < m
  <2>1. PICK i \in 1..Len(t) : m = t[i] /\ m # StopMarker
      BY DEF Numbers
  <2>2. m = s[i + 1] /\ i + 1 \in 1..Len(s) /\ 1 < i + 1
      BY <1>1, <1>2, <2>1
  <2> QED
      BY <1>1, <1>5, <1>7, <2>1, <2>2 DEF Increasing
<1> QED
    BY <1>1, <1>3, <1>4, <1>6, <1>7 DEF t
-----------------------------------------------------------------------------
(* Where messages are.                                                     *)

IpcTypeOK ==
    /\ inbox \in [Nodes -> Seq(Int)] /\ received \in [Buses -> Seq(Int)]
    /\ held \in [Nodes -> [message : Int, targets : SUBSET Buses]]
    /\ thread \in [Nodes -> {"none", "checking", "getting", "holding"}]
    /\ published \in Nat /\ subscribers \subseteq Buses

\* The messages that have come as far as a bus.
AtBus(b) == Numbers(received[b]) \cup Numbers(inbox[b])
              \cup (IF thread[b] = "holding" THEN {held[b].message} ELSE {})

\* From the handlers of a bus back to the publishers, messages get newer.
BusInOrder(b) ==
    /\ Increasing(received[b])
    /\ \A i \in 1..Len(received[b]) : received[b][i] # StopMarker
    /\ \A m \in Numbers(received[b]), k \in Numbers(inbox[b]) : m < k
    /\ thread[b] = "holding" =>
         /\ held[b].message # StopMarker
         /\ \A m \in Numbers(received[b]) : m < held[b].message
         /\ \A k \in Numbers(inbox[b]) : held[b].message < k

BrokerInOrder ==
    Locked => /\ held[Broker].message # StopMarker /\ held[Broker].message <= published
              /\ \A k \in Numbers(inbox[Broker]) : held[Broker].message < k
              /\ \A b \in Buses : \A m \in AtBus(b) :
                   /\ m <= held[Broker].message
                   /\ b \in held[Broker].targets => m < held[Broker].message

OrderInv ==
    /\ \A n \in Nodes : Increasing(inbox[n])
    /\ \A b \in Buses : BusInOrder(b)
    /\ \A b \in Buses : \A m \in AtBus(b) :
         m <= published /\ \A k \in Numbers(inbox[Broker]) : m < k
    /\ \A k \in Numbers(inbox[Broker]) : k <= published
    /\ BrokerInOrder

IpcInv == IpcTypeOK /\ OrderInv

\* Steps that move no message.
LEMMA StillKeeps ==
    ASSUME IpcInv, UNCHANGED <<inbox, received, held, published>>, IpcTypeOK',
           \A n \in Nodes : thread'[n] = "holding" => thread[n] = "holding"
    PROVE  IpcInv'
<1>1. \A b \in Buses : AtBus(b)' \subseteq AtBus(b)
    BY DEF AtBus, Nodes
<1>2. \A b \in Buses : BusInOrder(b)'
    BY DEF IpcInv, OrderInv, BusInOrder, Nodes
<1>3. Locked' => Locked
    BY DEF Locked, Nodes
<1>4. BrokerInOrder'
    BY <1>1, <1>3 DEF IpcInv, OrderInv, BrokerInOrder
<1> QED
    BY <1>1, <1>2, <1>4 DEF IpcInv, OrderInv

\* A message is published: it is newer than all others.
LEMMA PublishKeeps ==
    ASSUME StopMarker = 0, Broker \notin Buses, IpcInv, Publish
    PROVE  IpcInv'
<1>1. /\ published' = published + 1 /\ inbox' = [inbox EXCEPT ![Broker] = Append(@, published + 1)]
      /\ UNCHANGED <<thread, held, received, subscribers>>
    BY DEF Publish, loop
<1>2. /\ published \in Nat /\ published + 1 \in Int /\ published + 1 # StopMarker
      /\ Broker \in Nodes /\ inbox[Broker] \in Seq(Int) /\ Increasing(inbox[Broker])
      /\ \A m \in Numbers(inbox[Broker]) : m \in Int /\ m < published + 1
  <2>1. Broker \in Nodes /\ inbox[Broker] \in Seq(Int) /\ published \in Nat
      BY DEF IpcInv, IpcTypeOK, Nodes
  <2>2. \A m \in Numbers(inbox[Broker]) : m \in Int
      BY <2>1 DEF Numbers
  <2> QED
      BY <2>1, <2>2 DEF IpcInv, OrderInv
<1>3. /\ Append(inbox[Broker], published + 1) \in Seq(Int)
      /\ Increasing(Append(inbox[Broker], published + 1))
      /\ Numbers(Append(inbox[Broker], published + 1)) = Numbers(inbox[Broker]) \cup {published + 1}
    BY <1>2, AppendNumber
<1>4. /\ inbox'[Broker] = Append(inbox[Broker], published + 1)
      /\ \A n \in Nodes \ {Broker} : inbox'[n] = inbox[n]
    BY <1>1, <1>2 DEF IpcInv, IpcTypeOK
<1>5. IpcTypeOK'
  <2>1. inbox' \in [Nodes -> Seq(Int)]
      BY <1>1, <1>2, <1>3 DEF IpcInv, IpcTypeOK
  <2> QED
      BY <1>1, <1>2, <2>1 DEF IpcInv, IpcTypeOK
<1>6. \A b \in Buses : inbox'[b] = inbox[b] /\ AtBus(b)' = AtBus(b)
    BY <1>1, <1>4 DEF AtBus, Nodes
<1>7. \A b \in Buses : \A m \in AtBus(b) : m \in Int
    BY DEF AtBus, Numbers, IpcInv, IpcTypeOK, Nodes
<1>8. \A b \in Buses : BusInOrder(b)'
    BY <1>1, <1>6 DEF IpcInv, OrderInv, BusInOrder
<1>9. \A n \in Nodes : Increasing(inbox'[n])
    BY <1>3, <1>4 DEF IpcInv, OrderInv
<1>10. \A k \in Numbers(inbox'[Broker]) : k \in Numbers(inbox[Broker]) \/ k = published + 1
    BY <1>3, <1>4
<1>11. \A b \in Buses : \A m \in AtBus(b)' :
         m <= published' /\ \A k \in Numbers(inbox'[Broker]) : m < k
    BY <1>1, <1>2, <1>6, <1>7, <1>10 DEF IpcInv, OrderInv
<1>12. \A k \in Numbers(inbox'[Broker]) : k <= published'
    BY <1>1, <1>2, <1>10 DEF IpcInv, OrderInv
<1>13. BrokerInOrder'
  <2>1. held[Broker].message \in Int
      BY <1>2 DEF IpcInv, IpcTypeOK
  <2> QED
      BY <1>1, <1>2, <1>6, <1>10, <2>1 DEF IpcInv, OrderInv, BrokerInOrder, Locked
<1> QED
    BY <1>5, <1>8, <1>9, <1>11, <1>12, <1>13 DEF IpcInv, OrderInv

\* A stop marker is put behind the messages.
LEMMA MarkerKeeps ==
    ASSUME StopMarker = 0, IpcInv, NEW n \in Nodes, StopPuts(n)
    PROVE  IpcInv'
<1>1. /\ inbox' = [inbox EXCEPT ![n] = Append(@, StopMarker)]
      /\ UNCHANGED <<thread, held, received, published, subscribers>>
    BY DEF StopPuts, loop
<1>2. inbox[n] \in Seq(Int) /\ Increasing(inbox[n])
    BY DEF IpcInv, IpcTypeOK, OrderInv
<1>3. /\ Append(inbox[n], StopMarker) \in Seq(Int)
      /\ Increasing(Append(inbox[n], StopMarker))
      /\ Numbers(Append(inbox[n], StopMarker)) = Numbers(inbox[n])
    BY <1>2, AppendMarker
<1>4. /\ inbox' \in [Nodes -> Seq(Int)]
      /\ \A x \in Nodes : Numbers(inbox'[x]) = Numbers(inbox[x]) /\ Increasing(inbox'[x])
    BY <1>1, <1>3 DEF IpcInv, IpcTypeOK, OrderInv
<1>5. \A b \in Buses : AtBus(b)' = AtBus(b) /\ BusInOrder(b)'
    BY <1>1, <1>4 DEF AtBus, BusInOrder, IpcInv, OrderInv, Nodes
<1>6. Broker \in Nodes
    BY DEF Nodes
<1>7. IpcTypeOK'
    BY <1>1, <1>4 DEF IpcInv, IpcTypeOK
<1>8. OrderInv'
    BY <1>1, <1>4, <1>5, <1>6 DEF IpcInv, OrderInv, BrokerInOrder, Locked
<1> QED
    BY <1>7, <1>8 DEF IpcInv

\* What get() takes from a queue leaves it in order.
LEMMA TakenFromQueue ==
    ASSUME StopMarker = 0, IpcInv, NEW n \in Nodes, Get(n)
    PROVE  /\ IpcTypeOK' /\ Head(inbox[n]) \in Int
           /\ thread[n] = "getting"
           /\ \A x \in Nodes \ {n} : /\ inbox'[x] = inbox[x] /\ thread'[x] = thread[x]
                                     /\ held'[x] = held[x]
           /\ \A x \in Nodes : /\ Increasing(inbox'[x])
                               /\ Numbers(inbox'[x]) \subseteq Numbers(inbox[x])
           /\ UNCHANGED <<received, published>>
           /\ \/ thread'[n] = "none"
              \/ /\ Head(inbox[n]) # StopMarker /\ thread'[n] = "holding"
                 /\ held'[n].message = Head(inbox[n])
                 /\ Head(inbox[n]) \in Numbers(inbox[n])
                 /\ \A k \in Numbers(inbox'[n]) : Head(inbox[n]) < k
<1>1. /\ thread[n] = "getting" /\ inbox[n] # <<>>
      /\ inbox' = [inbox EXCEPT ![n] = Tail(@)]
      /\ UNCHANGED <<received, published, subscribers>>
    BY DEF Get
<1>2. inbox[n] \in Seq(Int) /\ Increasing(inbox[n])
    BY DEF IpcInv, IpcTypeOK, OrderInv
<1>3. /\ Tail(inbox[n]) \in Seq(Int) /\ Head(inbox[n]) \in Int
      /\ Increasing(Tail(inbox[n]))
      /\ Numbers(Tail(inbox[n])) \subseteq Numbers(inbox[n])
      /\ Head(inbox[n]) # StopMarker =>
           /\ Head(inbox[n]) \in Numbers(inbox[n])
           /\ \A m \in Numbers(Tail(inbox[n])) : Head(inbox[n]) < m
    BY <1>1, <1>2, TakeHead
<1>4. /\ inbox' \in [Nodes -> Seq(Int)] /\ inbox'[n] = Tail(inbox[n])
      /\ \A x \in Nodes \ {n} : inbox'[x] = inbox[x]
    BY <1>1, <1>3 DEF IpcInv, IpcTypeOK
<1>5. \A x \in Nodes : /\ Increasing(inbox'[x])
                       /\ Numbers(inbox'[x]) \subseteq Numbers(inbox[x])
    BY <1>3, <1>4 DEF IpcInv, OrderInv
<1>6. CASE Head(inbox[n]) = StopMarker
  <2>1. thread' = [thread EXCEPT ![n] = "none"] /\ held' = held
      BY <1>6 DEF Get
  <2> QED
      BY <1>1, <1>3, <1>4, <1>5, <2>1 DEF IpcInv, IpcTypeOK
<1>7. CASE Head(inbox[n]) # StopMarker
  <2> DEFINE T == IF n = Broker THEN subscribers ELSE {}
  <2>1. /\ thread' = [thread EXCEPT ![n] = "holding"]
        /\ held' = [held EXCEPT ![n] = [message |-> Head(inbox[n]), targets |-> T]]
      BY <1>7 DEF Get
  <2>2. T \in SUBSET Buses
      BY DEF IpcInv, IpcTypeOK
  <2> HIDE DEF T
  <2>3. held' \in [Nodes -> [message : Int, targets : SUBSET Buses]]
        /\ held'[n].message = Head(inbox[n])
        /\ \A x \in Nodes \ {n} : held'[x] = held[x]
      BY <1>3, <2>1, <2>2 DEF IpcInv, IpcTypeOK
  <2>4. IpcTypeOK'
      BY <1>1, <1>4, <2>1, <2>3 DEF IpcInv, IpcTypeOK
  <2> QED
      BY <1>1, <1>3, <1>4, <1>5, <1>7, <2>1, <2>3, <2>4 DEF IpcInv, IpcTypeOK
<1> QED
    BY <1>6, <1>7

\* A listener takes the oldest message from its queue.
LEMMA GetKeeps ==
    ASSUME StopMarker = 0, Broker \notin Buses, IpcInv, NEW n \in Nodes, Get(n)
    PROVE  IpcInv'
<1> DEFINE h == Head(inbox[n])
<1>1. /\ IpcTypeOK' /\ h \in Int
      /\ thread[n] = "getting"
      /\ \A x \in Nodes \ {n} : /\ inbox'[x] = inbox[x] /\ thread'[x] = thread[x]
                                /\ held'[x] = held[x]
      /\ \A x \in Nodes : /\ Increasing(inbox'[x])
                          /\ Numbers(inbox'[x]) \subseteq Numbers(inbox[x])
      /\ UNCHANGED <<received, published>>
      /\ \/ thread'[n] = "none"
         \/ /\ h # StopMarker /\ thread'[n] = "holding" /\ held'[n].message = h
            /\ h \in Numbers(inbox[n])
            /\ \A k \in Numbers(inbox'[n]) : h < k
    BY TakenFromQueue
<1> HIDE DEF h
<1>2. Broker \in Nodes /\ \A b \in Buses : b \in Nodes /\ b # Broker
    BY DEF Nodes
<1>3. \A b \in Buses : AtBus(b)' \subseteq AtBus(b)
    BY <1>1, <1>2 DEF AtBus
<1>4. \A b \in Buses : BusInOrder(b)'
    BY <1>1, <1>2 DEF BusInOrder, IpcInv, OrderInv
<1>5. \A b \in Buses : \A m \in AtBus(b)' :
         m <= published' /\ \A k \in Numbers(inbox'[Broker]) : m < k
    BY <1>1, <1>2, <1>3 DEF IpcInv, OrderInv
<1>6. \A k \in Numbers(inbox'[Broker]) : k <= published'
    BY <1>1, <1>2 DEF IpcInv, OrderInv
<1>7. BrokerInOrder'
  <2>1. CASE n = Broker
    <3>1. ASSUME Locked' PROVE /\ h # StopMarker /\ held'[Broker].message = h
                               /\ h \in Numbers(inbox[Broker])
                               /\ \A k \in Numbers(inbox'[Broker]) : h < k
        BY <1>1, <2>1, <3>1 DEF Locked
    <3>2. ASSUME Locked', NEW b \in Buses, NEW m \in AtBus(b)' PROVE m < h
        BY <1>3, <3>1, <3>2 DEF IpcInv, OrderInv
    <3>3. \A b \in Buses : \A m \in AtBus(b)' : m \in Int
        BY <1>1, <1>2 DEF AtBus, Numbers, IpcTypeOK
    <3>4. Locked' => h <= published'
        BY <1>1, <3>1 DEF IpcInv, OrderInv
    <3> QED
        BY <1>1, <3>1, <3>2, <3>3, <3>4 DEF BrokerInOrder
  <2>2. CASE n # Broker
    <3>1. (Locked' <=> Locked) /\ held'[Broker] = held[Broker]
        BY <1>1, <1>2, <2>2 DEF Locked
    <3> QED
        BY <1>1, <1>2, <1>3, <3>1 DEF BrokerInOrder, IpcInv, OrderInv
  <2> QED
      BY <2>1, <2>2
<1> QED
    BY <1>1, <1>4, <1>5, <1>6, <1>7 DEF IpcInv, OrderInv

\* The broker copies its message to a subscriber, or drops it for this one.
LEMMA BrokerForwardKeeps ==
    ASSUME StopMarker = 0, Broker \notin Buses, IpcInv, NEW b \in Buses, Forward(b)
    PROVE  IpcInv'
<1> DEFINE x == held[Broker].message
<1>1. /\ Locked /\ b \in held[Broker].targets
      /\ held' = [held EXCEPT ![Broker].targets = @ \ {b}]
      /\ \/ inbox' = [inbox EXCEPT ![b] = Append(@, x)]
         \/ inbox' = inbox
      /\ UNCHANGED <<thread, received, published, subscribers>>
    BY DEF Forward, Put, control
<1>2. Broker \in Nodes /\ b # Broker /\ \A c \in Buses : c \in Nodes /\ c # Broker
    BY DEF Nodes
<1>3. /\ x \in Int /\ x # StopMarker /\ x <= published
      /\ inbox[b] \in Seq(Int) /\ Increasing(inbox[b])
      /\ \A m \in AtBus(b) : m < x
      /\ \A k \in Numbers(inbox[Broker]) : x < k
    BY <1>1, <1>2 DEF IpcInv, IpcTypeOK, OrderInv, BrokerInOrder
<1>4. /\ held' \in [Nodes -> [message : Int, targets : SUBSET Buses]]
      /\ held'[Broker].message = x /\ held'[Broker].targets = held[Broker].targets \ {b}
      /\ \A c \in Buses : held'[c] = held[c]
    BY <1>1, <1>2 DEF IpcInv, IpcTypeOK
<1> HIDE DEF x
<1>5. CASE inbox' = inbox
  <2>1. IpcTypeOK'
      BY <1>1, <1>4, <1>5 DEF IpcInv, IpcTypeOK
  <2>2. \A c \in Buses : AtBus(c)' = AtBus(c) /\ BusInOrder(c)'
      BY <1>1, <1>4, <1>5 DEF AtBus, BusInOrder, IpcInv, OrderInv
  <2>3. BrokerInOrder'
      BY <1>1, <1>4, <1>5, <2>2 DEF BrokerInOrder, Locked, IpcInv, OrderInv, x
  <2> QED
      BY <1>1, <1>5, <2>1, <2>2, <2>3 DEF IpcInv, OrderInv
<1>6. CASE inbox' = [inbox EXCEPT ![b] = Append(@, x)]
  <2>1. \A m \in Numbers(inbox[b]) : m < x
      BY <1>3 DEF AtBus
  <2>2. /\ Append(inbox[b], x) \in Seq(Int)
        /\ Increasing(Append(inbox[b], x))
        /\ Numbers(Append(inbox[b], x)) = Numbers(inbox[b]) \cup {x}
      BY <1>3, <2>1, AppendNumber
  <2>3. /\ inbox' \in [Nodes -> Seq(Int)]
        /\ \A n \in Nodes : Increasing(inbox'[n])
        /\ Numbers(inbox'[b]) = Numbers(inbox[b]) \cup {x}
        /\ \A n \in Nodes \ {b} : inbox'[n] = inbox[n]
      BY <1>2, <1>6, <2>2 DEF IpcInv, IpcTypeOK, OrderInv
  <2>4. IpcTypeOK'
      BY <1>1, <1>4, <2>3 DEF IpcInv, IpcTypeOK
  <2>5. AtBus(b)' = AtBus(b) \cup {x} /\ \A c \in Buses \ {b} : AtBus(c)' = AtBus(c)
      BY <1>1, <1>2, <1>4, <2>3 DEF AtBus
  <2>6. \A c \in Buses \ {b} : BusInOrder(c)'
      BY <1>1, <1>2, <1>4, <2>3 DEF BusInOrder, IpcInv, OrderInv
  <2>7. BusInOrder(b)'
      BY <1>1, <1>3, <1>4, <2>3 DEF BusInOrder, IpcInv, OrderInv, AtBus
  <2>8. inbox'[Broker] = inbox[Broker]
      BY <1>2, <2>3
  <2>9. \A c \in Buses : \A m \in AtBus(c)' :
           m <= published' /\ \A k \in Numbers(inbox'[Broker]) : m < k
      BY <1>1, <1>3, <2>5, <2>8 DEF IpcInv, OrderInv
  <2>10. BrokerInOrder'
    <3>1. \A c \in Buses : \A m \in AtBus(c) : m <= x /\ (c \in held[Broker].targets => m < x)
        BY <1>1 DEF BrokerInOrder, IpcInv, OrderInv, x
    <3>2. \A c \in Buses : \A m \in AtBus(c)' :
             m <= x /\ (c \in held'[Broker].targets => m < x)
        BY <1>3, <1>4, <2>5, <3>1
    <3> QED
        BY <1>1, <1>3, <1>4, <2>8, <3>2 DEF BrokerInOrder
  <2> QED
      BY <1>1, <2>3, <2>4, <2>6, <2>7, <2>8, <2>9, <2>10 DEF IpcInv, OrderInv
<1> QED
    BY <1>1, <1>5, <1>6 DEF x

\* A bus hands the message it holds to its handlers.
LEMMA BusDispatchKeeps ==
    ASSUME StopMarker = 0, Broker \notin Buses, IpcInv, NEW b \in Buses, Dispatch(b)
    PROVE  IpcInv'
<1> DEFINE x == held[b].message
<1>1. /\ thread[b] = "holding" /\ thread' = [thread EXCEPT ![b] = "checking"]
      /\ received' = [received EXCEPT ![b] = Append(@, x)]
      /\ UNCHANGED <<inbox, held, published, subscribers>>
    BY DEF Dispatch
<1>2. Broker \in Nodes /\ \A c \in Buses : c \in Nodes /\ c # Broker
    BY DEF Nodes
<1>3. /\ x \in Int /\ x # StopMarker /\ x \in AtBus(b)
      /\ received[b] \in Seq(Int) /\ Increasing(received[b])
      /\ \A m \in Numbers(received[b]) : m < x
      /\ \A k \in Numbers(inbox[b]) : x < k
    BY <1>1, <1>2 DEF IpcInv, IpcTypeOK, OrderInv, BusInOrder, AtBus
<1> HIDE DEF x
<1>4. /\ Append(received[b], x) \in Seq(Int)
      /\ Increasing(Append(received[b], x))
      /\ Numbers(Append(received[b], x)) = Numbers(received[b]) \cup {x}
    BY <1>3, AppendNumber
<1>5. \A i \in 1..Len(Append(received[b], x)) : Append(received[b], x)[i] # StopMarker
  <2>1. \A i \in 1..Len(received[b]) : received[b][i] # StopMarker
      BY DEF IpcInv, OrderInv, BusInOrder
  <2> QED
      BY <1>3, <2>1, AppendIndex
<1>6. /\ received' \in [Buses -> Seq(Int)] /\ received'[b] = Append(received[b], x)
      /\ \A c \in Buses \ {b} : received'[c] = received[c]
    BY <1>1, <1>4 DEF IpcInv, IpcTypeOK
<1>7. /\ thread' \in [Nodes -> {"none", "checking", "getting", "holding"}]
      /\ thread'[b] = "checking"
      /\ \A n \in Nodes \ {b} : thread'[n] = thread[n]
    BY <1>1, <1>2 DEF IpcInv, IpcTypeOK
<1>8. \A c \in Buses : AtBus(c)' \subseteq AtBus(c)
  <2>1. AtBus(b)' \subseteq AtBus(b)
      BY <1>1, <1>3, <1>4, <1>6, <1>7 DEF AtBus
  <2>2. \A c \in Buses \ {b} : AtBus(c)' = AtBus(c)
      BY <1>1, <1>2, <1>6, <1>7 DEF AtBus
  <2> QED
      BY <2>1, <2>2
<1>9. BusInOrder(b)'
    BY <1>1, <1>3, <1>4, <1>5, <1>6, <1>7 DEF BusInOrder, IpcInv, OrderInv
<1>10. \A c \in Buses \ {b} : BusInOrder(c)'
    BY <1>1, <1>2, <1>6, <1>7 DEF BusInOrder, IpcInv, OrderInv
<1>11. Locked' <=> Locked
    BY <1>2, <1>7 DEF Locked
<1>12. BrokerInOrder'
    BY <1>1, <1>8, <1>11 DEF BrokerInOrder, IpcInv, OrderInv
<1>13. IpcTypeOK'
    BY <1>1, <1>6, <1>7 DEF IpcInv, IpcTypeOK
<1> QED
    BY <1>1, <1>8, <1>9, <1>10, <1>12, <1>13 DEF IpcInv, OrderInv

\* What a bus hands to its handlers was published in that order, each message
\* once at most, across full queues, restarts and changes of the subscribers.
THEOREM MessagesInOrder ==
    ASSUME StopMarker = 0, Broker \notin Buses
    PROVE  IpcSpec => []ReceivedInOrder
<1>1. IpcInit => IpcInv
  <2> SUFFICES ASSUME IpcInit PROVE IpcInv
      OBVIOUS
  <2>1. IpcTypeOK
    <3>1. /\ inbox \in [Nodes -> Seq(Int)] /\ received \in [Buses -> Seq(Int)]
          /\ thread \in [Nodes -> {"none", "checking", "getting", "holding"}]
          /\ published \in Nat /\ subscribers \subseteq Buses
        BY DEF IpcInit
    <3>2. [message |-> StopMarker, targets |-> {}] \in [message : Int, targets : SUBSET Buses]
        OBVIOUS
    <3>3. held \in [Nodes -> [message : Int, targets : SUBSET Buses]]
        BY <3>2 DEF IpcInit
    <3> QED
        BY <3>1, <3>3 DEF IpcTypeOK
  <2>2. \A n \in Nodes : Len(inbox[n]) = 0 /\ thread[n] = "none"
      BY DEF IpcInit
  <2>3. \A b \in Buses : Len(received[b]) = 0
      BY DEF IpcInit
  <2>4. Broker \in Nodes /\ \A b \in Buses : b \in Nodes
      BY DEF Nodes
  <2>5. \A b \in Buses : AtBus(b) = {} /\ BusInOrder(b)
    <3> SUFFICES ASSUME NEW b \in Buses PROVE AtBus(b) = {} /\ BusInOrder(b)
        OBVIOUS
    <3>1. Numbers(received[b]) = {} /\ Numbers(inbox[b]) = {}
        BY <2>2, <2>3, <2>4 DEF Numbers
    <3>2. Increasing(received[b])
        BY <2>3 DEF Increasing
    <3> QED
        BY <2>2, <2>3, <2>4, <3>1, <3>2 DEF AtBus, BusInOrder
  <2>6. ~Locked /\ Numbers(inbox[Broker]) = {}
      BY <2>2, <2>4 DEF Locked, Numbers
  <2>7. \A n \in Nodes : Increasing(inbox[n])
      BY <2>2 DEF Increasing
  <2> QED
      BY <2>1, <2>5, <2>6, <2>7 DEF IpcInv, OrderInv, BrokerInOrder
<1>2. IpcInv /\ [IpcNext]_ipcVars => IpcInv'
  <2> SUFFICES ASSUME IpcInv, [IpcNext]_ipcVars PROVE IpcInv'
      OBVIOUS
  <2>1. CASE Publish
      BY <2>1, PublishKeeps
  <2>2. ASSUME NEW n \in Nodes, StopPuts(n) PROVE IpcInv'
      BY <2>2, MarkerKeeps
  <2>3. ASSUME NEW n \in Nodes, Get(n) PROVE IpcInv'
      BY <2>3, GetKeeps
  <2>4. ASSUME NEW b \in Buses, Forward(b) PROVE IpcInv'
      BY <2>4, BrokerForwardKeeps
  <2>5. ASSUME NEW b \in Buses, Dispatch(b) PROVE IpcInv'
      BY <2>5, BusDispatchKeeps
  <2>6. ASSUME NEW n \in Nodes, \/ Start(n) \/ StartThread(n) \/ StopSets(n) \/ StopReturns(n)
                                \/ Check(n) \/ GetTimesOut(n)
        PROVE  IpcInv'
    <3>1. UNCHANGED <<inbox, received, held, published, subscribers>>
        BY <2>6 DEF Start, StartThread, StopSets, StopReturns, Check, GetTimesOut, loop
    <3>2. /\ thread' \in [Nodes -> {"none", "checking", "getting", "holding"}]
          /\ \A x \in Nodes : thread'[x] = "holding" => thread[x] = "holding"
        BY <2>6 DEF Start, StartThread, StopSets, StopReturns, Check, GetTimesOut, loop,
                    IpcInv, IpcTypeOK
    <3>3. IpcTypeOK'
        BY <3>1, <3>2 DEF IpcInv, IpcTypeOK
    <3> QED
        BY <3>1, <3>2, <3>3, StillKeeps
  <2>7. CASE \/ Forwarded \/ UNCHANGED ipcVars
             \/ \E b \in Buses : AddSubscriber(b) \/ RemoveSubscriber(b)
    <3>1. UNCHANGED <<inbox, received, held, published>>
        BY <2>7 DEF Forwarded, AddSubscriber, RemoveSubscriber, loop, ipcVars
    <3>2. /\ thread' \in [Nodes -> {"none", "checking", "getting", "holding"}]
          /\ \A x \in Nodes : thread'[x] = "holding" => thread[x] = "holding"
        BY <2>7 DEF Forwarded, AddSubscriber, RemoveSubscriber, loop, ipcVars, IpcInv, IpcTypeOK
    <3>3. subscribers' \subseteq Buses
        BY <2>7 DEF Forwarded, AddSubscriber, RemoveSubscriber, ipcVars, IpcInv, IpcTypeOK
    <3>4. IpcTypeOK'
        BY <3>1, <3>2, <3>3 DEF IpcInv, IpcTypeOK
    <3> QED
        BY <3>1, <3>2, <3>4, StillKeeps
  <2> QED
      BY <2>1, <2>2, <2>3, <2>4, <2>5, <2>6, <2>7 DEF IpcNext, Loop, Copy
<1>3. IpcInv => ReceivedInOrder
  <2> SUFFICES ASSUME IpcInv, NEW b \in Buses, NEW i \in DOMAIN received[b],
                      NEW j \in DOMAIN received[b], i < j
               PROVE  received[b][i] < received[b][j]
      BY DEF ReceivedInOrder
  <2>1. received[b] \in Seq(Int)
      BY DEF IpcInv, IpcTypeOK
  <2>2. i \in 1..Len(received[b]) /\ j \in 1..Len(received[b])
      BY <2>1
  <2> QED
      BY <2>2 DEF IpcInv, OrderInv, BusInOrder, Increasing
<1> QED
    BY <1>1, <1>2, <1>3, PTL DEF IpcSpec

-----------------------------------------------------------------------------
(* EventDelivery. *)

USE DEF setup, subs, flow, calls, work, ends

\* A thread has one delivery at a time, and emissions are numbered.
TypeInv ==
    /\ emitted \in Nat
    /\ \A x \in accepted : x[1] \in 1..emitted
    /\ todo = [c \in Callers |-> todo[c]]
    /\ job = [t \in Threads |-> job[t]]
    /\ \A t \in Threads : \A x, y \in job[t] : x = y

\* What was accepted is somewhere, ...
TakenInv ==
    \A x : x \in accepted <=> \/ \E c \in Callers : x \in todo[c]
                              \/ \E t \in Threads : x \in job[t]
                              \/ x \in queue \/ x \in dlq \/ x \in Done

\* ... and nowhere else.
ApartInv ==
    /\ \A c \in Callers : \A x \in todo[c] :
         /\ \A d \in Callers \ {c} : x \notin todo[d]
         /\ \A t \in Threads : x \notin job[t]
         /\ x \notin queue /\ x \notin dlq /\ x \notin Done
    /\ \A t \in Threads : \A x \in job[t] :
         /\ \A u \in Threads \ {t} : x \notin job[u]
         /\ x \notin queue /\ x \notin dlq /\ x \notin Done
    /\ \A x \in queue : x \notin dlq /\ x \notin Done
    /\ \A x \in dlq : x \notin Done

IInv == TypeInv /\ TakenInv /\ ApartInv

\* Only a call that is emitting or reprocessing has deliveries left.
EmitInv ==
    /\ pc = [c \in Callers |-> pc[c]]
    /\ \A c \in Callers : pc[c] \notin {"emit", "reprocess"} => todo[c] = {}

\* The steps that move no delivery.
Still == UNCHANGED <<emitted, accepted, todo, job, queue, dlq, handled, reported, refused>>

\* Every step moves no delivery or is one of the moves named here.
LEMMA StillSteps ==
    ASSUME [Next]_vars
    PROVE  \/ Still
           \/ \E c \in Callers : Emit(c) \/ CallNext(c) \/ SubmitNext(c) \/ Reprocess(c)
           \/ \E w \in Workers : WorkerTakes(w)
           \/ \E t \in Threads : HandlerReturns(t) \/ HandlerParked(t) \/ HandlerReported(t)
<1>1. ASSUME NEW c \in Callers, NEW h \in Handlers,
             On(c, h) \/ Off(c, h) \/ OnMaps(c, h) \/ OffPops(c, h)
      PROVE  Still
    BY <1>1 DEF On, Off, OnMaps, OffPops, Still
<1>2. ASSUME NEW c \in Callers, Returns(c) \/ TellInner(c) \/ Shutdown(c) PROVE Still
    BY <1>2 DEF Returns, TellInner, Shutdown, Still
<1>3. ASSUME NEW t \in Threads, HandlerRetried(t) PROVE Still
    BY <1>3 DEF HandlerRetried, Still
<1>4. UNCHANGED vars => Still
    BY DEF vars, Still
<1> QED
    BY <1>1, <1>2, <1>3, <1>4 DEF Next, Deliver, Run

\* emit() and the pool's queue: deliveries appear with a number nobody had.
LEMMA EmitKeeps ==
    ASSUME IInv, NEW c \in Callers, Emit(c), todo[c] = {}
    PROVE  IInv'
<1> DEFINE new == {<<emitted + 1, r>> : r \in registry}
<1>1. /\ accepted' = accepted \cup new /\ emitted' = emitted + 1
      /\ UNCHANGED <<job, queue, dlq, handled, reported, refused>>
    BY DEF Emit
<1>2. /\ todo' = [b \in Callers |-> todo'[b]]
      /\ \A b \in Callers : todo'[b] = IF b = c THEN new ELSE todo[b]
    BY DEF Emit, IInv, TypeInv
<1>3. \A x \in new : x[1] = emitted + 1 /\ x \notin accepted
    BY DEF IInv, TypeInv
<1> HIDE DEF new
<1>4. TypeInv'
    BY <1>1, <1>2, <1>3 DEF IInv, TypeInv
<1>5. TakenInv'
    BY <1>1, <1>2 DEF IInv, TakenInv, Done
<1>6. ApartInv'
    BY <1>1, <1>2, <1>3 DEF IInv, TakenInv, ApartInv, Done
<1> QED
    BY <1>4, <1>5, <1>6 DEF IInv

\* A call or a pool thread takes one delivery into its hands.
LEMMA TakeKeeps ==
    ASSUME IInv, NEW t \in Threads, (CallNext(t) /\ t \in Callers) \/ WorkerTakes(t)
    PROVE  IInv'
<1>1. PICK d : /\ \A u \in Threads : job'[u] = IF u = t THEN {d} ELSE job[u]
               /\ \/ /\ t \in Callers /\ d \in todo[t] /\ queue' = queue
                     /\ \A b \in Callers : todo'[b] = IF b = t THEN todo[b] \ {d} ELSE todo[b]
                  \/ d \in queue /\ queue' = queue \ {d} /\ todo' = todo
    BY DEF CallNext, WorkerTakes, Take, IInv, TypeInv
<1>2. /\ job' = [u \in Threads |-> job'[u]] /\ todo' = [b \in Callers |-> todo'[b]]
      /\ job[t] = {} /\ UNCHANGED <<emitted, accepted, dlq, handled, reported, refused>>
    BY DEF CallNext, WorkerTakes, Take, IInv, TypeInv
<1>3. TypeInv'
    BY <1>1, <1>2 DEF IInv, TypeInv
<1>4. TakenInv'
    BY <1>1, <1>2 DEF IInv, TakenInv, Done
<1>5. ApartInv'
    BY <1>1, <1>2 DEF IInv, ApartInv, Done
<1> QED
    BY <1>3, <1>4, <1>5 DEF IInv

\* What SubmitNext takes out of a caller's list goes to one place.
LEMMA SubmitMoves ==
    ASSUME IInv, NEW c \in Callers, SubmitNext(c)
    PROVE  \E part : /\ part \subseteq todo[c]
                     /\ \A b \in Callers : todo'[b] = IF b = c THEN todo[b] \ part ELSE todo[b]
                     /\ \/ queue' = queue \cup part /\ refused' = refused
                        \/ queue' = queue /\ refused' = refused \cup part
<1>0. todo = [b \in Callers |-> todo[b]]
    BY DEF IInv, TypeInv
<1>1. CASE closed
  <2>1. /\ queue' = queue /\ refused' = refused \cup todo[c]
        /\ todo' = [todo EXCEPT ![c] = {}]
      BY <1>1 DEF SubmitNext
  <2>2. \A b \in Callers : todo'[b] = IF b = c THEN todo[b] \ todo[c] ELSE todo[b]
      BY <1>0, <2>1
  <2> QED
      BY <2>1, <2>2
<1>2. CASE ~closed
  <2>1. PICK d \in todo[c] : /\ queue' = queue \cup {d} /\ refused' = refused
                             /\ todo' = [todo EXCEPT ![c] = @ \ {d}]
      BY <1>2 DEF SubmitNext
  <2>2. \A b \in Callers : todo'[b] = IF b = c THEN todo[b] \ {d} ELSE todo[b]
      BY <1>0, <2>1
  <2>3. {d} \subseteq todo[c]
      BY <2>1
  <2> QED
      BY <2>1, <2>2, <2>3
<1> QED
    BY <1>1, <1>2

\* emit() hands a delivery to the pool, or loses what is left to a closed one.
LEMMA SubmitKeeps ==
    ASSUME IInv, NEW c \in Callers, SubmitNext(c)
    PROVE  IInv'
<1>1. PICK part : /\ part \subseteq todo[c]
                  /\ \A b \in Callers : todo'[b] = IF b = c THEN todo[b] \ part ELSE todo[b]
                  /\ \/ queue' = queue \cup part /\ refused' = refused
                     \/ queue' = queue /\ refused' = refused \cup part
    BY SubmitMoves
<1>2. /\ todo' = [b \in Callers |-> todo'[b]]
      /\ UNCHANGED <<job, emitted, accepted, dlq, handled, reported>>
    BY DEF SubmitNext, IInv, TypeInv
<1>3. TypeInv'
    BY <1>1, <1>2 DEF IInv, TypeInv
<1>4. TakenInv'
    BY <1>1, <1>2 DEF IInv, TakenInv, Done
<1>5. ApartInv'
    BY <1>1, <1>2 DEF IInv, ApartInv, Done
<1> QED
    BY <1>3, <1>4, <1>5 DEF IInv

\* The handler's run ends: the delivery leaves the thread's hands.
LEMMA EndKeeps ==
    ASSUME IInv, NEW t \in Threads, HandlerReturns(t) \/ HandlerParked(t) \/ HandlerReported(t)
    PROVE  IInv'
<1>1. /\ \A u \in Threads : job'[u] = IF u = t THEN {} ELSE job[u]
      /\ job' = [u \in Threads |-> job'[u]]
      /\ UNCHANGED <<emitted, accepted, todo, queue, refused>>
      /\ \/ dlq' = dlq \cup job[t] /\ Done' = Done
         \/ dlq' = dlq /\ Done' = Done \cup job[t]
    BY DEF HandlerReturns, HandlerParked, HandlerReported, Done, IInv, TypeInv
<1>2. TypeInv'
    BY <1>1 DEF IInv, TypeInv
<1>3. TakenInv'
    BY <1>1 DEF IInv, TakenInv
<1>4. ApartInv'
    BY <1>1 DEF IInv, ApartInv
<1> QED
    BY <1>2, <1>3, <1>4 DEF IInv

\* reprocess() takes every dead letter at once.
LEMMA ReprocessKeeps ==
    ASSUME IInv, NEW c \in Callers, Reprocess(c), todo[c] = {}
    PROVE  IInv'
<1>1. /\ \A b \in Callers : todo'[b] = IF b = c THEN dlq ELSE todo[b]
      /\ todo' = [b \in Callers |-> todo'[b]]
      /\ dlq' = {} /\ UNCHANGED <<emitted, accepted, job, queue, handled, reported, refused>>
    BY DEF Reprocess, DlqAfterSwap, IInv, TypeInv
<1>2. TypeInv'
    BY <1>1 DEF IInv, TypeInv
<1>3. TakenInv'
    BY <1>1 DEF IInv, TakenInv, Done
<1>4. ApartInv'
    BY <1>1 DEF IInv, ApartInv, Done
<1> QED
    BY <1>2, <1>3, <1>4 DEF IInv

\* A call that returns has emptied its list.
LEMMA CallKeeps ==
    ASSUME EmitInv, IInv, [Next]_vars
    PROVE  EmitInv'
<1> USE DEF EmitInv
<1>1. todo = [c \in Callers |-> todo[c]]
    BY DEF IInv, TypeInv
<1>2. ASSUME NEW c \in Callers, NEW h \in Handlers,
             On(c, h) \/ Off(c, h) \/ OnMaps(c, h) \/ OffPops(c, h)
      PROVE  EmitInv'
    BY <1>2 DEF On, Off, OnMaps, OffPops
<1>3. ASSUME NEW c \in Callers, Emit(c) \/ Reprocess(c) \/ Shutdown(c)
      PROVE  EmitInv'
    BY <1>1, <1>3 DEF Emit, Reprocess, Shutdown
<1>4. ASSUME NEW c \in Callers, Returns(c) \/ TellInner(c) PROVE EmitInv'
    BY <1>4 DEF Returns, TellInner
<1>5. ASSUME NEW c \in Callers, CallNext(c) \/ SubmitNext(c) PROVE EmitInv'
  <2>1. /\ pc' = pc /\ pc[c] \in {"emit", "reprocess"}
        /\ \A b \in Callers \ {c} : todo'[b] = todo[b]
    <3>1. CASE CallNext(c)
        BY <1>1, <3>1 DEF CallNext
    <3>2. CASE SubmitNext(c)
        BY <1>1, <3>2 DEF SubmitNext
    <3> QED
        BY <1>5, <3>1, <3>2
  <2> QED
    BY <2>1
<1>6. ASSUME NEW t \in Threads, Run(t) PROVE EmitInv'
    BY <1>6 DEF Run, HandlerReturns, HandlerRetried, HandlerParked, HandlerReported
<1>7. ASSUME NEW w \in Workers, WorkerTakes(w) PROVE EmitInv'
    BY <1>7 DEF WorkerTakes
<1>8. CASE UNCHANGED vars
    BY <1>8 DEF vars
<1> QED
    BY <1>2, <1>3, <1>4, <1>5, <1>6, <1>7, <1>8 DEF Next, Deliver

\* A new bus holds nothing.
LEMMA StartsRight == Init => IInv /\ EmitInv
    BY DEF Init, IInv, TypeInv, TakenInv, ApartInv, EmitInv, Done

\* Every step keeps every delivery in one place.
LEMMA Inductive ==
    ASSUME IInv, EmitInv, [Next]_vars
    PROVE  IInv'
<1>1. CASE Still
    BY <1>1 DEF Still, IInv, TypeInv, TakenInv, ApartInv, Done
<1>2. ASSUME NEW c \in Callers, Emit(c) \/ Reprocess(c) PROVE IInv'
  <2>1. todo[c] = {}
    BY <1>2 DEF Emit, Reprocess, EmitInv
  <2> QED
    BY <1>2, <2>1, EmitKeeps, ReprocessKeeps
<1>3. Callers \subseteq Threads /\ Workers \subseteq Threads
    BY DEF Threads
<1> QED
    BY <1>1, <1>2, <1>3, StillSteps, TakeKeeps, SubmitKeeps, EndKeeps

\* An accepted delivery is in exactly one place: a call's list, a thread's
\* hands, the pool's queue, the dead letters, or done with.
THEOREM PlacesCorrect == Spec => [](IInv /\ EmitInv)
<1>1. IInv /\ EmitInv /\ [Next]_vars => (IInv /\ EmitInv)'
    BY Inductive, CallKeeps
<1> QED
    BY <1>1, StartsRight, PTL DEF Spec

\* The invariant is what DeliveredOnce says of the named places.
LEMMA OnePlace == IInv => DeliveredOnce
<1> SUFFICES ASSUME IInv PROVE DeliveredOnce
    OBVIOUS
<1> DEFINE Here == [in : {"call", "thread"}, of : Threads]
           Rest == [in : {"queue", "dlq", "done"}]
<1>1. /\ \A t \in Threads : Held([in |-> "thread", of |-> t]) = job[t]
      /\ \A t \in Threads : Held([in |-> "call", of |-> t]) = IF t \in Callers THEN todo[t] ELSE {}
      /\ Held([in |-> "queue"]) = queue /\ Held([in |-> "dlq"]) = dlq
      /\ Held([in |-> "done"]) = Done
    BY DEF Held
<1>2. \A p \in Places : \/ \E t \in Threads : p = [in |-> "thread", of |-> t]
                        \/ \E t \in Threads : p = [in |-> "call", of |-> t]
                        \/ p \in {[in |-> "queue"], [in |-> "dlq"], [in |-> "done"]}
    BY DEF Places
<1>3. /\ \A t \in Threads : /\ [in |-> "thread", of |-> t] \in Places
                            /\ [in |-> "call", of |-> t] \in Places
      /\ {[in |-> "queue"], [in |-> "dlq"], [in |-> "done"]} \subseteq Places
    BY DEF Places
<1>4. Callers \subseteq Threads
    BY DEF Threads
<1>5. accepted = UNION {Held(p) : p \in Places}
  <2>1. ASSUME NEW x \in accepted PROVE \E p \in Places : x \in Held(p)
      BY <1>1, <1>3, <1>4 DEF IInv, TakenInv
  <2>2. ASSUME NEW p \in Places, NEW x \in Held(p) PROVE x \in accepted
      BY <1>1, <1>2 DEF IInv, TakenInv
  <2> QED
      BY <2>1, <2>2
<1>6. ASSUME NEW p \in Places, NEW q \in Places, NEW x, x \in Held(p), x \in Held(q)
      PROVE  p = q
    BY <1>1, <1>2, <1>6 DEF IInv, ApartInv
<1> QED
    BY <1>5, <1>6 DEF DeliveredOnce

\* Nothing an emission took on is ever lost or held twice, for any number of
\* callers, pool threads, retries and emissions.
THEOREM NothingLost == Spec => []DeliveredOnce
    BY PlacesCorrect, OnePlace, PTL

\* Every step is a step of Delivery, or changes nothing it speaks of.
LEMMA StepKeepsPromise ==
    ASSUME IInv, EmitInv, [Next]_vars
    PROVE  [Promise!Next]_(Promise!vars)
<1> USE DEF Promise!Next, Promise!vars
<1>0. \A x : x \in Pending <=> \/ \E c \in Callers : x \in todo[c]
                               \/ \E t \in Threads : x \in job[t]
                               \/ x \in queue
    <2> DEFINE C == UNION {todo[c] : c \in Callers}
               T == UNION {job[t] : t \in Threads}
    <2>1. Pending = C \cup T \cup queue
        BY DEF Pending
    <2>2. \A x : x \in C <=> \E c \in Callers : x \in todo[c]
        OBVIOUS
    <2>3. \A x : x \in T <=> \E t \in Threads : x \in job[t]
        OBVIOUS
    <2> HIDE DEF C, T
    <2> QED
        BY <2>1, <2>2, <2>3
<1>p. \A x : x \in Pending' <=> \/ \E c \in Callers : x \in todo'[c]
                                \/ \E t \in Threads : x \in job'[t]
                                \/ x \in queue'
    <2> DEFINE C == UNION {todo'[c] : c \in Callers}
               T == UNION {job'[t] : t \in Threads}
    <2>1. Pending' = C \cup T \cup queue'
        BY DEF Pending
    <2>2. \A x : x \in C <=> \E c \in Callers : x \in todo'[c]
        OBVIOUS
    <2>3. \A x : x \in T <=> \E t \in Threads : x \in job'[t]
        OBVIOUS
    <2> HIDE DEF C, T
    <2> QED
        BY <2>1, <2>2, <2>3
<1>1. CASE Still
    BY <1>1 DEF Still, Pending, Done
<1>2. ASSUME NEW c \in Callers, Emit(c) PROVE Promise!Accept
  <2> DEFINE new == {<<emitted + 1, r>> : r \in registry}
  <2>1. /\ \A b \in Callers : todo'[b] = IF b = c THEN new ELSE todo[b]
        /\ todo[c] = {} /\ UNCHANGED <<job, queue, dlq, handled, reported, refused>>
    BY <1>2 DEF Emit, IInv, TypeInv, EmitInv
  <2>2. \A x \in new : x \notin accepted
    BY DEF IInv, TypeInv
  <2> HIDE DEF new
  <2>3. Pending' = Pending \cup new
    BY <2>1 DEF Pending
  <2>4. Done' = Done
    BY <2>1 DEF Done
  <2> QED
    BY <2>1, <2>2, <2>3, <2>4 DEF Promise!Accept, IInv, TakenInv
<1>3. ASSUME NEW t \in Threads, (CallNext(t) /\ t \in Callers) \/ WorkerTakes(t)
      PROVE  UNCHANGED Promise!vars
  <2>1. PICK d : /\ \A u \in Threads : job'[u] = IF u = t THEN {d} ELSE job[u]
                 /\ \/ /\ t \in Callers /\ d \in todo[t] /\ queue' = queue
                       /\ \A b \in Callers : todo'[b] = IF b = t THEN todo[b] \ {d} ELSE todo[b]
                    \/ d \in queue /\ queue' = queue \ {d} /\ todo' = todo
    BY <1>3 DEF CallNext, WorkerTakes, Take, IInv, TypeInv
  <2>2. job[t] = {} /\ UNCHANGED <<dlq, handled, reported, refused>>
    BY <1>3 DEF CallNext, WorkerTakes
  <2>3. Pending' = Pending
    BY <1>0, <1>p, <2>1, <2>2
  <2> QED
    BY <2>2, <2>3 DEF Done
<1>4. ASSUME NEW c \in Callers, SubmitNext(c)
      PROVE  Promise!Finish
  <2>1. PICK part : /\ part \subseteq todo[c]
                    /\ \A b \in Callers : todo'[b] = IF b = c THEN todo[b] \ part ELSE todo[b]
                    /\ \/ queue' = queue \cup part /\ refused' = refused
                       \/ queue' = queue /\ refused' = refused \cup part
    BY <1>4, SubmitMoves
  <2>2. UNCHANGED <<job, dlq, handled, reported>>
    BY <1>4 DEF SubmitNext
  <2>3. CASE queue' = queue \cup part /\ refused' = refused
    <3>1. \A x : (\E b \in Callers : x \in todo'[b]) \/ x \in part
                 <=> \E b \in Callers : x \in todo[b]
        BY <2>1
    <3>2. \A x : x \in Pending' <=> x \in Pending
        BY <1>0, <1>p, <2>2, <2>3, <3>1
    <3>3. Pending' = Pending
        BY <3>2
    <3> QED
        BY <2>2, <2>3, <3>3 DEF Promise!Finish, Done
  <2>4. CASE queue' = queue /\ refused' = refused \cup part
    <3>0. \A x \in part : /\ \A b \in Callers : x \notin todo'[b]
                          /\ \A t \in Threads : x \notin job[t]
                          /\ x \notin queue
        BY <2>1 DEF IInv, ApartInv
    <3>p. \A x : x \notin part => \A b \in Callers : x \in todo'[b] <=> x \in todo[b]
        BY <2>1
    <3>1. \A x : x \in Pending' <=> x \in Pending /\ x \notin part
        BY <1>0, <1>p, <2>2, <2>4, <3>0, <3>p
    <3>2. part \subseteq Pending
        BY <1>0, <2>1
    <3>3. Pending' = Pending \ part
        BY <3>1
    <3>4. Pending \ Pending' = part
        BY <3>2, <3>3
    <3> QED
        BY <2>2, <2>4, <3>3, <3>4 DEF Promise!Finish, Done
  <2> QED
    BY <2>1, <2>3, <2>4
<1>5. ASSUME NEW t \in Threads, HandlerReturns(t) \/ HandlerParked(t) \/ HandlerReported(t)
      PROVE  Promise!Finish \/ Promise!Park
  <2>1. /\ \A u \in Threads : job'[u] = IF u = t THEN {} ELSE job[u]
        /\ UNCHANGED <<todo, queue>>
    BY <1>5 DEF HandlerReturns, HandlerParked, HandlerReported, IInv, TypeInv
  <2>2. PICK d : job[t] = {d}
    <3>1. PICK d \in job[t] : \A x \in job[t] : x = d
        BY <1>5 DEF HandlerReturns, HandlerParked, HandlerReported, IInv, TypeInv
    <3> QED
        BY <3>1
  <2>3. Pending' = Pending \ {d} /\ d \in Pending
    BY <1>0, <1>p, <2>1, <2>2 DEF IInv, ApartInv
  <2>4. \/ dlq' = dlq \cup {d} /\ Done' = Done
        \/ dlq' = dlq /\ Done' = Done \cup {d}
    BY <1>5, <2>2 DEF HandlerReturns, HandlerParked, HandlerReported, Done
  <2>5. Pending \ Pending' = {d} /\ Pending' \subseteq Pending
    BY <2>3
  <2> QED
    BY <2>3, <2>4, <2>5 DEF Promise!Finish, Promise!Park
<1>6. ASSUME NEW c \in Callers, Reprocess(c) PROVE Promise!Reprocess
  <2>1. /\ \A b \in Callers : todo'[b] = IF b = c THEN dlq ELSE todo[b]
        /\ todo[c] = {} /\ dlq' = {}
        /\ UNCHANGED <<job, queue, handled, reported, refused>>
    BY <1>6 DEF Reprocess, DlqAfterSwap, IInv, TypeInv, EmitInv
  <2>2. Pending' = Pending \cup dlq
    BY <2>1 DEF Pending
  <2> QED
    BY <2>1, <2>2 DEF Promise!Reprocess, Done
<1>7. Callers \subseteq Threads /\ Workers \subseteq Threads
    BY DEF Threads
<1> QED
    BY <1>1, <1>2, <1>3, <1>4, <1>5, <1>6, <1>7, StillSteps

\* The buses implement Delivery: every step of a bus accepts deliveries,
\* finishes them, parks one, takes the parked ones back, or changes none.
THEOREM BusesKeepPromise == Spec => KeepsPromise
<1>1. Init => Promise!Init
    BY DEF Init, Promise!Init, Pending, Done
<1>2. IInv /\ EmitInv /\ [Next]_vars => [Promise!Next]_(Promise!vars)
    BY StepKeepsPromise
<1> QED
    BY <1>1, <1>2, PlacesCorrect, PTL DEF Spec, KeepsPromise, Promise!Spec

\* A wrapper that off() still has to take from the inner bus is not mapped any
\* more, and wrapper numbers are never used again.
WrapperInv ==
    /\ made \in Nat
    /\ pc = [c \in Callers |-> pc[c]] /\ arg = [c \in Callers |-> arg[c]]
    /\ ~resilient => DOMAIN wrapperMap = {}
    /\ \A h \in DOMAIN wrapperMap : wrapperMap[h] \in 1..made
    /\ \A c \in Callers : pc[c] = "off" =>
         /\ \A r \in arg[c] : r[2] \in 1..made
         /\ \A h \in DOMAIN wrapperMap : <<h, wrapperMap[h]>> \notin arg[c]

\* The steps that leave registrations alone, and who is changing them.
LEMMA NoChangeKeeps ==
    ASSUME WrapperInv, MappedIsSubscribed, UNCHANGED <<setup, subs, arg>>,
           pc' = [c \in Callers |-> pc'[c]],
           \A c \in Callers : pc'[c] # pc[c] => {pc[c], pc'[c]} \cap {"on", "off"} = {}
    PROVE  WrapperInv' /\ MappedIsSubscribed'
    BY DEF WrapperInv, MappedIsSubscribed

\* on() and off() keep what they map subscribed, or about to be.
LEMMA SubscribingKeeps ==
    ASSUME WrapperInv, MappedIsSubscribed, NEW c \in Callers, NEW h \in Handlers,
           On(c, h) \/ Off(c, h) \/ OnMaps(c, h) \/ OffPops(c, h)
    PROVE  WrapperInv' /\ MappedIsSubscribed'
<1> USE DEF WrapperInv, MappedIsSubscribed
<1>1. CASE On(c, h) \/ Off(c, h)
    BY <1>1 DEF On, Off
<1>2. CASE OnMaps(c, h)
  <2>1. /\ made' = made + 1 /\ DOMAIN wrapperMap' = DOMAIN wrapperMap \cup {h}
        /\ \A x \in DOMAIN wrapperMap \cup {h} :
             wrapperMap'[x] = IF x = h THEN made + 1 ELSE wrapperMap[x]
        /\ pc[c] = "idle" /\ resilient /\ UNCHANGED <<resilient, registry>>
        /\ pc' = [pc EXCEPT ![c] = "on"] /\ arg' = [arg EXCEPT ![c] = {<<h, made + 1>>}]
      BY <1>2 DEF OnMaps
  <2>0. \A d \in Callers : pc'[d] = "off" => d # c /\ pc[d] = "off" /\ arg'[d] = arg[d]
      BY <2>1
  <2>a. \A d \in Callers : pc[d] = "off" => <<h, made + 1>> \notin arg[d]
    <3>1. <<h, made + 1>>[2] = made + 1
        OBVIOUS
    <3> QED
        BY <3>1
  <2>b. \A d \in Callers : pc'[d] = "off" =>
           /\ \A r \in arg'[d] : r[2] \in 1..made'
           /\ \A x \in DOMAIN wrapperMap' : <<x, wrapperMap'[x]>> \notin arg'[d]
      BY <2>0, <2>1, <2>a
  <2>d. made' \in Nat /\ \A x \in DOMAIN wrapperMap' : wrapperMap'[x] \in 1..made'
      BY <2>1
  <2>e. pc' = [d \in Callers |-> pc'[d]] /\ arg' = [d \in Callers |-> arg'[d]]
      BY <2>1
  <2>2. WrapperInv'
      BY <2>1, <2>b, <2>d, <2>e
  <2>3. MappedIsSubscribed'
      BY <2>1
  <2> QED
      BY <2>2, <2>3
<1>3. CASE OffPops(c, h)
  <2>1. /\ made' = made /\ DOMAIN wrapperMap' = DOMAIN wrapperMap \ {h}
        /\ \A x \in DOMAIN wrapperMap \ {h} : wrapperMap'[x] = wrapperMap[x]
        /\ pc[c] = "idle" /\ resilient /\ h \in DOMAIN wrapperMap /\ UNCHANGED <<resilient, registry>>
        /\ pc' = [pc EXCEPT ![c] = "off"] /\ arg' = [arg EXCEPT ![c] = {<<h, wrapperMap[h]>>}]
      BY <1>3 DEF OffPops
  <2>0. \A d \in Callers \ {c} : pc'[d] = pc[d] /\ arg'[d] = arg[d]
      BY <2>1
  <2>a. /\ arg'[c] = {<<h, wrapperMap[h]>>} /\ <<h, wrapperMap[h]>>[2] \in 1..made
        /\ \A x \in DOMAIN wrapperMap' : <<x, wrapperMap'[x]>> # <<h, wrapperMap[h]>>
      BY <2>1
  <2>b. \A d \in Callers : pc'[d] = "off" =>
           /\ \A r \in arg'[d] : r[2] \in 1..made'
           /\ \A x \in DOMAIN wrapperMap' : <<x, wrapperMap'[x]>> \notin arg'[d]
      BY <2>0, <2>1, <2>a
  <2>2. WrapperInv'
      BY <2>1, <2>b
  <2>3. MappedIsSubscribed'
      BY <2>1
  <2> QED
      BY <2>2, <2>3
<1> QED
    BY <1>1, <1>2, <1>3

\* The second half of on() and off().
LEMMA TellKeeps ==
    ASSUME WrapperInv, MappedIsSubscribed, NEW c \in Callers, TellInner(c)
    PROVE  WrapperInv' /\ MappedIsSubscribed'
<1> USE DEF WrapperInv, MappedIsSubscribed
<1>1. /\ UNCHANGED <<resilient, made, wrapperMap>>
      /\ pc' = [pc EXCEPT ![c] = "idle"] /\ arg' = [arg EXCEPT ![c] = {}]
      /\ \/ pc[c] = "on" /\ registry' = registry \cup arg[c]
         \/ pc[c] = "off" /\ registry' = registry \ arg[c]
    BY DEF TellInner, Subscribed, Unsubscribed
<1>2. WrapperInv'
    BY <1>1
<1>3. MappedIsSubscribed'
    BY <1>1
<1> QED
    BY <1>2, <1>3

\* However calls of on() and off() interleave, a wrapper in _wrapper_map is
\* subscribed on the inner bus, or its on() is about to subscribe it.
THEOREM MapsCorrect == Spec => []MappedIsSubscribed
<1>1. Init => WrapperInv /\ MappedIsSubscribed
    BY DEF Init, WrapperInv, MappedIsSubscribed
<1>2. ASSUME WrapperInv, MappedIsSubscribed, [Next]_vars
      PROVE  WrapperInv' /\ MappedIsSubscribed'
  <2>1. ASSUME NEW c \in Callers, Emit(c) \/ Reprocess(c) \/ Returns(c)
        PROVE  WrapperInv' /\ MappedIsSubscribed'
    <3>1. /\ UNCHANGED <<setup, subs, arg>>
          /\ \E x \in {"idle", "emit", "reprocess"} : pc' = [pc EXCEPT ![c] = x]
          /\ pc[c] \in {"idle", "emit", "reprocess"}
        BY <2>1 DEF Emit, Reprocess, Returns
    <3> QED
        BY <1>2, <3>1, NoChangeKeeps DEF WrapperInv
  <2>2. ASSUME UNCHANGED <<setup, subs, arg, pc>>
        PROVE  WrapperInv' /\ MappedIsSubscribed'
      BY <1>2, <2>2, NoChangeKeeps DEF WrapperInv
  <2>3. ASSUME NEW c \in Callers, CallNext(c) \/ SubmitNext(c) \/ Shutdown(c)
        PROVE  UNCHANGED <<setup, subs, arg, pc>>
      BY <2>3 DEF CallNext, SubmitNext, Shutdown
  <2>4. ASSUME NEW t \in Threads, Run(t) PROVE UNCHANGED <<setup, subs, arg, pc>>
      BY <2>4 DEF Run, HandlerReturns, HandlerRetried, HandlerParked, HandlerReported
  <2>5. ASSUME NEW w \in Workers, WorkerTakes(w) PROVE UNCHANGED <<setup, subs, arg, pc>>
      BY <2>5 DEF WorkerTakes
  <2>6. CASE UNCHANGED vars
      BY <2>2, <2>6 DEF vars
  <2>7. ASSUME NEW c \in Callers, TellInner(c) PROVE WrapperInv' /\ MappedIsSubscribed'
      BY <1>2, <2>7, TellKeeps
  <2> QED
      BY <1>2, <2>1, <2>2, <2>3, <2>4, <2>5, <2>6, <2>7, SubscribingKeeps DEF Next, Deliver
<1> QED
    BY <1>1, <1>2, PTL DEF Spec
=============================================================================
