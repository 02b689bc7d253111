----------------------------- MODULE WireCodec -----------------------------
(***************************************************************************)
(* The trace protocol's messages (extensions/audit/contracts.py): what     *)
(* to_dict() puts on the wire, what from_dict() makes of it, and what      *)
(* mask_config() keeps off it.                                             *)
(*                                                                         *)
(* A field's value is told apart only as far as the code does: None, empty *)
(* (0, "", False, an empty tuple or dict), or some other value.  A schema  *)
(* says for each field of a class when to_dict() leaves it out, and what   *)
(* from_dict() takes when it is missing.                                   *)
(***************************************************************************)

Fields(keys, omit, default, values) ==
    [k \in keys |-> [omit |-> omit, default |-> default, values |-> values]]

\* The fields of two parts of a class together.
s ++ t == [k \in DOMAIN s \cup DOMAIN t |-> IF k \in DOMAIN s THEN s[k] ELSE t[k]]

Plain == {"empty", "some"}

\* Always sent and always read: data["k"].
Required(keys) == Fields(keys, {}, "error", Plain)
\* Always sent, with a default for a peer that does not: data.get("k", 0).
Sent(keys) == Fields(keys, {}, "empty", Plain)
\* Sent even when None, as null: data.get("k").
Nullable(keys) == Fields(keys, {}, "none", {"none", "some"})
\* Left out when falsy: if self.k.
Sparse(keys) == Fields(keys, {"none", "empty"}, "empty", Plain)
\* Left out when None only: if self.k is not None.
Optional(keys) == Fields(keys, {"none"}, "none", {"none", "empty", "some"})

TraceRecordSchema == Required({"t", "kind", "lane", "name"})
                       ++ Sparse({"cat", "cid", "dur"}) ++ Optional({"args"})
HelloSchema == Required({"protocol_version"})
                 ++ Sent({"epoch_wall_ns", "clock_resolution_ns", "capacity",
                          "dropped_before_connect", "lanes"})
EnvelopeSchema == Required({"type", "seq"}) ++ Nullable({"data"})
FindingSchema == Required({"check", "severity", "subject", "message"}) ++ Optional({"hint"})
LifecycleSchema == Sent({"state", "transitions", "extensions_registered",
                         "extensions_initialized", "hosted_registered", "hosted_started",
                         "scheduler_jobs", "scheduler_jobs_without_next_run"})
EventSchema == Required({"name"})
                 ++ Sent({"module", "handlers", "emits", "failures", "registered"})
RegistrationSchema == Required({"abstract"}) ++ Nullable({"concrete"})
                        ++ Sent({"lifetime", "instantiated"})
ContainerSchema == Sent({"registrations", "open_scopes"})
TaskSchema == Required({"id"}) ++ Sent({"name", "state", "progress", "age_ns", "thread", "error"})
PoolSchema == Required({"name"})
                ++ Sent({"max_workers", "in_flight", "queue_depth", "submitted", "completed"})
BoundedSchema == Sent({"ring_used", "ring_capacity", "ring_dropped", "retained_tasks",
                       "retained_task_limit", "subscriptions", "gc_counts"})
DeadLetterSchema == Required({"event_name"})
                      ++ Sent({"handler", "exception_type", "exception_message",
                               "payload_repr", "retries", "parked_at_ns"})
TransitionSchema == Required({"from_state"}) ++ Sent({"to_state", "event", "rejected", "at_ns"})
MachineSchema == Required({"name"}) ++ Sent({"current_state", "transitions", "rejected_count"})
UiThreadSchema == Sent({"freeze_count", "worst_freeze_ms", "off_thread_mutation_count"})
SignalsSchema == Sparse({"dead_letters", "state_machines"}) ++ Optional({"ui_thread"})
SnapshotSchema == Sent({"t"}) ++ Optional({"lifecycle", "container", "bounded", "signals"})
                    ++ Sparse({"events", "tasks", "thread_pools", "config", "findings"})
\* The value of a masked entry is sent neither as a value nor as null.
ConfigSchema == Required({"key"}) ++ Sent({"masked"}) ++ Sparse({"source"})
                  ++ Optional({"value"})

Schemas == {TraceRecordSchema, HelloSchema, EnvelopeSchema, FindingSchema, LifecycleSchema,
            EventSchema, RegistrationSchema, ContainerSchema, TaskSchema, PoolSchema,
            BoundedSchema, DeadLetterSchema, TransitionSchema, MachineSchema,
            UiThreadSchema, SignalsSchema, SnapshotSchema}

Records(schema) == {r \in [DOMAIN schema -> {"none", "empty", "some"}] :
                        \A k \in DOMAIN schema : r[k] \in schema[k].values}

ToDict(schema, r) ==
    [k \in {x \in DOMAIN schema : r[x] \notin schema[x].omit} |-> r[k]]

FromDict(schema, data) ==
    [k \in DOMAIN schema |-> IF k \in DOMAIN data THEN data[k] ELSE schema[k].default]
----------------------------------------------------------------------------
VARIABLES
    schema,  \* the class of the message
    sent,    \* what the engine sends
    data,    \* the dictionary on the wire
    got,     \* what the consumer builds from it
    secret   \* does the message hold a credential

codecVars == <<schema, sent, data, got, secret>>
Nothing == <<>>

CodecInit == schema = Nothing /\ sent = Nothing /\ data = Nothing /\ got = Nothing /\ secret = FALSE

IsSecret_ByName(named, userinfo) == named

\* A credential is told by the key's name or by user:password@ in the value.
IsSecret(named, userinfo) == named \/ userinfo

\* mask_config(): the value stays behind, unless the producer was told to
\* reveal it.
MaskedEntry(named, userinfo, reveal, source, value) ==
    LET masked == IsSecret(named, userinfo) /\ ~reveal IN
    [key |-> "some", source |-> source,
     value |-> IF masked THEN "none" ELSE value,
     masked |-> IF masked THEN "some" ELSE "empty"]

SendConfig ==
    /\ schema = Nothing
    /\ \E named, userinfo, reveal \in BOOLEAN, source, value \in Plain :
        /\ userinfo => value = "some"
        /\ schema' = ConfigSchema
        /\ sent' = MaskedEntry(named, userinfo, reveal, source, value)
        /\ secret' = ((named \/ userinfo) /\ ~reveal)
        /\ data' = ToDict(schema', sent')
        /\ got' = got

SendRecord ==
    /\ schema = Nothing
    /\ \E s \in Schemas : \E r \in Records(s) :
        /\ schema' = s /\ sent' = r /\ data' = ToDict(s, r)
        /\ UNCHANGED <<got, secret>>

\* from_dict(); a missing required key raises.
Decode ==
    /\ schema # Nothing /\ got = Nothing
    /\ got' = FromDict(schema, data)
    /\ UNCHANGED <<schema, sent, data, secret>>

CodecNext == SendConfig \/ SendRecord \/ Decode

CodecSpec == CodecInit /\ [][CodecNext]_codecVars
----------------------------------------------------------------------------
\* Leaving fields out is safe and masking is final: the consumer builds the
\* record the engine sent, whatever its fields hold, and the value of a secret
\* configuration key is not on the wire at all.
WireIsFaithful ==
    /\ got # Nothing => got = sent
    /\ secret => "value" \notin DOMAIN data
=============================================================================
