----------------------------- MODULE SchemaCodec -----------------------------
(* The record codec over a schema registry: tasks that encode and decode     *)
(* record values at the same time, the registry client's two caches, the     *)
(* bounded cache of prepared schemas, and the Confluent frame.               *)
(*                                                                           *)
(* One subject, whose versions are the registry's schemas in order, the id   *)
(* of each being its place. A schema is [fmt, fields, parses]: its format,   *)
(* a function of field names to "string", "long" or "double", and whether    *)
(* the format library accepts it. A wire value is [kind, magic, id, index,   *)
(* body]: kind "frame" with its message index and serialized document, or    *)
(* "raw" bytes; magic is "no", "short" or "whole" as they do not begin with  *)
(* the magic byte, hold part of a header after it, or all of it.             *)
EXTENDS Filter, TLC

CONSTANTS Tasks,                    \* concurrent callers of the codec
          PREPARED_SCHEMA_CAPACITY, latest_cache_ttl,
          JsonNames,                \* field name with underscores |-> its lowerCamelCase form
          MaxFlight                 \* longest time a registry answer travels

ASSUME CodecAssumption == /\ IsFiniteSet(Tasks)
                          /\ PREPARED_SCHEMA_CAPACITY \in Nat \ {0} /\ latest_cache_ttl \in Nat \ {0}
                          /\ MaxFlight \in Nat /\ FirstAmbiguous \in Nat

VARIABLES setting,           \* [codec, frame_raw]: how the gateway was started
          registry,          \* [schemas, since, coming, up]: since[i] is when version i appeared
          now,
          by_id, by_subject_latest,  \* caches: id |-> schema, Option of [id, fetched_at]
          prepared,          \* [entries, insertion_order]: id |-> slot, FIFO of ids
          slots,             \* the Option of a prepared schema each slot holds
          call,              \* task |-> its encode or decode in progress
          log,               \* [wire, sent]: values stored, with the Option of the document sent
          faults             \* bounds: [errors, outages, ticks] still to come
cacheVars == <<by_id, by_subject_latest>>
codecVars == <<setting, registry, now, by_id, by_subject_latest, prepared, slots, call, log, faults>>

Free == [op |-> "none", stage |-> "free", body |-> <<>>, selector |-> <<>>, wire |-> <<>>,
         id |-> 0, schema |-> <<>>, slot |-> 0, asked |-> 0, decoded |-> <<>>]

CodecInit(start, stored, works) ==
    /\ setting = start.setting /\ registry = start.registry /\ faults = start.faults
    /\ now = 0 /\ by_id = [i \in {} |-> <<>>] /\ by_subject_latest = <<>>
    /\ prepared = [entries |-> [i \in {} |-> 0], insertion_order |-> <<>>]
    /\ slots = [n \in 1..(PREPARED_SCHEMA_CAPACITY + Cardinality(DOMAIN works)) |-> <<>>]
    /\ call = works /\ log = stored

\* A map with one more binding.
With(map, key, value) == [k \in DOMAIN map \cup {key} |-> IF k = key THEN value ELSE map[k]]

At(t, stage) == call[t].stage = stage
Goto(t, stage) == call' = [call EXCEPT ![t].stage = stage]
Fail(t, kind) == call' = [call EXCEPT ![t].stage = kind]

-----------------------------------------------------------------------------
(* The formats. A document that does not fit its schema is refused (<<>>).   *)

Default(type) == IF type = "string" THEN <<"str", <<>>>> ELSE <<"num", Integer(0)>>
Fits(type, v) == CASE type = "string" -> v[1] = "str"
                   [] type = "long" -> v[1] = "num" /\ v[2].kind = "int"
                   [] type = "double" -> v[1] = "num"
AllFit(schema, doc) == \A f \in DOMAIN schema.fields \cap DOMAIN doc.fields : Fits(schema.fields[f], doc.fields[f])

\* Avro resolves against the schema: each field must be there, others are dropped.
avro_serialize(schema, doc) ==
    IF DOMAIN schema.fields \subseteq DOMAIN doc.fields /\ AllFit(schema, doc)
    THEN <<[doc EXCEPT !.fields = [f \in DOMAIN schema.fields |->
              IF schema.fields[f] = "double" THEN <<"num", Float(doc.fields[f][2].halves)>> ELSE doc.fields[f]]]>>
    ELSE <<>>
json_validate(schema, doc) ==
    IF DOMAIN schema.fields \subseteq DOMAIN doc.fields /\ AllFit(schema, doc) THEN <<doc>> ELSE <<>>
\* The proto3 JSON mapping. On the way in a field goes by its own name or by its
\* JSON name, and unknown names are refused; on the way out it has its JSON name,
\* defaults are left away and a long is a decimal string.
json_name(f) == IF f \in DOMAIN JsonNames THEN JsonNames[f] ELSE f
Spellings(f) == {f, json_name(f)}
Given(doc, f) == Spellings(f) \cap DOMAIN doc.fields # {}
Spelled(doc, f) == IF f \in DOMAIN doc.fields THEN f ELSE json_name(f)
protobuf_serialize(schema, doc) ==
    LET given == {f \in DOMAIN schema.fields : Given(doc, f)}
        message == [doc EXCEPT !.fields = [f \in given |-> doc.fields[Spelled(doc, f)]]]
    IN  IF DOMAIN doc.fields \subseteq UNION {Spellings(f) : f \in DOMAIN schema.fields} /\ AllFit(schema, message)
        THEN <<message>> ELSE <<>>
protobuf_deserialize(schema, message) ==
    LET shown == {f \in DOMAIN message.fields : message.fields[f] # Default(schema.fields[f])}
        field(name) == CHOOSE f \in shown : json_name(f) = name
        value(f) == IF schema.fields[f] = "long" THEN <<"str", <<NumeralOf(message.fields[f][2].halves \div 2)>>>>
                    ELSE message.fields[f]
    IN  [message EXCEPT !.fields = [name \in {json_name(f) : f \in shown} |-> value(field(name))]]

serialize(schema, doc) ==
    IF doc.kind # "object" THEN <<>>
    ELSE CASE schema.fmt = "AVRO" -> avro_serialize(schema, doc)
           [] schema.fmt = "JSON" -> json_validate(schema, doc)
           [] schema.fmt = "PROTOBUF" -> protobuf_serialize(schema, doc)
deserialize(schema, doc) ==
    IF serialize(schema, doc) = <<>> THEN <<>>
    ELSE IF schema.fmt # "PROTOBUF" THEN <<doc>>
    ELSE IF DOMAIN doc.fields \subseteq DOMAIN schema.fields THEN <<protobuf_deserialize(schema, doc)>> ELSE <<>>

-----------------------------------------------------------------------------
(* The frame.                                                                *)

encode_frame(id, fmt, doc) ==
    [kind |-> "frame", magic |-> "whole", id |-> id, index |-> IF fmt = "PROTOBUF" THEN <<0>> ELSE <<>>, body |-> doc]

\* Base-128 groups, the last one below 128; <<value, next>>, or <<>> when cut short.
read_varint(index, pos) ==
    LET ends == {i \in pos..Len(index) : index[i] < 128}
        value == FoldLeft(LAMBDA v, b : v * 128 + (b % 128), 0, Reverse(SubSeq(index, pos, Min(ends))))
    IN  IF ends = {} THEN <<>> ELSE <<value, Min(ends) + 1>>

\* Where the message starts after the index: the count, then as many varints.
proto_payload_start(index) ==
    LET count == read_varint(index, 1)
        skip(pos, n) == IF pos = <<>> THEN <<>>
                        ELSE LET next == read_varint(index, pos[1]) IN IF next = <<>> THEN <<>> ELSE <<next[2]>>
    IN  IF count = <<>> THEN <<>> ELSE FoldLeft(skip, <<count[2]>>, [n \in 1..count[1] |-> n])
\* The message is whole when the index was consumed exactly.
strip_proto_index(index) == proto_payload_start(index) = <<Len(index) + 1>>

-----------------------------------------------------------------------------
(* Calls. A body is [structured, doc, wire]: a JSON document for the codec   *)
(* to serialize, or bytes.                                                   *)

Write(wire, sent) == log' = Append(log, [wire |-> wire, sent |-> sent])

Encode(t) ==
    /\ At(t, "encode")
    /\ LET b == call[t].body[1] IN
       \/ /\ setting.codec = "raw" \* RawCodec: whatever the client sent
          /\ Write(b.wire, <<>>) /\ Goto(t, "stored")
       \/ /\ setting.codec = "registry" /\ ~b.structured /\ ~setting.frame_raw
          /\ Write(b.wire, <<>>) /\ Goto(t, "stored")
       \/ /\ setting.codec = "registry" /\ (b.structured \/ setting.frame_raw)
          /\ call' = IF b.structured /\ call[t].selector # <<>>
                     THEN [call EXCEPT ![t].stage = "by_id", ![t].id = call[t].selector[1]]
                     ELSE [call EXCEPT ![t].stage = "latest"]
          /\ UNCHANGED log
    /\ UNCHANGED <<setting, registry, now, cacheVars, prepared, slots, faults>>

Passthrough(wire) == [value |-> wire.body, schema |-> <<>>, json |-> <<>>]
Decode(t) ==
    /\ At(t, "decode")
    /\ LET w == call[t].wire[1] IN
       \/ /\ setting.codec = "raw" \/ (w.kind = "raw" /\ w.magic = "no")
          /\ call' = [call EXCEPT ![t].stage = "decoded", ![t].decoded = <<Passthrough(w)>>]
       \/ /\ setting.codec = "registry" /\ w.kind = "raw" /\ w.magic = "short"
          /\ Fail(t, "framing")
       \/ /\ setting.codec = "registry" /\ (w.kind = "frame" \/ w.magic = "whole")
          /\ call' = [call EXCEPT ![t].stage = "by_id", ![t].id = w.id]
    /\ UNCHANGED <<setting, registry, now, cacheVars, prepared, slots, log, faults>>

Resolved(t, id, schema) ==
    LET b == call[t].body[1] IN
    IF call[t].op = "encode" /\ ~b.structured
    THEN \* frame_raw: the bytes are taken to be in the registered format
         /\ Write(encode_frame(id, schema.fmt, b.doc), <<>>) /\ Goto(t, "stored")
    ELSE /\ UNCHANGED log
         /\ IF call[t].op = "decode" /\ schema.fmt = "PROTOBUF" /\ ~strip_proto_index(call[t].wire[1].index)
            THEN Fail(t, "framing")
            ELSE call' = [call EXCEPT ![t].stage = "slot", ![t].id = id, ![t].schema = <<schema>>]

\* schema_by_id: an id is immutable, so a cached schema is good forever.
ById(t) ==
    /\ At(t, "by_id")
    /\ IF call[t].id \in DOMAIN by_id THEN Resolved(t, call[t].id, by_id[call[t].id])
       ELSE call' = [call EXCEPT ![t].stage = "ask_id", ![t].asked = now] /\ UNCHANGED log
    /\ UNCHANGED <<setting, registry, now, cacheVars, prepared, slots, faults>>

\* Fault injection: an entry is kept to the end of its lifetime, and then some.
fresh_AtExpiry(entry) == now - entry.fetched_at <= latest_cache_ttl

fresh(entry) == now - entry.fetched_at < latest_cache_ttl
Latest(t) ==
    /\ At(t, "latest")
    /\ \/ \E entry \in ToSet(by_subject_latest) :
             /\ fresh(entry) /\ entry.id \in DOMAIN by_id
             /\ Resolved(t, entry.id, by_id[entry.id])
       \/ /\ ~ \E entry \in ToSet(by_subject_latest) : fresh(entry) /\ entry.id \in DOMAIN by_id
          /\ call' = [call EXCEPT ![t].stage = "ask_latest", ![t].asked = now]
          /\ UNCHANGED log
    /\ UNCHANGED <<setting, registry, now, cacheVars, prepared, slots, faults>>

\* The registry reads its state once, some time while the request travels.
RegistryAnswers(t) ==
    /\ \E stage \in {"ask_id", "ask_latest"} : At(t, stage)
    /\ registry.up
    /\ LET id == IF At(t, "ask_id") THEN call[t].id ELSE Len(registry.schemas)
           known == id \in 1..Len(registry.schemas)
       IN  call' = [call EXCEPT ![t].stage = IF At(t, "ask_id") THEN "got_id" ELSE "got_latest",
                                ![t].id = id, ![t].schema = IF known THEN <<registry.schemas[id]>> ELSE <<>>]
    /\ UNCHANGED <<setting, registry, now, cacheVars, prepared, slots, log, faults>>
RegistryFails(t) ==
    /\ \E stage \in {"ask_id", "ask_latest"} : At(t, stage)
    /\ \/ ~registry.up /\ UNCHANGED faults
       \/ registry.up /\ faults.errors > 0 /\ faults' = [faults EXCEPT !.errors = @ - 1]
    /\ Fail(t, "registry")
    /\ UNCHANGED <<setting, registry, now, cacheVars, prepared, slots, log>>

\* Fault injection: a missing id is cached like a schema that does not parse.
not_found_Remembered(t) == by_id' = With(by_id, call[t].id, [fmt |-> "AVRO", fields |-> [f \in {} |-> ""], parses |-> FALSE])

\* schema_by_id caches what it was given only.
not_found(t) == UNCHANGED by_id
Receive(t) ==
    /\ \E stage \in {"got_id", "got_latest"} : At(t, stage)
    /\ IF call[t].schema = <<>> THEN Fail(t, "registry") /\ not_found(t) /\ UNCHANGED <<log, by_subject_latest>>
       ELSE /\ by_id' = With(by_id, call[t].id, call[t].schema[1])
            /\ by_subject_latest' = IF At(t, "got_latest") THEN <<[id |-> call[t].id, fetched_at |-> now]>>
                                    ELSE by_subject_latest
            /\ Resolved(t, call[t].id, call[t].schema[1])
    /\ UNCHANGED <<setting, registry, now, prepared, slots, faults>>

-----------------------------------------------------------------------------
(* Prepared schemas: a slot per id, the oldest evicted at the capacity; the  *)
(* slot is filled under its own lock, so other ids are not held up.          *)

Evicted == [entries |-> Restrict(prepared.entries, DOMAIN prepared.entries \ {Head(prepared.insertion_order)}),
            insertion_order |-> Tail(prepared.insertion_order)]
AtCapacity == Cardinality(DOMAIN prepared.entries) = PREPARED_SCHEMA_CAPACITY

insert(id, n) ==
    prepared' = LET p == IF AtCapacity THEN Evicted ELSE prepared
                IN  [entries |-> With(p.entries, id, n), insertion_order |-> Append(p.insertion_order, id)]
\* A slot nobody holds any more is a new one.
Entered == {prepared.entries[i] : i \in DOMAIN prepared.entries}
InUse == {call[t].slot : t \in {u \in DOMAIN call : At(u, "prepare")}}
Unheld == DOMAIN slots \ (Entered \cup InUse)

\* Fault injection: the evicted slot is used again while a task holds it.
fresh_slot_Entered == IF AtCapacity THEN Min(Entered) ELSE Min(Unheld)

fresh_slot == CHOOSE n \in Unheld : TRUE

TakeSlot(t) ==
    /\ At(t, "slot")
    /\ LET id == call[t].id
           known == id \in DOMAIN prepared.entries
           n == IF known THEN prepared.entries[id] ELSE fresh_slot
       IN  /\ call' = [call EXCEPT ![t].stage = "prepare", ![t].slot = n]
           /\ IF known THEN UNCHANGED <<prepared, slots>>
              ELSE insert(id, n) /\ slots' = [slots EXCEPT ![n] = <<>>]
    /\ UNCHANGED <<setting, registry, now, cacheVars, log, faults>>

get_or_prepare(t) == IF slots[call[t].slot] # <<>> THEN slots[call[t].slot]
                     ELSE IF call[t].schema[1].parses THEN call[t].schema ELSE <<>>
Prepare(t) ==
    /\ At(t, "prepare")
    /\ LET schema == get_or_prepare(t)
           id == call[t].id
           b == call[t].body[1]
           w == call[t].wire[1]
       IN  /\ slots' = [slots EXCEPT ![call[t].slot] = schema]
           /\ \/ schema = <<>> /\ Fail(t, "serialize") /\ UNCHANGED log
              \/ /\ schema # <<>> /\ call[t].op = "encode"
                 /\ IF serialize(schema[1], b.doc) = <<>> THEN Fail(t, "serialize") /\ UNCHANGED log
                    ELSE /\ Write(encode_frame(id, call[t].schema[1].fmt, serialize(schema[1], b.doc)[1]), <<b.doc>>)
                         /\ Goto(t, "stored")
              \/ /\ schema # <<>> /\ call[t].op = "decode" /\ UNCHANGED log
                 /\ LET fmt == call[t].schema[1].fmt
                        json == deserialize(schema[1], w.body)
                    IN  IF json = <<>> THEN Fail(t, "serialize")
                        ELSE call' = [call EXCEPT ![t].stage = "decoded", ![t].decoded =
                                 <<[value |-> [kind |-> IF fmt = "JSON" THEN "json" ELSE "bytes", batches |-> <<>>, doc |-> w.body],
                                    schema |-> <<id>>, json |-> json]>>]
    /\ UNCHANGED <<setting, registry, now, cacheVars, prepared, faults>>

\* Only a Registry error is retriable.
Retry(t) == /\ call[t].op = "encode" /\ At(t, "registry")
            /\ call' = [call EXCEPT ![t].stage = "encode", ![t].schema = <<>>]
            /\ UNCHANGED <<setting, registry, now, cacheVars, prepared, slots, log, faults>>

-----------------------------------------------------------------------------
(* The registry's own life, and time.                                        *)

NewVersion ==
    /\ registry.coming # <<>>
    /\ registry' = [registry EXCEPT !.schemas = Append(@, Head(registry.coming)), !.since = Append(@, now),
                                    !.coming = Tail(@)]
    /\ UNCHANGED <<setting, now, cacheVars, prepared, slots, call, log, faults>>
GoesDown == /\ registry.up /\ faults.outages > 0 /\ faults' = [faults EXCEPT !.outages = @ - 1]
            /\ registry' = [registry EXCEPT !.up = FALSE]
            /\ UNCHANGED <<setting, now, cacheVars, prepared, slots, call, log>>
ComesBack == /\ ~registry.up /\ registry' = [registry EXCEPT !.up = TRUE]
             /\ UNCHANGED <<setting, now, cacheVars, prepared, slots, call, log, faults>>
Asking(t) == call[t].stage \in {"ask_id", "ask_latest", "got_id", "got_latest"}
Tick == /\ faults.ticks > 0 /\ faults' = [faults EXCEPT !.ticks = @ - 1] /\ now' = now + 1
        /\ \A t \in DOMAIN call : Asking(t) => now - call[t].asked < MaxFlight
        /\ UNCHANGED <<setting, registry, cacheVars, prepared, slots, call, log>>

CallStep(t) == \/ Encode(t) \/ Decode(t) \/ ById(t) \/ Latest(t) \/ RegistryAnswers(t)
               \/ RegistryFails(t) \/ Receive(t) \/ TakeSlot(t) \/ Prepare(t) \/ Retry(t)

-----------------------------------------------------------------------------

\* What decode makes of a frame, from the registry's own schema for its id.
View(frame) == deserialize(registry.schemas[frame.id], frame.body)
\* The proto3 mapping aside, two documents say the same of the schema's fields,
\* under either spelling of each.
SameField(type, a, b) == IF type = "string" THEN a = b ELSE filter_value_matches(a, "=", b)
Shown(schema, doc, f) == IF Given(doc, f) THEN doc.fields[Spelled(doc, f)] ELSE Default(schema.fields[f])

\* A stored frame is self-describing: whatever versions, evictions and parallel
\* calls went on while it was made, the schema of the id in its header reads it
\* back as the document that was sent (SchemaRegistryCodec::encode and prepared).
FramesSelfDescribing ==
    \A n \in 1..Len(log) : log[n].sent # <<>> =>
        LET frame == log[n].wire
            schema == registry.schemas[frame.id]
        IN  /\ View(frame) # <<>>
            /\ \A f \in DOMAIN schema.fields :
                  SameField(schema.fields[f], Shown(schema, log[n].sent[1], f), Shown(schema, View(frame)[1], f))

\* The prepared cache is bounded and its eviction queue names exactly the ids
\* it holds, each once, so eviction can never miss (PreparedCache::slot).
PreparedCacheIsBounded ==
    /\ Cardinality(DOMAIN prepared.entries) <= PREPARED_SCHEMA_CAPACITY
    /\ Len(prepared.insertion_order) = Cardinality(DOMAIN prepared.entries)
    /\ ToSet(prepared.insertion_order) = DOMAIN prepared.entries

\* A value encoded with the subject's latest version never uses a version that
\* was superseded as long ago as the cache's lifetime and one registry round
\* trip: the lifetime counts from the arrival of an answer, so an answer that
\* travelled long, or was overtaken by a newer one, is kept a full lifetime more
\* (SchemaRegistryClient::latest).
Superseded(id) == IF id < Len(registry.since) THEN <<registry.since[id + 1]>> ELSE <<>>
LatestIsRecent ==
    [][\A t \in DOMAIN call :
          call[t].stage \in {"latest", "got_latest"} /\ call'[t].stage \in {"slot", "stored"} =>
              \A at \in ToSet(Superseded(IF call'[t].stage = "slot" THEN call'[t].id ELSE Last(log').wire.id)) :
                  now - at < latest_cache_ttl + MaxFlight]_codecVars

\* An encode whose document fits every version, and whose id is known, ends with
\* a stored value once the registry answers again: neither an outage nor an id
\* that was asked for before it was registered leaves anything behind in a cache
\* (schema_by_id, latest, get_or_prepare).
Encodable(t) ==
    /\ call[t].op = "encode"
    /\ call[t].selector # <<>> => call[t].selector[1] <= Len(registry.schemas)
    /\ \A i \in 1..Len(registry.schemas) :
          registry.schemas[i].parses /\ serialize(registry.schemas[i], call[t].body[1].doc) # <<>>
OutagesHeal == \A t \in Tasks : Encodable(t) ~> (At(t, "stored") \/ ~Encodable(t))

=============================================================================
