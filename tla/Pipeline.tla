------------------------------ MODULE Pipeline ------------------------------
(* From a producer's document to a subscriber's verdict: tasks encode into a *)
(* log, a subscription polls it, decodes each value with the same codec and  *)
(* passes the poll to its filter. A failed decode or filter ends the stream; *)
(* the client subscribes again and, nothing being committed here, starts     *)
(* over.                                                                     *)
EXTENDS FilteredPoll, SchemaCodec

CONSTANTS Scenarios, \* [setting, registry, faults, bodies, stored, filters, polls]
          MaxPoll    \* records of one poll

\* What the registries of the scenarios hold or will hold, and what is stored.
Schemas == UNION {ToSet(s.registry.schemas) \cup ToSet(s.registry.coming) : s \in Scenarios}
Stored == UNION {ToSet(s.stored) : s \in Scenarios}
\* Every integer of a document has a numeral, so that it can be written and read.
IsNumber(number) == /\ number.halves \in Int
                    /\ number.kind = "int" => \E l \in DOMAIN IntegerOf : number.halves = 2 * IntegerOf[l]
\* No field of it goes by both of its spellings.
IsDocument(doc) == /\ DOMAIN doc = {"kind", "fields"}
                   /\ \A f \in DOMAIN doc.fields : json_name(f) \in DOMAIN doc.fields => json_name(f) = f
                   /\ \A f \in DOMAIN doc.fields : doc.fields[f][1] = "num" => IsNumber(doc.fields[f][2])

ASSUME ScenariosAssumption ==
    /\ MaxPoll \in Nat /\ "poller" \notin Tasks
    /\ \A l \in DOMAIN IntegerOf : IntegerOf[l] \in Int
    /\ \A schema \in Schemas : /\ schema.fmt \in {"AVRO", "JSON", "PROTOBUF"}
                               /\ \A f \in DOMAIN schema.fields : schema.fields[f] \in {"string", "long", "double"}
    /\ \A f \in DOMAIN JsonNames : json_name(json_name(f)) = json_name(f)
    \* The descriptor pool refuses two fields with one JSON name.
    /\ \A schema \in Schemas : schema.fmt = "PROTOBUF" =>
          \A f, g \in DOMAIN schema.fields : json_name(f) = json_name(g) => f = g
    /\ \A entry \in Stored : entry.sent = <<>>
    /\ \A s \in Scenarios :
          /\ DOMAIN s.registry = {"schemas", "since", "coming", "up"}
          /\ s.registry.schemas \in Seq(Schemas) /\ s.registry.coming \in Seq(Schemas)
          /\ s.registry.since = [i \in 1..Len(s.registry.schemas) |-> 0]
          /\ s.stored \in Seq(Stored)
          /\ DOMAIN s.bodies \subseteq Tasks /\ \A t \in DOMAIN s.bodies : IsDocument(s.bodies[t].doc)

VARIABLES handed,  \* log entries handed to the filter so far
          pending,   \* log entries of the poll being decoded
          decoded    \* its records decoded so far
pollVars == <<handed, pending, decoded>>
pipelineVars == <<codecVars, filterVars, pollVars>>

poller == "poller"
Encoding(b) == [Free EXCEPT !.op = "encode", !.stage = "encode", !.body = <<b>>, !.selector = b.selector]

PipelineInit == \E s \in Scenarios :
    /\ CodecInit(s, s.stored, [t \in Tasks \cup {poller} |->
                    IF t \in DOMAIN s.bodies THEN Encoding(s.bodies[t]) ELSE Free])
    /\ FilterInit /\ subscription \in s.filters
    /\ handed = 0 /\ pending = <<>> /\ decoded = <<>>

Idling == Subscribed /\ work.ok /\ taken = Len(polled) /\ pending = <<>>

\* The consumer returns the next few records.
Poll == /\ Idling /\ handed < Len(log)
        /\ \E n \in 1..MaxPoll : /\ handed + n <= Len(log)
                                 /\ pending' = [i \in 1..n |-> handed + i]
        /\ decoded' = <<>>
        /\ UNCHANGED <<codecVars, filterVars, handed>>

\* ConsumeSession::poll decodes them one after the other.
NextDecode ==
    /\ pending # <<>> /\ At(poller, "free") /\ Len(decoded) < Len(pending)
    /\ call' = [call EXCEPT ![poller] = [Free EXCEPT !.op = "decode", !.stage = "decode",
                    !.wire = <<log[pending[Len(decoded) + 1]].wire>>]]
    /\ UNCHANGED <<setting, registry, now, cacheVars, prepared, slots, log, faults, filterVars, pollVars>>
DecodeDone ==
    /\ At(poller, "decoded")
    /\ LET d == call[poller].decoded[1]
       IN  decoded' = Append(decoded, [n |-> pending[Len(decoded) + 1], value |-> d.value,
                                       schema |-> d.schema, json |-> d.json])
    /\ call' = [call EXCEPT ![poller] = Free]
    /\ UNCHANGED <<setting, registry, now, cacheVars, prepared, slots, log, faults, filterVars, handed, pending>>
HandOver == /\ pending # <<>> /\ Len(decoded) = Len(pending)
            /\ TakePoll(decoded)
            /\ handed' = handed + Len(pending) /\ pending' = <<>> /\ decoded' = <<>>
            /\ UNCHANGED codecVars

DecodeFailed == call[poller].stage \in {"registry", "serialize", "framing"}
\* The stream ended with an error: a new one, with a new filter and consumer.
Resubscribe == /\ DecodeFailed \/ Failed
               /\ call' = [call EXCEPT ![poller] = Free]
               /\ filter' = <<>> /\ polled' = <<>> /\ taken' = 0 /\ work' = Idle(NoCache)
               /\ handed' = 0 /\ pending' = <<>> /\ decoded' = <<>>
               /\ UNCHANGED <<setting, registry, now, cacheVars, prepared, slots, log, faults, subscription>>

FilterStep == (Start \/ Route) /\ UNCHANGED <<codecVars, pollVars>>
PollStep == Poll \/ NextDecode \/ DecodeDone \/ HandOver \/ Resubscribe
TaskStep(t) == CallStep(t) /\ UNCHANGED <<filterVars, pollVars>>
RegistryStep == (NewVersion \/ GoesDown \/ ComesBack \/ Tick) /\ UNCHANGED <<filterVars, pollVars>>
PipelineNext == FilterStep \/ PollStep \/ RegistryStep \/ (\E t \in Tasks \cup {poller} : TaskStep(t))

\* When a filter step can be taken; it always changes the state.
CanFilter == filter = <<>> \/ (Subscribed /\ work.ok /\ taken < Len(polled))
\* Tasks are polled, requests are answered, an outage ends. The first conjunct
\* is WF_pipelineVars(FilterStep) with its enabling condition written out.
PipelineFairness == /\ <>[]CanFilter => []<><<FilterStep>>_pipelineVars
            /\ WF_pipelineVars(PollStep)
            /\ WF_pipelineVars(ComesBack /\ UNCHANGED <<filterVars, pollVars>>)
            /\ \A t \in Tasks \cup {poller} : WF_pipelineVars(TaskStep(t))
PipelineSpec == PipelineInit /\ [][PipelineNext]_pipelineVars /\ PipelineFairness

-----------------------------------------------------------------------------

\* Control state that agrees with itself: a poll in progress has records left to
\* decode or hand over, and only the poller decodes.
PipelineTypes ==
    /\ handed + Len(pending) <= Len(log) /\ Len(decoded) <= Len(pending) /\ taken <= Len(polled)
    /\ \A t \in Tasks : call[t].op \in {"none", "encode"}
    /\ At(poller, "free") \/ (pending # <<>> /\ call[poller].op = "decode")
    /\ \A t \in Tasks \cup {poller} : At(t, "prepare") => call[t].slot \in DOMAIN slots
    /\ now \in Nat

\* A short message index: a count below 128 and as many varints.
WholeIndex(index) == LET ends == {i \in 1..Len(index) : index[i] < 128}
                     IN  {1, Len(index)} \subseteq ends /\ Cardinality(ends) = index[1] + 1
\* No stored value ends a subscription before the filter sees it.
Readable(entry) ==
    LET w == entry.wire IN
    IF setting.codec = "raw" \/ w.kind = "raw" THEN setting.codec = "raw" \/ w.magic = "no"
    ELSE /\ w.id \in 1..Len(registry.schemas) /\ registry.schemas[w.id].parses /\ View(w) # <<>>
         /\ registry.schemas[w.id].fmt = "PROTOBUF" => WholeIndex(w.index)
Clean == Subscribed /\ \A n \in 1..Len(log) : Readable(log[n])

\* A subscription over records that the registry can read gets a verdict for
\* every one of them, or fails over one it cannot filter, whatever outages end
\* its stream on the way (subscribe_inner, SchemaRegistryCodec::decode).
CatchesUp == Clean ~> \/ handed = Len(log) /\ taken = Len(polled)
                      \/ Failed
                      \/ Subscribed /\ ~Clean

\* Tasks and subscriptions get on again after outages (schema/, subscribe_inner).
PipelineProgress == OutagesHeal /\ CatchesUp

\* What is stored can be read back with the caches between the two in bounds,
\* and a poll comes out of the filter in the order it went in.
RecordsReadable == PipelineTypes /\ FramesSelfDescribing /\ PreparedCacheIsBounded /\ DecisionsFollowThePoll

=============================================================================
