-------------------------- MODULE InboundWebhook ---------------------------
(***************************************************************************)
(* POST /v1/webhooks/{name} and POST /v1/produce/{topic}: one sender posts *)
(* one request several times (its retries, or copies made on the way), the *)
(* handlers of webhook.rs admit or refuse each attempt and produce a       *)
(* record, and an outbound subscription delivers what was stored.          *)
(*                                                                         *)
(* The code runs without an await between the end of the body and the      *)
(* start of the produce, so that stretch is one step.  ProduceCore is      *)
(* taken by its promise (see SendPath and DedupEngine): with the dedup     *)
(* engine one record per idempotency key, and a failed call may have       *)
(* stored its record.  A call forwarded to the owner of the key may still  *)
(* run there after it has failed here.                                     *)
(***************************************************************************)
EXTENDS WebhookConfig, SequencesExt, TLC

CONSTANTS Cases,          \* [endpoint, subscription, routes, request]: the two files, the state
                          \* of the gateway and a request
          Bodies,         \* what is posted or signed
          AllowedTargets, \* the allow-list of the outbound file
          ProduceMaxBody, \* limit of the generic route
          Attempts,       \* the sender's attempts
          MaxClock,       \* bound: seconds that pass
          MaxFaults       \* bound: failures of the produce, dropped connections, process exits

VARIABLES endpoint,      \* the compiled endpoint
          route,         \* "webhook" or "produce", has_dedup, key owned here, ACL verdict
          request,       \* what the sender posts; an attempt refreshes the timestamp
          subscription,  \* the compiled outbound subscription
          attempt,       \* per attempt: the handler
          task,          \* per attempt: the call of ProduceCore::produce
          log,           \* the target topic
          sent,          \* what the subscription has done with each record
          clock, faults

\* The forms of an endpoint's settings, a request and the state of the gateway.
Endpoints ==
  [signature_mode : {None, "standard_webhooks"}, principal : STRING, secret : STRING,
   signature_header : STRING, signature_encoding : STRING, signature_prefix : STRING,
   timestamp_header : STRING, timestamp_tolerance : Seq(Int),
   idempotency_source : [kind : STRING, name : STRING], key_source : [kind : STRING, name : STRING],
   forward_headers : SUBSET STRING, max_body : Seq(Int), schema_subject : STRING, schema_format : STRING]
Signatures ==
  [prefix : STRING, encoding : STRING, mac : [key : STRING, id : STRING, at : Int, body : Bodies]]
Requests ==
  [ids : Seq(STRING), stamps : Seq([digits : BOOLEAN, at : Int]), sigs : Seq(Seq(Signatures) \ {<<>>}),
   headers : Seq([ns : STRING, name : STRING, value : STRING]), body : Bodies, size : Nat]
RouteStates == [entry : {"webhook", "produce"}, dedup : BOOLEAN, here : BOOLEAN, allowed : BOOLEAN]

ASSUME CasesAssumption ==
  \A c \in Cases : c.endpoint \in Endpoints /\ c.request \in Requests /\ c.routes \subseteq RouteStates
ASSUME AttemptsAssumption == IsFiniteSet(Attempts) /\ Attempts \subseteq Nat
ASSUME ClockAssumption == MaxClock \in Nat /\ MaxFaults \in Nat

vars == <<endpoint, route, request, subscription, attempt, task, log, sent, clock, faults>>

NoRecord == [idem |-> <<>>, key |-> <<>>, headers |-> <<>>, value |-> Data(""),
             structured |-> FALSE, event |-> FALSE]
Idle == [pc |-> "idle", stamp |-> 0, read |-> 0, status |-> None, offset |-> 0, dup |-> FALSE]
NoTask == [st |-> "none", rec |-> NoRecord, offset |-> 0, dup |-> FALSE]

\* The files are compiled before the listener is bound; one that does not
\* compile ends the process, so only compiled settings serve requests.
Init ==
  /\ \E c \in Cases :
       /\ compiles(c.endpoint) /\ endpoint = compile(c.endpoint)
       /\ outbound_compiles(c.subscription, AllowedTargets)
       /\ subscription = outbound_compile(c.subscription)
       /\ request = c.request
       /\ route \in c.routes
  /\ attempt = [a \in Attempts |-> Idle]
  /\ task = [a \in Attempts |-> NoTask]
  /\ log = <<>> /\ sent = <<>>
  /\ clock = 0 /\ faults = 0

Standard == route.entry = "webhook" /\ endpoint.signature_mode # None
Fault == faults < MaxFaults /\ faults' = faults + 1
config == <<endpoint, route, request, subscription>>

-----------------------------------------------------------------------------
(* What a handler decides once it has the body.                            *)

\* What is posted: the sender signs the message with the time it sends it.
Posted(r, stamp) ==
  LET resigned(sig) == IF sig.mac.id = "" THEN sig ELSE [sig EXCEPT !.mac.at = @ + stamp]
  IN  [r EXCEPT !.stamps = [i \in DOMAIN r.stamps |-> [r.stamps[i] EXCEPT !.at = @ + stamp]],
                !.sigs = [i \in DOMAIN r.sigs |->
                            [j \in DOMAIN r.sigs[i] |-> resigned(r.sigs[i][j])]]]

refused(status) == [status |-> status, rec |-> NoRecord]

\* Steps 7 and 8: unsigned headers cannot turn a signed body into an event.
translated(e, r) ==
  IF e.signature_mode # None
  THEN [status |-> "ok", headers |-> <<>>, value |-> r.body, is_cloud_event |-> FALSE]
  ELSE translate_cloudevent_ingress(r.headers, r.body)

\* The record's headers: the event's, the forwarded ones, and the signed id
\* and timestamp unless they are forwarded already.
record_headers(e, r, ce) ==
  LET values(name) == IF name = "webhook-timestamp" THEN [i \in DOMAIN r.stamps |-> "<stamp>"]
                      ELSE HeaderValues(r, name)
      copied(name) == [i \in DOMAIN values(name) |-> Header("", name, values(name)[i])]
      forwarded == FoldSet(LAMBDA name, hs : hs \o copied(name), <<>>, e.forward_headers)
      signed == IF e.signature_mode = None THEN {}
                ELSE {"webhook-id", "webhook-timestamp"} \ e.forward_headers
  IN  ce \o forwarded \o FoldSet(LAMBDA name, hs : hs \o copied(name), <<>>, signed)

webhook_handler(e, r, now) ==
  LET idem == extract_source(e.idempotency_source, r, needs_json(e))
      key == extract_source(e.key_source, r, needs_json(e))
      ce == translated(e, r)
  IN  CASE e.signature_mode # None /\ ~authenticate(e, r, now) -> refused("401")
        [] e.signature_mode # None /\ ~route.dedup -> refused("503")
        [] e.signature_header # None /\ ~hmac_ok(e, r, now) -> refused("401")
        [] e.idempotency_source # NoSource /\ idem = <<>> -> refused("400")
        [] e.key_source # NoSource /\ key = <<>> -> refused("400")
        [] ce.status # "ok" -> refused(ce.status)
        [] OTHER ->
             [status |-> "ok",
              rec |-> [idem |-> IF e.idempotency_source = NoSource THEN <<>> ELSE idem,
                       key |-> IF e.key_source = NoSource THEN <<>> ELSE key,
                       headers |-> record_headers(e, r, ce.headers),
                       value |-> ce.value,
                       structured |-> e.schema_subject # None /\ ~ce.is_cloud_event,
                       event |-> ce.is_cloud_event]]

produce_handler(r) ==
  LET ce == translate_cloudevent_ingress(r.headers, r.body)
      keys == HeaderValues(r, "idempotency-key")
  IN  IF ce.status # "ok" THEN refused(ce.status)
      ELSE [status |-> "ok",
            rec |-> [NoRecord EXCEPT
                       !.idem = IF keys = <<>> \/ Head(keys) \in NotAscii THEN <<>> ELSE <<Head(keys)>>,
                       !.headers = ce.headers, !.value = ce.value, !.event = ce.is_cloud_event]]

-----------------------------------------------------------------------------
(* The handlers.                                                           *)

Answer(a, status) == attempt' = [attempt EXCEPT ![a].pc = "answered", ![a].status = status]

\* An attempt arrives, signed now or a copy of an earlier one; the handler
\* waits for its body.  Attempts are numbered as they arrive.
Arrive(a) ==
  /\ attempt[a].pc = "idle" /\ \A b \in Attempts : b < a => attempt[b].pc # "idle"
  /\ \E stamp \in {clock} \cup {attempt[b].stamp : b \in {b \in Attempts : attempt[b].pc # "idle"}} :
       attempt' = [attempt EXCEPT ![a].pc = "reading", ![a].stamp = stamp]
  /\ UNCHANGED <<config, task, log, sent, clock, faults>>

\* to_bytes fails above the limit of the endpoint, or of the generic route.
too_large(r) == r.size > IF route.entry = "webhook" THEN Head(endpoint.max_body) ELSE ProduceMaxBody

BodyRead(a) ==
  /\ attempt[a].pc = "reading"
  /\ LET r == Posted(request, attempt[a].stamp)
         admitted == IF route.entry = "webhook" THEN webhook_handler(endpoint, r, clock)
                     ELSE produce_handler(r)
     IN  IF too_large(r) THEN Answer(a, "413") /\ UNCHANGED task
         ELSE IF admitted.status # "ok" THEN Answer(a, admitted.status) /\ UNCHANGED task
         ELSE /\ task' = [task EXCEPT ![a] = [NoTask EXCEPT !.st = "running", !.rec = admitted.rec]]
              /\ attempt' = [attempt EXCEPT ![a].pc = IF Standard THEN "waiting" ELSE "producing",
                                            ![a].read = clock]
  /\ UNCHANGED <<config, log, sent, clock, faults>>

\* Fault injection: the spawned produce is awaited without the deadline.
Deadline_BodyOnly(a) ==
  /\ Standard
  /\ attempt[a].pc = "reading" /\ Answer(a, "408")
  /\ UNCHANGED <<config, task, log, sent, clock, faults>>

\* The deadline of eight seconds, for Standard Webhooks only: 408 while the
\* body is read, 503 while the spawned produce runs on.
Deadline(a) ==
  /\ Standard
  /\ \/ attempt[a].pc = "reading" /\ Answer(a, "408")
     \/ attempt[a].pc = "waiting" /\ Answer(a, "503")
  /\ UNCHANGED <<config, task, log, sent, clock, faults>>

\* A call that is dropped: what it has sent may still take effect.
dropped(t) == {[t EXCEPT !.st = "done"]} \cup
              (IF t.st = "running" /\ route.allowed THEN {[t EXCEPT !.st = "late"]} ELSE {})

\* The sender closes the connection.  The server drops the handler and with
\* it an inline produce; a spawned one runs on.
Disconnect(a) ==
  /\ attempt[a].pc \in {"reading", "producing", "waiting"} /\ Fault
  /\ attempt' = [attempt EXCEPT ![a].pc = "gone"]
  /\ IF attempt[a].pc = "producing" THEN \E t \in dropped(task[a]) : task' = [task EXCEPT ![a] = t]
     ELSE UNCHANGED task
  /\ UNCHANGED <<config, log, sent, clock>>

\* The process exits and another takes over: handlers and tasks are gone.
Exit ==
  /\ Fault
  /\ attempt' = [a \in Attempts |-> IF attempt[a].pc \in {"reading", "producing", "waiting"}
                                    THEN [attempt[a] EXCEPT !.pc = "gone"] ELSE attempt[a]]
  /\ \E late \in SUBSET {a \in Attempts : task[a].st = "running" /\ route.allowed} :
       task' = [a \in Attempts |-> IF task[a].st \in {"running", "stored"}
                                   THEN [task[a] EXCEPT !.st = IF a \in late THEN "late" ELSE "done"]
                                   ELSE task[a]]
  /\ UNCHANGED <<config, log, sent, clock>>

-----------------------------------------------------------------------------
(* produce_and_respond, and ProduceCore::produce by its promise.           *)

Keyed(rec) == route.dedup /\ rec.idem # <<>>
Forwarded(rec) == Keyed(rec) /\ ~route.here

\* The codec's verdict on a structured body: any JSON is valid.
validates(rec) == rec.value.fmt = "event" \/ rec.value.v \in JsonData

\* What the topic gets: framed by the codec, unless the record is forwarded,
\* whose wire form has no structured body and whose receiver encodes raw bytes.
stored_form(rec, a) ==
  [by |-> a, idem |-> rec.idem, headers |-> rec.headers, value |-> rec.value, event |-> rec.event,
   framed |-> rec.structured /\ ~Forwarded(rec)]

Claim(rec) == {i \in DOMAIN log : log[i].idem = rec.idem}

\* The call returns: the response goes out if a handler still waits for it.
Respond(a, status) ==
  /\ task' = [task EXCEPT ![a].st = "done"]
  /\ IF attempt[a].pc \in {"producing", "waiting"}
     THEN attempt' = [attempt EXCEPT ![a].pc = "answered", ![a].status = status,
                                     ![a].offset = task[a].offset, ![a].dup = task[a].dup]
     ELSE UNCHANGED attempt

Denied(a) ==
  /\ task[a].st = "running" /\ ~route.allowed /\ Respond(a, "403")
  /\ UNCHANGED <<config, log, sent, clock, faults>>

\* CodecError::Validate, Serialize or Framing.
Invalid(a) ==
  /\ task[a].st = "running" /\ route.allowed
  /\ task[a].rec.structured /\ ~Forwarded(task[a].rec) /\ ~validates(task[a].rec)
  /\ Respond(a, "400")
  /\ UNCHANGED <<config, log, sent, clock, faults>>

\* The record is durable, or an earlier one with its key is found.
Store(a) ==
  /\ task[a].st \in {"running", "late"} /\ route.allowed
  /\ LET rec == task[a].rec
         earlier == Claim(rec)
         dup == Keyed(rec) /\ earlier # {}
     IN  /\ (rec.structured /\ ~Forwarded(rec)) => validates(rec)
         /\ log' = IF dup THEN log ELSE Append(log, stored_form(rec, a))
         /\ task' = [task EXCEPT ![a].st = IF @ = "late" THEN "done" ELSE "stored", ![a].dup = dup,
                                 ![a].offset = IF dup THEN Min(earlier) ELSE Len(log) + 1]
  /\ UNCHANGED <<config, attempt, sent, clock, faults>>

Produced(a) ==
  /\ task[a].st = "stored" /\ Respond(a, "200")
  /\ UNCHANGED <<config, log, sent, clock, faults>>

\* Fault injection: a failure after the record is stored is the caller's fault.
produce_error_BadRequest(a) ==
  /\ task[a].st \in {"running", "stored"} /\ route.allowed /\ Fault
  /\ Respond(a, "400")

\* Unavailable and Registry are 503, anything else is 500; the owner of a
\* forwarded key may refuse the caller (403).  A forward that failed here may
\* still run there.
produce_error(a) ==
  \/ /\ task[a].st \in {"running", "stored"} /\ route.allowed /\ Fault
     /\ \E status \in {"503", "500"} : Respond(a, status)
  \/ /\ task[a].st = "running" /\ route.allowed /\ Forwarded(task[a].rec) /\ Fault
     /\ Respond(a, "403")
  \/ /\ task[a].st = "running" /\ route.allowed /\ Forwarded(task[a].rec) /\ Fault
     /\ attempt[a].pc \in {"producing", "waiting"}
     /\ Answer(a, "503")
     /\ task' = [task EXCEPT ![a].st = "late"]

ProduceFails(a) == produce_error(a) /\ UNCHANGED <<config, log, sent, clock>>

-----------------------------------------------------------------------------
(* The outbound subscription takes the next record of the topic.  It reads *)
(* nothing the handlers change later, so it is given the topic when they   *)
(* are done.                                                               *)

\* Every attempt has its answer; a late call may still store, or never.
Quiet == /\ \A a \in Attempts : attempt[a].pc \in {"answered", "gone"}
         /\ \A a \in Attempts : task[a].st \in {"none", "late", "done"}

Deliver ==
  /\ Quiet /\ Len(sent) < Len(log)
  /\ LET rec == log[Len(sent) + 1]
         d == render_delivery(subscription, rec)
     IN  sent' = Append(sent, IF ~passes_filter(subscription, rec) THEN "filtered"
                              ELSE IF d.ok THEN "delivered" ELSE "dead letter")
  /\ UNCHANGED <<config, attempt, task, log, clock, faults>>

\* The clock is read when the body of an attempt is there, and not later.
Tick ==
  /\ clock < MaxClock /\ \E a \in Attempts : attempt[a].pc \in {"idle", "reading"}
  /\ clock' = clock + 1
  /\ UNCHANGED <<config, attempt, task, log, sent, faults>>

Done == Quiet /\ Len(sent) = Len(log) /\ UNCHANGED vars

Handler(a) == \/ Arrive(a) \/ BodyRead(a) \/ Deadline(a) \/ Denied(a) \/ Invalid(a)
              \/ Store(a) \/ Produced(a) \/ ProduceFails(a) \/ Disconnect(a)

Next == (\E a \in Attempts : Handler(a)) \/ Exit \/ Deliver \/ Tick \/ Done

\* Timers and the runtime are fair; the produce and the sender need not be.
Fairness == /\ \A a \in Attempts : WF_vars(Deadline(a))
            /\ \A a \in Attempts : WF_vars(Produced(a)) /\ WF_vars(Denied(a)) /\ WF_vars(Invalid(a))

Spec == Init /\ [][Next]_vars /\ Fairness

-----------------------------------------------------------------------------
TypeOK ==
  /\ \A a \in Attempts :
       /\ attempt[a].pc \in {"idle", "reading", "producing", "waiting", "answered", "gone"}
       /\ attempt[a].status \in {None, "200", "400", "401", "403", "408", "413", "415", "500", "503"}
       /\ attempt[a].offset \in 0..Len(log)
       /\ task[a].st \in {"none", "running", "stored", "late", "done"}
  /\ Len(sent) <= Len(log) /\ Len(log) <= Cardinality(Attempts)
  /\ clock \in 0..MaxClock /\ faults \in 0..MaxFaults

\* webhook.rs: a request that is refused leaves nothing behind, then or
\* later, and one that is answered 200 is in the topic at the offset it names.
AnswersAreTruthful ==
  \A a \in Attempts :
    /\ attempt[a].status \in {"400", "401", "403", "408", "413", "415"} =>
         \A i \in DOMAIN log : log[i].by # a
    /\ attempt[a].status = "200" => attempt[a].offset \in DOMAIN log

\* webhook.rs: whatever times out, is dropped, retried or copied on the way,
\* a Standard Webhooks message is stored once, under its signed id.
MessageStoredOnce ==
  Standard => /\ Len(log) <= 1
              /\ \A i \in DOMAIN log : log[i].idem = request.ids

\* All attempts that are answered 200 for one idempotency key name the same
\* record, and at most one of them claims to have stored it.
AnswersAgree ==
  \A a, b \in Attempts :
    (attempt[a].status = "200" /\ attempt[b].status = "200" /\ a # b /\ Keyed(task[a].rec)) =>
      /\ attempt[a].offset = attempt[b].offset
      /\ attempt[a].dup \/ attempt[b].dup

\* The signature that an endpoint with a secret asks for, by its definition.
\* The secret was applied to this body; a Standard Webhooks message binds the
\* one id and the time it was sent at as well; and the time the attempt names
\* was within the tolerance when its body had arrived.
IsSigned(a) ==
  LET r == Posted(request, attempt[a].stamp)
      at == Head(r.stamps).at
  IN  /\ \E i \in DOMAIN r.sigs : \E s \in Range(r.sigs[i]) :
           /\ s.mac.key = endpoint.secret /\ s.mac.body = request.body
           /\ Standard => request.ids = <<s.mac.id>> /\ s.mac.at = at
      /\ (Standard \/ endpoint.timestamp_header # None) =>
           r.stamps # <<>> /\ Abs(attempt[a].read - at) <= Head(endpoint.timestamp_tolerance)

\* webhook.rs, webhook_config.rs, standard_webhooks.rs: an endpoint whose file
\* names a secret stores nothing unsigned, stale or signed for another message:
\* every record goes back to an attempt with the signature, and holds the signed
\* body under the signed id.
OnlySignedStored ==
  (route.entry = "webhook" /\ endpoint.secret # None) =>
    \A i \in DOMAIN log : /\ IsSigned(log[i].by) /\ log[i].value = request.body
                          /\ Standard => log[i].idem = request.ids

\* webhook.rs: "unsigned headers must not change encoding or bypass schema
\* checks": a schema-bound Standard Webhooks endpoint stores framed, valid
\* values whatever headers come along, unless the record was forwarded.
SignedStaysSchemaBound ==
  (Standard /\ endpoint.schema_subject # None) =>
    \A i \in DOMAIN log :
      /\ ~log[i].event
      /\ route.here => log[i].framed /\ (log[i].value.fmt = "event" \/ log[i].value.v \in JsonData)

\* The event a record stands for: its attributes as texts, and its data.
Meaning(headers, body) ==
  IF body.fmt = "event"
  THEN [attrs |-> {<<a, body.ev[a].v>> : a \in DOMAIN body.ev \ {"data", "data_base64"}},
        data |-> IF "data" \in DOMAIN body.ev THEN body.ev["data"].v
                 ELSE IF "data_base64" \in DOMAIN body.ev THEN body.ev["data_base64"].v ELSE ""]
  ELSE [attrs |-> {<<IF h.ns = "ce_" THEN h.name ELSE "datacontenttype", h.value>> :
                     h \in {h \in Range(headers) : h.ns = "ce_" \/ IsContentType(h)}},
        data |-> body.v]

\* Delivered and taken in by a gateway again: HTTP strips the blanks around a
\* header's value.
Again(d) ==
  translate_cloudevent_ingress([i \in DOMAIN d.headers |-> [d.headers[i] EXCEPT !.value = stripped(@)]], d.body)

\* Events no HTTP sender should make and the gateway takes in: the type of
\* the data given twice, an attribute with the name of the data, and a binary
\* event whose data is said to be a structured one or a batch.
Contradictory(rec) ==
  LET wrapping == EventTypes \cup BatchTypes
  IN  \/ Len(SelectSeq(rec.headers, IsContentType)) > 1
      \/ \E h \in Range(rec.headers) : h.ns = "ce_" /\ h.name \in {"data", "data_base64"}
      \/ /\ \E h \in Range(rec.headers) : IsContentType(h) /\ base_media_type(h.value) \in wrapping
         /\ \E h \in Range(rec.headers) : h.ns = "ce_"
      \/ /\ rec.value.fmt = "event" /\ "datacontenttype" \in DOMAIN rec.value.ev
         /\ base_media_type(rec.value.ev["datacontenttype"].v) \in wrapping

\* A structured event without a binary form: an attribute that is no scalar,
\* whose name is no header name or whose text a header does not carry as it
\* is, or data that is not base64.  validate_structured_json looks at the four
\* required attributes only, so the gateway takes such an event in.
Unrepresentable(rec) ==
  LET ev == rec.value.ev
      attributes == DOMAIN ev \ {"data", "data_base64"}
  IN  /\ rec.value.fmt = "event"
      /\ \/ \E a \in attributes : \/ ev[a].t \notin {"string", "bool", "number"}
                                  \/ a \in NotNames \cup Capitals
                                  \/ ev[a].v \in NotHttp \cup NotAscii \cup Padded
         \/ "data_base64" \in DOMAIN ev /\ ev["data_base64"].t # "base64"

\* What EventsIntact does not promise: contradictory events, and structured
\* ones without a binary form where the subscription asks for that.
Lossy(rec) ==
  Contradictory(rec) \/ (subscription.content_mode = "cloud_events_binary" /\ Unrepresentable(rec))

\* ce_translate.rs, outbound.rs: a stored event that a subscription delivers,
\* in the binary or in the structured mode, is the event that came in: a
\* gateway that receives the delivery admits it and stores the same event,
\* unless the event contradicts itself or has no binary form.
EventsSurvive ==
  \A i \in DOMAIN sent :
    (/\ sent[i] = "delivered" /\ log[i].event /\ is_cloudevents(subscription.content_mode)
     /\ ~Lossy(log[i])) =>
      LET d == render_delivery(subscription, log[i])
      IN  /\ Again(d).status = "ok" /\ Again(d).is_cloud_event
          /\ Meaning(Again(d).headers, Again(d).value) = Meaning(log[i].headers, log[i].value)

\* Headers that are not the event's: outbound.rs reads their text all the same.
ForeignBytes(rec) == \E h \in Range(rec.headers) : h.ns = "" /\ h.value \in NotUtf8

\* An event the gateway took in is delivered in both CloudEvents modes, with
\* the same exceptions.
EventsDeliverable ==
  \A i \in DOMAIN sent :
    (sent[i] = "dead letter" /\ log[i].event) => ForeignBytes(log[i]) \/ Lossy(log[i])

\* webhook.rs: a Standard Webhooks sender has its answer by the deadline,
\* also while its body or the produce never comes to an end.
AnsweredByDeadline ==
  \A a \in Attempts :
    (Standard /\ attempt[a].pc \in {"reading", "waiting"}) ~> attempt[a].pc \in {"answered", "gone"}

\* What a sender may conclude from its answers (webhook.rs): they match the log,
\* agree with each other, and a retried message is stored once.
AnswersHold == TypeOK /\ AnswersAreTruthful /\ AnswersAgree /\ MessageStoredOnce

\* What a signature guarantees (webhook.rs, standard_webhooks.rs): nothing unsigned
\* or stale is stored, and headers that are not signed do not change what is stored.
SignatureBinds == OnlySignedStored /\ SignedStaysSchemaBound


=============================================================================
