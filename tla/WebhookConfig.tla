--------------------------- MODULE WebhookConfig ---------------------------
(***************************************************************************)
(* The operator's webhook files: WebhooksFile::compile and                 *)
(* OutboundFile::compile, the range checks of config_value.rs they call,   *)
(* and the helpers of webhook_config.rs that read a compiled endpoint:     *)
(* verify_signature, extract_source and standard_webhooks::authenticate.   *)
(*                                                                         *)
(* A setting left out of the file is None.  A signature is the record of   *)
(* the key and the content it was computed from: HMAC-SHA256 is taken to   *)
(* be collision-free.                                                      *)
(***************************************************************************)
EXTENDS CloudEvents, Integers

None == "none"

SchemaFormats == {"json", "avro", "protobuf"}
NoSource == [kind |-> None, name |-> ""]
IsSource(s) == s.kind \in {"header", "json"}
WebhookId == [kind |-> "header", name |-> "webhook-id"]

-----------------------------------------------------------------------------
(* config_value.rs.                                                        *)

positive_time(t) == t > 0
non_negative_time(t) == t >= 0
positive_byte_size(n) == n > 0
PositiveU32(n) == n > 0

-----------------------------------------------------------------------------
(* Inbound endpoints.                                                      *)

\* B64STD.decode of a Standard Webhooks signing token.
signing_key(token) ==
  CASE token \in {"key", "whsec_key"} -> "key"
    [] token \in {"", "whsec_"} -> ""
    [] OTHER -> None

\* The signature settings of one endpoint.
signature_settings_ok(e) ==
  IF e.signature_mode = "standard_webhooks"
  THEN /\ e.signature_header = None /\ e.signature_encoding = None
       /\ e.signature_prefix = None /\ e.timestamp_header = None
       /\ e.secret # None
       /\ signing_key(e.secret) \notin {None, ""}
       /\ e.idempotency_source \in {NoSource, WebhookId}
  ELSE /\ e.secret = None <=> e.signature_header = None
       /\ e.secret # ""

\* forward_headers: no header that authenticates a caller.
forwardable(e, name) ==
  name \notin {"authorization", "cookie", "x-gitlab-token", "webhook-signature", e.signature_header}

parse_schema_format(spec) == IF spec = None THEN "json" ELSE spec

compiles(e) ==
  /\ signature_settings_ok(e)
  /\ e.signature_encoding \in {None, "hex", "base64"}
  /\ e.idempotency_source = NoSource \/ IsSource(e.idempotency_source)
  /\ e.key_source = NoSource \/ IsSource(e.key_source)
  /\ \A name \in e.forward_headers : forwardable(e, name)
  /\ parse_schema_format(e.schema_format) \in SchemaFormats
  /\ \A t \in Range(e.timestamp_tolerance) : non_negative_time(t)
  /\ \A n \in Range(e.max_body) : positive_byte_size(n)

\* WebhooksFile::compile for an endpoint that compiles.
compile(e) ==
  [e EXCEPT
     !.principal = IF @ = None THEN "webhook:name" ELSE @,
     !.secret = IF e.signature_mode # None THEN signing_key(@) ELSE @,
     !.signature_encoding = IF @ = None THEN "hex" ELSE @,
     !.timestamp_tolerance = IF @ = <<>> THEN <<300>> ELSE @,
     !.idempotency_source = IF @ = NoSource /\ e.signature_mode # None THEN WebhookId ELSE @,
     !.max_body = IF @ = <<>> THEN <<1048576>> ELSE @,
     !.schema_format = parse_schema_format(@)]

-----------------------------------------------------------------------------
(* A request: the values of the webhook-id header, of the timestamp header *)
(* ([digits, at]: garbage or a number) and of the signature header (each a *)
(* list of [prefix, encoding, key, id, at, body]), the other headers, the  *)
(* body and its size.                                                      *)

Hmac(key, id, at, body) == [key |-> key, id |-> id, at |-> at, body |-> body]
Abs(n) == IF n < 0 THEN -n ELSE n

\* The header function of standard_webhooks.rs: exactly one value.
Single(values) == Len(values) = 1 /\ Head(values) # ""

\* Fault injection: the digest does not cover the id.
authenticate_AnyId(e, r, now) ==
  /\ Single(r.ids) /\ Len(r.stamps) = 1 /\ Head(r.stamps).digits
  /\ Abs(now - Head(r.stamps).at) <= Head(e.timestamp_tolerance)
  /\ Len(r.sigs) = 1
  /\ \E s \in Range(Head(r.sigs)) :
       s.mac.key = e.secret /\ s.mac.at = Head(r.stamps).at /\ s.mac.body = r.body

authenticate(e, r, now) ==
  /\ Single(r.ids) /\ Head(r.ids) # "<longer than 512>" /\ Head(r.ids) \notin NotAscii
  /\ Len(r.stamps) = 1 /\ Head(r.stamps).digits /\ Head(r.stamps).at >= 0
  /\ Abs(now - Head(r.stamps).at) <= Head(e.timestamp_tolerance)
  /\ Len(r.sigs) = 1
  /\ \E s \in Range(Head(r.sigs)) :
       /\ s.prefix = "v1," /\ s.encoding = "base64"
       /\ s.mac = Hmac(e.secret, Head(r.ids), Head(r.stamps).at, r.body)

\* The digest covers the body; the decoded length differs if the encoding does.
verify_signature(e, body, provided) ==
  /\ provided.prefix = (IF e.signature_prefix = None THEN "" ELSE e.signature_prefix)
  /\ provided.encoding = e.signature_encoding
  /\ provided.mac = Hmac(e.secret, "", 0, body)

\* The value of a signature header before the replay guard and the digest.
hmac_ok(e, r, now) ==
  /\ r.sigs # <<>>
  /\ e.timestamp_header # None =>
       /\ r.stamps # <<>> /\ Head(r.stamps).digits
       /\ Abs(now - Head(r.stamps).at) <= Head(e.timestamp_tolerance)
  /\ verify_signature(e, r.body, Head(Head(r.sigs)))

needs_json(e) == e.idempotency_source.kind = "json" \/ e.key_source.kind = "json"

\* The values of a header, in order.
ValuesOf(headers, name) ==
  LET named == SelectSeq(headers, LAMBDA h : h.ns = "" /\ h.name = name)
  IN  [i \in DOMAIN named |-> named[i].value]
HeaderValues(r, name) == IF name = "webhook-id" THEN r.ids ELSE ValuesOf(r.headers, name)

\* <<value>>, or <<>> when there is none: an empty header value counts, an
\* empty JSON string does not.
extract_source(source, r, parsed) ==
  IF source.kind = "header"
  THEN LET values == HeaderValues(r, source.name)
       IN  IF values = <<>> \/ Head(values) \in NotAscii THEN <<>> ELSE <<Head(values)>>
  ELSE LET found == parsed /\ r.body.fmt = "event" /\ source.name \in DOMAIN r.body.ev
           usable(x) == x.t = "number" \/ (x.t = "string" /\ x.v # "")
       IN  IF found /\ usable(r.body.ev[source.name]) THEN <<r.body.ev[source.name].v>> ELSE <<>>

-----------------------------------------------------------------------------
(* Outbound subscriptions.                                                 *)

is_cloudevents(mode) == mode \in {"cloud_events_binary", "cloud_events_structured"}

reject_cloudevents_header_overrides(s) ==
  \E h \in s.headers : h.ns = "ce-" \/ h.name = "content-type"

outbound_compiles(s, allowed_targets) ==
  /\ s.group_id # ""
  /\ PositiveU32(s.max_attempts)
  /\ positive_time(s.base_backoff) /\ positive_time(s.max_backoff) /\ positive_time(s.request_timeout)
  /\ s.max_backoff >= s.base_backoff
  /\ s.target \in allowed_targets
  /\ s.filter = NoSource \/ s.filter.kind = "json"
  /\ is_cloudevents(s.content_mode) => ~reject_cloudevents_header_overrides(s)
  /\ ~(s.content_mode = "cloud_events_binary" /\ s.decode_to_json)

outbound_compile(s) == [s EXCEPT !.group_id = IF @ = None THEN "__krabka_grpc_wh_name" ELSE @]

\* passes_filter: a JSON body, and a result that is neither null nor false.
passes_filter(s, rec) ==
  \/ s.filter = NoSource
  \/ /\ rec.value.fmt = "event" /\ s.filter.name \in DOMAIN rec.value.ev
     /\ LET x == rec.value.ev[s.filter.name] IN x.t # "null" /\ ~(x.t = "bool" /\ x.v = "false")

\* render_delivery, by the subscription's content mode.
render_delivery(s, rec) ==
  CASE s.content_mode = "envelope" -> render_envelope(rec, s.decode_to_json)
    [] s.content_mode = "cloud_events_binary" -> render_cloudevents_binary(rec)
    [] s.content_mode = "cloud_events_structured" -> render_cloudevents_structured(rec)

=============================================================================
