---------------------------- MODULE CloudEvents ----------------------------
(***************************************************************************)
(* CloudEvents between HTTP and Kafka: what ce_translate.rs does to an     *)
(* inbound request, and how outbound.rs renders a record for delivery.     *)
(*                                                                         *)
(* A header is [ns, name, value]: ns is the binding's prefix ("ce-" over   *)
(* HTTP, "ce_" in Kafka, "" for a plain header).  A body is                *)
(* [fmt, v, ev]: plain data v, or the JSON object of an event, which maps  *)
(* attribute names to JSON values [t, v].  Texts are tokens; the classes   *)
(* of texts the code tells apart are the sets below.                       *)
(***************************************************************************)
EXTENDS Sequences, FiniteSets, FiniteSetsExt, Functions

NoValue == "<none>"
NoEvent == <<>>

\* Texts: not UTF-8, UTF-8 outside ASCII, and with a control character.
NotUtf8 == {"<bytes>"}
NotAscii == NotUtf8 \cup {"<accent>"}
NotHttp == {"<control>"}

\* Texts with blanks around them, which HTTP takes off a header's value.
Padded == {"<padded>"}
stripped(text) == IF text \in Padded THEN "<stripped>" ELSE text

\* Attribute names: no HTTP header name, and with capitals, which
\* HeaderName::from_bytes makes small.
NotNames == {"a b"}
Capitals == {"Ext"}
header_name(name) == IF name = "Ext" THEN "ext" ELSE name

\* Data that parses as JSON; every other text does not.
JsonData == {"7", "{}"}

\* Media types with their parameters and case stripped.
base_media_type(m) ==
  CASE m = "application/json; charset=utf-8" -> "application/json"
    [] m = "Application/CloudEvents+JSON" -> "application/cloudevents+json"
    [] OTHER -> m
BatchTypes == {"application/cloudevents-batch+json"}
EventTypes == {"application/cloudevents+json", "application/cloudevents+avro"}
JsonTypes == {"application/json", "application/cloudevents+json", "application/vnd.acme+json"}
is_json_media_type(m) == base_media_type(m) \in JsonTypes

RequiredAttributes == {"id", "source", "type", "specversion"}

Data(v) == [fmt |-> "data", v |-> v, ev |-> NoEvent]
Event(ev) == [fmt |-> "event", v |-> "", ev |-> ev]
Header(ns, name, value) == [ns |-> ns, name |-> name, value |-> value]

-----------------------------------------------------------------------------
(* Inbound: ce_translate.rs.                                               *)

detect_content_mode(media, has_ce_header) ==
  CASE base_media_type(media) \in BatchTypes -> "Batch"
    [] base_media_type(media) \in EventTypes -> "Structured"
    [] OTHER -> IF has_ce_header THEN "Binary" ELSE "NotCloudEvent"

is_structured_media_type(media) == detect_content_mode(media, FALSE) = "Structured"

IsContentType(h) == h.ns = "" /\ h.name = "content-type"
Bound(headers, ns) == SelectSeq(headers, LAMBDA h : h.ns = ns \/ IsContentType(h))

http_headers_to_kafka(headers) ==
  LET found == Bound(headers, "ce-")
      bind(h) == IF h.ns = "ce-" /\ h.name # "datacontenttype"
                 THEN Header("ce_", h.name, h.value)
                 ELSE Header("", "content-type", h.value)
  IN  [ok |-> \A h \in Range(found) : h.value \notin NotAscii,
       headers |-> [i \in DOMAIN found |-> bind(found[i])]]

validate_binary_required(headers) ==
  LET named(a) == SelectSeq(headers, LAMBDA h : h.ns = "ce_" /\ h.name = a)
  IN  /\ \A h \in Range(headers) : h.ns = "ce_" => h.value \notin NotUtf8
      /\ \A a \in RequiredAttributes : \E h \in Range(named(a)) : h.value # ""
      /\ Head(named("specversion")).value = "1.0"

validate_structured_json(body) ==
  /\ body.fmt = "event"
  /\ ~({"data", "data_base64"} \subseteq DOMAIN body.ev)
  /\ \A a \in RequiredAttributes :
       a \in DOMAIN body.ev /\ body.ev[a].t = "string" /\ body.ev[a].v # ""
  /\ body.ev["specversion"].v = "1.0"

\* structured_from_binary: later headers overwrite earlier ones, and every
\* header of the record has to be UTF-8, bound to an attribute or not.
structured_from_binary(headers, body) ==
  LET present == SelectSeq(headers, LAMBDA h : h.value # NoValue)
      bound == Bound(present, "ce_")
      name(h) == IF h.ns = "ce_" THEN h.name ELSE "datacontenttype"
      last(a) == Max({i \in DOMAIN bound : name(bound[i]) = a})
      attributes == [a \in {name(h) : h \in Range(bound)} |->
                       [t |-> "string", v |-> bound[last(a)].value]]
      json == /\ "datacontenttype" \in DOMAIN attributes
              /\ is_json_media_type(attributes["datacontenttype"].v)
              /\ body.v \in JsonData
      data == IF json THEN [a \in {"data"} |-> [t |-> "json", v |-> body.v]]
              ELSE [a \in {"data_base64"} |-> [t |-> "base64", v |-> body.v]]
  IN  [ok |-> \A h \in Range(present) : h.value \notin NotUtf8,
       body |-> Event([a \in DOMAIN data \cup DOMAIN attributes |->
                         IF a \in DOMAIN data THEN data[a] ELSE attributes[a]])]

scalar_attribute_bytes(value) == value.t \in {"string", "bool", "number"}


binary_from_structured(body) ==
  LET ev == body.ev
      attributes == DOMAIN ev \ {"data", "data_base64"}
      bind(a) == IF a = "datacontenttype" THEN Header("", "content-type", ev[a].v)
                 ELSE Header("ce_", a, ev[a].v)
      data == CASE "data_base64" \in DOMAIN ev -> Data(ev["data_base64"].v)
                [] "data" \in DOMAIN ev -> Data(ev["data"].v)
                [] OTHER -> Data("")
  IN  [ok |-> /\ validate_structured_json(body)
              /\ \A a \in attributes : scalar_attribute_bytes(ev[a])
              /\ "data_base64" \in DOMAIN ev => ev["data_base64"].t = "base64",
       headers |-> FoldSet(LAMBDA a, hs : Append(hs, bind(a)), <<>>, attributes),
       body |-> data]

\* translate_cloudevent_ingress: the status, and the record it makes.
translate_cloudevent_ingress(headers, body) ==
  LET types == SelectSeq(headers, IsContentType)
      media == IF types = <<>> \/ Head(types).value \in NotAscii THEN NoValue
               ELSE Head(types).value
      has_ce_header == \E h \in Range(headers) : h.ns = "ce-"
      mode == detect_content_mode(media, has_ce_header)
      binary == http_headers_to_kafka(headers)
      made(hs, ce) == [status |-> "ok", headers |-> hs, value |-> body, is_cloud_event |-> ce]
      refused(status) == [made(<<>>, FALSE) EXCEPT !.status = status]
  IN  CASE mode = "Batch" -> refused("415")
        [] mode = "NotCloudEvent" -> made(<<>>, FALSE)
        [] mode = "Binary" ->
             IF binary.ok /\ validate_binary_required(binary.headers)
             THEN made(binary.headers, TRUE) ELSE refused("400")
        [] mode = "Structured" ->
             IF validate_structured_json(body)
             THEN made(<<Header("", "content-type", media)>>, TRUE) ELSE refused("400")

-----------------------------------------------------------------------------
(* Outbound: the renderings of outbound.rs.                                *)

kafka_headers_to_http(headers) ==
  LET found == Bound(SelectSeq(headers, LAMBDA h : h.value # NoValue), "ce_")
      bind(h) == IF h.ns = "ce_" /\ h.name # "datacontenttype"
                 THEN Header("ce-", header_name(h.name), h.value)
                 ELSE Header("", "content-type", h.value)
  IN  [ok |-> \A h \in Range(found) : h.value \notin NotHttp /\ h.name \notin NotNames,
       headers |-> [i \in DOMAIN found |-> bind(found[i])]]

\* is_structured_at_rest: the headers are read in order, and one that is
\* not UTF-8 fails the rendering unless an earlier one has decided.
is_structured_at_rest(rec) ==
  LET types == SelectSeq(rec.headers, LAMBDA h : IsContentType(h) /\ h.value # NoValue)
      decides == SelectSeq(types, LAMBDA h : h.value \in NotUtf8 \/ is_structured_media_type(h.value))
  IN  CASE decides = <<>> -> "no"
        [] Head(decides).value \in NotUtf8 -> "error"
        [] OTHER -> "yes"

validate_record_cloudevent(rec) ==
  validate_binary_required(SelectSeq(rec.headers, LAMBDA h : h.value # NoValue))

render_cloudevents_binary(rec) ==
  LET unpacked == binary_from_structured(rec.value)
      atRest == is_structured_at_rest(rec)
      http == kafka_headers_to_http(IF atRest = "yes" THEN unpacked.headers ELSE rec.headers)
  IN  CASE atRest = "yes" /\ rec.value.fmt = "event" ->
             [ok |-> unpacked.ok /\ http.ok, headers |-> http.headers, body |-> unpacked.body]
        [] atRest = "no" ->
             [ok |-> validate_record_cloudevent(rec) /\ http.ok,
              headers |-> http.headers, body |-> rec.value]
        [] OTHER -> [ok |-> FALSE, headers |-> <<>>, body |-> rec.value]

render_cloudevents_structured(rec) ==
  LET packed == structured_from_binary(rec.headers, rec.value)
      atRest == is_structured_at_rest(rec)
      type == <<Header("", "content-type", "application/cloudevents+json")>>
  IN  CASE atRest = "yes" ->
             [ok |-> validate_structured_json(rec.value), headers |-> type, body |-> rec.value]
        [] atRest = "no" ->
             [ok |-> validate_record_cloudevent(rec) /\ packed.ok,
              headers |-> type, body |-> packed.body]
        [] OTHER -> [ok |-> FALSE, headers |-> type, body |-> rec.value]

\* decoded_body or, failing that, render_envelope: the value as JSON when it
\* parses, and else in base64.
render_envelope(rec, decode_to_json) ==
  [ok |-> TRUE,
   headers |-> <<Header("", "content-type", "application/json")>>,
   body |-> CASE decode_to_json /\ rec.framed -> [t |-> "decoded", v |-> rec.value.v]
              [] rec.value.fmt = "event" \/ rec.value.v \in JsonData -> [t |-> "json", v |-> rec.value.v]
              [] OTHER -> [t |-> "base64", v |-> rec.value.v]]

=============================================================================
