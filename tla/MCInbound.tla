----------------------------- MODULE MCInbound -----------------------------
(* Instance: every endpoint setting, request form and rendering the code   *)
(* tells apart, varied around a few endpoints as they occur.               *)
EXTENDS InboundWebhook

Text(v) == [t |-> "string", v |-> v]
Sig(prefix, encoding, key, id, body) ==
  [prefix |-> prefix, encoding |-> encoding, mac |-> Hmac(key, id, 0, body)]
Now == [digits |-> TRUE, at |-> 0]

Plain == [signature_mode |-> None, principal |-> None, secret |-> None, signature_header |-> None,
          signature_encoding |-> None, signature_prefix |-> None, timestamp_header |-> None,
          timestamp_tolerance |-> <<>>, idempotency_source |-> NoSource, key_source |-> NoSource,
          forward_headers |-> {}, max_body |-> <<2>>, schema_subject |-> None, schema_format |-> None]
StandardEndpoint == [Plain EXCEPT !.signature_mode = "standard_webhooks", !.secret = "whsec_key",
                                  !.timestamp_tolerance = <<1>>]
SignedEndpoint == [Plain EXCEPT !.secret = "key", !.signature_header = "x-signature",
                                !.timestamp_header = "x-timestamp", !.timestamp_tolerance = <<0>>]
JsonSource == [kind |-> "json", name |-> "id"]

Request(body) == [ids |-> <<>>, stamps |-> <<>>, sigs |-> <<>>, headers |-> <<>>, body |-> body, size |-> 1]
StandardRequest(body) ==
  [Request(body) EXCEPT !.ids = <<"m1">>, !.stamps = <<Now>>,
     !.sigs = <<<<Sig("v1,", "base64", "other", "m1", body), Sig("v1,", "base64", "key", "m1", body)>>>>]
SignedRequest(body) ==
  [Request(body) EXCEPT !.stamps = <<Now>>, !.sigs = <<<<Sig("", "hex", "key", "", body)>>>>]

Type(v) == Header("", "content-type", v)
Required == <<Header("ce-", "id", "e1"), Header("ce-", "source", "s"), Header("ce-", "type", "t"),
              Header("ce-", "specversion", "1.0")>>
EventObject == [id |-> Text("e1"), source |-> Text("s"), type |-> Text("t"), specversion |-> Text("1.0")]
With(ev, more) == Event(more @@ ev)

Envelope == [group_id |-> None, max_attempts |-> 5, base_backoff |-> 1, max_backoff |-> 60,
             request_timeout |-> 20, target |-> "https://hooks", filter |-> NoSource, headers |-> {},
             content_mode |-> "envelope", decode_to_json |-> FALSE]
Binary == [Envelope EXCEPT !.content_mode = "cloud_events_binary"]
Structured == [Envelope EXCEPT !.content_mode = "cloud_events_structured", !.group_id = "g"]

Routes(entry, dedup, here, allowed) == [entry : {entry}, dedup : dedup, here : here, allowed : allowed]
Case(e, s, routes, r) == [endpoint |-> e, subscription |-> s, routes |-> routes, request |-> r]

\* Standard Webhooks: requests that pass, and that fail one check each.
StandardCases ==
  LET good == StandardRequest(Data("7"))
      requests ==
        { good, StandardRequest(Data("text")),
          [good EXCEPT !.ids = <<>>], [good EXCEPT !.ids = <<"">>], [good EXCEPT !.ids = <<"m1", "m1">>],
          [good EXCEPT !.stamps = <<[digits |-> FALSE, at |-> 0]>>], [good EXCEPT !.stamps = <<>>],
          [good EXCEPT !.sigs = <<>>], [good EXCEPT !.sigs[1][2].mac.id = "m2"],
          [good EXCEPT !.sigs[1][2].mac.at = 1],
          [good EXCEPT !.sigs[1][2].prefix = "v2,"], [good EXCEPT !.body = Data("{}")],
          [good EXCEPT !.headers = <<Type("application/cloudevents+json")>>],
          [good EXCEPT !.headers = Required], [good EXCEPT !.size = 3] }
      endpoints ==
        { StandardEndpoint,
          [StandardEndpoint EXCEPT !.schema_subject = "subject", !.forward_headers = {"content-type"}],
          [StandardEndpoint EXCEPT !.secret = "whsec_"], [StandardEndpoint EXCEPT !.secret = "not base64"],
          [StandardEndpoint EXCEPT !.secret = None], [StandardEndpoint EXCEPT !.timestamp_tolerance = <<-1>>],
          [StandardEndpoint EXCEPT !.signature_header = "x-signature"],
          [StandardEndpoint EXCEPT !.idempotency_source = JsonSource],
          [StandardEndpoint EXCEPT !.forward_headers = {"webhook-signature"}] }
  IN  {Case(e, Envelope, Routes("webhook", BOOLEAN, BOOLEAN, {TRUE}), r) : e \in endpoints, r \in requests}

\* A digest over the body, with and without the replay guard.
SignedCases ==
  LET good == SignedRequest(Event([id |-> Text("o1")]))
      requests ==
        { good, Request(Data("7")), [good EXCEPT !.sigs[1][1].prefix = "sha256="],
          [good EXCEPT !.sigs[1][1].encoding = "base64"], [good EXCEPT !.sigs[1][1].mac.key = "other"],
          [good EXCEPT !.body = Event([id |-> Text("")])], [good EXCEPT !.stamps[1].at = -1],
          SignedRequest(Data("text")) }
      endpoints ==
        { SignedEndpoint, [SignedEndpoint EXCEPT !.timestamp_header = None, !.signature_prefix = "sha256="],
          [SignedEndpoint EXCEPT !.signature_encoding = "base64", !.key_source = JsonSource],
          [SignedEndpoint EXCEPT !.idempotency_source = JsonSource],
          [SignedEndpoint EXCEPT !.signature_header = None], [SignedEndpoint EXCEPT !.secret = ""],
          [SignedEndpoint EXCEPT !.signature_encoding = "rot13"],
          [SignedEndpoint EXCEPT !.schema_format = "xml"],
          [SignedEndpoint EXCEPT !.forward_headers = {"x-signature"}] }
  IN  {Case(e, Envelope, Routes("webhook", {TRUE}, {TRUE}, {TRUE}), r) : e \in endpoints, r \in requests}

\* CloudEvents of both modes, whole and broken, against the three renderings.
EventCases ==
  LET binary == { Required, Append(Required, Type("application/json")),
                  Append(Required, Header("ce-", "datacontenttype", "application/json; charset=utf-8")),
                  Append(Required, Type("text/plain")), Append(Required, Header("ce-", "ext", "<accent>")),
                  Append(Required, Header("", "x-trace", "<bytes>")), Tail(Required),
                  Append(Required, Header("ce-", "data", "x")),
                  Append(Required, Header("ce-", "datacontenttype", "application/cloudevents+json")),
                  Append(Required, Header("ce-", "datacontenttype", "application/cloudevents-batch+json")),
                  Required \o <<Type("text/plain"), Header("ce-", "datacontenttype", "application/json")>>,
                  Append(Required, Type("application/cloudevents-batch+json")),
                  <<Header("ce-", "specversion", "0.3")>> \o Required, <<Type("text/plain")>> }
      objects == { EventObject, [EventObject EXCEPT !.id = Text("")],
                   [EventObject EXCEPT !.specversion = Text("0.3")] }
      more == { <<>>, [data |-> [t |-> "json", v |-> "7"], datacontenttype |-> Text("application/json")],
                [data_base64 |-> [t |-> "base64", v |-> "text"], datacontenttype |-> Text("text/plain")],
                [data |-> [t |-> "json", v |-> "7"], data_base64 |-> [t |-> "base64", v |-> "text"]],
                [data_base64 |-> [t |-> "base64", v |-> ""], count |-> [t |-> "number", v |-> "7"]] }
      extensions == { [t |-> "null", v |-> "null"], [t |-> "array", v |-> "[]"], [t |-> "object", v |-> "{}"],
                      Text("<control>"), Text("<accent>"), Text("<padded>"), Text(""),
                      [t |-> "bool", v |-> "true"] }
      \* Events that are admitted for their required attributes alone.
      loose == {[ext |-> x] : x \in extensions} \cup
               { [data_base64 |-> Text("%")], [data_base64 |-> [t |-> "number", v |-> "7"]],
                 ("a b" :> Text("x")), [Ext |-> Text("x")], [Ext |-> Text("x"), ext |-> Text("y")],
                 [datacontenttype |-> [t |-> "null", v |-> "null"]],
                 [datacontenttype |-> Text("application/cloudevents+json")],
                 [datacontenttype |-> Text("<control>")] }
      structured == {With(ev, x) : ev \in objects, x \in more} \cup {With(EventObject, x) : x \in loose}
                    \cup {Event([EventObject EXCEPT !.id = Text(v)]) : v \in {"<control>", "<accent>", "<padded>"}}
      requests ==
        {[Request(Data(d)) EXCEPT !.headers = hs] : d \in {"7", "text", ""}, hs \in binary} \cup
        {[Request(b) EXCEPT !.headers = <<Type("Application/CloudEvents+JSON")>>] : b \in structured}
      endpoints == {[Plain EXCEPT !.forward_headers = {"x-trace"}, !.schema_subject = "subject"]}
      subscriptions == { Binary, Structured, Envelope,
                         [Binary EXCEPT !.decode_to_json = TRUE], [Structured EXCEPT !.target = "http://inside"],
                         [Structured EXCEPT !.headers = {Header("ce-", "id", "x")}] }
  IN  {Case(e, s, Routes("webhook", {FALSE}, {TRUE}, {TRUE}), r) :
         e \in endpoints, s \in subscriptions, r \in requests}

\* The generic route with a key, and the outbound filter.
ProduceCases ==
  LET keyed(k) == [Request(Event([id |-> Text("x"), ok |-> [t |-> "bool", v |-> "false"]]))
                     EXCEPT !.headers = <<Header("", "idempotency-key", k)>>]
      filtering(a) == [Envelope EXCEPT !.filter = [kind |-> "json", name |-> a], !.decode_to_json = TRUE]
      any == Routes("produce", BOOLEAN, BOOLEAN, BOOLEAN)
  IN  {Case(Plain, filtering(a), any, keyed(k)) : a \in {"id", "ok", "missing"}, k \in {"k", "<bytes>"}}
      \cup {Case(Plain, [Envelope EXCEPT !.filter = WebhookId], any, keyed("k")),
            Case(Plain, [Envelope EXCEPT !.max_backoff = 0], any, keyed("k")),
            Case(Plain, Envelope, any, [keyed("k") EXCEPT !.size = 5])}

MCCases == StandardCases \cup SignedCases \cup EventCases \cup ProduceCases
MCBodies == {c.request.body : c \in MCCases}
MCTargets == {"https://hooks"}
=============================================================================
