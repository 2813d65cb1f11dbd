--------------------------- MODULE Clients_proofs ---------------------------
(***************************************************************************)
(* What the two ends of the gateway may rely on: a sender of webhooks on   *)
(* the answers it gets (InboundWebhook), and an application on the stream  *)
(* that the SDK opens for it (SdkStream).  The two components share no     *)
(* state; each has its own inductive invariant.                            *)
(***************************************************************************)
EXTENDS InboundWebhook, SdkStream, FiniteSetTheorems, SequenceTheorems, TLAPS

-----------------------------------------------------------------------------
(* Senders: InboundInv is the inductive invariant of InboundWebhook!Spec.  *)

\* The gateway serves settings that compiled, and they do not change.
Configured == \E c \in Cases : /\ compiles(c.endpoint) /\ endpoint = compile(c.endpoint)
                              /\ request = c.request /\ route \in c.routes

\* The idempotency key of the message, whichever attempt brings it.
TheIdem ==
  IF route.entry = "webhook"
  THEN IF endpoint.idempotency_source = NoSource THEN <<>>
       ELSE extract_source(endpoint.idempotency_source, request, needs_json(endpoint))
  ELSE LET keys == HeaderValues(request, "idempotency-key")
       IN  IF keys = <<>> \/ Head(keys) \in NotAscii THEN <<>> ELSE <<Head(keys)>>

\* What is known of the request once an attempt was admitted.
Genuine == Standard => route.dedup /\ TheIdem = request.ids /\ TheIdem # <<>>

\* IsSigned, for an attempt that was signed at one time and read at another.
SignedWhen(stamp, now) ==
  LET r == Posted(request, stamp)
      at == Head(r.stamps).at
  IN  /\ \E i \in DOMAIN r.sigs : \E s \in Range(r.sigs[i]) :
           /\ s.mac.key = endpoint.secret /\ s.mac.body = request.body
           /\ Standard => request.ids = <<s.mac.id>> /\ s.mac.at = at
      /\ (Standard \/ endpoint.timestamp_header # None) =>
           r.stamps # <<>> /\ Abs(now - at) <= Head(endpoint.timestamp_tolerance)

\* What is known of the record an admitted attempt makes.
Admitted(rec) ==
  /\ Genuine
  /\ rec.idem = TheIdem /\ rec.value = request.body
  /\ Standard => ~rec.event /\ (rec.structured <=> endpoint.schema_subject # None)

\* The records of all attempts, and their stored forms.
Recs == {NoRecord} \cup {webhook_handler(endpoint, Posted(request, s), n).rec : s \in Nat, n \in Nat}
        \cup {produce_handler(Posted(request, s)).rec : s \in Nat}
Stored == {stored_form(rec, a) : rec \in Recs, a \in Attempts}

Refusals == {"400", "401", "403", "408", "413", "415"}
Statuses == {None, "200", "500", "503"} \cup Refusals

InboundTypes ==
  /\ attempt \in [Attempts -> [pc : {"idle", "reading", "producing", "waiting", "answered", "gone"},
                               stamp : Nat, read : Nat, status : Statuses, offset : Nat, dup : BOOLEAN]]
  /\ task \in [Attempts -> [st : {"none", "running", "stored", "late", "done"}, rec : Recs,
                            offset : Nat, dup : BOOLEAN]]
  /\ log \in Seq(Stored) /\ sent \in Seq({"filtered", "delivered", "dead letter"})
  /\ clock \in 0..MaxClock /\ faults \in 0..MaxFaults

\* A handler and the call it makes.
AgreesAt(a) ==
  /\ attempt[a].pc \in {"idle", "reading"} => task[a].st = "none"
  /\ attempt[a].pc \in {"producing", "waiting"} => task[a].st \in {"running", "stored"}
  /\ attempt[a].status # None => attempt[a].pc = "answered"
  /\ attempt[a].status \in Refusals => task[a].st \in {"none", "done"}
  /\ task[a].st # "none" => Admitted(task[a].rec)
HandlersAgree == \A a \in Attempts : AgreesAt(a)

\* A call stores at most once, and only a call that says so has stored.
OneRecordEach ==
  /\ \A i \in 1..Len(log) : log[i].by \in Attempts /\ task[log[i].by].st \in {"stored", "done"}
  /\ \A i, j \in 1..Len(log) : log[i].by = log[j].by => i = j
  /\ \A i \in 1..Len(log) : attempt[log[i].by].status \notin Refusals

\* What a call says it stored.
OffsetsHold ==
  \A a \in Attempts :
    /\ task[a].offset <= Len(log) /\ attempt[a].offset <= Len(log)
    /\ task[a].st = "stored" => task[a].offset >= 1 /\ (task[a].dup \/ log[task[a].offset].by = a)
    /\ attempt[a].status = "200" => /\ attempt[a].offset >= 1 /\ task[a].st = "done"
                                    /\ attempt[a].dup \/ log[attempt[a].offset].by = a

\* What the topic holds.
LogHolds ==
  /\ \A i \in 1..Len(log) :
       /\ Genuine
       /\ log[i].idem = TheIdem /\ log[i].value = request.body
       /\ (Standard /\ endpoint.schema_subject # None) =>
            /\ ~log[i].event
            /\ route.here => log[i].framed /\ (log[i].value.fmt = "event" \/ log[i].value.v \in JsonData)
  /\ (route.dedup /\ TheIdem # <<>>) => Len(log) <= 1
  /\ Len(sent) <= Len(log)

InboundInv == Configured /\ InboundTypes /\ HandlersAgree /\ OneRecordEach /\ OffsetsHold /\ LogHolds

\* Posting a request again changes its timestamps and what is computed from
\* them, and nothing else.
LEMMA PostedIs ==
  ASSUME NEW r \in Requests, NEW stamp \in Nat
  PROVE  /\ Posted(r, stamp).ids = r.ids /\ Posted(r, stamp).headers = r.headers
         /\ Posted(r, stamp).body = r.body
         /\ Posted(r, stamp).sigs \in Seq(Seq(Signatures) \ {<<>>})
  <1> DEFINE again(sig) == IF sig.mac.id = "" THEN sig ELSE [sig EXCEPT !.mac.at = @ + stamp]
  <1> DEFINE signed(i) == [j \in DOMAIN r.sigs[i] |-> again(r.sigs[i][j])]
  <1> DEFINE all == [i \in DOMAIN r.sigs |-> signed(i)]
  <1>1. ASSUME NEW sig \in Signatures
        PROVE  again(sig) \in Signatures
    <2>1. CASE sig.mac.id = ""
      BY <2>1
    <2>2. CASE sig.mac.id # ""
      <3>1. sig.mac \in [key : STRING, id : STRING, at : Int, body : Bodies]
        BY DEF Signatures
      <3>2. PICK m : m = [sig.mac EXCEPT !.at = @ + stamp]
        OBVIOUS
      <3>3. m \in [key : STRING, id : STRING, at : Int, body : Bodies]
        BY <3>1, <3>2
      <3>4. again(sig) = [sig EXCEPT !.mac = m]
        BY <2>2, <3>2
      <3> QED
        BY <3>3, <3>4 DEF Signatures
    <2> QED
      BY <2>1, <2>2
  <1>2. r.sigs \in Seq(Seq(Signatures) \ {<<>>})
    BY DEF Requests
  <1>3. /\ Len(r.sigs) \in Nat /\ DOMAIN r.sigs = 1..Len(r.sigs)
        /\ \A i \in 1..Len(r.sigs) : r.sigs[i] \in Seq(Signatures) /\ r.sigs[i] # <<>>
    BY <1>2
  <1>4. ASSUME NEW i \in 1..Len(r.sigs)
        PROVE  signed(i) \in Seq(Signatures) \ {<<>>}
    <2>1. PICK s \in Seq(Signatures) : s = r.sigs[i] /\ s # <<>>
      BY <1>3
    <2>2. Len(s) \in Nat /\ DOMAIN s = 1..Len(s) /\ Len(s) > 0 /\ \A j \in 1..Len(s) : s[j] \in Signatures
      BY <2>1
    <2>3. signed(i) = [j \in 1..Len(s) |-> again(s[j])]
      BY <2>1, <2>2
    <2>4. \A j \in 1..Len(s) : again(s[j]) \in Signatures
      BY <1>1, <2>2
    <2> HIDE DEF again, signed
    <2>5. signed(i) \in Seq(Signatures) /\ Len(signed(i)) = Len(s)
      BY <2>2, <2>3, <2>4
    <2>7. signed(i) # <<>>
      BY <2>2, <2>5
    <2> QED
      BY <2>5, <2>7
  <1>5. /\ Posted(r, stamp).ids = r.ids /\ Posted(r, stamp).headers = r.headers
        /\ Posted(r, stamp).body = r.body /\ Posted(r, stamp).sigs = all
    BY DEF Posted, Requests
  <1> HIDE DEF again, signed
  <1>6. all \in Seq(Seq(Signatures) \ {<<>>})
    BY <1>3, <1>4
  <1> QED
    BY <1>5, <1>6

\* ce_translate.rs: the body is kept, and a refusal is 400 or 415.
LEMMA TranslateIs ==
  ASSUME NEW headers, NEW value
  PROVE  /\ translate_cloudevent_ingress(headers, value).value = value
         /\ translate_cloudevent_ingress(headers, value).status \in {"ok", "400", "415"}
  BY DEF translate_cloudevent_ingress, detect_content_mode

\* WebhooksFile::compile: what a compiled endpoint keeps, and what it has.
LEMMA CompileIs ==
  ASSUME NEW e \in Endpoints, compiles(e)
  PROVE  /\ compile(e).signature_mode = e.signature_mode /\ compile(e).signature_mode \in {None, "standard_webhooks"}
         /\ compile(e).signature_mode # None => compile(e).idempotency_source = WebhookId
         /\ compile(e).secret # None => \/ compile(e).signature_mode # None
                                        \/ compile(e).signature_header # None
  <1>1. /\ compile(e).signature_mode = e.signature_mode /\ compile(e).signature_header = e.signature_header
        /\ compile(e).secret = (IF e.signature_mode # None THEN signing_key(e.secret) ELSE e.secret)
        /\ compile(e).idempotency_source =
             (IF e.idempotency_source = NoSource /\ e.signature_mode # None THEN WebhookId ELSE e.idempotency_source)
    BY DEF compile, Endpoints
  <1>2. e.signature_mode \in {None, "standard_webhooks"}
    BY DEF Endpoints
  <1>3. e.signature_mode # None => e.idempotency_source \in {NoSource, WebhookId}
    BY <1>2 DEF compiles, signature_settings_ok
  <1>4. (e.signature_mode = None /\ e.secret # None) => e.signature_header # None
    BY DEF compiles, signature_settings_ok, None
  <1> QED
    BY <1>1, <1>2, <1>3, <1>4

\* What the state says about the settings and the request.
LEMMA ConfiguredIs ==
  ASSUME Configured
  PROVE  /\ request \in Requests /\ route \in RouteStates
         /\ endpoint.signature_mode \in {None, "standard_webhooks"}
         /\ endpoint.signature_mode # None => endpoint.idempotency_source = WebhookId
         /\ endpoint.secret # None => endpoint.signature_mode # None \/ endpoint.signature_header # None
  BY CompileIs, CasesAssumption DEF Configured

\* The values of a header are those of the request.
LEMMA SourcesPosted ==
  ASSUME NEW r \in Requests, NEW stamp \in Nat
  PROVE  /\ \A name : HeaderValues(Posted(r, stamp), name) = HeaderValues(r, name)
         /\ \A source, parsed : extract_source(source, Posted(r, stamp), parsed) = extract_source(source, r, parsed)
  <1>0. PICK p : p = Posted(r, stamp)
    OBVIOUS
  <1>1. p.ids = r.ids /\ p.headers = r.headers /\ p.body = r.body
    BY <1>0, PostedIs
  <1>2. \A name : HeaderValues(p, name) = HeaderValues(r, name)
    BY <1>1 DEF HeaderValues
  <1>3. ASSUME NEW source, NEW parsed
        PROVE  extract_source(source, p, parsed) = extract_source(source, r, parsed)
    <2>1. CASE source.kind = "header"
      BY <1>2, <2>1 DEF extract_source
    <2>2. CASE source.kind # "header"
      BY <1>1, <2>2, Zenon DEF extract_source
    <2> QED
      BY <2>1, <2>2
  <1> QED
    BY <1>0, <1>2, <1>3

\* Posting keeps the number of timestamps.
LEMMA StampsPosted ==
  ASSUME NEW r \in Requests, NEW stamp \in Nat
  PROVE  Posted(r, stamp).stamps \in Seq([digits : BOOLEAN, at : Int])
  <1>1. r.stamps \in Seq([digits : BOOLEAN, at : Int])
    BY DEF Requests
  <1>2. \A i \in DOMAIN r.stamps : [r.stamps[i] EXCEPT !.at = @ + stamp] \in [digits : BOOLEAN, at : Int]
    <2> SUFFICES ASSUME NEW i \in DOMAIN r.stamps
                 PROVE  [r.stamps[i] EXCEPT !.at = @ + stamp] \in [digits : BOOLEAN, at : Int]
      OBVIOUS
    <2>0. PICK q \in Seq([digits : BOOLEAN, at : Int]) : q = r.stamps
      BY <1>1
    <2>1. PICK x \in [digits : BOOLEAN, at : Int] : x = r.stamps[i]
      BY <2>0, ElementOfSeq, LenProperties
    <2>2. PICK n \in Int : n = x.at + stamp
      BY <2>1
    <2> QED
      BY <2>1, <2>2
  <1>3. Posted(r, stamp).stamps = [i \in DOMAIN r.stamps |-> [r.stamps[i] EXCEPT !.at = @ + stamp]]
    BY DEF Posted, Requests
  <1>4. DOMAIN r.stamps = 1..Len(r.stamps) /\ Len(r.stamps) \in Nat
    BY <1>1
  <1> QED
    BY <1>2, <1>3, <1>4

\* A verified signature was made with the endpoint's key over this body, and a
\* Standard Webhooks one over the id and the time as well; the time is fresh.
LEMMA SignedIs ==
  ASSUME NEW r \in Requests, NEW stamp \in Nat, NEW now, NEW e, NEW p, p = Posted(r, stamp)
  PROVE  /\ authenticate(e, p, now) =>
              /\ \E i \in DOMAIN p.sigs : \E s \in Range(p.sigs[i]) :
                   /\ s.mac.key = e.secret /\ s.mac.body = r.body
                   /\ r.ids = <<s.mac.id>> /\ s.mac.at = Head(p.stamps).at
              /\ p.stamps # <<>> /\ Abs(now - Head(p.stamps).at) <= Head(e.timestamp_tolerance)
         /\ hmac_ok(e, p, now) =>
              /\ \E i \in DOMAIN p.sigs : \E s \in Range(p.sigs[i]) : s.mac.key = e.secret /\ s.mac.body = r.body
              /\ e.timestamp_header # None =>
                   p.stamps # <<>> /\ Abs(now - Head(p.stamps).at) <= Head(e.timestamp_tolerance)
  <1>1. p.body = r.body /\ p.ids = r.ids /\ p.sigs \in Seq(Seq(Signatures) \ {<<>>})
    BY PostedIs
  <1>2. PICK q \in Seq(Seq(Signatures) \ {<<>>}) : q = p.sigs
    BY <1>1
  <1>3. ASSUME authenticate(e, p, now)
        PROVE  /\ \E i \in DOMAIN p.sigs : \E s \in Range(p.sigs[i]) :
                    /\ s.mac.key = e.secret /\ s.mac.body = r.body
                    /\ r.ids = <<s.mac.id>> /\ s.mac.at = Head(p.stamps).at
               /\ p.stamps # <<>> /\ Abs(now - Head(p.stamps).at) <= Head(e.timestamp_tolerance)
    <2>1. PICK s \in Range(Head(p.sigs)) : s.mac = Hmac(e.secret, Head(p.ids), Head(p.stamps).at, p.body)
      BY <1>3 DEF authenticate
    <2>2. /\ Len(p.sigs) = 1 /\ Len(p.ids) = 1 /\ Len(p.stamps) = 1
          /\ Abs(now - Head(p.stamps).at) <= Head(e.timestamp_tolerance)
      BY <1>3 DEF authenticate, Single
    <2>3. Head(q) = q[1] /\ 1 \in DOMAIN q
      BY <1>2, <2>2
    <2>4. PICK ids \in Seq(STRING) : ids = r.ids /\ Len(ids) = 1
      BY <1>1, <2>2 DEF Requests
    <2>5. ids = <<Head(ids)>>
      <3>1. ids[1] \in STRING /\ Head(ids) = ids[1]
        BY <2>4
      <3>2. <<ids[1]>> \in Seq(STRING) /\ Len(<<ids[1]>>) = 1 /\ <<ids[1]>>[1] = ids[1]
        BY <3>1
      <3> QED
        BY <2>4, <3>1, <3>2, SeqEqual
    <2>6. /\ s.mac.key = e.secret /\ s.mac.body = r.body
          /\ s.mac.id = Head(r.ids) /\ s.mac.at = Head(p.stamps).at
      BY <1>1, <2>1 DEF Hmac
    <2>7. PICK t \in Seq([digits : BOOLEAN, at : Int]) : t = p.stamps
      BY StampsPosted
    <2>8. p.stamps # <<>>
      BY <2>2, <2>7
    <2>9. r.ids = <<s.mac.id>>
      BY <2>4, <2>5, <2>6
    <2>10. 1 \in DOMAIN p.sigs /\ s \in Range(p.sigs[1])
      BY <1>2, <2>1, <2>3
    <2> QED
      BY <2>2, <2>6, <2>8, <2>9, <2>10
  <1>4. ASSUME hmac_ok(e, p, now)
        PROVE  /\ \E i \in DOMAIN p.sigs : \E s \in Range(p.sigs[i]) : s.mac.key = e.secret /\ s.mac.body = r.body
               /\ e.timestamp_header # None =>
                    p.stamps # <<>> /\ Abs(now - Head(p.stamps).at) <= Head(e.timestamp_tolerance)
    <2>1. p.sigs # <<>> /\ Head(Head(p.sigs)).mac = Hmac(e.secret, "", 0, p.body)
      BY <1>4 DEF hmac_ok, verify_signature
    <2>a. q # <<>>
      BY <1>2, <2>1
    <2>0. Len(q) \in Nat \ {0} /\ DOMAIN q = 1..Len(q)
      BY <2>a, EmptySeq, LenProperties, Zenon
    <2>2. 1 \in DOMAIN q /\ Head(q) = q[1] /\ q[1] \in Seq(Signatures) \ {<<>>}
      BY <1>2, <2>0
    <2>3. PICK u \in Seq(Signatures) : u = q[1] /\ u # <<>>
      BY <2>2
    <2>4. Head(u) = u[1] /\ 1 \in DOMAIN u
      <3>1. Len(u) \in Nat /\ Len(u) >= 1 /\ DOMAIN u = 1..Len(u)
        BY <2>3, EmptySeq, LenProperties
      <3> QED
        BY <2>3, <3>1
    <2>5. PICK s : s = u[1]
      OBVIOUS
    <2>6. s \in Range(p.sigs[1]) /\ 1 \in DOMAIN p.sigs
      BY <1>2, <2>2, <2>3, <2>4, <2>5 DEF Range
    <2>b. Head(Head(p.sigs)) = s
      BY <1>2, <2>2, <2>3, <2>4, <2>5
    <2>7. s.mac.key = e.secret /\ s.mac.body = r.body
      <3>1. \A mac : \A id, at : mac = Hmac(e.secret, id, at, p.body) => mac.key = e.secret /\ mac.body = r.body
        BY <1>1 DEF Hmac
      <3> QED
        BY <2>1, <2>b, <3>1
    <2>8. e.timestamp_header # None =>
            p.stamps # <<>> /\ Abs(now - Head(p.stamps).at) <= Head(e.timestamp_tolerance)
      BY <1>4 DEF hmac_ok
    <2> QED
      BY <2>6, <2>7, <2>8
  <1> QED
    BY <1>3, <1>4

\* A message that authenticates has one id, which is its idempotency key.
LEMMA SignedId ==
  ASSUME NEW r \in Requests, NEW stamp \in Nat, NEW now, NEW e, authenticate(e, Posted(r, stamp), now)
  PROVE  extract_source(WebhookId, r, needs_json(e)) = r.ids /\ r.ids # <<>>
  <1>1. Posted(r, stamp).ids = r.ids
    BY PostedIs
  <1>2. Len(r.ids) = 1 /\ Head(r.ids) \notin NotAscii
    BY <1>1 DEF authenticate, Single
  <1>3. PICK ids \in Seq(STRING) : ids = r.ids
    BY DEF Requests
  <1>4. ids # <<>> /\ Head(ids) = ids[1]
    BY <1>2, <1>3
  <1>5. <<ids[1]>> = ids
    <2>1. ids[1] \in STRING /\ Len(ids) = 1
      BY <1>2, <1>3
    <2>2. <<ids[1]>> \in Seq(STRING) /\ Len(<<ids[1]>>) = 1 /\ <<ids[1]>>[1] = ids[1]
      BY <2>1
    <2> QED
      BY <2>1, <2>2, SeqEqual
  <1>6. HeaderValues(r, "webhook-id") = ids
    BY <1>3 DEF HeaderValues
  <1>7. extract_source(WebhookId, r, needs_json(e)) = <<Head(ids)>>
    BY <1>2, <1>3, <1>4, <1>6 DEF extract_source, WebhookId
  <1> QED
    BY <1>3, <1>4, <1>5, <1>7

\* Steps 7 and 8 keep the body.
LEMMA TranslatedIs ==
  ASSUME NEW e, NEW r
  PROVE  /\ translated(e, r).value = r.body
         /\ translated(e, r).status \in {"ok", "400", "415"}
         /\ e.signature_mode # None => ~translated(e, r).is_cloud_event
  BY TranslateIs DEF translated

\* webhook_handler: an answer, or a record that stands for the request.
LEMMA WebhookAdmits ==
  ASSUME Configured, route.entry = "webhook", NEW stamp \in Nat, NEW now \in Nat
  PROVE  /\ webhook_handler(endpoint, Posted(request, stamp), now).status \in {"ok", "400", "401", "415", "503"}
         /\ webhook_handler(endpoint, Posted(request, stamp), now).status = "ok" =>
              /\ Admitted(webhook_handler(endpoint, Posted(request, stamp), now).rec)
              /\ endpoint.secret # None => SignedWhen(stamp, now)
  <1>0. PICK e : e = endpoint
    OBVIOUS
  <1>1. PICK r \in Requests : r = request
    BY ConfiguredIs
  <1>2. PICK p : p = Posted(r, stamp)
    OBVIOUS
  <1>3. PICK out : out = webhook_handler(e, p, now)
    OBVIOUS
  <1>4. PICK ce : ce = translated(e, p)
    OBVIOUS
  <1>5. ce.value = p.body /\ ce.status \in {"ok", "400", "415"} /\ (e.signature_mode # None => ~ce.is_cloud_event)
    BY ONLY <1>4, TranslatedIs
  <1>6. PICK idem : idem = extract_source(e.idempotency_source, p, needs_json(e))
    OBVIOUS
  <1>7. PICK key : key = extract_source(e.key_source, p, needs_json(e))
    OBVIOUS
  <1>8. PICK h : h = record_headers(e, p, ce.headers)
    OBVIOUS
  <1>9. \/ out = refused("401") \/ out = refused("503") \/ out = refused("400")
        \/ out = refused(ce.status) /\ ce.status # "ok"
        \/ /\ e.signature_mode # None => authenticate(e, p, now) /\ route.dedup
           /\ e.signature_header # None => hmac_ok(e, p, now)
           /\ out = [status |-> "ok",
                     rec |-> [idem |-> IF e.idempotency_source = NoSource THEN <<>> ELSE idem,
                              key |-> IF e.key_source = NoSource THEN <<>> ELSE key,
                              headers |-> h, value |-> ce.value,
                              structured |-> e.schema_subject # None /\ ~ce.is_cloud_event,
                              event |-> ce.is_cloud_event]]
    BY <1>3, <1>4, <1>6, <1>7, <1>8 DEF webhook_handler
  <1>10. CASE out = refused("401") \/ out = refused("503") \/ out = refused("400") \/ (out = refused(ce.status) /\ ce.status # "ok")
    <2>1. out.status \in {"400", "401", "415", "503"}
      BY <1>5, <1>10 DEF refused
    <2> QED
      BY <1>0, <1>1, <1>2, <1>3, <2>1
  <1>11. CASE /\ e.signature_mode # None => authenticate(e, p, now) /\ route.dedup
              /\ e.signature_header # None => hmac_ok(e, p, now)
              /\ out = [status |-> "ok",
                        rec |-> [idem |-> IF e.idempotency_source = NoSource THEN <<>> ELSE idem,
                                 key |-> IF e.key_source = NoSource THEN <<>> ELSE key,
                                 headers |-> h, value |-> ce.value,
                                 structured |-> e.schema_subject # None /\ ~ce.is_cloud_event,
                                 event |-> ce.is_cloud_event]]
    <2>1. /\ out.status = "ok" /\ out.rec.value = ce.value
          /\ out.rec.idem = IF e.idempotency_source = NoSource THEN <<>> ELSE idem
          /\ out.rec.structured <=> (e.schema_subject # None /\ ~ce.is_cloud_event)
          /\ out.rec.event = ce.is_cloud_event
      BY <1>11
    <2>2. out.rec.idem = TheIdem
      BY <1>0, <1>1, <1>2, <1>6, <2>1, SourcesPosted DEF TheIdem
    <2>3. out.rec.value = request.body
      BY <1>1, <1>2, <1>5, <2>1, PostedIs
    <2>4. Standard => ~out.rec.event /\ (out.rec.structured <=> endpoint.schema_subject # None)
      BY <1>0, <1>5, <2>1 DEF Standard
    <2>5. endpoint.secret # None => SignedWhen(stamp, now)
      <3> SUFFICES ASSUME endpoint.secret # None PROVE SignedWhen(stamp, now)
        OBVIOUS
      <3>1. CASE e.signature_mode # None
        <4>1. authenticate(e, p, now)
          BY <1>11, <3>1
        <4>2. /\ \E i \in DOMAIN p.sigs : \E s \in Range(p.sigs[i]) :
                   /\ s.mac.key = e.secret /\ s.mac.body = r.body
                   /\ r.ids = <<s.mac.id>> /\ s.mac.at = Head(p.stamps).at
              /\ p.stamps # <<>> /\ Abs(now - Head(p.stamps).at) <= Head(e.timestamp_tolerance)
          BY ONLY <1>2, <4>1, SignedIs, stamp \in Nat, r \in Requests
        <4> QED
          BY <1>0, <1>1, <1>2, <4>2 DEF SignedWhen
      <3>2. CASE e.signature_mode = None
        <4>1. hmac_ok(e, p, now)
          BY <1>0, <1>11, <3>2, ConfiguredIs
        <4>2. /\ \E i \in DOMAIN p.sigs : \E s \in Range(p.sigs[i]) : s.mac.key = e.secret /\ s.mac.body = r.body
              /\ e.timestamp_header # None =>
                   p.stamps # <<>> /\ Abs(now - Head(p.stamps).at) <= Head(e.timestamp_tolerance)
          BY ONLY <1>2, <4>1, SignedIs, stamp \in Nat, r \in Requests
        <4>3. ~Standard
          BY <1>0, <3>2 DEF Standard
        <4> QED
          BY <1>0, <1>1, <1>2, <4>2, <4>3 DEF SignedWhen
      <3> QED
        BY <3>1, <3>2
    <2>6. Standard => route.dedup /\ TheIdem = request.ids /\ TheIdem # <<>>
      <3> SUFFICES ASSUME Standard PROVE route.dedup /\ TheIdem = request.ids /\ TheIdem # <<>>
        OBVIOUS
      <3>1. authenticate(e, p, now) /\ route.dedup /\ e.idempotency_source = WebhookId
        BY <1>0, <1>11, ConfiguredIs DEF Standard
      <3>2. extract_source(WebhookId, r, needs_json(e)) = r.ids /\ r.ids # <<>>
        BY ONLY <1>2, <3>1, SignedId, stamp \in Nat, r \in Requests
      <3>3. WebhookId # NoSource
        BY DEF WebhookId, NoSource, None
      <3>4. TheIdem = r.ids
        BY <1>0, <1>1, <3>1, <3>2, <3>3 DEF TheIdem
      <3> QED
        BY <1>1, <3>1, <3>2, <3>4
    <2>7. Admitted(out.rec)
      BY <2>2, <2>3, <2>4, <2>6 DEF Admitted, Genuine
    <2> QED
      BY <1>0, <1>1, <1>2, <1>3, <2>1, <2>5, <2>7
  <1> QED
    BY <1>9, <1>10, <1>11

\* produce_handler.
LEMMA ProduceAdmits ==
  ASSUME Configured, route.entry = "produce", NEW stamp \in Nat
  PROVE  /\ produce_handler(Posted(request, stamp)).status \in {"ok", "400", "415"}
         /\ produce_handler(Posted(request, stamp)).status = "ok" =>
              Admitted(produce_handler(Posted(request, stamp)).rec)
  <1>1. PICK r \in Requests : r = request
    BY ConfiguredIs
  <1>2. PICK p : p = Posted(r, stamp)
    OBVIOUS
  <1>3. PICK out : out = produce_handler(p)
    OBVIOUS
  <1>4. PICK ce : ce = translate_cloudevent_ingress(p.headers, p.body)
    OBVIOUS
  <1>5. ce.value = p.body /\ ce.status \in {"ok", "400", "415"}
    BY <1>4, TranslateIs
  <1>6. PICK keys : keys = HeaderValues(p, "idempotency-key")
    OBVIOUS
  <1>7. CASE ce.status # "ok"
    <2>1. out = refused(ce.status)
      BY <1>3, <1>4, <1>7 DEF produce_handler
    <2>2. out.status \in {"400", "415"}
      BY <1>5, <1>7, <2>1 DEF refused
    <2> QED
      BY <1>1, <1>2, <1>3, <2>2
  <1>8. CASE ce.status = "ok"
    <2>1. /\ out.status = "ok" /\ out.rec.value = ce.value
          /\ out.rec.idem = IF keys = <<>> \/ Head(keys) \in NotAscii THEN <<>> ELSE <<Head(keys)>>
      BY <1>3, <1>4, <1>6, <1>8 DEF produce_handler, NoRecord
    <2>2. keys = HeaderValues(request, "idempotency-key")
      BY <1>1, <1>2, <1>6, SourcesPosted
    <2>3. out.rec.idem = TheIdem
      BY <2>1, <2>2 DEF TheIdem
    <2>4. out.rec.value = request.body
      BY <1>1, <1>2, <1>5, <2>1, PostedIs
    <2>5. ~Standard
      BY DEF Standard
    <2>6. Admitted(out.rec)
      BY <2>3, <2>4, <2>5 DEF Admitted, Genuine
    <2> QED
      BY <1>1, <1>2, <1>3, <2>1, <2>6
  <1> QED
    BY <1>5, <1>7, <1>8

\* Settings and request stay, and so does everything that is defined from them.
LEMMA ConfigKept ==
  ASSUME UNCHANGED config
  PROVE  /\ endpoint' = endpoint /\ route' = route /\ request' = request
         /\ TheIdem' = TheIdem /\ (Standard' <=> Standard) /\ (Genuine' <=> Genuine)
         /\ (Configured' <=> Configured) /\ Recs' = Recs /\ Stored' = Stored
         /\ \A rec : Admitted(rec)' <=> Admitted(rec)
         /\ \A stamp, now : SignedWhen(stamp, now)' <=> SignedWhen(stamp, now)
  <1>1. endpoint' = endpoint /\ route' = route /\ request' = request
    BY DEF config
  <1>2. TheIdem' = TheIdem /\ (Standard' <=> Standard)
    BY <1>1 DEF TheIdem, Standard
  <1>3. Genuine' <=> Genuine
    BY <1>1, <1>2 DEF Genuine
  <1>4. Configured' <=> Configured
    BY <1>1 DEF Configured
  <1>5. \A rec : Admitted(rec)' <=> Admitted(rec)
    BY <1>1, <1>2, <1>3 DEF Admitted
  <1>6. Recs' = Recs
    BY <1>1 DEF Recs, webhook_handler
  <1>7. \A rec, a : stored_form(rec, a)' = stored_form(rec, a)
    BY <1>1 DEF stored_form, Forwarded, Keyed
  <1>8. Stored' = Stored
    BY <1>6, <1>7 DEF Stored
  <1>9. \A stamp, now : SignedWhen(stamp, now)' <=> SignedWhen(stamp, now)
    BY <1>1, <1>2, Zenon DEF SignedWhen
  <1> QED
    BY <1>1, <1>2, <1>3, <1>4, <1>5, <1>6, <1>8, <1>9

\* How an attempt goes on when nothing is stored: a call that has stored stays
\* one, a refusal is for a call that has not, and an answer repeats the call's.
Follows(a) ==
  /\ task[a].st \in {"stored", "done"} => task'[a].st \in {"stored", "done"}
  /\ attempt'[a].status \in Refusals => attempt[a].status \in Refusals \/ task[a].st \notin {"stored", "done"}
  /\ task'[a].offset \in {task[a].offset, 0}
  /\ attempt'[a].offset \in {attempt[a].offset, task[a].offset}
  /\ task'[a].st = "stored" =>
       task[a].st = "stored" /\ task'[a].offset = task[a].offset /\ task'[a].dup = task[a].dup
  /\ attempt'[a].status = "200" =>
       /\ task'[a].st = "done"
       /\ \/ attempt[a].status = "200" /\ attempt'[a].offset = attempt[a].offset /\ attempt'[a].dup = attempt[a].dup
          \/ task[a].st = "stored" /\ attempt'[a].offset = task[a].offset /\ attempt'[a].dup = task[a].dup

\* The parts of the invariant.
LEMMA InboundParts ==
  ASSUME InboundInv
  PROVE  /\ Configured /\ InboundTypes /\ HandlersAgree /\ OneRecordEach /\ OffsetsHold /\ LogHolds
         /\ \A a \in Attempts : /\ attempt[a].offset \in Nat /\ task[a].offset \in Nat /\ attempt[a].stamp \in Nat
         /\ Len(log) \in Nat
  <1>1. Configured /\ InboundTypes /\ HandlersAgree /\ OneRecordEach /\ OffsetsHold /\ LogHolds
    BY DEF InboundInv
  <1>2. ASSUME NEW a \in Attempts
        PROVE  attempt[a].offset \in Nat /\ task[a].offset \in Nat /\ attempt[a].stamp \in Nat
    <2>1. /\ attempt[a] \in [pc : {"idle", "reading", "producing", "waiting", "answered", "gone"},
                             stamp : Nat, read : Nat, status : Statuses, offset : Nat, dup : BOOLEAN]
          /\ task[a] \in [st : {"none", "running", "stored", "late", "done"}, rec : Recs,
                          offset : Nat, dup : BOOLEAN]
      BY <1>1 DEF InboundTypes
    <2> QED
      BY <2>1
  <1>3. Len(log) \in Nat
    <2>1. log \in Seq(Stored)
      BY <1>1 DEF InboundTypes
    <2> QED
      BY <2>1
  <1> QED
    BY <1>1, <1>2, <1>3

\* A step that stores nothing.
LEMMA LogKept ==
  ASSUME InboundInv, UNCHANGED <<config, log>>, InboundTypes', Len(sent') <= Len(log'),
         \A a \in Attempts : AgreesAt(a)' /\ Follows(a)
  PROVE  InboundInv'
  <1> USE InboundParts
  <1>0. /\ log' = log /\ TheIdem' = TheIdem /\ (Standard' <=> Standard) /\ (Genuine' <=> Genuine) /\ Configured'
        /\ endpoint' = endpoint /\ route' = route /\ request' = request
    BY ConfigKept
  <1>1. HandlersAgree'
    BY DEF HandlersAgree
  <1>2. OneRecordEach'
    <2>1. \A i \in 1..Len(log) : log[i].by \in Attempts /\ task[log[i].by].st \in {"stored", "done"}
                                 /\ attempt[log[i].by].status \notin Refusals
      BY DEF OneRecordEach
    <2>2. \A i \in 1..Len(log) : task'[log[i].by].st \in {"stored", "done"} /\ attempt'[log[i].by].status \notin Refusals
      BY <2>1 DEF Follows
    <2> QED
      BY <1>0, <2>1, <2>2 DEF OneRecordEach
  <1>3. OffsetsHold'
    <2> SUFFICES ASSUME NEW a \in Attempts
                 PROVE  /\ task'[a].offset <= Len(log) /\ attempt'[a].offset <= Len(log)
                        /\ task'[a].st = "stored" => task'[a].offset >= 1 /\ (task'[a].dup \/ log[task'[a].offset].by = a)
                        /\ attempt'[a].status = "200" => /\ attempt'[a].offset >= 1 /\ task'[a].st = "done"
                                                         /\ attempt'[a].dup \/ log[attempt'[a].offset].by = a
      BY <1>0 DEF OffsetsHold
    <2>0. Follows(a)
      OBVIOUS
    <2>1. task'[a].offset <= Len(log) /\ attempt'[a].offset <= Len(log)
      BY <2>0 DEF Follows, OffsetsHold
    <2>2. task'[a].st = "stored" => task'[a].offset >= 1 /\ (task'[a].dup \/ log[task'[a].offset].by = a)
      BY <2>0 DEF Follows, OffsetsHold
    <2>3. attempt'[a].status = "200" => /\ attempt'[a].offset >= 1 /\ task'[a].st = "done"
                                        /\ attempt'[a].dup \/ log[attempt'[a].offset].by = a
      BY <2>0 DEF Follows, OffsetsHold
    <2> QED
      BY <2>1, <2>2, <2>3
  <1>4. LogHolds'
    BY <1>0 DEF LogHolds
  <1> QED
    BY <1>0, <1>1, <1>2, <1>3, <1>4 DEF InboundInv

\* An attempt that a step does not touch.
LEMMA SameAt ==
  ASSUME InboundInv, UNCHANGED config, NEW a \in Attempts, attempt'[a] = attempt[a], task'[a] = task[a]
  PROVE  AgreesAt(a)' /\ Follows(a)
  <1> USE InboundParts
  <1>1. AgreesAt(a)
    BY DEF HandlersAgree
  <1>2. AgreesAt(a)'
    BY <1>1, ConfigKept DEF AgreesAt
  <1>3. Follows(a)
    BY DEF Follows, OffsetsHold
  <1> QED
    BY <1>2, <1>3

\* At the start.
LEMMA InboundInit == Init => InboundInv
  <1> SUFFICES ASSUME Init PROVE InboundInv
    OBVIOUS
  <1> USE DEF Init, Idle, NoTask
  <1>1. Configured
    BY DEF Configured
  <1>2. InboundTypes
    BY ClockAssumption DEF InboundTypes, Recs, Statuses
  <1>3. None \notin Refusals /\ None # "200"
    BY DEF None, Refusals
  <1>4. HandlersAgree
    BY <1>3 DEF HandlersAgree, AgreesAt
  <1>5. OneRecordEach /\ OffsetsHold /\ LogHolds
    BY <1>3 DEF OneRecordEach, OffsetsHold, LogHolds
  <1> QED
    BY <1>1, <1>2, <1>4, <1>5 DEF InboundInv

\* The parts of the types.
LEMMA TypesAt ==
  ASSUME InboundInv, NEW a \in Attempts
  PROVE  /\ attempt[a] \in [pc : {"idle", "reading", "producing", "waiting", "answered", "gone"},
                            stamp : Nat, read : Nat, status : Statuses, offset : Nat, dup : BOOLEAN]
         /\ task[a] \in [st : {"none", "running", "stored", "late", "done"}, rec : Recs, offset : Nat, dup : BOOLEAN]
         /\ AgreesAt(a)
  BY InboundParts DEF InboundTypes, HandlersAgree

\* A step of one handler and its call.
LEMMA OneMoves ==
  ASSUME InboundInv, UNCHANGED <<config, log, sent>>, NEW a \in Attempts,
         clock' \in 0..MaxClock, faults' \in 0..MaxFaults,
         NEW h \in [pc : {"idle", "reading", "producing", "waiting", "answered", "gone"},
                    stamp : Nat, read : Nat, status : Statuses, offset : Nat, dup : BOOLEAN],
         NEW t \in [st : {"none", "running", "stored", "late", "done"}, rec : Recs, offset : Nat, dup : BOOLEAN],
         attempt' = [attempt EXCEPT ![a] = h], task' = [task EXCEPT ![a] = t],
         AgreesAt(a)', Follows(a)
  PROVE  InboundInv'
  <1> USE InboundParts
  <1>1. InboundTypes'
    <2>1. Recs' = Recs /\ Stored' = Stored
      BY ConfigKept
    <2>2. attempt' \in [Attempts -> [pc : {"idle", "reading", "producing", "waiting", "answered", "gone"},
                               stamp : Nat, read : Nat, status : Statuses, offset : Nat, dup : BOOLEAN]]
      BY DEF InboundTypes
    <2>3. task' \in [Attempts -> [st : {"none", "running", "stored", "late", "done"}, rec : Recs,
                            offset : Nat, dup : BOOLEAN]]
      BY DEF InboundTypes
    <2> QED
      BY <2>1, <2>2, <2>3 DEF InboundTypes
  <1>2. ASSUME NEW b \in Attempts PROVE AgreesAt(b)' /\ Follows(b)
    <2>1. CASE b = a
      BY <2>1
    <2>2. CASE b # a
      <3>1. attempt'[b] = attempt[b] /\ task'[b] = task[b]
        BY <2>2 DEF InboundTypes
      <3> QED
        BY <3>1, SameAt
    <2> QED
      BY <2>1, <2>2
  <1>3. Len(sent') <= Len(log')
    BY DEF LogHolds
  <1> QED
    BY <1>1, <1>2, <1>3, LogKept

\* The call returns, and the handler answers if it still waits for it.
LEMMA Responds ==
  ASSUME InboundInv, UNCHANGED <<config, log, sent>>, NEW a \in Attempts, NEW status \in Statuses \ {None},
         clock' \in 0..MaxClock, faults' \in 0..MaxFaults,
         Respond(a, status), task[a].st \in {"running", "stored"},
         status \in Refusals => task[a].st = "running", status = "200" => task[a].st = "stored"
  PROVE  InboundInv'
  <1>0. /\ attempt[a] \in [pc : {"idle", "reading", "producing", "waiting", "answered", "gone"},
                           stamp : Nat, read : Nat, status : Statuses, offset : Nat, dup : BOOLEAN]
        /\ task[a] \in [st : {"none", "running", "stored", "late", "done"}, rec : Recs, offset : Nat, dup : BOOLEAN]
        /\ AgreesAt(a) /\ OffsetsHold
        /\ attempt \in [Attempts -> [pc : {"idle", "reading", "producing", "waiting", "answered", "gone"},
                                     stamp : Nat, read : Nat, status : Statuses, offset : Nat, dup : BOOLEAN]]
        /\ task \in [Attempts -> [st : {"none", "running", "stored", "late", "done"}, rec : Recs, offset : Nat, dup : BOOLEAN]]
    BY TypesAt, InboundParts DEF InboundTypes
  <1>1. PICK t : t = [task[a] EXCEPT !.st = "done"]
    OBVIOUS
  <1>2. /\ t \in [st : {"none", "running", "stored", "late", "done"}, rec : Recs, offset : Nat, dup : BOOLEAN]
        /\ t.st = "done" /\ t.rec = task[a].rec /\ t.offset = task[a].offset /\ t.dup = task[a].dup
    BY <1>0, <1>1
  <1>3. task' = [task EXCEPT ![a] = t] /\ task'[a] = t
    BY <1>0, <1>1 DEF Respond
  <1>4. \A rec : Admitted(rec)' <=> Admitted(rec)
    BY ConfigKept
  <1>a. Admitted(t.rec)'
    BY <1>0, <1>2, <1>4 DEF AgreesAt
  <1>5. CASE attempt[a].pc \in {"producing", "waiting"}
    <2>1. PICK h : h = [attempt[a] EXCEPT !.pc = "answered", !.status = status, !.offset = task[a].offset, !.dup = task[a].dup]
      OBVIOUS
    <2>2. /\ h \in [pc : {"idle", "reading", "producing", "waiting", "answered", "gone"},
                    stamp : Nat, read : Nat, status : Statuses, offset : Nat, dup : BOOLEAN]
          /\ h.pc = "answered" /\ h.status = status /\ h.offset = task[a].offset /\ h.dup = task[a].dup
      BY <1>0, <2>1
    <2>3. attempt' = [attempt EXCEPT ![a] = h] /\ attempt'[a] = h
      BY <1>0, <1>5, <2>1 DEF Respond
    <2>4. AgreesAt(a)'
      BY <1>2, <1>3, <1>a, <2>2, <2>3 DEF AgreesAt
    <2>5. Follows(a)
      BY <1>0, <1>2, <1>3, <2>2, <2>3 DEF Follows
    <2> QED
      BY <1>2, <1>3, <2>2, <2>3, <2>4, <2>5, OneMoves
  <1>6. CASE attempt[a].pc \notin {"producing", "waiting"}
    <2>1. attempt' = attempt
      BY <1>6 DEF Respond
    <2>2. PICK h \in [pc : {"idle", "reading", "producing", "waiting", "answered", "gone"},
                      stamp : Nat, read : Nat, status : Statuses, offset : Nat, dup : BOOLEAN] : h = attempt[a]
      BY <1>0
    <2>3. attempt' = [attempt EXCEPT ![a] = h] /\ attempt'[a] = h
      BY <1>0, <2>1, <2>2
    <2>4. AgreesAt(a)'
      BY <1>0, <1>2, <1>3, <1>a, <1>6, <2>2, <2>3 DEF AgreesAt
    <2>5. attempt[a].status # "200"
      BY <1>0 DEF OffsetsHold
    <2>6. Follows(a)
      BY <1>0, <1>2, <1>3, <2>2, <2>3, <2>5 DEF Follows
    <2> QED
      BY <1>2, <1>3, <2>2, <2>3, <2>4, <2>6, OneMoves
  <1> QED
    BY <1>5, <1>6

\* A bounded counter after a fault.
LEMMA FaultCounts ==
  ASSUME InboundInv
  PROVE  /\ clock \in 0..MaxClock /\ faults \in 0..MaxFaults /\ MaxClock \in Nat
         /\ Fault => faults' \in 0..MaxFaults
  <1>1. clock \in 0..MaxClock /\ faults \in 0..MaxFaults
    BY InboundParts DEF InboundTypes
  <1> QED
    BY <1>1, ClockAssumption DEF Fault

\* What the statuses are.
LEMMA StatusesAre ==
  /\ {"403", "400", "200", "503", "500", "401", "408", "413", "415"} \subseteq Statuses \ {None}
  /\ {"403", "400", "401", "408", "413", "415"} \subseteq Refusals
  /\ "200" \notin Refusals /\ "503" \notin Refusals /\ "500" \notin Refusals /\ None \notin Refusals
  BY DEF Statuses, Refusals, None

\* Denied, Invalid and Produced.
LEMMA AnswerSteps ==
  ASSUME InboundInv, NEW a \in Attempts, Denied(a) \/ Invalid(a) \/ Produced(a)
  PROVE  InboundInv'
  <1>1. UNCHANGED <<config, log, sent>> /\ clock' \in 0..MaxClock /\ faults' \in 0..MaxFaults
    BY FaultCounts DEF Denied, Invalid, Produced
  <1>2. CASE Denied(a)
    BY <1>1, <1>2, StatusesAre, Responds DEF Denied
  <1>3. CASE Invalid(a)
    BY <1>1, <1>3, StatusesAre, Responds DEF Invalid
  <1>4. CASE Produced(a)
    BY <1>1, <1>4, StatusesAre, Responds DEF Produced
  <1> QED
    BY <1>2, <1>3, <1>4

\* A handler that answers by itself, before or without its call's answer.
LEMMA Answers ==
  ASSUME InboundInv, UNCHANGED <<config, log, sent>>, NEW a \in Attempts, NEW status \in Statuses \ {None, "200"},
         clock' \in 0..MaxClock, faults' \in 0..MaxFaults, Answer(a, status), status \in Refusals => task[a].st = "none",
         attempt[a].status # "200",
         NEW t \in [st : {"none", "running", "stored", "late", "done"}, rec : Recs, offset : Nat, dup : BOOLEAN],
         task' = [task EXCEPT ![a] = t],
         t = task[a] \/ (task[a].st = "running" /\ t = [task[a] EXCEPT !.st = "late"])
  PROVE  InboundInv'
  <1>0. /\ attempt[a] \in [pc : {"idle", "reading", "producing", "waiting", "answered", "gone"},
                           stamp : Nat, read : Nat, status : Statuses, offset : Nat, dup : BOOLEAN]
        /\ task[a] \in [st : {"none", "running", "stored", "late", "done"}, rec : Recs, offset : Nat, dup : BOOLEAN]
        /\ AgreesAt(a) /\ OffsetsHold
        /\ attempt \in [Attempts -> [pc : {"idle", "reading", "producing", "waiting", "answered", "gone"},
                                     stamp : Nat, read : Nat, status : Statuses, offset : Nat, dup : BOOLEAN]]
        /\ task \in [Attempts -> [st : {"none", "running", "stored", "late", "done"}, rec : Recs, offset : Nat, dup : BOOLEAN]]
    BY TypesAt, InboundParts DEF InboundTypes
  <1>1. /\ t.rec = task[a].rec /\ t.offset = task[a].offset /\ t.dup = task[a].dup
        /\ t.st = task[a].st \/ (task[a].st = "running" /\ t.st = "late")
    BY <1>0
  <1>2. task'[a] = t
    BY <1>0
  <1>3. \A rec : Admitted(rec)' <=> Admitted(rec)
    BY ConfigKept
  <1>4. t.st # "none" => Admitted(t.rec)'
    BY <1>0, <1>1, <1>3 DEF AgreesAt
  <1>5. PICK h : h = [attempt[a] EXCEPT !.pc = "answered", !.status = status]
    OBVIOUS
  <1>6. /\ h \in [pc : {"idle", "reading", "producing", "waiting", "answered", "gone"},
                  stamp : Nat, read : Nat, status : Statuses, offset : Nat, dup : BOOLEAN]
        /\ h.pc = "answered" /\ h.status = status /\ h.offset = attempt[a].offset /\ h.dup = attempt[a].dup
    BY <1>0, <1>5
  <1>7. attempt' = [attempt EXCEPT ![a] = h] /\ attempt'[a] = h
    BY <1>0, <1>5 DEF Answer
  <1>8. AgreesAt(a)'
    BY <1>1, <1>2, <1>4, <1>6, <1>7 DEF AgreesAt
  <1>9. Follows(a)
    BY <1>0, <1>1, <1>2, <1>6, <1>7 DEF Follows
  <1> QED
    BY <1>2, <1>6, <1>7, <1>8, <1>9, OneMoves

\* produce_error.
LEMMA FailStep ==
  ASSUME InboundInv, NEW a \in Attempts, ProduceFails(a)
  PROVE  InboundInv'
  <1>1. UNCHANGED <<config, log, sent>> /\ clock' \in 0..MaxClock
    BY FaultCounts DEF ProduceFails
  <1>2. faults' \in 0..MaxFaults
    BY FaultCounts DEF ProduceFails, produce_error
  <1>3. CASE task[a].st \in {"running", "stored"} /\ \E status \in {"503", "500"} : Respond(a, status)
    <2>1. PICK status \in {"503", "500"} : Respond(a, status)
      BY <1>3
    <2>2. status \in Statuses \ {None} /\ status \notin Refusals /\ status # "200"
      BY <2>1, StatusesAre
    <2> QED
      BY <1>1, <1>2, <1>3, <2>1, <2>2, Responds
  <1>4. CASE task[a].st = "running" /\ Respond(a, "403")
    BY <1>1, <1>2, <1>4, StatusesAre, Responds
  <1>5. CASE /\ task[a].st = "running" /\ attempt[a].pc \in {"producing", "waiting"} /\ Answer(a, "503")
             /\ task' = [task EXCEPT ![a].st = "late"]
    <2>1. task[a] \in [st : {"none", "running", "stored", "late", "done"}, rec : Recs, offset : Nat, dup : BOOLEAN]
          /\ task \in [Attempts -> [st : {"none", "running", "stored", "late", "done"}, rec : Recs, offset : Nat, dup : BOOLEAN]]
          /\ OffsetsHold
      BY TypesAt, InboundParts DEF InboundTypes
    <2>2. PICK t : t = [task[a] EXCEPT !.st = "late"]
      OBVIOUS
    <2>3. t \in [st : {"none", "running", "stored", "late", "done"}, rec : Recs, offset : Nat, dup : BOOLEAN]
      BY <2>1, <2>2
    <2>4. task' = [task EXCEPT ![a] = t]
      BY <1>5, <2>1, <2>2
    <2>5. attempt[a].status # "200"
      BY <1>5, <2>1 DEF OffsetsHold
    <2>6. "503" \in Statuses \ {None, "200"} /\ "503" \notin Refusals
      BY StatusesAre
    <2> QED
      BY <1>1, <1>2, <1>5, <2>2, <2>3, <2>4, <2>5, <2>6, Answers
  <1> QED
    BY <1>3, <1>4, <1>5 DEF ProduceFails, produce_error

\* A handler that answers while its call goes on, or before there is one.
LEMMA AnswersAlone ==
  ASSUME InboundInv, UNCHANGED <<config, log, sent, task, clock, faults>>, NEW a \in Attempts,
         NEW status \in Statuses \ {None, "200"}, Answer(a, status),
         attempt[a].pc = "reading" \/ (attempt[a].pc = "waiting" /\ status \notin Refusals)
  PROVE  InboundInv'
  <1>1. /\ task \in [Attempts -> [st : {"none", "running", "stored", "late", "done"}, rec : Recs, offset : Nat, dup : BOOLEAN]]
        /\ AgreesAt(a) /\ OffsetsHold
    BY TypesAt, InboundParts DEF InboundTypes
  <1>2. PICK t \in [st : {"none", "running", "stored", "late", "done"}, rec : Recs, offset : Nat, dup : BOOLEAN] : t = task[a]
    BY <1>1
  <1>3. task' = [task EXCEPT ![a] = t]
    BY <1>1, <1>2
  <1>4. attempt[a].status # "200"
    BY <1>1 DEF AgreesAt, None
  <1>5. status \in Refusals => task[a].st = "none"
    BY <1>1 DEF AgreesAt
  <1>6. clock' \in 0..MaxClock /\ faults' \in 0..MaxFaults
    BY FaultCounts
  <1> QED
    BY <1>2, <1>3, <1>4, <1>5, <1>6, Answers

\* The deadline.
LEMMA DeadlineStep ==
  ASSUME InboundInv, NEW a \in Attempts, Deadline(a)
  PROVE  InboundInv'
  <1>1. UNCHANGED <<config, log, sent, task, clock, faults>>
    BY DEF Deadline
  <1>2. CASE attempt[a].pc = "reading" /\ Answer(a, "408")
    BY <1>1, <1>2, StatusesAre, AnswersAlone
  <1>3. CASE attempt[a].pc = "waiting" /\ Answer(a, "503")
    BY <1>1, <1>3, StatusesAre, AnswersAlone
  <1> QED
    BY <1>2, <1>3 DEF Deadline

\* A request arrives.
LEMMA ArriveStep ==
  ASSUME InboundInv, NEW a \in Attempts, Arrive(a)
  PROVE  InboundInv'
  <1>0. /\ attempt[a] \in [pc : {"idle", "reading", "producing", "waiting", "answered", "gone"},
                           stamp : Nat, read : Nat, status : Statuses, offset : Nat, dup : BOOLEAN]
        /\ task[a] \in [st : {"none", "running", "stored", "late", "done"}, rec : Recs, offset : Nat, dup : BOOLEAN]
        /\ AgreesAt(a) /\ OffsetsHold
        /\ attempt \in [Attempts -> [pc : {"idle", "reading", "producing", "waiting", "answered", "gone"},
                                     stamp : Nat, read : Nat, status : Statuses, offset : Nat, dup : BOOLEAN]]
        /\ task \in [Attempts -> [st : {"none", "running", "stored", "late", "done"}, rec : Recs, offset : Nat, dup : BOOLEAN]]
    BY TypesAt, InboundParts DEF InboundTypes
  <1>1. PICK stamp \in {clock} \cup {attempt[b].stamp : b \in {b \in Attempts : attempt[b].pc # "idle"}} :
          attempt' = [attempt EXCEPT ![a].pc = "reading", ![a].stamp = stamp]
    BY DEF Arrive
  <1>2. stamp \in Nat
    BY FaultCounts, InboundParts
  <1>3. PICK h : h = [attempt[a] EXCEPT !.pc = "reading", !.stamp = stamp]
    OBVIOUS
  <1>4. /\ h \in [pc : {"idle", "reading", "producing", "waiting", "answered", "gone"},
                  stamp : Nat, read : Nat, status : Statuses, offset : Nat, dup : BOOLEAN]
        /\ h.pc = "reading" /\ h.status = attempt[a].status /\ h.offset = attempt[a].offset /\ h.dup = attempt[a].dup
    BY <1>0, <1>2, <1>3
  <1>5. attempt' = [attempt EXCEPT ![a] = h] /\ attempt'[a] = h
    BY <1>0, <1>1, <1>3
  <1>6. UNCHANGED <<config, log, sent, task, clock, faults>> /\ attempt[a].pc = "idle"
    BY DEF Arrive
  <1>7. PICK t \in [st : {"none", "running", "stored", "late", "done"}, rec : Recs, offset : Nat, dup : BOOLEAN] : t = task[a]
    BY <1>0
  <1>8. task' = [task EXCEPT ![a] = t]
    BY <1>0, <1>6, <1>7
  <1>9. attempt[a].status = None /\ task[a].st = "none" /\ task'[a] = task[a]
    BY <1>0, <1>6 DEF AgreesAt
  <1>10. AgreesAt(a)'
    BY <1>4, <1>5, <1>9, StatusesAre DEF AgreesAt
  <1>11. Follows(a)
    BY <1>4, <1>5, <1>9, StatusesAre DEF Follows
  <1>12. clock' \in 0..MaxClock /\ faults' \in 0..MaxFaults
    BY <1>6, FaultCounts
  <1> QED
    BY <1>4, <1>5, <1>6, <1>7, <1>8, <1>10, <1>11, <1>12, OneMoves

\* The body is there: the handler answers, or starts its call.
LEMMA BodyStep ==
  ASSUME InboundInv, NEW a \in Attempts, BodyRead(a)
  PROVE  InboundInv'
  <1>0. /\ attempt[a] \in [pc : {"idle", "reading", "producing", "waiting", "answered", "gone"},
                           stamp : Nat, read : Nat, status : Statuses, offset : Nat, dup : BOOLEAN]
        /\ AgreesAt(a) /\ OffsetsHold
        /\ attempt \in [Attempts -> [pc : {"idle", "reading", "producing", "waiting", "answered", "gone"},
                                     stamp : Nat, read : Nat, status : Statuses, offset : Nat, dup : BOOLEAN]]
        /\ task \in [Attempts -> [st : {"none", "running", "stored", "late", "done"}, rec : Recs, offset : Nat, dup : BOOLEAN]]
        /\ attempt[a].stamp \in Nat /\ Configured
    BY TypesAt, InboundParts DEF InboundTypes
  <1>1. /\ UNCHANGED <<config, log, sent, clock, faults>> /\ attempt[a].pc = "reading"
    BY DEF BodyRead
  <1>2. PICK stamp \in Nat : stamp = attempt[a].stamp
    BY <1>0
  <1>3. PICK now \in Nat : now = clock
    BY FaultCounts
  <1>4. route \in RouteStates
    BY <1>0, ConfiguredIs
  <1>5. route.entry \in {"webhook", "produce"}
    BY <1>4 DEF RouteStates
  <1>6. PICK admitted : admitted = IF route.entry = "webhook" THEN webhook_handler(endpoint, Posted(request, stamp), now)
                                   ELSE produce_handler(Posted(request, stamp))
    OBVIOUS
  <1>7. /\ admitted.status \in {"ok", "400", "401", "415", "503"}
        /\ admitted.status = "ok" => Admitted(admitted.rec)
    <2>1. CASE route.entry = "webhook"
      <3>1. admitted = webhook_handler(endpoint, Posted(request, stamp), now)
        BY <1>6, <2>1
      <3> QED
        BY <1>0, <2>1, <3>1, WebhookAdmits
    <2>2. CASE route.entry = "produce"
      <3>1. admitted = produce_handler(Posted(request, stamp))
        BY <1>6, <2>2
      <3> QED
        BY <1>0, <2>2, <3>1, ProduceAdmits
    <2> QED
      BY <1>5, <2>1, <2>2
  <1>8. admitted.rec \in Recs
    BY <1>6 DEF Recs
  <1>9. \/ Answer(a, "413") /\ UNCHANGED task
        \/ admitted.status # "ok" /\ Answer(a, admitted.status) /\ UNCHANGED task
        \/ /\ admitted.status = "ok"
           /\ task' = [task EXCEPT ![a] = [NoTask EXCEPT !.st = "running", !.rec = admitted.rec]]
           /\ attempt' = [attempt EXCEPT ![a].pc = IF Standard THEN "waiting" ELSE "producing", ![a].read = now]
    BY <1>2, <1>3, <1>6 DEF BodyRead
  <1>10. CASE Answer(a, "413") /\ UNCHANGED task
    BY <1>1, <1>10, StatusesAre, AnswersAlone
  <1>11. CASE admitted.status # "ok" /\ Answer(a, admitted.status) /\ UNCHANGED task
    <2>1. PICK status \in Statuses \ {None, "200"} : status = admitted.status
      BY <1>7, <1>11, StatusesAre
    <2> QED
      BY <1>1, <1>11, <2>1, AnswersAlone
  <1>12. CASE /\ admitted.status = "ok"
              /\ task' = [task EXCEPT ![a] = [NoTask EXCEPT !.st = "running", !.rec = admitted.rec]]
              /\ attempt' = [attempt EXCEPT ![a].pc = IF Standard THEN "waiting" ELSE "producing", ![a].read = now]
    <2>1. PICK t : t = [NoTask EXCEPT !.st = "running", !.rec = admitted.rec]
      OBVIOUS
    <2>2. /\ t \in [st : {"none", "running", "stored", "late", "done"}, rec : Recs, offset : Nat, dup : BOOLEAN]
          /\ t.st = "running" /\ t.rec = admitted.rec /\ t.offset = 0
      BY <1>8, <2>1 DEF NoTask
    <2>3. task' = [task EXCEPT ![a] = t] /\ task'[a] = t
      BY <1>0, <1>12, <2>1
    <2>4. PICK h : h = [attempt[a] EXCEPT !.pc = IF Standard THEN "waiting" ELSE "producing", !.read = now]
      OBVIOUS
    <2>5. /\ h \in [pc : {"idle", "reading", "producing", "waiting", "answered", "gone"},
                    stamp : Nat, read : Nat, status : Statuses, offset : Nat, dup : BOOLEAN]
          /\ h.pc \in {"producing", "waiting"} /\ h.status = attempt[a].status
          /\ h.offset = attempt[a].offset /\ h.dup = attempt[a].dup
      BY <1>0, <2>4
    <2>6. attempt' = [attempt EXCEPT ![a] = h] /\ attempt'[a] = h
      BY <1>0, <1>12, <2>4
    <2>7. attempt[a].status = None /\ task[a].st = "none"
      BY <1>0, <1>1 DEF AgreesAt
    <2>8. Admitted(t.rec)'
      BY <1>1, <1>7, <1>12, <2>2, ConfigKept
    <2>9. AgreesAt(a)'
      BY <2>2, <2>3, <2>5, <2>6, <2>7, <2>8, StatusesAre DEF AgreesAt
    <2>10. Follows(a)
      BY <2>2, <2>3, <2>5, <2>6, <2>7, StatusesAre DEF Follows, None
    <2>11. clock' \in 0..MaxClock /\ faults' \in 0..MaxFaults
      BY <1>1, FaultCounts
    <2> QED
      BY <1>1, <2>2, <2>3, <2>5, <2>6, <2>9, <2>10, <2>11, OneMoves
  <1> QED
    BY <1>9, <1>10, <1>11, <1>12

\* The sender closes the connection.
LEMMA DisconnectStep ==
  ASSUME InboundInv, NEW a \in Attempts, Disconnect(a)
  PROVE  InboundInv'
  <1>0. /\ attempt[a] \in [pc : {"idle", "reading", "producing", "waiting", "answered", "gone"},
                           stamp : Nat, read : Nat, status : Statuses, offset : Nat, dup : BOOLEAN]
        /\ task[a] \in [st : {"none", "running", "stored", "late", "done"}, rec : Recs, offset : Nat, dup : BOOLEAN]
        /\ AgreesAt(a) /\ OffsetsHold
        /\ attempt \in [Attempts -> [pc : {"idle", "reading", "producing", "waiting", "answered", "gone"},
                                     stamp : Nat, read : Nat, status : Statuses, offset : Nat, dup : BOOLEAN]]
        /\ task \in [Attempts -> [st : {"none", "running", "stored", "late", "done"}, rec : Recs, offset : Nat, dup : BOOLEAN]]
    BY TypesAt, InboundParts DEF InboundTypes
  <1>1. /\ UNCHANGED <<config, log, sent>> /\ clock' \in 0..MaxClock /\ faults' \in 0..MaxFaults
        /\ attempt[a].pc \in {"reading", "producing", "waiting"}
        /\ attempt' = [attempt EXCEPT ![a].pc = "gone"]
    BY FaultCounts DEF Disconnect
  <1>2. PICK h : h = [attempt[a] EXCEPT !.pc = "gone"]
    OBVIOUS
  <1>3. /\ h \in [pc : {"idle", "reading", "producing", "waiting", "answered", "gone"},
                  stamp : Nat, read : Nat, status : Statuses, offset : Nat, dup : BOOLEAN]
        /\ h.pc = "gone" /\ h.status = attempt[a].status /\ h.offset = attempt[a].offset /\ h.dup = attempt[a].dup
    BY <1>0, <1>2
  <1>4. attempt' = [attempt EXCEPT ![a] = h] /\ attempt'[a] = h
    BY <1>0, <1>1, <1>2
  <1>5. attempt[a].status = None
    BY <1>0, <1>1 DEF AgreesAt
  <1>6. \E t : /\ task' = [task EXCEPT ![a] = t]
               /\ \/ t = task[a] \/ t = [task[a] EXCEPT !.st = "done"]
                  \/ task[a].st = "running" /\ t = [task[a] EXCEPT !.st = "late"]
               /\ task[a].st = "none" => t = task[a]
    <2>1. CASE attempt[a].pc = "producing"
      <3>1. PICK t \in dropped(task[a]) : task' = [task EXCEPT ![a] = t]
        BY <2>1 DEF Disconnect
      <3>2. \/ t = [task[a] EXCEPT !.st = "done"]
            \/ task[a].st = "running" /\ t = [task[a] EXCEPT !.st = "late"]
        BY <3>1 DEF dropped
      <3>3. task[a].st # "none"
        BY <1>0, <2>1 DEF AgreesAt
      <3> QED
        BY <3>1, <3>2, <3>3
    <2>2. CASE attempt[a].pc # "producing"
      <3>1. task' = task
        BY <2>2 DEF Disconnect
      <3>2. task' = [task EXCEPT ![a] = task[a]]
        BY <1>0, <3>1
      <3> QED
        BY <3>2
    <2> QED
      BY <2>1, <2>2
  <1>7. PICK t : /\ task' = [task EXCEPT ![a] = t]
                 /\ \/ t = task[a] \/ t = [task[a] EXCEPT !.st = "done"]
                    \/ task[a].st = "running" /\ t = [task[a] EXCEPT !.st = "late"]
                 /\ task[a].st = "none" => t = task[a]
    BY <1>6
  <1>8. /\ t \in [st : {"none", "running", "stored", "late", "done"}, rec : Recs, offset : Nat, dup : BOOLEAN]
        /\ t.rec = task[a].rec /\ t.offset = task[a].offset /\ t.dup = task[a].dup
        /\ t.st = task[a].st \/ t.st = "done" \/ (task[a].st = "running" /\ t.st = "late")
        /\ task[a].st = "none" => t.st = "none"
    BY <1>0, <1>7
  <1>9. task'[a] = t
    BY <1>0, <1>7
  <1>10. t.st # "none" => Admitted(t.rec)'
    <2>1. task[a].st # "none" => Admitted(task[a].rec)
      BY <1>0 DEF AgreesAt
    <2> QED
      BY <1>1, <1>8, <2>1, ConfigKept
  <1>11. AgreesAt(a)'
    BY <1>3, <1>4, <1>5, <1>9, <1>10, StatusesAre DEF AgreesAt
  <1>12. Follows(a)
    BY <1>3, <1>4, <1>5, <1>8, <1>9, StatusesAre DEF Follows, None
  <1> QED
    BY <1>1, <1>3, <1>4, <1>7, <1>8, <1>11, <1>12, OneMoves

\* The process exits.
LEMMA ExitStep ==
  ASSUME InboundInv, Exit
  PROVE  InboundInv'
  <1>0. /\ attempt \in [Attempts -> [pc : {"idle", "reading", "producing", "waiting", "answered", "gone"},
                                     stamp : Nat, read : Nat, status : Statuses, offset : Nat, dup : BOOLEAN]]
        /\ task \in [Attempts -> [st : {"none", "running", "stored", "late", "done"}, rec : Recs, offset : Nat, dup : BOOLEAN]]
        /\ OffsetsHold /\ LogHolds
    BY InboundParts DEF InboundTypes
  <1>1. UNCHANGED <<config, log, sent>> /\ clock' \in 0..MaxClock /\ faults' \in 0..MaxFaults
    BY FaultCounts DEF Exit
  <1>2. attempt' = [a \in Attempts |-> IF attempt[a].pc \in {"reading", "producing", "waiting"}
                                       THEN [attempt[a] EXCEPT !.pc = "gone"] ELSE attempt[a]]
    BY DEF Exit
  <1>3. PICK late \in SUBSET {a \in Attempts : task[a].st = "running" /\ route.allowed} :
          task' = [a \in Attempts |-> IF task[a].st \in {"running", "stored"}
                                      THEN [task[a] EXCEPT !.st = IF a \in late THEN "late" ELSE "done"]
                                      ELSE task[a]]
    BY DEF Exit
  <1>4. ASSUME NEW a \in Attempts
        PROVE  /\ attempt'[a] \in [pc : {"idle", "reading", "producing", "waiting", "answered", "gone"},
                                   stamp : Nat, read : Nat, status : Statuses, offset : Nat, dup : BOOLEAN]
               /\ task'[a] \in [st : {"none", "running", "stored", "late", "done"}, rec : Recs, offset : Nat, dup : BOOLEAN]
               /\ AgreesAt(a)' /\ Follows(a)
    <2>0. /\ attempt[a] \in [pc : {"idle", "reading", "producing", "waiting", "answered", "gone"},
                             stamp : Nat, read : Nat, status : Statuses, offset : Nat, dup : BOOLEAN]
          /\ task[a] \in [st : {"none", "running", "stored", "late", "done"}, rec : Recs, offset : Nat, dup : BOOLEAN]
          /\ AgreesAt(a)
      BY TypesAt
    <2>1. PICK h : h = attempt'[a]
      OBVIOUS
    <2>2. h = IF attempt[a].pc \in {"reading", "producing", "waiting"}
              THEN [attempt[a] EXCEPT !.pc = "gone"] ELSE attempt[a]
      BY <1>2, <2>1
    <2>3. /\ h \in [pc : {"idle", "reading", "producing", "waiting", "answered", "gone"},
                    stamp : Nat, read : Nat, status : Statuses, offset : Nat, dup : BOOLEAN]
          /\ h.pc = IF attempt[a].pc \in {"reading", "producing", "waiting"} THEN "gone" ELSE attempt[a].pc
          /\ h.status = attempt[a].status /\ h.offset = attempt[a].offset /\ h.dup = attempt[a].dup
      BY <2>0, <2>2
    <2>4. PICK t : t = task'[a]
      OBVIOUS
    <2>5. t = IF task[a].st \in {"running", "stored"}
              THEN [task[a] EXCEPT !.st = IF a \in late THEN "late" ELSE "done"] ELSE task[a]
      BY <1>3, <2>4
    <2>6. /\ t \in [st : {"none", "running", "stored", "late", "done"}, rec : Recs, offset : Nat, dup : BOOLEAN]
          /\ t.rec = task[a].rec /\ t.offset = task[a].offset /\ t.dup = task[a].dup
          /\ t.st = IF task[a].st \in {"running", "stored"} THEN (IF a \in late THEN "late" ELSE "done") ELSE task[a].st
      BY <2>0, <2>5
    <2>7. a \in late => task[a].st = "running"
      BY <1>3
    <2>8. t.st # "none" => Admitted(t.rec)'
      <3>1. task[a].st # "none" => Admitted(task[a].rec)
        BY <2>0 DEF AgreesAt
      <3> QED
        BY <1>1, <2>6, <3>1, ConfigKept
    <2>9. AgreesAt(a)'
      BY <2>0, <2>1, <2>3, <2>4, <2>6, <2>7, <2>8, StatusesAre DEF AgreesAt
    <2>10. attempt[a].status = "200" => task[a].st = "done"
      BY <1>0 DEF OffsetsHold
    <2>11. Follows(a)
      BY <2>0, <2>1, <2>3, <2>4, <2>6, <2>7, <2>10 DEF Follows
    <2> QED
      BY <2>1, <2>3, <2>4, <2>6, <2>9, <2>11
  <1>5. InboundTypes'
    <2>1. attempt' \in [Attempts -> [pc : {"idle", "reading", "producing", "waiting", "answered", "gone"},
                               stamp : Nat, read : Nat, status : Statuses, offset : Nat, dup : BOOLEAN]]
      <3>1. attempt' = [a \in Attempts |-> attempt'[a]]
        BY <1>2
      <3> QED
        BY <1>4, <3>1
    <2>2. task' \in [Attempts -> [st : {"none", "running", "stored", "late", "done"}, rec : Recs,
                            offset : Nat, dup : BOOLEAN]]
      <3>1. task' = [a \in Attempts |-> task'[a]]
        BY <1>3
      <3> QED
        BY <1>4, <3>1
    <2>3. Recs' = Recs /\ Stored' = Stored
      BY <1>1, ConfigKept
    <2> QED
      BY <1>1, <2>1, <2>2, <2>3, InboundParts DEF InboundTypes
  <1>6. Len(sent') <= Len(log')
    BY <1>0, <1>1 DEF LogHolds
  <1> QED
    BY <1>1, <1>4, <1>5, <1>6, LogKept

\* The subscription takes a record, time passes, or nothing happens.
LEMMA QuietSteps ==
  ASSUME InboundInv, Deliver \/ Tick \/ UNCHANGED vars
  PROVE  InboundInv'
  <1>1. UNCHANGED <<config, attempt, task, log, faults>>
    BY DEF Deliver, Tick, vars, config
  <1>2. \A a \in Attempts : AgreesAt(a)' /\ Follows(a)
    BY <1>1, SameAt
  <1>a. \A n, m \in Nat : n < m => n + 1 <= m
    OBVIOUS
  <1>3. sent \in Seq({"filtered", "delivered", "dead letter"}) /\ Len(sent) <= Len(log)
    BY InboundParts DEF InboundTypes, LogHolds
  <1>4. sent' \in Seq({"filtered", "delivered", "dead letter"}) /\ Len(sent') <= Len(log)
    <2>1. CASE Deliver
      <3>1. PICK out \in {"filtered", "delivered", "dead letter"} : sent' = Append(sent, out)
        BY <2>1 DEF Deliver
      <3>2. Len(sent) < Len(log) /\ Len(log) \in Nat
        BY <2>1, InboundParts DEF Deliver
      <3>3. sent' \in Seq({"filtered", "delivered", "dead letter"}) /\ Len(sent') = Len(sent) + 1
        BY <1>3, <3>1, AppendProperties
      <3>4. Len(sent) \in Nat
        BY <1>3, LenProperties
      <3>7. Len(sent') <= Len(log)
        BY <1>a, <3>2, <3>3, <3>4, Zenon
      <3> QED
        BY <3>3, <3>7
    <2>2. CASE sent' = sent
      BY <1>3, <2>2
    <2> QED
      BY <2>1, <2>2 DEF Tick, vars
  <1>5. clock' \in 0..MaxClock
    <2>1. CASE Tick
      BY <2>1, FaultCounts DEF Tick
    <2>2. CASE clock' = clock
      BY <2>2, FaultCounts
    <2> QED
      BY <2>1, <2>2 DEF Deliver, vars
  <1>6. InboundTypes'
    <2>1. Recs' = Recs /\ Stored' = Stored
      BY <1>1, ConfigKept
    <2> QED
      BY <1>1, <1>4, <1>5, <2>1, InboundParts DEF InboundTypes
  <1> QED
    BY <1>1, <1>2, <1>4, <1>6, LogKept

\* The call that is about to store: it was admitted, and has not stored yet.
LEMMA StoreFrom ==
  ASSUME InboundInv, NEW a \in Attempts, task[a].st \in {"running", "late"}
  PROVE  /\ Admitted(task[a].rec)
         /\ attempt[a].pc \notin {"idle", "reading"}
         /\ attempt[a].pc \in {"producing", "waiting"} => task[a].st = "running"
         /\ attempt[a].status \notin Refusals /\ attempt[a].status # "200"
         /\ attempt[a].status # None => attempt[a].pc = "answered"
         /\ \A i \in 1..Len(log) : log[i].by # a
  <1>1. AgreesAt(a) /\ OffsetsHold /\ OneRecordEach
    BY TypesAt, InboundParts
  <1>2. \A i \in 1..Len(log) : log[i].by # a
    BY <1>1 DEF OneRecordEach
  <1>3. attempt[a].status # "200"
    BY <1>1 DEF OffsetsHold
  <1> QED
    BY <1>1, <1>2, <1>3 DEF AgreesAt

\* One record per key: an earlier record with the key is the first of the topic.
LEMMA ClaimIs ==
  ASSUME InboundInv, NEW rec, Admitted(rec), Keyed(rec)
  PROVE  /\ Claim(rec) # {} => Len(log) = 1 /\ Min(Claim(rec)) = 1
         /\ Claim(rec) = {} => Len(log) = 0
  <1>1. /\ Len(log) \in Nat /\ DOMAIN log = 1..Len(log)
        /\ \A i \in 1..Len(log) : log[i].idem = TheIdem
        /\ (route.dedup /\ TheIdem # <<>>) => Len(log) <= 1
    <2>1. log \in Seq(Stored) /\ LogHolds
      BY InboundParts DEF InboundTypes
    <2>2. Len(log) \in Nat /\ DOMAIN log = 1..Len(log)
      BY <2>1
    <2> QED
      BY <2>1, <2>2 DEF LogHolds
  <1>2. rec.idem = TheIdem /\ route.dedup /\ TheIdem # <<>>
    BY DEF Admitted, Keyed
  <1>3. Claim(rec) = 1..Len(log)
    BY <1>1, <1>2 DEF Claim
  <1>4. Len(log) = 0 \/ Len(log) = 1
    BY <1>1, <1>2
  <1>5. CASE Len(log) = 0
    BY <1>3, <1>5
  <1>6. CASE Len(log) = 1
    <2>1. Claim(rec) = {1}
      BY <1>3, <1>6
    <2>2. Min({1}) = 1
      BY DEF Min
    <2> QED
      BY <1>6, <2>1, <2>2
  <1> QED
    BY <1>4, <1>5, <1>6

\* What changes at the call that stores, whatever becomes of the topic.
LEMMA StoreMoves ==
  ASSUME InboundInv, NEW a \in Attempts, Store(a)
  PROVE  /\ UNCHANGED <<config, attempt, sent, clock, faults>>
         /\ task'[a] \in [st : {"none", "running", "stored", "late", "done"}, rec : Recs, offset : Nat, dup : BOOLEAN]
         /\ task'[a].st = IF task[a].st = "late" THEN "done" ELSE "stored"
         /\ task'[a].rec = task[a].rec
         /\ \A b \in Attempts \ {a} : task'[b] = task[b]
         /\ task' \in [Attempts -> [st : {"none", "running", "stored", "late", "done"}, rec : Recs, offset : Nat, dup : BOOLEAN]]
         /\ \/ /\ Keyed(task[a].rec) /\ Claim(task[a].rec) # {} /\ log' = log
               /\ task'[a].dup = TRUE /\ task'[a].offset = 1
            \/ /\ ~(Keyed(task[a].rec) /\ Claim(task[a].rec) # {})
               /\ log' = Append(log, stored_form(task[a].rec, a)) /\ task'[a].offset = Len(log) + 1
  <1>0. /\ task[a] \in [st : {"none", "running", "stored", "late", "done"}, rec : Recs, offset : Nat, dup : BOOLEAN]
        /\ task \in [Attempts -> [st : {"none", "running", "stored", "late", "done"}, rec : Recs, offset : Nat, dup : BOOLEAN]]
        /\ Len(log) \in Nat
    BY TypesAt, InboundParts DEF InboundTypes
  <1>1. PICK rec : rec = task[a].rec
    OBVIOUS
  <1>2. Admitted(rec)
    BY <1>1, StoreFrom DEF Store
  <1>3. PICK dup \in BOOLEAN : dup = (Keyed(rec) /\ Claim(rec) # {})
    OBVIOUS
  <1>4. PICK offset : offset = IF dup THEN Min(Claim(rec)) ELSE Len(log) + 1
    OBVIOUS
  <1>5. dup => offset = 1
    BY <1>2, <1>3, <1>4, ClaimIs
  <1>6. offset \in Nat
    BY <1>0, <1>4, <1>5
  <1>7. PICK t : t = [task[a] EXCEPT !.st = IF @ = "late" THEN "done" ELSE "stored", !.dup = dup, !.offset = offset]
    OBVIOUS
  <1>8. /\ t \in [st : {"none", "running", "stored", "late", "done"}, rec : Recs, offset : Nat, dup : BOOLEAN]
        /\ t.st = IF task[a].st = "late" THEN "done" ELSE "stored"
        /\ t.rec = task[a].rec /\ t.dup = dup /\ t.offset = offset
    BY <1>0, <1>6, <1>7
  <1>9. /\ task' = [task EXCEPT ![a].st = IF @ = "late" THEN "done" ELSE "stored", ![a].dup = dup, ![a].offset = offset]
        /\ log' = IF dup THEN log ELSE Append(log, stored_form(rec, a))
    BY <1>1, <1>3, <1>4 DEF Store
  <1>10. task' = [task EXCEPT ![a] = t]
    BY <1>0, <1>7, <1>9
  <1>11. task'[a] = t /\ \A b \in Attempts \ {a} : task'[b] = task[b]
    BY <1>0, <1>10
  <1>12. task' \in [Attempts -> [st : {"none", "running", "stored", "late", "done"}, rec : Recs, offset : Nat, dup : BOOLEAN]]
    BY <1>0, <1>8, <1>10
  <1>13. UNCHANGED <<config, attempt, sent, clock, faults>>
    BY DEF Store
  <1>14. CASE dup
    BY <1>1, <1>3, <1>5, <1>8, <1>9, <1>11, <1>12, <1>13, <1>14
  <1>15. CASE ~dup
    BY <1>1, <1>3, <1>4, <1>8, <1>9, <1>11, <1>12, <1>13, <1>15
  <1> QED
    BY <1>14, <1>15

\* Handlers and types when a call stores.
LEMMA StoreTyped ==
  ASSUME InboundInv, NEW a \in Attempts, Store(a)
  PROVE  HandlersAgree' /\ InboundTypes' /\ log' \in Seq(Stored)
  <1>0. UNCHANGED <<config, attempt, sent, clock, faults>>
    BY StoreMoves
  <1>1. HandlersAgree'
    <2> SUFFICES ASSUME NEW b \in Attempts PROVE AgreesAt(b)'
      BY DEF HandlersAgree
    <2>1. CASE b = a
      <3>1. task'[a].st \in {"stored", "done"} /\ (task[a].st = "running" => task'[a].st = "stored") /\ task'[a].rec = task[a].rec
        BY StoreMoves
      <3>2. task[a].st \in {"running", "late"}
        BY DEF Store
      <3>3. PICK t : t = task'[a]
        OBVIOUS
      <3>4. attempt'[a] = attempt[a] /\ Admitted(t.rec)'
        <4>1. Admitted(t.rec)
          BY <3>1, <3>2, <3>3, StoreFrom
        <4> QED
          BY <1>0, <4>1, ConfigKept
      <3> QED
        BY <2>1, <3>1, <3>2, <3>3, <3>4, StoreFrom DEF AgreesAt
    <2>2. CASE b # a
      <3>1. attempt'[b] = attempt[b] /\ task'[b] = task[b]
        BY <1>0, <2>2, StoreMoves
      <3> QED
        BY <1>0, <3>1, SameAt
    <2> QED
      BY <2>1, <2>2
  <1>2. log' \in Seq(Stored)
    <2>1. log \in Seq(Stored)
      BY InboundParts DEF InboundTypes
    <2>2. PICK e : e = stored_form(task[a].rec, a)
      OBVIOUS
    <2>3. e \in Stored
      <3>1. task[a].rec \in Recs
        BY TypesAt
      <3> QED
        BY <2>2, <3>1 DEF Stored
    <2>4. log' = log \/ log' = Append(log, e)
      BY <2>2, StoreMoves
    <2> QED
      BY <2>1, <2>3, <2>4
  <1>3. Recs' = Recs /\ Stored' = Stored
    BY <1>0, ConfigKept
  <1>4. task' \in [Attempts -> [st : {"none", "running", "stored", "late", "done"}, rec : Recs, offset : Nat, dup : BOOLEAN]]
    BY StoreMoves
  <1>5. InboundTypes'
    BY <1>0, <1>2, <1>3, <1>4, InboundParts DEF InboundTypes
  <1> QED
    BY <1>1, <1>2, <1>5

\* The call finds the record of an earlier one.
LEMMA StoreDup ==
  ASSUME InboundInv, NEW a \in Attempts, Store(a), log' = log, task'[a].dup = TRUE, task'[a].offset = 1,
         Keyed(task[a].rec), Claim(task[a].rec) # {}
  PROVE  InboundInv'
  <1>0. UNCHANGED <<config, attempt, sent, clock, faults>> /\ task[a].st \in {"running", "late"} /\ Len(log) = 1
    BY StoreMoves, StoreFrom, ClaimIs DEF Store
  <1>1. task'[a].st \in {"stored", "done"} /\ \A b \in Attempts \ {a} : task'[b] = task[b]
    BY StoreMoves
  <1>2. OneRecordEach /\ OffsetsHold /\ LogHolds
    BY InboundParts
  <1>3. OneRecordEach'
    <2>1. \A i \in 1..Len(log) : log[i].by \in Attempts \ {a}
      BY <1>0, <1>2, StoreFrom DEF OneRecordEach
    <2> QED
      BY <1>0, <1>1, <1>2, <2>1 DEF OneRecordEach
  <1>4. OffsetsHold'
    <2> SUFFICES ASSUME NEW b \in Attempts
                 PROVE  /\ task'[b].offset <= Len(log) /\ attempt[b].offset <= Len(log)
                        /\ task'[b].st = "stored" => task'[b].offset >= 1 /\ (task'[b].dup \/ log[task'[b].offset].by = b)
                        /\ attempt[b].status = "200" => /\ attempt[b].offset >= 1 /\ task'[b].st = "done"
                                                        /\ attempt[b].dup \/ log[attempt[b].offset].by = b
      BY <1>0 DEF OffsetsHold
    <2>1. CASE b = a
      BY <1>0, <1>2, <2>1, StoreFrom DEF OffsetsHold
    <2>2. CASE b # a
      BY <1>1, <1>2, <2>2 DEF OffsetsHold
    <2> QED
      BY <2>1, <2>2
  <1>5. LogHolds' /\ Configured'
    BY <1>0, <1>2, ConfigKept, InboundParts DEF LogHolds
  <1> QED
    BY <1>3, <1>4, <1>5, StoreTyped DEF InboundInv

\* The call appends its record.
LEMMA StoreNew ==
  ASSUME InboundInv, NEW a \in Attempts, Store(a),
         log' = Append(log, stored_form(task[a].rec, a)), task'[a].offset = Len(log) + 1,
         ~(Keyed(task[a].rec) /\ Claim(task[a].rec) # {})
  PROVE  InboundInv'
  <1>0. UNCHANGED <<config, attempt, sent, clock, faults>> /\ task[a].st \in {"running", "late"}
    BY StoreMoves DEF Store
  <1>1. task'[a].st \in {"stored", "done"} /\ \A b \in Attempts \ {a} : task'[b] = task[b]
    BY StoreMoves
  <1>2. OneRecordEach /\ OffsetsHold /\ LogHolds /\ Len(log) \in Nat
    BY InboundParts
  <1>3. PICK e : e = stored_form(task[a].rec, a)
    OBVIOUS
  <1>4. PICK rec : rec = task[a].rec
    OBVIOUS
  <1>5. /\ e.by = a /\ e.idem = rec.idem /\ e.value = rec.value /\ e.event = rec.event
        /\ e.framed = (rec.structured /\ ~Forwarded(rec))
    BY <1>3, <1>4 DEF stored_form
  <1>6. PICK n \in Nat : n = Len(log)
    BY <1>2
  <1>7. Len(log') = n + 1 /\ log'[n + 1] = e /\ \A i \in 1..n : log'[i] = log[i]
    <2>1. log \in Seq(Stored) /\ e \in Stored
      <3>1. task[a].rec \in Recs
        BY TypesAt
      <3>2. e \in Stored
        BY <1>3, <3>1 DEF Stored
      <3> QED
        BY <3>2, InboundParts DEF InboundTypes
    <2>2. log' = Append(log, e)
      BY <1>3
    <2> QED
      BY <1>6, <2>1, <2>2, AppendProperties
  <1>8. \A i \in 1..(n + 1) : i \in 1..n \/ i = n + 1
    OBVIOUS
  <1>9. OneRecordEach'
    <2>1. \A i \in 1..n : log'[i].by \in Attempts \ {a} /\ log'[i].by = log[i].by
      BY <1>0, <1>2, <1>6, <1>7, StoreFrom DEF OneRecordEach
    <2>2. \A i \in 1..n : task'[log'[i].by].st \in {"stored", "done"} /\ attempt'[log'[i].by].status \notin Refusals
      BY <1>0, <1>1, <1>2, <1>6, <2>1 DEF OneRecordEach
    <2>3. log'[n + 1].by = a /\ task'[a].st \in {"stored", "done"} /\ attempt'[a].status \notin Refusals
      BY <1>0, <1>1, <1>5, <1>7, StoreFrom
    <2>4. \A i, j \in 1..n : log'[i].by = log'[j].by => i = j
      BY <1>2, <1>6, <2>1 DEF OneRecordEach
    <2>5. \A i, j \in 1..(n + 1) : log'[i].by = log'[j].by => i = j
      <3> SUFFICES ASSUME NEW i \in 1..(n + 1), NEW j \in 1..(n + 1), log'[i].by = log'[j].by PROVE i = j
        OBVIOUS
      <3>1. (i \in 1..n \/ i = n + 1) /\ (j \in 1..n \/ j = n + 1)
        BY <1>8
      <3> QED
        BY <2>1, <2>3, <2>4, <3>1, Zenon
    <2> QED
      BY <1>7, <1>8, <2>1, <2>2, <2>3, <2>5 DEF OneRecordEach
  <1>10. OffsetsHold'
    <2> SUFFICES ASSUME NEW b \in Attempts
                 PROVE  /\ task'[b].offset <= n + 1 /\ attempt[b].offset <= n + 1
                        /\ task'[b].st = "stored" => task'[b].offset >= 1 /\ (task'[b].dup \/ log'[task'[b].offset].by = b)
                        /\ attempt[b].status = "200" => /\ attempt[b].offset >= 1 /\ task'[b].st = "done"
                                                        /\ attempt[b].dup \/ log'[attempt[b].offset].by = b
      BY <1>0, <1>7 DEF OffsetsHold
    <2>0. /\ attempt[b].offset \in Nat /\ attempt[b].offset <= n /\ task[b].offset \in Nat /\ task[b].offset <= n
      BY <1>2, <1>6, InboundParts DEF OffsetsHold
    <2>1. CASE b = a
      BY <1>0, <1>5, <1>6, <1>7, <2>0, <2>1, StoreFrom
    <2>2. CASE b # a
      <3>1. task'[b] = task[b]
        BY <1>1, <2>2
      <3>2. task[b].st = "stored" => task[b].offset >= 1 /\ (task[b].dup \/ log[task[b].offset].by = b)
        BY <1>2 DEF OffsetsHold
      <3>3. attempt[b].status = "200" => /\ attempt[b].offset >= 1 /\ task[b].st = "done"
                                         /\ attempt[b].dup \/ log[attempt[b].offset].by = b
        BY <1>2 DEF OffsetsHold
      <3>4. \A i \in Nat : (i >= 1 /\ i <= n) => log'[i] = log[i]
        BY <1>7
      <3>5. task[b].offset <= n + 1 /\ attempt[b].offset <= n + 1
        BY <2>0
      <3>6. task[b].st = "stored" => task[b].offset >= 1 /\ (task[b].dup \/ log'[task[b].offset].by = b)
        BY <2>0, <3>2, <3>4
      <3>7. attempt[b].status = "200" => /\ attempt[b].offset >= 1 /\ task[b].st = "done"
                                         /\ attempt[b].dup \/ log'[attempt[b].offset].by = b
        BY <2>0, <3>3, <3>4
      <3> QED
        BY <3>1, <3>5, <3>6, <3>7
    <2> QED
      BY <2>1, <2>2
  <1>11. LogHolds'
    <2>0. Admitted(rec)
      BY <1>0, <1>4, StoreFrom
    <2>1. /\ TheIdem' = TheIdem /\ (Standard' <=> Standard) /\ (Genuine' <=> Genuine)
          /\ endpoint' = endpoint /\ route' = route /\ request' = request
      BY <1>0, ConfigKept
    <2> DEFINE Fine(x) == /\ Genuine
                          /\ x.idem = TheIdem /\ x.value = request.body
                          /\ (Standard /\ endpoint.schema_subject # None) =>
                               /\ ~x.event
                               /\ route.here => x.framed /\ (x.value.fmt = "event" \/ x.value.v \in JsonData)
    <2>2. \A i \in 1..n : Fine(log'[i])
      BY <1>2, <1>6, <1>7 DEF LogHolds
    <2>3. Fine(e)
      <3>1. Genuine /\ e.idem = TheIdem /\ e.value = request.body
        BY <1>5, <2>0 DEF Admitted
      <3>2. ASSUME Standard, endpoint.schema_subject # None
            PROVE  ~e.event /\ (route.here => e.framed /\ (e.value.fmt = "event" \/ e.value.v \in JsonData))
        <4>1. ~e.event /\ rec.structured
          BY <1>5, <2>0, <3>2 DEF Admitted
        <4>2. ASSUME route.here PROVE e.framed /\ (e.value.fmt = "event" \/ e.value.v \in JsonData)
          <5>1. ~Forwarded(rec)
            BY <4>2 DEF Forwarded
          <5>2. validates(rec)
            BY <1>4, <4>1, <5>1 DEF Store
          <5> QED
            BY <1>5, <4>1, <5>1, <5>2 DEF validates
        <4> QED
          BY <4>1, <4>2
      <3> QED
        BY <3>1, <3>2
    <2>4. \A i \in 1..Len(log') : Fine(log'[i])
      <3> HIDE DEF Fine
      <3> QED
        BY <1>7, <1>8, <2>2, <2>3
    <2>5. (route.dedup /\ TheIdem # <<>>) => Len(log') <= 1
      <3> SUFFICES ASSUME route.dedup, TheIdem # <<>> PROVE Len(log') <= 1
        OBVIOUS
      <3>1. Keyed(rec)
        BY <2>0 DEF Keyed, Admitted
      <3>2. Claim(rec) = {}
        BY <1>4, <3>1
      <3>3. n = 0
        BY <1>6, <2>0, <3>1, <3>2, ClaimIs
      <3> QED
        BY <1>7, <3>3
    <2>6. Len(sent') <= Len(log')
      <3>1. sent' = sent /\ Len(sent) <= n /\ Len(sent) \in Nat
        <4>1. sent \in Seq({"filtered", "delivered", "dead letter"})
          BY InboundParts DEF InboundTypes
        <4>2. Len(sent) \in Nat
          BY <4>1, LenProperties
        <4> QED
          BY <1>0, <1>2, <1>6, <4>2 DEF LogHolds
      <3> QED
        BY <1>7, <3>1
    <2> QED
      BY <2>1, <2>4, <2>5, <2>6 DEF LogHolds
  <1>12. Configured'
    BY <1>0, ConfigKept, InboundParts
  <1> QED
    BY <1>9, <1>10, <1>11, <1>12, StoreTyped DEF InboundInv

\* The record is durable, or an earlier one with its key is found.
LEMMA StoreStep ==
  ASSUME InboundInv, NEW a \in Attempts, Store(a)
  PROVE  InboundInv'
  BY StoreMoves, StoreDup, StoreNew

\* Every step keeps the invariant.
LEMMA InboundNext == InboundInv /\ [Next]_vars => InboundInv'
  <1> SUFFICES ASSUME InboundInv, [Next]_vars PROVE InboundInv'
    OBVIOUS
  <1>1. ASSUME NEW a \in Attempts, Handler(a) PROVE InboundInv'
    <2>1. CASE Arrive(a)
      BY <2>1, ArriveStep
    <2>2. CASE BodyRead(a)
      BY <2>2, BodyStep
    <2>3. CASE Deadline(a)
      BY <2>3, DeadlineStep
    <2>4. CASE Denied(a) \/ Invalid(a) \/ Produced(a)
      BY <2>4, AnswerSteps
    <2>5. CASE Store(a)
      BY <2>5, StoreStep
    <2>6. CASE ProduceFails(a)
      BY <2>6, FailStep
    <2>7. CASE Disconnect(a)
      BY <2>7, DisconnectStep
    <2> QED
      BY <1>1, <2>1, <2>2, <2>3, <2>4, <2>5, <2>6, <2>7 DEF Handler
  <1>2. CASE Exit
    BY <1>2, ExitStep
  <1>3. CASE Deliver \/ Tick \/ UNCHANGED vars
    BY <1>3, QuietSteps
  <1> QED
    BY <1>1, <1>2, <1>3 DEF Next, Done

\* Every reachable state satisfies the invariant.
LEMMA InboundInvHolds == Spec => []InboundInv
  BY InboundInit, InboundNext, PTL DEF Spec

\* The topic holds no more records than the sender made attempts.
LEMMA LogBounded ==
  ASSUME InboundInv
  PROVE  Len(log) <= Cardinality(Attempts)
  <1>1. PICK n \in Nat : n = Len(log)
    BY InboundParts
  <1>2. PICK f : f = [i \in 1..n |-> log[i].by]
    OBVIOUS
  <1>3. /\ \A i \in 1..n : log[i].by \in Attempts
        /\ \A i, j \in 1..n : log[i].by = log[j].by => i = j
    BY <1>1, InboundParts DEF OneRecordEach
  <1>4. f \in [1..n -> Attempts] /\ \A i, j \in 1..n : f[i] = f[j] => i = j
    BY <1>2, <1>3
  <1>5. f \in Injection(1..n, Attempts)
    BY <1>4 DEF Injection, IsInjective
  <1>6. Cardinality(1..n) <= Cardinality(Attempts)
    BY <1>5, AttemptsAssumption, FS_Injection
  <1>7. Cardinality(1..n) = n
    BY FS_Interval
  <1> QED
    BY <1>1, <1>6, <1>7

\* What the invariant says of the answers.
LEMMA InboundAnswers ==
  ASSUME InboundInv
  PROVE  AnswersHold
  <1>0. /\ OneRecordEach /\ OffsetsHold /\ LogHolds /\ Len(log) \in Nat /\ DOMAIN log = 1..Len(log)
    <2>1. log \in Seq(Stored)
      BY InboundParts DEF InboundTypes
    <2>2. DOMAIN log = 1..Len(log)
      BY <2>1
    <2> QED
      BY <2>2, InboundParts
  <1>1. TypeOK
    <2>1. ASSUME NEW a \in Attempts
          PROVE  /\ attempt[a].pc \in {"idle", "reading", "producing", "waiting", "answered", "gone"}
                 /\ attempt[a].status \in {None, "200", "400", "401", "403", "408", "413", "415", "500", "503"}
                 /\ attempt[a].offset \in 0..Len(log)
                 /\ task[a].st \in {"none", "running", "stored", "late", "done"}
      <3>1. /\ attempt[a].pc \in {"idle", "reading", "producing", "waiting", "answered", "gone"}
            /\ attempt[a].status \in Statuses /\ attempt[a].offset \in Nat
            /\ task[a].st \in {"none", "running", "stored", "late", "done"}
        BY TypesAt
      <3>2. attempt[a].offset \in 0..Len(log)
        BY <1>0, <3>1 DEF OffsetsHold
      <3> QED
        BY <3>1, <3>2 DEF Statuses, Refusals
    <2> QED
      BY <1>0, <2>1, LogBounded, FaultCounts DEF TypeOK, LogHolds
  <1>2. AnswersAreTruthful
    <2> SUFFICES ASSUME NEW a \in Attempts
                 PROVE  /\ attempt[a].status \in Refusals => \A i \in DOMAIN log : log[i].by # a
                        /\ attempt[a].status = "200" => attempt[a].offset \in DOMAIN log
      BY DEF AnswersAreTruthful, Refusals
    <2>1. attempt[a].status \in Refusals => \A i \in DOMAIN log : log[i].by # a
      BY <1>0 DEF OneRecordEach
    <2>2. attempt[a].status = "200" => attempt[a].offset \in DOMAIN log
      BY <1>0, InboundParts DEF OffsetsHold
    <2> QED
      BY <2>1, <2>2
  <1>3. AnswersAgree
    <2> SUFFICES ASSUME NEW a \in Attempts, NEW b \in Attempts, a # b, Keyed(task[a].rec),
                        attempt[a].status = "200", attempt[b].status = "200"
                 PROVE  attempt[a].offset = attempt[b].offset /\ (attempt[a].dup \/ attempt[b].dup)
      BY DEF AnswersAgree
    <2>1. task[a].st = "done"
      BY <1>0 DEF OffsetsHold
    <2>2. Admitted(task[a].rec)
      BY <2>1, TypesAt DEF AgreesAt
    <2>3. Len(log) <= 1
      BY <1>0, <2>2 DEF LogHolds, Keyed, Admitted
    <2>4. /\ attempt[a].offset \in Nat /\ attempt[a].offset >= 1 /\ attempt[a].offset <= Len(log)
          /\ attempt[b].offset \in Nat /\ attempt[b].offset >= 1 /\ attempt[b].offset <= Len(log)
      BY <1>0, InboundParts DEF OffsetsHold
    <2>5. attempt[a].offset = 1 /\ attempt[b].offset = 1
      BY <1>0, <2>3, <2>4
    <2>6. (attempt[a].dup \/ log[1].by = a) /\ (attempt[b].dup \/ log[1].by = b)
      BY <1>0, <2>5 DEF OffsetsHold
    <2> QED
      BY <2>5, <2>6
  <1>4. MessageStoredOnce
    <2> SUFFICES ASSUME Standard PROVE Len(log) <= 1 /\ \A i \in DOMAIN log : log[i].idem = request.ids
      BY DEF MessageStoredOnce
    <2>1. CASE Len(log) = 0
      BY <1>0, <2>1
    <2>2. CASE Len(log) # 0
      <3>1. 1 \in 1..Len(log)
        BY <1>0, <2>2
      <3>2. Genuine
        BY <1>0, <3>1 DEF LogHolds
      <3>3. route.dedup /\ TheIdem = request.ids /\ TheIdem # <<>>
        BY <3>2 DEF Genuine
      <3> QED
        BY <1>0, <3>3 DEF LogHolds
    <2> QED
      BY <2>1, <2>2
  <1> QED
    BY <1>1, <1>2, <1>3, <1>4 DEF AnswersHold

\* Every call was started by an attempt with the signature asked for.
SignedInv ==
  \A a \in Attempts :
    (task[a].st # "none" /\ route.entry = "webhook" /\ endpoint.secret # None) =>
      SignedWhen(attempt[a].stamp, attempt[a].read)

\* An attempt whose call is started keeps the times it was signed and read at.
KeepsTimes(a) ==
  task'[a].st # "none" => /\ task[a].st # "none"
                          /\ attempt'[a].stamp = attempt[a].stamp /\ attempt'[a].read = attempt[a].read

\* A step that starts no call.
LEMMA SignedKept ==
  ASSUME SignedInv, UNCHANGED config, \A a \in Attempts : KeepsTimes(a)
  PROVE  SignedInv'
  <1> SUFFICES ASSUME NEW a \in Attempts, task'[a].st # "none", route'.entry = "webhook", endpoint'.secret # None
               PROVE  SignedWhen(attempt[a].stamp, attempt[a].read)'
    BY DEF SignedInv
  <1>1. route.entry = "webhook" /\ endpoint.secret # None
    BY ConfigKept
  <1>2. /\ task[a].st # "none"
        /\ attempt'[a].stamp = attempt[a].stamp /\ attempt'[a].read = attempt[a].read
    BY DEF KeepsTimes
  <1>3. SignedWhen(attempt[a].stamp, attempt[a].read)
    BY <1>1, <1>2 DEF SignedInv
  <1>4. PICK stamp, now : stamp = attempt[a].stamp /\ now = attempt[a].read
    OBVIOUS
  <1>5. SignedWhen(stamp, now)'
    BY <1>3, <1>4, ConfigKept
  <1>6. attempt'[a].stamp = stamp /\ attempt'[a].read = now
    BY <1>2, <1>4
  <1> QED
    BY <1>5, <1>6 DEF SignedWhen

\* A step of one attempt.
LEMMA SignedOne ==
  ASSUME InboundInv, SignedInv, UNCHANGED config, NEW a \in Attempts, KeepsTimes(a),
         NEW h, attempt' = [attempt EXCEPT ![a] = h], NEW t, task' = [task EXCEPT ![a] = t]
  PROVE  SignedInv'
  <1>1. DOMAIN attempt = Attempts /\ DOMAIN task = Attempts
    BY InboundParts DEF InboundTypes
  <1>2. ASSUME NEW b \in Attempts PROVE KeepsTimes(b)
    <2>1. CASE b = a
      BY <2>1
    <2>2. CASE b # a
      <3>1. attempt'[b] = attempt[b] /\ task'[b] = task[b]
        BY <1>1, <2>2
      <3> QED
        BY <3>1 DEF KeepsTimes
    <2> QED
      BY <2>1, <2>2
  <1> QED
    BY <1>2, SignedKept

\* The body is there: a call is started for a signed message only.
LEMMA SignedBody ==
  ASSUME InboundInv, SignedInv, NEW a \in Attempts, BodyRead(a)
  PROVE  SignedInv'
  <1>0. /\ attempt[a] \in [pc : {"idle", "reading", "producing", "waiting", "answered", "gone"},
                           stamp : Nat, read : Nat, status : Statuses, offset : Nat, dup : BOOLEAN]
        /\ DOMAIN attempt = Attempts /\ DOMAIN task = Attempts /\ Configured /\ task[a].st = "none"
        /\ UNCHANGED config
    BY TypesAt, InboundParts DEF InboundTypes, BodyRead, AgreesAt
  <1>1. PICK stamp \in Nat : stamp = attempt[a].stamp
    BY <1>0
  <1>2. PICK now \in Nat : now = clock
    BY FaultCounts
  <1>3. \/ \E status : Answer(a, status) /\ UNCHANGED task
        \/ /\ route.entry = "webhook" => webhook_handler(endpoint, Posted(request, stamp), now).status = "ok"
           /\ \E t : task' = [task EXCEPT ![a] = t]
           /\ attempt' = [attempt EXCEPT ![a].pc = IF Standard THEN "waiting" ELSE "producing", ![a].read = now]
    BY <1>1, <1>2 DEF BodyRead
  <1>4. CASE \E status : Answer(a, status) /\ UNCHANGED task
    <2>1. PICK status : Answer(a, status) /\ UNCHANGED task
      BY <1>4
    <2>2. \A b \in Attempts : KeepsTimes(b)
      <3> SUFFICES ASSUME NEW b \in Attempts PROVE KeepsTimes(b)
        OBVIOUS
      <3>1. CASE b = a
        BY <1>0, <2>1, <3>1 DEF KeepsTimes
      <3>2. CASE b # a
        BY <1>0, <2>1, <3>2 DEF KeepsTimes, Answer
      <3> QED
        BY <3>1, <3>2
    <2> QED
      BY <1>0, <2>2, SignedKept
  <1>5. CASE /\ route.entry = "webhook" => webhook_handler(endpoint, Posted(request, stamp), now).status = "ok"
             /\ \E t : task' = [task EXCEPT ![a] = t]
             /\ attempt' = [attempt EXCEPT ![a].pc = IF Standard THEN "waiting" ELSE "producing", ![a].read = now]
    <2> SUFFICES ASSUME NEW b \in Attempts, task'[b].st # "none", route'.entry = "webhook", endpoint'.secret # None
                 PROVE  SignedWhen(attempt[b].stamp, attempt[b].read)'
      BY DEF SignedInv
    <2>1. route.entry = "webhook" /\ endpoint.secret # None
      BY <1>0, ConfigKept
    <2>2. PICK s, n : s = attempt'[b].stamp /\ n = attempt'[b].read
      OBVIOUS
    <2>3. SignedWhen(s, n)
      <3>1. CASE b = a
        <4>1. PICK h : h = [attempt[a] EXCEPT !.pc = IF Standard THEN "waiting" ELSE "producing", !.read = now]
          OBVIOUS
        <4>2. h.stamp = stamp /\ h.read = now
          BY <1>0, <1>1, <4>1
        <4>3. attempt'[a] = h
          BY <1>0, <1>5, <4>1
        <4>4. SignedWhen(stamp, now)
          BY <1>0, <1>5, <2>1, WebhookAdmits
        <4> QED
          BY <2>2, <3>1, <4>2, <4>3, <4>4
      <3>2. CASE b # a
        <4>1. attempt'[b] = attempt[b] /\ task'[b] = task[b]
          BY <1>0, <1>5, <3>2
        <4> QED
          BY <2>1, <2>2, <4>1 DEF SignedInv
      <3> QED
        BY <3>1, <3>2
    <2>4. SignedWhen(s, n)'
      BY <1>0, <2>3, ConfigKept
    <2> QED
      BY <2>2, <2>4 DEF SignedWhen
  <1> QED
    BY <1>3, <1>4, <1>5

\* A handler that answers, or whose call returns.
LEMMA AnswerKeeps ==
  ASSUME InboundInv, NEW a \in Attempts, NEW status
  PROVE  /\ Answer(a, status) => /\ \E h : attempt' = [attempt EXCEPT ![a] = h]
                                 /\ attempt'[a].stamp = attempt[a].stamp /\ attempt'[a].read = attempt[a].read
         /\ Respond(a, status) => /\ \E h : attempt' = [attempt EXCEPT ![a] = h]
                                  /\ \E t : task' = [task EXCEPT ![a] = t]
                                  /\ attempt'[a].stamp = attempt[a].stamp /\ attempt'[a].read = attempt[a].read
  <1>0. /\ attempt \in [Attempts -> [pc : {"idle", "reading", "producing", "waiting", "answered", "gone"},
                                     stamp : Nat, read : Nat, status : Statuses, offset : Nat, dup : BOOLEAN]]
        /\ attempt[a] \in [pc : {"idle", "reading", "producing", "waiting", "answered", "gone"},
                           stamp : Nat, read : Nat, status : Statuses, offset : Nat, dup : BOOLEAN]
    BY TypesAt, InboundParts DEF InboundTypes
  <1>1. PICK h : h = [attempt[a] EXCEPT !.pc = "answered", !.status = status]
    OBVIOUS
  <1>2. h.stamp = attempt[a].stamp /\ h.read = attempt[a].read
    BY <1>0, <1>1
  <1>3. Answer(a, status) => attempt' = [attempt EXCEPT ![a] = h] /\ attempt'[a] = h
    BY <1>0, <1>1 DEF Answer
  <1>4. PICK g : g = [attempt[a] EXCEPT !.pc = "answered", !.status = status, !.offset = task[a].offset, !.dup = task[a].dup]
    OBVIOUS
  <1>5. g.stamp = attempt[a].stamp /\ g.read = attempt[a].read
    BY <1>0, <1>4
  <1>6. Respond(a, status) => \/ attempt' = [attempt EXCEPT ![a] = g] /\ attempt'[a] = g
                              \/ attempt' = attempt
    BY <1>0, <1>4 DEF Respond
  <1>7. attempt = [attempt EXCEPT ![a] = attempt[a]]
    BY <1>0
  <1>8. Respond(a, status) => \E t : task' = [task EXCEPT ![a] = t]
    BY DEF Respond
  <1> QED
    BY <1>2, <1>3, <1>5, <1>6, <1>7, <1>8

\* The other steps of a handler.
LEMMA SignedHandler ==
  ASSUME InboundInv, SignedInv, NEW a \in Attempts, Handler(a)
  PROVE  SignedInv'
  <1>0. /\ attempt \in [Attempts -> [pc : {"idle", "reading", "producing", "waiting", "answered", "gone"},
                                     stamp : Nat, read : Nat, status : Statuses, offset : Nat, dup : BOOLEAN]]
        /\ task \in [Attempts -> [st : {"none", "running", "stored", "late", "done"}, rec : Recs, offset : Nat, dup : BOOLEAN]]
        /\ attempt[a] \in [pc : {"idle", "reading", "producing", "waiting", "answered", "gone"},
                           stamp : Nat, read : Nat, status : Statuses, offset : Nat, dup : BOOLEAN]
        /\ AgreesAt(a)
    BY TypesAt, InboundParts DEF InboundTypes
  <1>a. attempt = [attempt EXCEPT ![a] = attempt[a]] /\ task = [task EXCEPT ![a] = task[a]]
    BY <1>0
  <1>1. CASE Arrive(a)
    <2>1. PICK stamp : attempt' = [attempt EXCEPT ![a].pc = "reading", ![a].stamp = stamp]
      BY <1>1 DEF Arrive
    <2>2. task' = task /\ task[a].st = "none" /\ UNCHANGED config
      BY <1>0, <1>1 DEF Arrive, AgreesAt
    <2>3. KeepsTimes(a)
      BY <2>2 DEF KeepsTimes
    <2>4. PICK h : h = [attempt[a] EXCEPT !.pc = "reading", !.stamp = stamp]
      OBVIOUS
    <2>5. attempt' = [attempt EXCEPT ![a] = h]
      BY <1>0, <2>1, <2>4
    <2> QED
      BY <1>a, <2>2, <2>3, <2>5, SignedOne
  <1>2. CASE BodyRead(a)
    BY <1>2, SignedBody
  <1>3. CASE Deadline(a)
    <2>1. PICK status : Answer(a, status)
      BY <1>3 DEF Deadline
    <2>2. UNCHANGED <<config, task>>
      BY <1>3 DEF Deadline
    <2>3. KeepsTimes(a)
      BY <2>1, <2>2, AnswerKeeps DEF KeepsTimes
    <2> QED
      BY <1>a, <2>1, <2>2, <2>3, AnswerKeeps, SignedOne
  <1>4. ASSUME NEW status, Respond(a, status), UNCHANGED config, task[a].st # "none"
        PROVE  SignedInv'
    <2>1. KeepsTimes(a)
      BY <1>4, AnswerKeeps DEF KeepsTimes
    <2> QED
      BY <1>4, <2>1, AnswerKeeps, SignedOne
  <1>5. CASE Denied(a) \/ Invalid(a) \/ Produced(a)
    BY <1>4, <1>5 DEF Denied, Invalid, Produced
  <1>6. CASE ProduceFails(a)
    <2>1. UNCHANGED config /\ task[a].st # "none"
      BY <1>6 DEF ProduceFails, produce_error
    <2>2. (\E status : Respond(a, status)) \/ (\E status : Answer(a, status) /\ task' = [task EXCEPT ![a].st = "late"])
      BY <1>6 DEF ProduceFails, produce_error
    <2>3. CASE \E status : Respond(a, status)
      BY <1>4, <2>1, <2>3
    <2>4. CASE \E status : Answer(a, status) /\ task' = [task EXCEPT ![a].st = "late"]
      <3>1. KeepsTimes(a)
        BY <2>1, <2>4, AnswerKeeps DEF KeepsTimes
      <3>2. \E t : task' = [task EXCEPT ![a] = t]
        BY <2>4
      <3> QED
        BY <2>1, <2>4, <3>1, <3>2, AnswerKeeps, SignedOne
    <2> QED
      BY <2>2, <2>3, <2>4
  <1>7. CASE Store(a)
    <2>1. UNCHANGED <<config, attempt>> /\ task[a].st # "none"
      BY <1>7 DEF Store
    <2>2. KeepsTimes(a)
      BY <2>1 DEF KeepsTimes
    <2>3. PICK t : t = task'[a]
      OBVIOUS
    <2>4. task' = [task EXCEPT ![a] = t]
      BY <1>0, <1>7, <2>3, StoreMoves
    <2> QED
      BY <1>a, <2>1, <2>2, <2>4, SignedOne
  <1>8. CASE Disconnect(a)
    <2>1. /\ UNCHANGED config /\ attempt' = [attempt EXCEPT ![a].pc = "gone"]
          /\ (\E t : task' = [task EXCEPT ![a] = t]) \/ task' = task
      BY <1>8 DEF Disconnect
    <2>2. PICK h : h = [attempt[a] EXCEPT !.pc = "gone"]
      OBVIOUS
    <2>3. attempt' = [attempt EXCEPT ![a] = h] /\ attempt'[a] = h /\ h.stamp = attempt[a].stamp /\ h.read = attempt[a].read
      BY <1>0, <2>1, <2>2
    <2>4. task'[a].st # "none" => task[a].st # "none"
      <3>1. CASE attempt[a].pc = "producing"
        BY <1>0, <3>1 DEF AgreesAt
      <3>2. CASE attempt[a].pc # "producing"
        BY <1>8, <3>2 DEF Disconnect
      <3> QED
        BY <3>1, <3>2
    <2>5. KeepsTimes(a)
      BY <2>3, <2>4 DEF KeepsTimes
    <2>6. PICK t : task' = [task EXCEPT ![a] = t]
      BY <1>a, <2>1
    <2> QED
      BY <2>1, <2>3, <2>5, <2>6, SignedOne
  <1> QED
    BY <1>1, <1>2, <1>3, <1>5, <1>6, <1>7, <1>8 DEF Handler

\* Every step.
LEMMA SignedNext == InboundInv /\ SignedInv /\ [Next]_vars => SignedInv'
  <1> SUFFICES ASSUME InboundInv, SignedInv, [Next]_vars PROVE SignedInv'
    OBVIOUS
  <1>1. CASE \E a \in Attempts : Handler(a)
    BY <1>1, SignedHandler
  <1>2. CASE Exit
    <2>0. UNCHANGED config
      BY <1>2 DEF Exit
    <2>1. ASSUME NEW a \in Attempts PROVE KeepsTimes(a)
      <3>1. /\ attempt[a] \in [pc : {"idle", "reading", "producing", "waiting", "answered", "gone"},
                               stamp : Nat, read : Nat, status : Statuses, offset : Nat, dup : BOOLEAN]
        BY TypesAt
      <3>2. attempt'[a] = attempt[a] \/ attempt'[a] = [attempt[a] EXCEPT !.pc = "gone"]
        BY <1>2 DEF Exit
      <3>3. attempt'[a].stamp = attempt[a].stamp /\ attempt'[a].read = attempt[a].read
        BY <3>1, <3>2
      <3>4. task'[a] = task[a] \/ task[a].st \in {"running", "stored"}
        BY <1>2 DEF Exit
      <3> QED
        BY <3>3, <3>4 DEF KeepsTimes
    <2> QED
      BY <2>0, <2>1, SignedKept
  <1>3. CASE Deliver \/ Tick \/ UNCHANGED vars
    <2>1. UNCHANGED <<config, attempt, task>>
      BY <1>3 DEF Deliver, Tick, vars, config
    <2>2. \A a \in Attempts : KeepsTimes(a)
      BY <2>1 DEF KeepsTimes
    <2> QED
      BY <2>1, <2>2, SignedKept
  <1> QED
    BY <1>1, <1>2, <1>3 DEF Next, Done

\* In every reachable state.
LEMMA SignedInvHolds == Spec => []SignedInv
  <1>1. Init => SignedInv
    BY DEF Init, SignedInv, NoTask
  <1> QED
    BY <1>1, InboundInvHolds, SignedNext, PTL DEF Spec

\* What the invariants say of signatures.
LEMMA InboundSigned ==
  ASSUME InboundInv, SignedInv
  PROVE  SignatureBinds
  <1>0. LogHolds /\ OneRecordEach /\ DOMAIN log = 1..Len(log)
    <2>1. log \in Seq(Stored)
      BY InboundParts DEF InboundTypes
    <2>2. DOMAIN log = 1..Len(log)
      BY <2>1
    <2> QED
      BY <2>2, InboundParts
  <1>1. OnlySignedStored
    <2> SUFFICES ASSUME route.entry = "webhook", endpoint.secret # None, NEW i \in 1..Len(log)
                 PROVE  /\ IsSigned(log[i].by) /\ log[i].value = request.body
                        /\ Standard => log[i].idem = request.ids
      BY <1>0 DEF OnlySignedStored
    <2>1. log[i].by \in Attempts /\ task[log[i].by].st # "none"
      BY <1>0 DEF OneRecordEach
    <2>2. SignedWhen(attempt[log[i].by].stamp, attempt[log[i].by].read)
      BY <2>1 DEF SignedInv
    <2>3. IsSigned(log[i].by)
      BY <2>2, Zenon DEF IsSigned, SignedWhen
    <2> QED
      BY <1>0, <2>3 DEF LogHolds, Genuine
  <1>2. SignedStaysSchemaBound
    BY <1>0 DEF SignedStaysSchemaBound, LogHolds
  <1> QED
    BY <1>1, <1>2 DEF SignatureBinds

\* webhook.rs: for every endpoint, request, number of attempts, clock and
\* sequence of failures, what a sender is told is true: a refused request is
\* never in the topic, an answer 200 names a record that is, all answers 200
\* for one idempotency key name the same one, and a Standard Webhooks message
\* is stored once.
THEOREM SendersAreToldTheTruth == Spec => []AnswersHold
  BY InboundInvHolds, InboundAnswers, PTL

\* webhook.rs, standard_webhooks.rs: for every file that compiles and every
\* request, clock and failure, an endpoint whose file names a secret stores a
\* body only for an attempt whose signature covers it, with the id and the time
\* of a Standard Webhooks message, and whose time was fresh when it was read;
\* headers that are not signed neither change nor bypass its schema.
THEOREM SignaturesBind == Spec => []SignatureBinds
  BY InboundInvHolds, SignedInvHolds, InboundSigned, PTL

-----------------------------------------------------------------------------
(* Applications: StreamInv is the inductive invariant of SdkStream's       *)
(* StreamSpec.                                                             *)

\* What can be in the two channels.
Errors == {<<"protobuf">>, <<"partial frame">>, <<"hyper">>} \cup Frames \cup ConnectFailures
          \cup {<<"connect", f[2]>> : f \in {f \in Frames : f[1] = "end" /\ Len(f) = 2}}
RawItems == Frames \cup {Err(e) : e \in Errors}
AppItems == {Mapped(x) : x \in RawItems}

\* One item is on its way in a task that sends.
Held(t) == IF t.pc = "sending" THEN 1 ELSE 0
Total == Len(got) + Len(outer) + Held(forwarder) + Len(inner) + Held(reader)

\* The reader has taken its last frame, or met the end of the body.
Ends == reader.pc = "done" \/ (reader.pc = "sending" /\ reader.last)
Over == taken > 0 /\ Final(response[taken])
Failed == Ends /\ ~Over /\ (body = "reset" \/ (body = "cut" /\ taken = Len(response) - 1))

\* How many items the reader has made so far, and what each of them means to
\* the application.
Out == IF taken > 0 /\ response[taken] = <<"end">> THEN taken - 1
       ELSE IF Failed THEN taken + 1 ELSE taken
Shown(i) == IF i <= taken THEN Item(response[i]) ELSE Broken

StreamTypes ==
  /\ app \in {"idle", "reading", "ended", "dropped"}
  /\ forwarder \in [pc : {"off", "connecting", "receiving", "sending", "done"},
                    item : RawItems \cup {NoItem}, last : BOOLEAN]
  /\ reader \in [pc : {"off", "reading", "decoding", "sending", "done"},
                 item : RawItems \cup {NoItem}, last : BOOLEAN]
  /\ forwarder.pc = "sending" => forwarder.item \in RawItems
  /\ reader.pc = "sending" => reader.item \in RawItems
  /\ got \in Seq(AppItems) /\ outer \in Seq(AppItems) /\ inner \in Seq(RawItems)
  /\ response \in Seq(Frames) /\ body \in {"open", "closed", "cut", "reset"}
  /\ read \in Nat /\ taken \in Nat

\* Where the reader is in the body.
Position ==
  /\ 2 * taken <= read /\ read <= Cells /\ taken <= Len(response)
  /\ reader.pc = "reading" => read < 2 * (taken + 1)
  /\ body = "cut" => taken < Len(response)
  /\ \A i \in 1..Len(response) : Final(response[i]) => i = Len(response)

\* Why it has stopped.
Stops ==
  /\ ~Ends => ~Over
  /\ (app # "dropped" /\ Ends /\ ~Over) =>
       \/ body = "closed" /\ taken = Len(response)
       \/ body = "cut" /\ taken = Len(response) - 1
       \/ body = "reset"

\* Everything it has made is on its way, in order.
Flow ==
  (reader.pc # "off" /\ app # "dropped") =>
    /\ Total = Out
    /\ \A i \in 1..Len(outer) : outer[i] = Shown(Len(got) + i)
    /\ forwarder.pc = "sending" => Mapped(forwarder.item) = Shown(Len(got) + Len(outer) + 1)
    /\ \A i \in 1..Len(inner) : Mapped(inner[i]) = Shown(Len(got) + Len(outer) + Held(forwarder) + i)
    /\ reader.pc = "sending" => Mapped(reader.item) = Shown(Total)

Arrived == reader.pc # "off" => /\ Len(got) <= Out
                                /\ \A i \in 1..Len(got) : got[i] = Shown(i)

\* How the tasks end.
Order ==
  /\ reader.pc # "off" => ~forwarder.last /\ forwarder.pc \in {"receiving", "sending", "done"}
  /\ (forwarder.pc = "done" /\ app # "dropped" /\ reader.pc # "off") => inner = <<>> /\ reader.pc = "done"
  /\ app = "ended" => outer = <<>> /\ forwarder.pc = "done"
  /\ app = "idle" => forwarder.pc = "off" /\ reader.pc = "off"

Refused ==
  reader.pc = "off" =>
    /\ inner = <<>> /\ response = <<>> /\ forwarder.pc # "receiving"
    /\ Total <= 1
    /\ \A i \in 1..Len(got) : got[i][1] = "error"
    /\ \A i \in 1..Len(outer) : outer[i][1] = "error"
    /\ forwarder.pc \in {"off", "connecting"} => got = <<>> /\ outer = <<>>
    /\ forwarder.pc = "sending" => forwarder.last /\ forwarder.item[1] = "error"
    /\ (forwarder.pc = "done" /\ app # "dropped") => Len(got) + Len(outer) = 1

Capacity == Len(inner) <= Channel /\ Len(outer) <= Channel

StreamInv == StreamTypes /\ Position /\ Stops /\ Flow /\ Arrived /\ Order /\ Refused /\ Capacity

\* What the reader makes of a frame: nothing of a clean end, and otherwise the
\* item the application is promised for it.
LEMMA OnFrameMeans ==
  ASSUME NEW f \in Frames
  PROVE  \/ f = <<"end">> /\ Final(f) /\ OnFrame(f) = Task("done")
         \/ /\ f # <<"end">> /\ OnFrame(f) \in [pc : {"sending"}, item : RawItems, last : BOOLEAN]
            /\ OnFrame(f).last <=> Final(f)
            /\ Mapped(OnFrame(f).item) = Item(f)
  <1>1. CASE f[1] = "message"
    <2>1. OnFrame(f) = [pc |-> "sending", item |-> f, last |-> FALSE]
      BY <1>1 DEF OnFrame, Sending
    <2>2. f # <<"end">> /\ ~Final(f)
      BY <1>1 DEF Final
    <2>3. Mapped(f) = f /\ Item(f) = f
      BY <1>1 DEF Mapped, Item
    <2> QED
      BY <2>1, <2>2, <2>3 DEF RawItems
  <1>2. CASE f[1] = "undecodable"
    <2>1. OnFrame(f) = [pc |-> "sending", item |-> Err(<<"protobuf">>), last |-> FALSE]
      BY <1>2 DEF OnFrame, Sending
    <2>2. f # <<"end">> /\ ~Final(f)
      BY <1>2 DEF Final
    <2>3. Mapped(Err(<<"protobuf">>)) = Item(f)
      BY <1>2 DEF Mapped, Item, Err, from_connect_error
    <2>4. <<"protobuf">> \in Errors
      BY DEF Errors
    <2> QED
      BY <2>1, <2>2, <2>3, <2>4 DEF RawItems
  <1>3. CASE f = <<"end">>
    BY <1>3 DEF OnFrame, Final
  <1>4. CASE f # <<"end">> /\ f[1] = "end" /\ Len(f) = 2
    <2>1. OnFrame(f) = [pc |-> "sending", item |-> Err(<<"connect", f[2]>>), last |-> TRUE]
      BY <1>4 DEF OnFrame, Sending
    <2>2. Final(f)
      BY <1>4 DEF Final
    <2>3. Mapped(Err(<<"connect", f[2]>>)) = Item(f)
      BY <1>4 DEF Mapped, Item, Err, from_connect_error
    <2>4. <<"connect", f[2]>> \in Errors
      BY <1>4 DEF Errors
    <2> QED
      BY <1>4, <2>1, <2>2, <2>3, <2>4 DEF RawItems
  <1>5. CASE f[1] \in {"compressed", "unknown", "bad trailer"}
    <2>0. f[1] # "message" /\ f[1] # "undecodable" /\ f[1] # "end" /\ f[1] # "connect" /\ f[1] # "status"
      BY <1>5
    <2>a. f # <<"end">>
      BY <2>0
    <2>1. OnFrame(f) = [pc |-> "sending", item |-> Err(f), last |-> TRUE]
      BY <1>5, <2>0, <2>a DEF OnFrame, Sending
    <2>2. Final(f)
      BY <2>0 DEF Final
    <2>3. Mapped(Err(f)) = Item(f)
      BY <1>5 DEF Mapped, Item, Err, from_connect_error
    <2>4. f \in Errors
      BY DEF Errors
    <2> QED
      BY <2>a, <2>1, <2>2, <2>3, <2>4 DEF RawItems
  <1> QED
    BY <1>1, <1>2, <1>3, <1>4, <1>5, FramesAssumption

\* The two errors that are no frames show as a broken stream.
LEMMA BrokenMeans ==
  /\ Err(<<"partial frame">>) \in RawItems /\ Mapped(Err(<<"partial frame">>)) = Broken
  /\ Err(<<"hyper">>) \in RawItems /\ Mapped(Err(<<"hyper">>)) = Broken
  BY DEF RawItems, Errors, Mapped, Err, Broken, from_connect_error

\* Channels: what is put in at the end and taken out at the front.
LEMMA AppendIs ==
  ASSUME NEW S, NEW s \in Seq(S), NEW x \in S
  PROVE  /\ Append(s, x) \in Seq(S) /\ Len(Append(s, x)) = Len(s) + 1
         /\ \A i \in 1..Len(s) : Append(s, x)[i] = s[i]
         /\ Append(s, x)[Len(s) + 1] = x
  OBVIOUS

\* The first item of a queue, and the rest of it.
LEMMA TailIs ==
  ASSUME NEW S, NEW s \in Seq(S), s # <<>>
  PROVE  /\ Head(s) \in S /\ Head(s) = s[1] /\ Len(s) \in Nat /\ Len(s) >= 1
         /\ Tail(s) \in Seq(S) /\ Len(Tail(s)) = Len(s) - 1
         /\ \A i \in 1..Len(Tail(s)) : Tail(s)[i] = s[i + 1]
  OBVIOUS

\* Lengths are numbers, and only the empty channel has length 0.
LEMMA Lengths ==
  ASSUME StreamTypes
  PROVE  /\ Len(got) \in Nat /\ Len(outer) \in Nat /\ Len(inner) \in Nat /\ Len(response) \in Nat
         /\ (outer = <<>> <=> Len(outer) = 0) /\ (inner = <<>> <=> Len(inner) = 0)
         /\ (got = <<>> <=> Len(got) = 0) /\ (response = <<>> <=> Len(response) = 0)
         /\ \A i \in 1..Len(response) : response[i] \in Frames
  BY DEF StreamTypes

\* A stream that is not open yet.
LEMMA InitInv == StreamInit => StreamInv
  <1> SUFFICES ASSUME StreamInit PROVE StreamInv
    OBVIOUS
  <1> USE DEF StreamInit, Task
  <1>1. StreamTypes
    BY DEF StreamTypes
  <1>2. Position
    BY DEF Position, Cells, CellsPerFrame
  <1>3. Stops
    BY DEF Stops, Ends, Over
  <1>4. Flow /\ Arrived /\ Order
    BY DEF Flow, Arrived, Order
  <1>5. Refused
    BY DEF Refused, Total, Held
  <1>6. Capacity
    BY ChannelAssumption DEF Capacity
  <1> QED
    BY <1>1, <1>2, <1>3, <1>4, <1>5, <1>6 DEF StreamInv

\* subscribe_live.
LEMMA SubscribeInv == ASSUME StreamInv, Subscribe PROVE StreamInv'
  <1>0. StreamTypes /\ Position /\ Stops /\ Order /\ Refused /\ Capacity /\ reader.pc = "off"
    BY DEF StreamInv, Order, Subscribe
  <1> USE DEF Subscribe, Task
  <1>1. StreamTypes'
    BY <1>0 DEF StreamTypes
  <1>2. Position'
    BY <1>0 DEF Position, Cells
  <1>3. Stops'
    BY <1>0 DEF Stops, Ends, Over
  <1>4. Flow' /\ Arrived' /\ Order'
    BY <1>0 DEF Flow, Arrived, Order
  <1>5. Refused'
    BY <1>0, Lengths DEF Refused, Total, Held, Order
  <1>6. Capacity'
    BY <1>0 DEF Capacity
  <1> QED
    BY <1>1, <1>2, <1>3, <1>4, <1>5, <1>6 DEF StreamInv

\* The stream is opened, or refused.
LEMMA ConnectInv == ASSUME StreamInv, Connect PROVE StreamInv'
  <1>0. /\ StreamTypes /\ Position /\ Stops /\ Order /\ Refused /\ Capacity /\ reader.pc = "off"
        /\ got = <<>> /\ outer = <<>> /\ inner = <<>> /\ response = <<>> /\ app # "ended" /\ app # "idle"
    BY DEF StreamInv, Order, Connect, Refused
  <1>1. UNCHANGED <<app, got, inner, outer, response, body, read, taken, calls>>
    BY DEF Connect
  <1>2. taken = 0 /\ read = 0
    BY <1>0, Lengths DEF Position, Cells, CellsPerFrame, StreamTypes
  <1>a. Position' /\ Capacity' /\ ~Over /\ ~Over'
    BY <1>0, <1>1, <1>2, Lengths DEF Position, Cells, CellsPerFrame, Capacity, Over, Connect, Task
  <1>3. CASE forwarder' = Task("receiving") /\ reader' = Task("reading")
    <2>1. StreamTypes'
      BY <1>0, <1>1, <1>3 DEF StreamTypes, Task
    <2>2. Stops' /\ Order' /\ Refused'
      BY <1>0, <1>1, <1>3, <1>a DEF Stops, Ends, Order, Refused, Task
    <2>3. Out' = 0 /\ Total' = 0
      BY <1>0, <1>1, <1>2, <1>3, Lengths DEF Out, Failed, Ends, Total, Held, Task
    <2>4. Flow' /\ Arrived'
      BY <1>0, <1>1, <1>3, <2>3, Lengths DEF Flow, Arrived, Task
    <2> QED
      BY <1>a, <2>1, <2>2, <2>4 DEF StreamInv
  <1>4. ASSUME NEW e \in ConnectFailures, forwarder' = Sending(Err(e), TRUE), UNCHANGED reader
        PROVE  StreamInv'
    <2>0. Err(e) \in RawItems /\ Err(e)[1] = "error"
      BY DEF RawItems, Errors, Err
    <2>1. StreamTypes'
      BY <1>0, <1>1, <1>4, <2>0 DEF StreamTypes, Sending
    <2>2. Stops' /\ Order' /\ Flow' /\ Arrived'
      BY <1>0, <1>1, <1>4, <1>a DEF Stops, Ends, Order, Sending, Flow, Arrived
    <2>3. Refused'
      BY <1>0, <1>1, <1>4, <2>0, Lengths DEF Refused, Total, Held, Sending
    <2> QED
      BY <1>a, <2>1, <2>2, <2>3 DEF StreamInv
  <1> QED
    BY <1>3, <1>4 DEF Connect

\* The parts of the invariant that name no part of the body.
LEMMA Parts ==
  ASSUME StreamInv
  PROVE  StreamTypes /\ Position /\ Stops /\ Flow /\ Arrived /\ Order /\ Refused /\ Capacity
  BY DEF StreamInv

\* One more frame, which changes nothing of what was taken.
LEMMA GatewaySendsInv == ASSUME StreamInv, NEW frame \in Frames, GatewaySends(frame) PROVE StreamInv'
  <1>0. /\ UNCHANGED <<app, got, forwarder, reader, inner, outer, body, read, taken, calls>>
        /\ response' = Append(response, frame) /\ body = "open" /\ reader.pc # "off" /\ ~Finished
    BY DEF GatewaySends
  <1> USE Parts, Lengths
  <1>1. StreamTypes'
    BY <1>0 DEF StreamTypes
  <1>2. /\ Len(response') = Len(response) + 1
        /\ \A i \in 1..Len(response) : response'[i] = response[i]
    BY <1>0 DEF StreamTypes
  <1>3. \A i \in 1..Len(response) : ~Final(response[i])
    BY <1>0 DEF Finished, StreamTypes
  <1>4. Position'
    <2>1. 2 * taken' <= read' /\ read' <= Cells' /\ taken' <= Len(response')
      BY <1>0, <1>2 DEF Position, Cells, CellsPerFrame, StreamTypes
    <2>2. \A i \in 1..Len(response') : Final(response'[i]) => i = Len(response')
      BY <1>2, <1>3
    <2> QED
      BY <1>0, <2>1, <2>2 DEF Position
  <1>5. taken > 0 => response'[taken] = response[taken]
    BY <1>2 DEF Position, StreamTypes
  <1>6. (Over' <=> Over) /\ (Ends' <=> Ends)
    BY <1>0, <1>5 DEF Over, Ends
  <1>7. Stops'
    BY <1>0, <1>6, <1>2, <1>3 DEF Stops, Over, Position, StreamTypes
  <1>8. Out' = Out
    BY <1>0, <1>5 DEF Out, Failed
  <1>9. \A i \in 1..Out : Shown(i)' = Shown(i)
    BY <1>0, <1>2 DEF Shown, Out, Failed, Position, StreamTypes
  <1>10. Total' = Total
    BY <1>0 DEF Total, Held
  <1>11. Flow'
    BY <1>0, <1>8, <1>9, <1>10 DEF Flow, Total, Held
  <1>a. Out \in Int
    BY DEF Out, StreamTypes
  <1>12. Arrived'
    BY <1>0, <1>8, <1>9, <1>a DEF Arrived
  <1>13. Order' /\ Refused' /\ Capacity'
    BY <1>0 DEF Order, Refused, Capacity
  <1> QED
    BY <1>1, <1>4, <1>7, <1>11, <1>12, <1>13 DEF StreamInv

\* The body ends, in whichever way.
LEMMA BodyEndsInv == ASSUME StreamInv, BodyEnds PROVE StreamInv'
  <1>0. /\ UNCHANGED <<app, got, forwarder, reader, inner, outer, response, read, taken, calls>>
        /\ body = "open" /\ reader.pc # "off"
        /\ \/ body' \in {"closed", "reset"}
           \/ body' = "cut" /\ response # <<>> /\ read < CellsPerFrame * Len(response)
    BY DEF BodyEnds
  <1> USE Parts, Lengths
  <1>1. StreamTypes'
    BY <1>0 DEF StreamTypes
  <1>2. Position'
    BY <1>0 DEF Position, Cells, CellsPerFrame, StreamTypes
  <1>3. (Over' <=> Over) /\ (Ends' <=> Ends)
    BY <1>0 DEF Over, Ends
  <1>4. Stops'
    BY <1>0, <1>3 DEF Stops
  <1>5. Out' >= Out /\ (app # "dropped" => Out' = Out)
    BY <1>0, <1>3 DEF Out, Failed, Stops, StreamTypes
  <1>6. \A i : Shown(i)' = Shown(i)
    BY <1>0 DEF Shown
  <1>7. Total' = Total
    BY <1>0 DEF Total, Held
  <1>8. Out \in Int /\ Out' \in Int
    BY <1>0 DEF Out, StreamTypes
  <1>9. Flow'
    BY <1>0, <1>5, <1>6, <1>7 DEF Flow, Held
  <1>10. Arrived'
    BY <1>0, <1>5, <1>6, <1>8 DEF Arrived
  <1>11. Order' /\ Refused' /\ Capacity'
    BY <1>0 DEF Order, Refused, Capacity
  <1> QED
    BY <1>1, <1>2, <1>4, <1>9, <1>10, <1>11 DEF StreamInv

\* A chunk of the body.
LEMMA ReadChunkInv == ASSUME StreamInv, ReadChunk PROVE StreamInv'
  <1>0. /\ UNCHANGED <<app, got, forwarder, inner, outer, response, body, taken, calls>>
        /\ reader.pc = "reading" /\ read' \in (read + 1)..Cells /\ reader' = Task("decoding")
    BY DEF ReadChunk
  <1> USE Parts, Lengths
  <1>1. StreamTypes'
    BY <1>0 DEF StreamTypes, Task, Cells, CellsPerFrame
  <1>2. Position'
    BY <1>0 DEF Position, Cells, CellsPerFrame, StreamTypes, Task
  <1>3. (Over' <=> Over) /\ ~Ends /\ ~Ends'
    BY <1>0 DEF Over, Ends, Task
  <1>4. Stops'
    BY <1>0, <1>3 DEF Stops
  <1>5. Out' = Out /\ (\A i : Shown(i)' = Shown(i)) /\ Total' = Total
    BY <1>0, <1>3 DEF Out, Failed, Shown, Total, Held, Task
  <1>6. Flow' /\ Arrived'
    BY <1>0, <1>5 DEF Flow, Held, Arrived, Task
  <1>7. Order' /\ Refused' /\ Capacity'
    BY <1>0 DEF Order, Refused, Capacity, Task
  <1> QED
    BY <1>1, <1>2, <1>4, <1>6, <1>7 DEF StreamInv

\* The reader gives up with one last error, for the position after the last
\* whole frame.
LEMMA BreakInv ==
  ASSUME StreamInv, NEW e \in RawItems, Mapped(e) = Broken,
         reader.pc = "reading", reader' = Sending(e, TRUE),
         body = "reset" \/ (body = "cut" /\ taken = Len(response) - 1),
         UNCHANGED <<app, got, forwarder, inner, outer, response, body, read, taken, calls>>
  PROVE  StreamInv'
  <1> USE Parts, Lengths
  <1>1. StreamTypes'
    BY DEF StreamTypes, Sending
  <1>2. Position'
    BY DEF Position, Cells, Sending
  <1>3. ~Over /\ ~Over' /\ ~Ends /\ Ends'
    BY DEF Over, Ends, Sending, Stops
  <1>4. Stops'
    BY <1>3 DEF Stops
  <1>5. ~(taken > 0 /\ response[taken] = <<"end">>)
    BY <1>3 DEF Over, Final
  <1>6. Out = taken /\ Out' = taken + 1
    BY <1>3, <1>5 DEF Out, Failed
  <1>7. (\A i : Shown(i)' = Shown(i)) /\ Shown(taken + 1) = Broken
    BY DEF Shown, StreamTypes
  <1>8. Total' = Total + 1
    BY DEF Total, Held, Sending
  <1>9. Flow'
    BY <1>6, <1>7, <1>8 DEF Flow, Held, Sending
  <1>10. Arrived'
    BY <1>6, <1>7 DEF Arrived, Sending, StreamTypes
  <1>11. Order' /\ Refused' /\ Capacity'
    BY DEF Order, Refused, Capacity, Sending
  <1> QED
    BY <1>1, <1>2, <1>4, <1>9, <1>10, <1>11 DEF StreamInv

\* The end of the body, inside a frame or after one.
LEMMA ReadEndInv == ASSUME StreamInv, ReadEnd PROVE StreamInv'
  <1>0. /\ UNCHANGED <<app, got, forwarder, inner, outer, response, body, read, taken, calls>>
        /\ reader.pc = "reading" /\ body \in {"closed", "cut"} /\ read = Cells
    BY DEF ReadEnd
  <1> USE Parts, Lengths
  <1>1. \/ body = "cut" /\ taken = Len(response) - 1 /\ read > CellsPerFrame * taken
        \/ body = "closed" /\ taken = Len(response) /\ ~(read > CellsPerFrame * taken)
    BY <1>0 DEF Position, Cells, CellsPerFrame, StreamTypes
  <1>2. CASE body = "cut"
    BY <1>0, <1>1, <1>2, BreakInv, BrokenMeans DEF ReadEnd
  <1>3. CASE body = "closed"
    <2>0. reader' = Task("done") /\ taken = Len(response)
      BY <1>1, <1>3 DEF ReadEnd
    <2>1. StreamTypes'
      BY <1>0, <2>0 DEF StreamTypes, Task
    <2>2. Position'
      BY <1>0, <2>0 DEF Position, Cells, Task
    <2>3. (Over' <=> Over) /\ Ends' /\ ~Over
      BY <1>0, <2>0 DEF Over, Ends, Task, Stops
    <2>4. Stops'
      BY <1>0, <1>3, <2>0, <2>3 DEF Stops
    <2>5. Out' = Out
      BY <1>0, <1>3, <2>3 DEF Out, Failed
    <2>6. (\A i : Shown(i)' = Shown(i)) /\ Total' = Total
      BY <1>0, <2>0 DEF Shown, Total, Held, Task
    <2>7. Flow' /\ Arrived'
      BY <1>0, <2>0, <2>5, <2>6 DEF Flow, Held, Arrived, Task
    <2>8. Order' /\ Refused' /\ Capacity'
      BY <1>0, <2>0 DEF Order, Refused, Capacity, Task
    <2> QED
      BY <2>1, <2>2, <2>4, <2>7, <2>8 DEF StreamInv
  <1> QED
    BY <1>0, <1>2, <1>3

\* The connection fails.
LEMMA ReadErrorInv == ASSUME StreamInv, ReadError PROVE StreamInv'
  BY BreakInv, BrokenMeans DEF ReadError

\* The first whole frame of the buffer, or none.
LEMMA DecodeInv == ASSUME StreamInv, Decode PROVE StreamInv'
  <1>0. /\ UNCHANGED <<app, got, forwarder, inner, outer, response, body, read, calls>>
        /\ reader.pc = "decoding"
    BY DEF Decode
  <1> USE Parts, Lengths
  <1>a. ~Ends /\ ~Over
    BY <1>0 DEF Ends, Stops
  <1>b. ~(taken > 0 /\ response[taken] = <<"end">>)
    BY <1>a DEF Over, Final
  <1>c. Out = taken
    BY <1>a, <1>b DEF Out, Failed
  <1>1. CASE ~(read >= CellsPerFrame * (taken + 1))
    <2>0. reader' = Task("reading") /\ taken' = taken
      <3>1. decode_next = {}
        BY <1>1 DEF decode_next
      <3>2. Cardinality(decode_next) = 0
        BY <3>1, FS_EmptySet
      <3> QED
        BY <3>1, <3>2 DEF Decode, StreamTypes
    <2>1. StreamTypes'
      BY <1>0, <2>0 DEF StreamTypes, Task
    <2>2. Position'
      BY <1>0, <1>1, <2>0 DEF Position, Cells, CellsPerFrame, Task, StreamTypes
    <2>3. Stops' /\ ~Ends'
      BY <1>0, <1>a, <2>0 DEF Over, Ends, Task, Stops
    <2>4. Out' = Out /\ (\A i : Shown(i)' = Shown(i)) /\ Total' = Total
      BY <1>0, <1>a, <2>0, <2>3 DEF Shown, Total, Held, Task, Out, Failed
    <2>5. Flow' /\ Arrived'
      BY <1>0, <2>0, <2>4 DEF Flow, Held, Arrived, Task
    <2>6. Order' /\ Refused' /\ Capacity'
      BY <1>0, <2>0 DEF Order, Refused, Capacity, Task
    <2> QED
      BY <2>1, <2>2, <2>3, <2>5, <2>6 DEF StreamInv
  <1>2. CASE read >= CellsPerFrame * (taken + 1)
    <2>0. taken + 1 \in 1..Len(response) /\ (body = "cut" => taken + 1 < Len(response))
      BY <1>2 DEF Position, Cells, CellsPerFrame, StreamTypes
    <2>k. PICK k \in Nat : k = taken
      BY DEF StreamTypes
    <2>f. PICK f \in Frames : f = response[k + 1]
      BY <2>0, <2>k
    <2>1. reader' = OnFrame(f) /\ taken' = taken + 1
      <3>1. decode_next = {f}
        BY <1>2, <2>k, <2>f DEF decode_next
      <3>2. Cardinality({f}) = 1
        BY FS_Singleton
      <3>3. (CHOOSE x \in {f} : TRUE) = f
        OBVIOUS
      <3>4. taken' = taken + 1
        BY <3>1, <3>2 DEF Decode
      <3>5. reader' = OnFrame(CHOOSE x \in decode_next : TRUE)
        BY <3>1 DEF Decode
      <3> QED
        BY <3>1, <3>3, <3>4, <3>5
    <2>2. \A i \in 1..k : Shown(i)' = Shown(i)
      BY <1>0, <2>k, <2>1 DEF Shown, StreamTypes
    <2>3. Shown(k + 1)' = Item(f)
      BY <1>0, <2>k, <2>f, <2>1 DEF Shown, StreamTypes
    <2>4. Over' <=> Final(f)
      BY <1>0, <2>k, <2>f, <2>1 DEF Over, StreamTypes
    <2>5. Capacity'
      BY <1>0 DEF Capacity
    <2>6. CASE f = <<"end">>
      <3>0. reader' = Task("done") /\ Over' /\ Ends'
        <4>1. OnFrame(f) = Task("done") /\ Final(f)
          BY ONLY <2>6, OnFrameMeans
        <4> QED
          BY <4>1, <2>1, <2>4 DEF Ends, Task
      <3>1. StreamTypes'
        BY <1>0, <2>1, <3>0 DEF StreamTypes, Task
      <3>2. Position'
        BY <1>0, <1>2, <2>0, <2>1, <3>0 DEF Position, Cells, CellsPerFrame, StreamTypes, Task
      <3>3. Stops'
        BY <3>0 DEF Stops
      <3>4. Out' = k
        BY <1>0, <2>k, <2>f, <2>1, <2>6 DEF Out, StreamTypes
      <3>5. Total' = Total
        BY <1>0, <3>0 DEF Total, Held, Task
      <3>6. Flow'
        BY <1>0, <1>c, <2>k, <2>2, <3>0, <3>4, <3>5 DEF Flow, Held, Task, Total
      <3>7. Arrived'
        BY <1>0, <1>c, <2>k, <2>2, <3>4 DEF Arrived, StreamTypes
      <3>8. Order' /\ Refused'
        BY <1>0, <3>0 DEF Order, Refused, Task
      <3> QED
        BY <2>5, <3>1, <3>2, <3>3, <3>6, <3>7, <3>8 DEF StreamInv
    <2>7. CASE f # <<"end">>
      <3>0. /\ reader' \in [pc : {"sending"}, item : RawItems, last : BOOLEAN]
            /\ reader'.last <=> Final(f)
            /\ Mapped(reader'.item) = Item(f)
        BY <2>7, <2>1, OnFrameMeans
      <3>a. reader'.pc = "sending" /\ (Ends' <=> Over')
        BY <3>0, <2>4 DEF Ends
      <3>1. StreamTypes'
        BY <1>0, <2>1, <3>0 DEF StreamTypes
      <3>2. Position'
        BY <1>0, <1>2, <2>0, <2>1, <3>a DEF Position, Cells, CellsPerFrame, StreamTypes
      <3>3. Stops'
        BY <3>a DEF Stops
      <3>4. Out' = k + 1
        BY <1>0, <2>k, <2>f, <2>1, <2>7, <3>a DEF Out, Failed, StreamTypes
      <3>5. Total' = Total + 1
        BY <1>0, <3>a DEF Total, Held
      <3>6. Flow'
        <4> SUFFICES ASSUME app # "dropped" PROVE Flow'
          BY <1>0 DEF Flow
        <4>1. Total = k /\ Total' = k + 1
          BY <1>0, <1>c, <2>k, <3>5 DEF Flow
        <4>2. Len(got) + Len(outer) + Held(forwarder) + Len(inner) = k /\ Held(forwarder) \in {0, 1}
          BY <1>0, <4>1 DEF Total, Held
        <4>3. ASSUME NEW i \in 1..Len(outer) PROVE outer[i] = Shown(Len(got) + i)'
          <5>1. outer[i] = Shown(Len(got) + i)
            BY <1>0 DEF Flow
          <5>2. Len(got) + i \in 1..k
            BY <4>2
          <5> QED
            BY <1>0, <2>2, <5>1, <5>2 DEF Shown
        <4>4. forwarder.pc = "sending" => Mapped(forwarder.item) = Shown(Len(got) + Len(outer) + 1)'
          BY <1>0, <2>2, <4>2 DEF Flow, Held
        <4>5. ASSUME NEW i \in 1..Len(inner)
              PROVE  Mapped(inner[i]) = Shown(Len(got) + Len(outer) + Held(forwarder) + i)'
          <5>1. Mapped(inner[i]) = Shown(Len(got) + Len(outer) + Held(forwarder) + i)
            BY <1>0 DEF Flow
          <5>2. Len(got) + Len(outer) + Held(forwarder) + i \in 1..k /\ Held(forwarder)' = Held(forwarder)
            BY <1>0, <4>2 DEF Held
          <5> QED
            BY <1>0, <2>2, <5>1, <5>2 DEF Shown
        <4>6. Mapped(reader'.item) = Shown(Total)'
          BY <1>0, <2>k, <2>f, <2>1, <3>0, <4>1 DEF Shown
        <4> QED
          BY <1>0, <3>4, <4>1, <4>3, <4>4, <4>5, <4>6 DEF Flow
      <3>7. Arrived'
        BY <1>0, <1>c, <2>k, <2>2, <3>4 DEF Arrived, StreamTypes
      <3>8. Order' /\ Refused'
        BY <1>0, <3>a DEF Order, Refused
      <3> QED
        BY <2>5, <3>1, <3>2, <3>3, <3>6, <3>7, <3>8 DEF StreamInv
    <2> QED
      BY <2>6, <2>7
  <1> QED
    BY <1>1, <1>2

\* tx.send of the reader.
LEMMA ReaderSendsInv == ASSUME StreamInv, ReaderSends PROVE StreamInv'
  <1>0. /\ UNCHANGED <<app, got, forwarder, outer, response, body, read, taken, calls>>
        /\ reader.pc = "sending"
    BY DEF ReaderSends
  <1> USE Parts, Lengths
  <1>a. \A i : Shown(i)' = Shown(i)
    BY <1>0 DEF Shown
  <1>b. Over' <=> Over
    BY <1>0 DEF Over
  <1>1. CASE /\ forwarder.pc # "done" /\ Len(inner) < Channel
             /\ inner' = Append(inner, reader.item)
             /\ reader' = IF reader.last THEN Task("done") ELSE Task("decoding")
    <2>0. /\ inner' \in Seq(RawItems) /\ Len(inner') = Len(inner) + 1
          /\ \A i \in 1..Len(inner) : inner'[i] = inner[i]
          /\ inner'[Len(inner) + 1] = reader.item
      BY <1>0, <1>1, AppendIs DEF StreamTypes
    <2>a. reader'.pc \in {"done", "decoding"} /\ (Ends' <=> Ends)
      BY <1>0, <1>1 DEF Ends, Task
    <2>1. StreamTypes'
      BY <1>0, <1>1, <2>0 DEF StreamTypes, Task
    <2>2. Position'
      BY <1>0, <2>a DEF Position, Cells
    <2>3. Stops'
      BY <1>0, <1>b, <2>a DEF Stops
    <2>4. Out' = Out /\ Total' = Total
      BY <1>0, <1>b, <2>0, <2>a DEF Out, Failed, Total, Held
    <2>5. Flow'
      <3> SUFFICES ASSUME app # "dropped" PROVE Flow'
        BY <1>0 DEF Flow
      <3>1. \A i \in 1..Len(inner') : Mapped(inner'[i]) = Shown(Len(got) + Len(outer) + Held(forwarder) + i)
        <4>1. \A i \in 1..Len(inner) : Mapped(inner'[i]) = Shown(Len(got) + Len(outer) + Held(forwarder) + i)
          BY <1>0, <2>0 DEF Flow
        <4>2. Mapped(reader.item) = Shown(Total)
          BY <1>0 DEF Flow
        <4>3. Len(got) + Len(outer) + Held(forwarder) + (Len(inner) + 1) = Total
          BY <1>0 DEF Total, Held
        <4>4. Mapped(inner'[Len(inner) + 1]) = Shown(Len(got) + Len(outer) + Held(forwarder) + (Len(inner) + 1))
          BY <2>0, <4>2, <4>3
        <4>5. \A i \in 1..Len(inner') : i \in 1..Len(inner) \/ i = Len(inner) + 1
          BY <2>0
        <4> QED
          BY <4>1, <4>4, <4>5
      <3> QED
        BY <1>0, <1>a, <2>a, <2>4, <3>1 DEF Flow, Held
    <2>6. Arrived'
      BY <1>0, <1>a, <2>4 DEF Arrived
    <2>7. Order' /\ Refused' /\ Capacity'
      BY <1>0, <1>1, <2>0, <2>a, ChannelAssumption DEF Order, Refused, Capacity
    <2> QED
      BY <2>1, <2>2, <2>3, <2>5, <2>6, <2>7 DEF StreamInv
  <1>2. CASE forwarder.pc = "done" /\ reader' = Task("done") /\ UNCHANGED inner
    <2>0. app = "dropped"
      BY <1>0, <1>2 DEF Order
    <2>a. Ends' /\ (Ends => Ends')
      BY <1>2 DEF Ends, Task
    <2>1. StreamTypes'
      BY <1>0, <1>2 DEF StreamTypes, Task
    <2>2. Position'
      BY <1>0, <1>2 DEF Position, Cells, Task
    <2>3. Stops' /\ Flow'
      BY <1>0, <2>0, <2>a DEF Stops, Flow
    <2>4. Out' >= Out /\ Out \in Int /\ Out' \in Int
      BY <1>0, <1>b, <2>a DEF Out, Failed, StreamTypes
    <2>5. Arrived'
      BY <1>0, <1>a, <2>4 DEF Arrived
    <2>6. Order' /\ Refused' /\ Capacity'
      BY <1>0, <1>2, <2>0 DEF Order, Refused, Capacity, Task
    <2> QED
      BY <2>1, <2>2, <2>3, <2>5, <2>6 DEF StreamInv
  <1> QED
    BY <1>1, <1>2 DEF ReaderSends

\* The forwarder takes the next item, or sees the end of its channel.
LEMMA ForwarderReceivesInv == ASSUME StreamInv, ForwarderReceives PROVE StreamInv'
  <1>0. /\ UNCHANGED <<app, got, reader, outer, response, body, read, taken, calls>>
        /\ forwarder.pc = "receiving"
    BY DEF ForwarderReceives
  <1> USE Parts, Lengths
  <1>a. /\ \A i : Shown(i)' = Shown(i)
        /\ Out' = Out /\ (Over' <=> Over) /\ (Ends' <=> Ends)
    BY <1>0 DEF Shown, Out, Failed, Over, Ends
  <1>b. reader.pc # "off" /\ app # "idle" /\ app # "ended" /\ ~forwarder.last
    BY <1>0 DEF Order, Refused
  <1>c. Position' /\ Stops' /\ Refused'
    BY <1>0, <1>a, <1>b DEF Position, Cells, Stops, Refused
  <1>d. Arrived'
    BY <1>0, <1>a DEF Arrived
  <1>1. CASE inner # <<>> /\ forwarder' = Sending(Head(inner), FALSE) /\ inner' = Tail(inner)
    <2>0. /\ Head(inner) \in RawItems /\ Head(inner) = inner[1] /\ Len(inner) >= 1
          /\ inner' \in Seq(RawItems) /\ Len(inner') = Len(inner) - 1
          /\ \A i \in 1..Len(inner') : inner'[i] = inner[i + 1]
      BY <1>1, TailIs DEF StreamTypes
    <2>1. StreamTypes'
      BY <1>0, <1>1, <2>0 DEF StreamTypes, Sending
    <2>2. Total' = Total /\ Held(forwarder) = 0 /\ Held(forwarder)' = 1
      BY <1>0, <1>1, <2>0 DEF Total, Held, Sending
    <2>3. Flow'
      <3> SUFFICES ASSUME app # "dropped" PROVE Flow'
        BY <1>0 DEF Flow
      <3>1. \A i \in 1..Len(inner) : Mapped(inner[i]) = Shown(Len(got) + Len(outer) + i)
        BY <1>b, <2>2 DEF Flow
      <3>2. Mapped(forwarder'.item) = Shown(Len(got) + Len(outer) + 1)
        BY <1>1, <2>0, <3>1 DEF Sending
      <3>3. ASSUME NEW i \in 1..Len(inner')
            PROVE  Mapped(inner'[i]) = Shown(Len(got) + Len(outer) + 1 + i)
        <4>1. i + 1 \in 1..Len(inner) /\ inner'[i] = inner[i + 1]
          BY <2>0
        <4>2. Len(got) + Len(outer) + (i + 1) = Len(got) + Len(outer) + 1 + i
          OBVIOUS
        <4> QED
          BY <3>1, <4>1, <4>2
      <3>4. Total = Out /\ \A i \in 1..Len(outer) : outer[i] = Shown(Len(got) + i)
        BY <1>b DEF Flow
      <3>5. reader.pc = "sending" => Mapped(reader.item) = Shown(Total)
        BY <1>b DEF Flow
      <3> QED
        BY <1>0, <1>a, <2>2, <3>2, <3>3, <3>4, <3>5 DEF Flow
    <2>4. Order'
      BY <1>0, <1>1, <1>b DEF Order, Sending
    <2>5. Capacity'
      BY <1>0, <2>0, ChannelAssumption DEF Capacity
    <2> QED
      BY <1>c, <1>d, <2>1, <2>3, <2>4, <2>5 DEF StreamInv
  <1>2. CASE inner = <<>> /\ reader.pc = "done" /\ forwarder' = Task("done") /\ UNCHANGED inner
    <2>1. StreamTypes'
      BY <1>0, <1>2 DEF StreamTypes, Task
    <2>2. Total' = Total /\ Held(forwarder)' = Held(forwarder)
      BY <1>0, <1>2 DEF Total, Held, Task
    <2>3. Flow'
      BY <1>0, <1>2, <1>a, <2>2 DEF Flow, Task
    <2>4. Order' /\ Capacity'
      BY <1>0, <1>2, <1>b DEF Order, Capacity, Task
    <2> QED
      BY <1>c, <1>d, <2>1, <2>3, <2>4 DEF StreamInv
  <1> QED
    BY <1>1, <1>2 DEF ForwarderReceives

\* The forwarder sends what it has mapped, or finds the stream dropped.
LEMMA ForwarderSendsInv == ASSUME StreamInv, ForwarderSends PROVE StreamInv'
  <1>0. /\ UNCHANGED <<app, got, reader, response, body, read, taken, calls>>
        /\ forwarder.pc = "sending" /\ app # "idle" /\ app # "ended" /\ forwarder.item \in RawItems
    BY Parts DEF ForwarderSends, Order, StreamTypes
  <1> USE Parts, Lengths
  <1>a. /\ \A i : Shown(i)' = Shown(i)
        /\ Out' = Out /\ (Over' <=> Over) /\ (Ends' <=> Ends)
    BY <1>0 DEF Shown, Out, Failed, Over, Ends
  <1>b. Position' /\ Stops'
    BY <1>0, <1>a DEF Position, Cells, Stops
  <1>c. Arrived'
    BY <1>0, <1>a DEF Arrived
  <1>1. CASE /\ app # "dropped" /\ Len(outer) < Channel
             /\ outer' = Append(outer, Mapped(forwarder.item))
             /\ forwarder' = IF forwarder.last THEN Task("done") ELSE Task("receiving")
             /\ UNCHANGED inner
    <2>0. /\ outer' \in Seq(AppItems) /\ Len(outer') = Len(outer) + 1
          /\ \A i \in 1..Len(outer) : outer'[i] = outer[i]
          /\ outer'[Len(outer) + 1] = Mapped(forwarder.item)
      <3>1. Mapped(forwarder.item) \in AppItems
        BY <1>0 DEF AppItems
      <3> QED
        BY <1>1, <3>1, AppendIs DEF StreamTypes
    <2>a. /\ forwarder'.pc \in {"done", "receiving"} /\ ~forwarder'.last
          /\ Held(forwarder) = 1 /\ Held(forwarder)' = 0
      BY <1>0, <1>1 DEF Task, Held
    <2>1. StreamTypes'
      BY <1>0, <1>1, <2>0 DEF StreamTypes, Task
    <2>2. Total' = Total
      BY <1>0, <1>1, <2>0, <2>a DEF Total, Held
    <2>3. Flow'
      <3> SUFFICES ASSUME reader.pc # "off" PROVE Flow'
        BY <1>0 DEF Flow
      <3>1. \A i \in 1..Len(outer) : outer'[i] = Shown(Len(got) + i)
        BY <1>1, <2>0 DEF Flow
      <3>2. outer'[Len(outer) + 1] = Shown(Len(got) + (Len(outer) + 1))
        <4>1. Mapped(forwarder.item) = Shown(Len(got) + Len(outer) + 1)
          BY <1>0, <1>1 DEF Flow
        <4>2. Len(got) + Len(outer) + 1 = Len(got) + (Len(outer) + 1)
          OBVIOUS
        <4> QED
          BY <2>0, <4>1, <4>2
      <3>3. \A i \in 1..Len(outer') : outer'[i] = Shown(Len(got) + i)
        <4>1. \A i \in 1..Len(outer') : i \in 1..Len(outer) \/ i = Len(outer) + 1
          BY <2>0
        <4> QED
          BY <3>1, <3>2, <4>1
      <3>4. ASSUME NEW i \in 1..Len(inner)
            PROVE  Mapped(inner[i]) = Shown(Len(got) + Len(outer') + 0 + i)
        <4>1. Mapped(inner[i]) = Shown(Len(got) + Len(outer) + 1 + i)
          BY <1>1, <2>a DEF Flow
        <4>2. Len(got) + Len(outer) + 1 + i = Len(got) + Len(outer') + 0 + i
          BY <2>0
        <4> QED
          BY <4>1, <4>2
      <3>5. Total = Out /\ (reader.pc = "sending" => Mapped(reader.item) = Shown(Total))
        BY <1>1 DEF Flow
      <3> QED
        BY <1>0, <1>1, <1>a, <2>2, <2>a, <3>3, <3>4, <3>5 DEF Flow
    <2>4. Order'
      <3>1. forwarder'.pc = "done" => reader.pc = "off"
        BY <1>1 DEF Order, Task
      <3> QED
        BY <1>0, <1>1, <2>a, <3>1 DEF Order
    <2>5. Refused'
      <3> SUFFICES ASSUME reader.pc = "off" PROVE Refused'
        BY <1>0 DEF Refused
      <3>1. /\ forwarder' = Task("done") /\ forwarder.item[1] = "error"
            /\ Len(got) = 0 /\ Len(outer) = 0 /\ Len(inner) = 0
        BY <1>0, <1>1, <2>a DEF Refused, Total, Held
      <3>2. Mapped(forwarder.item)[1] = "error"
        BY <3>1 DEF Mapped
      <3> QED
        BY <1>0, <1>1, <2>0, <2>2, <3>1, <3>2 DEF Refused, Task
    <2>6. Capacity'
      BY <1>0, <1>1, <2>0, ChannelAssumption DEF Capacity
    <2> QED
      BY <1>b, <1>c, <2>1, <2>3, <2>4, <2>5, <2>6 DEF StreamInv
  <1>2. CASE app = "dropped" /\ forwarder' = Task("done") /\ inner' = <<>> /\ UNCHANGED outer
    <2>1. StreamTypes'
      BY <1>0, <1>2 DEF StreamTypes, Task
    <2>2. Flow'
      BY <1>0, <1>2 DEF Flow
    <2>3. Order'
      BY <1>0, <1>2 DEF Order, Task
    <2>4. Refused'
      BY <1>0, <1>2 DEF Refused, Task, Total, Held
    <2>5. Capacity'
      BY <1>0, <1>2, ChannelAssumption DEF Capacity
    <2> QED
      BY <1>b, <1>c, <2>1, <2>2, <2>3, <2>4, <2>5 DEF StreamInv
  <1> QED
    BY <1>1, <1>2 DEF ForwarderSends

\* The application takes the next item, or sees the end.
LEMMA NextMessageInv == ASSUME StreamInv, NextMessage PROVE StreamInv'
  <1>0. /\ UNCHANGED <<forwarder, reader, inner, response, body, read, taken, calls>>
        /\ app = "reading"
    BY DEF NextMessage
  <1> USE Parts, Lengths
  <1>a. /\ \A i : Shown(i)' = Shown(i)
        /\ Out' = Out /\ (Over' <=> Over) /\ (Ends' <=> Ends) /\ Out \in Int
    BY <1>0 DEF Shown, Out, Failed, Over, Ends, StreamTypes
  <1>b. Position'
    BY <1>0 DEF Position, Cells
  <1>1. CASE outer # <<>> /\ got' = Append(got, Head(outer)) /\ outer' = Tail(outer) /\ UNCHANGED app
    <2>0. /\ Head(outer) \in AppItems /\ Head(outer) = outer[1] /\ Len(outer) >= 1
          /\ outer' \in Seq(AppItems) /\ Len(outer') = Len(outer) - 1
          /\ \A i \in 1..Len(outer') : outer'[i] = outer[i + 1]
      BY <1>1, TailIs DEF StreamTypes
    <2>1. /\ got' \in Seq(AppItems) /\ Len(got') = Len(got) + 1
          /\ \A i \in 1..Len(got) : got'[i] = got[i]
          /\ got'[Len(got) + 1] = outer[1]
      BY <1>1, <2>0, AppendIs DEF StreamTypes
    <2>2. StreamTypes'
      BY <1>0, <1>1, <2>0, <2>1 DEF StreamTypes
    <2>3. Stops'
      BY <1>0, <1>1, <1>a DEF Stops
    <2>4. Total' = Total /\ Held(forwarder)' = Held(forwarder) /\ Held(forwarder) \in {0, 1} /\ Held(reader) \in {0, 1}
      BY <1>0, <2>0, <2>1 DEF Total, Held
    <2>5. Flow'
      <3> SUFFICES ASSUME reader.pc # "off" PROVE Flow'
        BY <1>0 DEF Flow
      <3>0. app # "dropped"
        BY <1>0
      <3>1. ASSUME NEW i \in 1..Len(outer') PROVE outer'[i] = Shown(Len(got') + i)
        <4>1. i + 1 \in 1..Len(outer) /\ outer'[i] = outer[i + 1]
          BY <2>0
        <4>2. Len(got) + (i + 1) = Len(got') + i
          BY <2>1
        <4> QED
          BY <3>0, <4>1, <4>2 DEF Flow
      <3>2. Len(got') + Len(outer') = Len(got) + Len(outer)
        BY <2>0, <2>1
      <3> QED
        BY <1>0, <1>1, <1>a, <2>4, <3>0, <3>1, <3>2 DEF Flow
    <2>6. Arrived'
      <3> SUFFICES ASSUME reader.pc # "off" PROVE Arrived'
        BY <1>0 DEF Arrived
      <3>1. outer[1] = Shown(Len(got) + 1) /\ Total = Out
        BY <1>0, <2>0 DEF Flow
      <3>2. Len(got) + 1 <= Total
        BY <2>0, <2>4 DEF Total
      <3>3. \A i \in 1..Len(got') : i \in 1..Len(got) \/ i = Len(got) + 1
        BY <2>1
      <3>4. \A i \in 1..Len(got') : got'[i] = Shown(i)
        BY <2>1, <3>1, <3>3 DEF Arrived
      <3> QED
        BY <1>0, <1>a, <2>1, <3>1, <3>2, <3>4 DEF Arrived
    <2>7. Order'
      BY <1>0, <1>1 DEF Order
    <2>8. Refused'
      <3> SUFFICES ASSUME reader.pc = "off" PROVE Refused'
        BY <1>0 DEF Refused
      <3>1. outer[1][1] = "error"
        BY <2>0 DEF Refused
      <3>2. \A i \in 1..Len(got') : got'[i][1] = "error"
        <4>1. \A i \in 1..Len(got') : i \in 1..Len(got) \/ i = Len(got) + 1
          BY <2>1
        <4> QED
          BY <2>1, <3>1, <4>1 DEF Refused
      <3>3. \A i \in 1..Len(outer') : outer'[i][1] = "error"
        <4>1. \A i \in 1..Len(outer') : i + 1 \in 1..Len(outer)
          BY <2>0
        <4> QED
          BY <2>0, <4>1 DEF Refused
      <3>4. forwarder.pc \notin {"off", "connecting"}
        BY <2>0 DEF Refused
      <3> QED
        BY <1>0, <1>1, <2>0, <2>1, <2>4, <3>2, <3>3, <3>4 DEF Refused
    <2>9. Capacity'
      BY <1>0, <2>0, ChannelAssumption DEF Capacity
    <2> QED
      BY <1>b, <2>2, <2>3, <2>5, <2>6, <2>7, <2>8, <2>9 DEF StreamInv
  <1>2. CASE outer = <<>> /\ forwarder.pc = "done" /\ app' = "ended" /\ UNCHANGED <<got, outer>>
    <2>1. StreamTypes'
      BY <1>0, <1>2 DEF StreamTypes
    <2>2. Stops'
      BY <1>0, <1>2, <1>a DEF Stops
    <2>3. Total' = Total /\ Held(forwarder)' = Held(forwarder)
      BY <1>0, <1>2 DEF Total, Held
    <2>4. Flow' /\ Arrived'
      BY <1>0, <1>2, <1>a, <2>3 DEF Flow, Arrived
    <2>5. Order' /\ Refused' /\ Capacity'
      BY <1>0, <1>2, <2>3 DEF Order, Refused, Capacity
    <2> QED
      BY <1>b, <2>1, <2>2, <2>4, <2>5 DEF StreamInv
  <1> QED
    BY <1>1, <1>2 DEF NextMessage

\* The application drops its stream.
LEMMA DropStreamInv == ASSUME StreamInv, DropStream PROVE StreamInv'
  <1>0. /\ UNCHANGED <<got, forwarder, reader, inner, response, body, read, taken, calls>>
        /\ app = "reading" /\ app' = "dropped" /\ outer' = <<>>
    BY DEF DropStream
  <1> USE Parts, Lengths
  <1>a. (\A i : Shown(i)' = Shown(i)) /\ Out' = Out /\ (Over' <=> Over) /\ (Ends' <=> Ends)
    BY <1>0 DEF Shown, Out, Failed, Over, Ends
  <1>1. StreamTypes'
    BY <1>0 DEF StreamTypes
  <1>2. Position' /\ Stops' /\ Flow' /\ Arrived'
    BY <1>0, <1>a DEF Position, Cells, Stops, Flow, Arrived
  <1>3. Order'
    BY <1>0 DEF Order
  <1>4. Refused'
    BY <1>0 DEF Refused, Total, Held
  <1>5. Capacity'
    BY <1>0, ChannelAssumption DEF Capacity
  <1> QED
    BY <1>1, <1>2, <1>3, <1>4, <1>5 DEF StreamInv

\* Nothing of the stream changes.
LEMMA StreamStutterInv ==
  ASSUME StreamInv, UNCHANGED <<app, got, forwarder, reader, inner, outer, response, body, read, taken>>
  PROVE  StreamInv'
  <1>1. (\A i : Shown(i)' = Shown(i)) /\ Out' = Out /\ Total' = Total /\ Held(forwarder)' = Held(forwarder)
    BY DEF Shown, Out, Failed, Over, Ends, Total, Held
  <1>2. StreamTypes' /\ Position' /\ Stops'
    BY Parts DEF StreamTypes, Position, Cells, Stops, Ends, Over
  <1>3. Flow' /\ Arrived'
    BY <1>1, Parts DEF Flow, Arrived
  <1>4. Order' /\ Refused' /\ Capacity'
    BY <1>1, Parts DEF Order, Refused, Capacity
  <1> QED
    BY <1>2, <1>3, <1>4 DEF StreamInv

\* A prefix, element by element.
LEMMA PrefixByElements ==
  ASSUME NEW S, NEW s \in Seq(S), NEW t \in Seq(S), Len(s) <= Len(t),
         \A i \in 1..Len(s) : s[i] = t[i]
  PROVE  IsPrefix(s, t) /\ (Len(s) = Len(t) => s = t)
  <1>1. Len(s) \in Nat /\ Len(t) \in Nat
    OBVIOUS
  <1>2. SubSeq(s, 1, Len(s)) = s
    BY SubSeqFull
  <1>3. \A i \in 1..Len(s) : t[i] \in S
    BY <1>1
  <1>4. /\ SubSeq(t, 1, Len(s)) \in Seq(S)
        /\ Len(SubSeq(t, 1, Len(s))) = Len(s)
        /\ \A i \in 1..Len(s) : SubSeq(t, 1, Len(s))[i] = t[i]
    BY <1>1, <1>3, SubSeqProperties
  <1>5. SubSeq(t, 1, Len(s)) = s
    BY ONLY <1>4, SeqEqual, s \in Seq(S), \A i \in 1..Len(s) : s[i] = t[i]
  <1>6. Len(s) = Len(t) => s = t
    BY SeqEqual
  <1> QED
    BY <1>2, <1>5, <1>6 DEF IsPrefix

\* What the frames amount to, element by element.
Items == AppItems \cup {Broken} \cup {Item(f) : f \in Frames}
\* What the body promises is the meaning of its whole frames, without the
\* clean end.
LEMMA PromisedIs ==
  ASSUME StreamInv
  PROVE  /\ Promised \in Seq(Items) /\ Len(Promised) \in Nat
         /\ \A i \in 1..Len(Promised) : Promised[i] = Item(response[i])
         /\ body = "cut" => Len(Promised) = Len(response) - 1 /\ Len(response) > 0
         /\ body # "cut" => Len(Promised) = IF Len(response) > 0 /\ response[Len(response)] = <<"end">>
                                            THEN Len(response) - 1 ELSE Len(response)
         /\ \A i \in DOMAIN Whole : body = "cut" => ~Final(Whole[i])
  <1> USE Parts, Lengths
  <1>1. /\ Whole \in Seq(Frames) /\ Len(Whole) = Len(response) - (IF body = "cut" THEN 1 ELSE 0)
        /\ Len(Whole) \in Nat
        /\ \A i \in 1..Len(Whole) : Whole[i] = response[i]
    <2>1. CASE body = "cut"
      <3>1. Len(response) > 0
        BY <2>1 DEF Position, StreamTypes
      <3>2. \A i \in 1..(Len(response) - 1) : response[i] \in Frames
        OBVIOUS
      <3>3. /\ SubSeq(response, 1, Len(response) - 1) \in Seq(Frames)
            /\ Len(SubSeq(response, 1, Len(response) - 1)) = Len(response) - 1
            /\ \A i \in 1..(Len(response) - 1) : SubSeq(response, 1, Len(response) - 1)[i] = response[i]
        <4>1. PICK m \in Nat : m = Len(response) - 1
          BY <3>1
        <4>2. PICK w : w = response
          OBVIOUS
        <4>3. 1 \in Int /\ m \in Int /\ \A i \in 1..m : w[i] \in Frames
          BY <3>2, <4>1, <4>2
        <4>4. /\ SubSeq(w, 1, m) \in Seq(Frames)
              /\ Len(SubSeq(w, 1, m)) = IF 1 <= m THEN m - 1 + 1 ELSE 0
              /\ \A i \in 1..(m - 1 + 1) : SubSeq(w, 1, m)[i] = w[1 + i - 1]
          BY ONLY <4>3, SubSeqProperties
        <4>5. /\ Len(SubSeq(w, 1, m)) = m
              /\ \A i \in 1..m : SubSeq(w, 1, m)[i] = w[i]
          BY <4>1, <4>4
        <4> QED
          BY <4>1, <4>2, <4>4, <4>5
      <3> QED
        BY <2>1, <3>1, <3>3 DEF Whole
    <2>2. CASE body # "cut"
      BY <2>2 DEF Whole, StreamTypes
    <2> QED
      BY <2>1, <2>2
  <1>2. Whole # <<>> <=> Len(Whole) > 0
    BY <1>1
  <1>3. \A i \in DOMAIN Whole : i \in 1..Len(Whole)
    BY <1>1
  <1>4. \A i \in DOMAIN Whole : body = "cut" => ~Final(Whole[i])
    BY <1>1, <1>3 DEF Position
  <1>5. body = "cut" => ~CleanEnd
    BY <1>1, <1>2, <1>4 DEF CleanEnd, Final
  <1>6. body # "cut" => (CleanEnd <=> (Len(response) > 0 /\ response[Len(response)] = <<"end">>))
    BY <1>1, <1>2 DEF CleanEnd
  <1>7. PICK n : n = Len(Whole) - (IF CleanEnd THEN 1 ELSE 0)
    OBVIOUS
  <1>8. n \in Nat /\ n <= Len(Whole)
    BY <1>1, <1>2, <1>7 DEF CleanEnd
  <1>9. Promised = [i \in 1..n |-> Item(Whole[i])]
    BY <1>7 DEF Promised
  <1>10. \A i \in 1..n : Item(Whole[i]) \in Items
    BY <1>1, <1>8 DEF Items
  <1>11. Promised \in Seq(Items) /\ Len(Promised) = n
    BY <1>8, <1>9, <1>10
  <1>12. \A i \in 1..n : Promised[i] = Item(response[i])
    BY <1>1, <1>8, <1>9
  <1>13. body = "cut" => Len(response) > 0
    BY DEF Position, StreamTypes
  <1>14. body = "cut" => n = Len(response) - 1
    BY <1>1, <1>5, <1>7
  <1>15. body # "cut" => n = IF Len(response) > 0 /\ response[Len(response)] = <<"end">>
                             THEN Len(response) - 1 ELSE Len(response)
    <2> SUFFICES ASSUME body # "cut"
                 PROVE  n = IF Len(response) > 0 /\ response[Len(response)] = <<"end">>
                            THEN Len(response) - 1 ELSE Len(response)
      OBVIOUS
    <2>1. Len(Whole) = Len(response)
      BY <1>1
    <2>2. CASE CleanEnd
      BY <1>6, <1>7, <2>1, <2>2
    <2>3. CASE ~CleanEnd
      BY <1>6, <1>7, <2>1, <2>3
    <2> QED
      BY <2>2, <2>3
  <1> QED
    BY <1>4, <1>8, <1>11, <1>12, <1>13, <1>14, <1>15

\* What a stream that ended has to show.
LEMMA EndedHasAll ==
  ASSUME StreamInv, app = "ended", reader.pc # "off"
  PROVE  /\ Len(got) = Out /\ Ends
         /\ Over => taken = Len(response) /\ Finished
         /\ ~Over => \/ body = "closed" /\ taken = Len(response)
                     \/ body = "cut" /\ taken = Len(response) - 1
                     \/ body = "reset"
  <1> USE Parts, Lengths
  <1>1. outer = <<>> /\ inner = <<>> /\ forwarder.pc = "done" /\ reader.pc = "done"
    BY DEF Order
  <1>2. Len(got) = Out
    BY <1>1 DEF Flow, Total, Held
  <1>3. Ends
    BY <1>1 DEF Ends
  <1>4. Over => taken = Len(response) /\ Finished
    BY DEF Over, Position, StreamTypes, Finished
  <1> QED
    BY <1>2, <1>3, <1>4 DEF Stops

\* The invariant gives the property.
LEMMA FaithfulFromInv == StreamInv => StreamFaithful
  <1> SUFFICES ASSUME StreamInv PROVE StreamFaithful
    OBVIOUS
  <1> USE Parts, Lengths
  <1>g. got \in Seq(Items) /\ Broken \in Items
    BY SeqMonotonic DEF Items, StreamTypes
  <1>d. \A i \in DOMAIN got : i \in 1..Len(got)
    BY DEF StreamTypes
  <1>t. taken \in Nat /\ taken <= Len(response) /\ Out \in Int
    BY DEF StreamTypes, Position, Out
  <1>1. CASE reader.pc = "off"
    <2>1. Len(got) <= 1
      BY <1>1 DEF Refused, Total, Held
    <2>2. \A i \in DOMAIN got : got[i][1] = "error"
      BY <1>1, <1>d DEF Refused
    <2>3. app = "ended" => got # <<>>
      BY <1>1 DEF Refused, Order
    <2> QED
      BY <1>1, <2>1, <2>2, <2>3 DEF StreamFaithful
  <1>2. CASE reader.pc # "off" /\ body = "cut"
    <2>0. ~Over
      BY <1>2, <1>t DEF Over, Position
    <2>1. Out <= Len(response) /\ (\A i \in 1..Out : i <= taken \/ (i = taken + 1 /\ i = Len(response)))
      BY <1>2, <1>t, <2>0 DEF Out, Failed, Position
    <2> DEFINE all == Append(Promised, Broken)
    <2>2. /\ all \in Seq(Items) /\ Len(all) = Len(response)
          /\ \A i \in 1..(Len(response) - 1) : all[i] = Item(response[i])
          /\ all[Len(response)] = Broken
      BY <1>2, <1>g, PromisedIs, AppendIs
    <2>3. \A i \in 1..Len(got) : got[i] = all[i]
      <3> SUFFICES ASSUME NEW i \in 1..Len(got) PROVE got[i] = all[i]
        OBVIOUS
      <3>1. got[i] = Shown(i) /\ i \in 1..Out
        BY <1>2, <1>t DEF Arrived
      <3>2. CASE i <= taken
        BY <1>2, <1>t, <2>2, <3>1, <3>2 DEF Shown, Position
      <3>3. CASE i = taken + 1 /\ i = Len(response)
        BY <1>t, <2>2, <3>1, <3>3 DEF Shown
      <3> QED
        BY <2>1, <3>1, <3>2, <3>3
    <2>4. Len(got) <= Len(all)
      BY <1>2, <1>t, <2>1, <2>2 DEF Arrived
    <2>5. IsPrefix(got, all) /\ (Len(got) = Len(all) => got = all)
      BY <1>g, <2>2, <2>3, <2>4, PrefixByElements
    <2>6. app = "ended" => Len(got) = Len(all)
      BY <1>2, <1>t, <2>0, <2>2, EndedHasAll DEF Out, Failed, Over, Final
    <2>7. body = "cut" /\ \A i \in DOMAIN Whole : ~Final(Whole[i])
      BY <1>2, PromisedIs
    <2> QED
      BY <1>2, <2>5, <2>6, <2>7 DEF StreamFaithful
  <1>3. CASE reader.pc # "off" /\ body # "cut"
    <2>0. /\ Promised \in Seq(Items) /\ Len(Promised) \in Nat
          /\ \A i \in 1..Len(Promised) : Promised[i] = Item(response[i])
          /\ Len(Promised) = IF Len(response) > 0 /\ response[Len(response)] = <<"end">>
                             THEN Len(response) - 1 ELSE Len(response)
      BY <1>3, PromisedIs
    <2>1. taken > 0 /\ response[taken] = <<"end">> => Over
      BY DEF Over, Final
    <2>2. Over => taken = Len(response)
      BY <1>t DEF Over, Position
    <2>3. Out <= taken => Out <= Len(Promised)
      BY <1>t, <2>0 DEF Out
    <2>4. CASE Len(got) <= taken
      <3>1. Len(got) <= Len(Promised)
        BY <1>3, <1>t, <2>0, <2>3, <2>4 DEF Arrived, Out
      <3>2. \A i \in 1..Len(got) : got[i] = Promised[i]
        BY <1>3, <1>t, <2>0, <2>4, <3>1 DEF Arrived, Shown
      <3>3. IsPrefix(got, Promised) /\ (Len(got) = Len(Promised) => got = Promised)
        BY <1>g, <2>0, <3>1, <3>2, PrefixByElements
      <3>4. app = "ended" => Len(got) = Len(Promised) /\ (body = "reset" => Finished)
        <4> SUFFICES ASSUME app = "ended" PROVE Len(got) = Len(Promised) /\ (body = "reset" => Finished)
          OBVIOUS
        <4>1. Len(got) = Out /\ Ends
          BY <1>3, EndedHasAll
        <4>2. CASE Over
          BY <1>3, <1>t, <2>0, <2>2, <4>1, <4>2, EndedHasAll DEF Out, Failed, Over
        <4>3. CASE ~Over
          <5>1. body # "reset" /\ taken = Len(response)
            BY <1>3, <1>t, <2>1, <2>4, <4>1, <4>3, EndedHasAll DEF Out, Failed
          <5> QED
            BY <1>3, <1>t, <2>0, <2>1, <4>1, <4>3, <5>1 DEF Out, Failed
        <4> QED
          BY <4>2, <4>3
      <3> QED
        BY <1>3, <3>3, <3>4 DEF StreamFaithful
    <2>5. CASE Len(got) > taken
      <3>1. Len(got) = taken + 1 /\ Failed /\ body = "reset" /\ ~Over
        BY <1>3, <1>t, <2>5 DEF Arrived, Out, Failed
      <3>2. taken <= Len(Promised)
        BY <1>t, <2>0, <2>1, <3>1
      <3>3. /\ SubSeq(Promised, 1, taken) \in Seq(Items) /\ Len(SubSeq(Promised, 1, taken)) = taken
            /\ \A i \in 1..taken : SubSeq(Promised, 1, taken)[i] = Promised[i]
        <4>1. \A i \in 1..taken : Promised[i] \in Items
          BY <1>t, <2>0, <3>2
        <4> QED
          BY <1>t, <4>1, SubSeqProperties
      <3>4. /\ Append(SubSeq(Promised, 1, taken), Broken) \in Seq(Items)
            /\ Len(Append(SubSeq(Promised, 1, taken), Broken)) = taken + 1
            /\ \A i \in 1..taken : Append(SubSeq(Promised, 1, taken), Broken)[i] = Promised[i]
            /\ Append(SubSeq(Promised, 1, taken), Broken)[taken + 1] = Broken
        BY <1>g, <1>t, <3>3, AppendIs
      <3>5. \A i \in 1..(taken + 1) : got[i] = Append(SubSeq(Promised, 1, taken), Broken)[i]
        <4>1. \A i \in 1..taken : got[i] = Item(response[i]) /\ Promised[i] = Item(response[i])
          BY <1>3, <1>t, <2>0, <3>1, <3>2 DEF Arrived, Shown
        <4>2. got[taken + 1] = Broken
          BY <1>3, <1>t, <3>1 DEF Arrived, Shown
        <4> QED
          BY <1>t, <3>4, <4>1, <4>2
      <3>6. got = Append(SubSeq(Promised, 1, taken), Broken)
        BY <1>g, <3>1, <3>4, <3>5, SeqEqual
      <3>7. \E n \in 0..Len(Promised) : got = Append(SubSeq(Promised, 1, n), Broken)
        BY <1>t, <2>0, <3>2, <3>6
      <3> QED
        BY <1>3, <3>1, <3>7 DEF StreamFaithful
    <2> QED
      BY <1>t, <2>4, <2>5
  <1> QED
    BY <1>1, <1>2, <1>3

\* The invariant holds in every state of a stream.
LEMMA StreamInvHolds == StreamSpec => []StreamInv
  <1>1. StreamInit => StreamInv
    BY InitInv
  <1>2. StreamInv /\ [StreamNext \/ \E outcome \in Outcomes : Call(outcome)]_streamVars => StreamInv'
    <2> SUFFICES ASSUME StreamInv, [StreamNext \/ \E outcome \in Outcomes : Call(outcome)]_streamVars
                 PROVE  StreamInv'
      OBVIOUS
    <2>1. CASE Subscribe
      BY <2>1, SubscribeInv
    <2>2. CASE Tasks
      BY <2>2, ConnectInv, ReadChunkInv, ReadEndInv, ReadErrorInv, DecodeInv, ReaderSendsInv,
         ForwarderReceivesInv, ForwarderSendsInv DEF Tasks
    <2>3. CASE NextMessage \/ DropStream \/ BodyEnds
      BY <2>3, NextMessageInv, DropStreamInv, BodyEndsInv
    <2>4. CASE \E frame \in Frames : GatewaySends(frame)
      BY <2>4, GatewaySendsInv
    <2>5. CASE (\E outcome \in Outcomes : Call(outcome)) \/ UNCHANGED streamVars
      BY <2>5, StreamStutterInv DEF Call, streamVars
    <2> QED
      BY <2>1, <2>2, <2>3, <2>4, <2>5 DEF StreamNext
  <1> QED
    BY <1>1, <1>2, PTL DEF StreamSpec

\* What a stream gives the application is what the gateway sent, in order,
\* without loss, duplicates or invention, and it does not simply end when it
\* was cut, reset or refused (rpc.rs, messaging.rs): for any frames, channel
\* capacity and number of frames.
THEOREM StreamsAreFaithful == StreamSpec => []StreamFaithful
  BY StreamInvHolds, FaithfulFromInv, PTL

\* No channel holds more than its capacity, and the reader never takes a frame
\* that was not sent.
THEOREM StreamsAreTyped == StreamSpec => []StreamTypeOK
  <1>1. StreamInv => StreamTypeOK
    BY Lengths, Parts DEF StreamTypes, Position, Cells, CellsPerFrame, Capacity, StreamTypeOK
  <1> QED
    BY <1>1, StreamInvHolds, PTL

\* Every answer on record is the one the code gives for an outcome.
CallsInv == \A c \in calls : c.outcome \in Outcomes /\ c.kind = Kind(c.outcome.op, c.outcome.cause)

\* Of a record the SDK reads the code alone, and the gateway gives code 14 to the
\* retriable ones only.
LEMMA KindOfRecord ==
  ASSUME NEW e
  PROVE  record_result_from_pb(error_result(e)) = "transport" <=> error_result(e).retriable
  <1>1. CASE e \in {"Unavailable", "Registry"}
    <2>1. error_result(e).code = 14 /\ error_result(e).retriable
      BY <1>1 DEF error_result
    <2> QED
      BY <2>1 DEF record_result_from_pb, from_connect_code
  <1>2. CASE e \notin {"Unavailable", "Registry"}
    <2>1. error_result(e).code \in {1, 3, 7} /\ ~error_result(e).retriable
      BY <1>2 DEF error_result
    <2> QED
      BY <2>1 DEF record_result_from_pb, from_connect_code
  <1> QED
    BY <1>1, <1>2

\* Of an entry it reads the flag first, and the broker's codes that it would take
\* for gRPC codes after it are all retriable.
LEMMA KindOfEntry ==
  ASSUME NEW e
  PROVE  /\ error_info_to_krabka(ack_error(e)) = "transport" <=> ack_error(e).retriable
         /\ e[1] = "server" => error_info_to_krabka(ack_error(e)) \in {"transport", "server_error"}
  <1>1. error_info_to_krabka(ack_error(e)) = "transport" <=> ack_error(e).retriable
    BY DEF error_info_to_krabka
  <1>2. ASSUME e[1] = "server", ~ack_error(e).retriable
        PROVE  error_info_to_krabka(ack_error(e)) = "server_error"
    <2>1. ack_error(e).code \notin {3, 5, 9, 16}
      BY <1>2 DEF ack_error
    <2> QED
      BY <1>2, <2>1 DEF error_info_to_krabka
  <1> QED
    BY <1>1, <1>2

\* The kind of every failure that the gateway judged.
LEMMA KindIsVerdict ==
  ASSUME NEW o \in Outcomes
  PROVE  /\ o.cause[1] \in {"record", "entry"} => (Kind(o.op, o.cause) = "transport" <=> Judged(o.cause).retriable)
         /\ o.cause[1] = "entry" /\ o.cause[2][1] = "server" => Kind(o.op, o.cause) \in {"transport", "server_error"}
  <1>1. CASE o.cause[1] = "record"
    <2>1. o.op = "publish"
      BY <1>1, OutcomesAssumption DEF LocalErrors
    <2> QED
      BY <1>1, <2>1, KindOfRecord DEF Kind, Judged
  <1>2. CASE o.cause[1] = "entry"
    <2>1. o.op = "acknowledge"
      BY <1>2, OutcomesAssumption DEF LocalErrors
    <2> QED
      BY <1>2, <2>1, KindOfEntry DEF Kind, Judged
  <1> QED
    BY <1>1, <1>2

\* The gateway's verdict on a record or an entry is the one its caller is told, for
\* every error of the gateway and every code of a broker: the two encodings
\* (error_result, ack_error) and the two decodings (record_result_from_pb,
\* error_info_to_krabka) fit together, and no broker code passes for a gRPC code.
THEOREM VerdictsReachCallers == StreamSpec => []VerdictSurvives
  <1>1. StreamInit => CallsInv
    BY DEF StreamInit, CallsInv
  <1>2. CallsInv /\ [StreamNext \/ \E outcome \in Outcomes : Call(outcome)]_streamVars => CallsInv'
    <2> SUFFICES ASSUME CallsInv, [StreamNext \/ \E outcome \in Outcomes : Call(outcome)]_streamVars
                 PROVE  CallsInv'
      OBVIOUS
    <2>1. CASE StreamNext \/ UNCHANGED streamVars
      <3>1. calls' = calls
        BY <2>1 DEF StreamNext, streamVars, Subscribe, Tasks, Connect, ReadChunk, ReadEnd, ReadError, Decode,
           ReaderSends, ForwarderReceives, ForwarderSends, NextMessage, DropStream, BodyEnds, GatewaySends
      <3> QED
        BY <3>1 DEF CallsInv
    <2>2. ASSUME NEW o \in Outcomes, Call(o) PROVE CallsInv'
      <3>1. calls' = calls \cup {[op |-> o.op, outcome |-> o, kind |-> Kind(o.op, o.cause)]}
        BY <2>2 DEF Call
      <3> QED
        BY <3>1 DEF CallsInv
    <2> QED
      BY <2>1, <2>2
  <1>3. CallsInv => VerdictSurvives
    BY KindIsVerdict DEF CallsInv, VerdictSurvives
  <1> QED
    BY <1>1, <1>2, <1>3, PTL DEF StreamSpec
=============================================================================
