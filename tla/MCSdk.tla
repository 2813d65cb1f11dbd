------------------------------- MODULE MCSdk -------------------------------
(* The app SDK and its conformance harness. The parts share no state: a      *)
(* behaviour is a run of the harness, a subscription, or unary calls.        *)
EXTENDS SdkStream, Conformance

VARIABLE part
vars == <<streamVars, harnessVars, part>>

\* Vocabulary of the vectors.
Doc(k, v) == {<< <<k>>, v>>}
Eq(keys, dotted, v) == {[segments |-> keys, dotted |-> dotted, value |-> v, rooted |-> TRUE, identifiers |-> TRUE, scalar |-> TRUE]}
Refusable(field) == {[f EXCEPT ![field] = FALSE] : f \in Eq(<<"kind">>, "kind", "keep")}
Publish(t, v, hs) == [cmd |-> "publish", topic |-> t, value |-> v, headers |-> hs]
Event(id, ct) == [cmd |-> "publish_event", topic |-> "t",
                  event |-> [id |-> id, datacontenttype |-> ct, data |-> Doc("kind", "keep")]]
Subscription(f) == [cmd |-> "subscribe", topics |-> {"t"}, filter |-> f]
Configure(e, b) == [cmd |-> "configure", endpoint |-> e, bearer |-> b]
Acquire(t, g, m, lock, s) == [cmd |-> "queue_acquire", topic |-> t, group |-> g, max |-> m, lock_duration_ms |-> lock, session_id |-> s]
Named1(n) == <<"queue-session", n>>
Entry(id, how) == [message_id |-> id, ack_type |-> how]
Settle(s, es) == [cmd |-> "queue_acknowledge", session_id |-> s, entries |-> es]
Renew(s, es) == [cmd |-> "queue_renew", session_id |-> s, entries |-> es]
Just(c) == [cmd |-> c]
Blob == [cmd |-> "blob_put", value |-> NotJson]

Messaging ==
  { Publish("t", Doc("kind", "keep"), <<"h">>), Publish("u", NotJson, <<>>), Publish("t", {<< <<"a", "b">>, "keep">>}, <<>>),
    Publish("", NotJson, <<>>), Publish("__missing_topic", NotJson, <<>>), Publish("t", NotBase64, <<>>),
    Event("", FALSE), Event("1", TRUE), Event("2", FALSE),
    Subscription({}), Subscription(Eq(<<"kind">>, "kind", "keep")), Subscription(Eq(<<"a", "b">>, "a.b", "keep")),
    Subscription(Refusable("rooted")), Subscription(Refusable("identifiers")), Subscription(Refusable("scalar")),
    Just("next_message"), Just("db_connect"), Just("auth_sign_in"), Blob, Just("blob_get"),
    Configure("mock", TRUE), Configure("unreachable", FALSE) }

m0 == <<"t", 0>>
m1 == <<"t", 1>>
Queueing ==
  { Publish("t", NotJson, <<>>), Just("queue_ack") }
  \cup { Acquire("t", "g", m, 30000, s) : m \in 0..2, s \in {NoSession, Named1(1)} }
  \cup { Acquire("t", "h", 1, 30000, s) : s \in {NoSession, Named1(1), Named1(2)} }
  \cup { Acquire("u", "g", 1, 30000, Named1(1)), Acquire("t", "", 1, 30000, NoSession), Acquire("", "g", 1, 30000, NoSession),
         Acquire("t", "g", 1, 1, NoSession) }
  \cup { Settle(s, es) : s \in {Named1(1), Named1(2)},
                         es \in { << Entry(m0, how) >> : how \in {"accept", "release", "reject"} }
                                \cup {<< Entry(m0, "release"), Entry(m0, "accept"), Entry(m1, "accept") >>} }
  \cup { Settle(NoSession, <<>>), Settle(Named1(1), << Entry(<<"", 0>>, "accept"), Entry(m0, "accept") >>) }
  \cup { Renew(s, << Entry(m0, "renew"), Entry(m1, "renew") >>) : s \in {Named1(1), Named1(2)} }

v(major, minor) == [major |-> major, minor |-> minor]
Vec(id, since, until, live_only, live, commands, n) ==
  [id |-> id, since |-> since, until |-> until, live_only |-> live_only, live |-> live, commands |-> commands, steps |-> n]
MCVectors ==
  << Vec("error_mapping", v(1, 0), {}, FALSE, FALSE, Messaging, 4),
     Vec("live_error_mapping", v(1, 1), {}, TRUE, TRUE, {Just("queue_ack")}, 1),
     Vec("queue_ownership", v(1, 1), {}, FALSE, TRUE, Queueing, 5),
     Vec("stub_queues", v(1, 0), {v(1, 0)}, FALSE, FALSE, {Just("queue_ack"), Acquire("t", "g", 1, 30000, NoSession)}, 1) >>

Setup(adapter, minor, fault, filter, substrate, compatible) ==
  [adapter |-> adapter, minor |-> minor, fault |-> fault, filter |-> filter, substrate |-> substrate, compatible |-> compatible]
MCSetups ==
  { Setup("sdk", 1, "none", {}, "external", FALSE), Setup("mock", 0, "wrong-configure", {}, "external", FALSE),
    Setup("mock", 0, "none", {"stub_queues"}, "external", FALSE), Setup("mock", 0, "none", {"live_error_mapping"}, "external", FALSE),
    Setup("mock", 1, "wrong-publish", {"error_mapping"}, "external", FALSE), Setup("mock", 1, "wrong-configure", {}, "external", FALSE),
    Setup("sdk", 1, "none", {"stub_queues"}, "live", FALSE), Setup("sdk", 1, "none", {"live_error_mapping"}, "live", TRUE),
    Setup("mock", 0, "wrong-configure", {}, "live", TRUE) }

\* What can go wrong with a unary call.
Outcome(op, cause) == [op |-> op, cause |-> cause]
MCOutcomes ==
  { Outcome("publish", <<"record", e>>) : e \in {"Unavailable", "Registry", "Unauthorized", "Codec", "Producer", "Consumer",
                                                      "Forward", "Claim", "Other"} }
  \cup { Outcome("acknowledge", <<"entry", <<"server", code>> >>) : code \in 1..125 }
  \cup { Outcome("acknowledge", <<"entry", <<e>> >>) : e \in {"client", "coordinator unavailable", "commit invalid", "rebalance failed", "not acquired", "other"} }
  \cup { Outcome("publish", <<"connect", c>>) :
           c \in {"unavailable", "deadline_exceeded", "not_found", "invalid_argument", "failed_precondition", "out_of_range",
                  "unauthenticated", "permission_denied", "internal"} }
  \cup { Outcome("publish", <<"status", s>>) : s \in {400, 401, 403, 404, 408, 413, 429, 500, 501, 502, 503, 504, 505} }
  \cup { Outcome("publish", <<e>>) : e \in {"no result"} \cup LocalErrors }

MCFrames == { <<"message", 1>>, <<"message", 2>>, <<"undecodable">>, <<"end">>, <<"end", "not_found">>, <<"compressed">>, <<"bad trailer">> }
MCConnectFailures == { <<"io">>, <<"connect", "unauthenticated">> }

Init == StreamInit /\ HarnessInit /\ part \in {"harness", "stream", "calls"}
        /\ (part # "harness" => setup = Setup("sdk", 1, "none", {}, "external", FALSE))

HarnessPart == part = "harness" /\ HarnessNext /\ UNCHANGED <<streamVars, part>>
StreamPart == part = "stream" /\ StreamNext /\ UNCHANGED <<harnessVars, part>>
CallsPart == part = "calls" /\ (\E o \in Outcomes : Call(o)) /\ UNCHANGED <<harnessVars, part>>
Next == HarnessPart \/ StreamPart \/ CallsPart

Spec == /\ Init /\ [][Next]_vars
        /\ StreamFairness
        /\ []<>(part # "harness" \/ NoCall)
        /\ WF_harnessVars(part = "harness" /\ CallFails)
        /\ WF_harnessVars(part = "harness" /\ HarnessGoesOn)

\* Types of both parts; between two vectors, and after a run, no adapter is
\* left running.
TypeOK == StreamTypeOK /\ HarnessTypeOK

\* Harness::run comes to an end whatever its adapters do, with a summary or an
\* error.
HarnessRunsEnd == part = "harness" => RunsEnd

\* A verdict of the harness means what it says: every vector has one, it is the
\* adapter's doing, and an adapter that conforms passes.
HarnessJudges == TypeOK /\ EveryVectorAccounted /\ VerdictsAreDeserved /\ ConformingAdapterPasses

\* Streams that end are read to the end, dropped ones are freed, and the harness
\* comes to its end.
SdkProgress == StreamsDrain /\ DroppedStreamsFreed /\ HarnessRunsEnd

=============================================================================
