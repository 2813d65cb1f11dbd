-------------------------------- MODULE AppSdk --------------------------------
(***************************************************************************)
(* The Rust application SDK as its conformance adapter drives it, on a     *)
(* mock:// or an unreachable:// endpoint (SdkStream models the calls that  *)
(* reach a gateway), and the adapter itself, which holds one client, one   *)
(* stream and its own names for queue sessions.                            *)
(***************************************************************************)
EXTENDS Contract, FiniteSetsExt, SequencesExt

\* KrabkaClientBuilder::build: a client with an empty mock backend.
build(endpoint, bearer) ==
  [endpoint |-> endpoint, bearer |-> bearer, messages |-> <<>>, queue_sessions |-> <<>>, queue_states |-> <<>>]

\* Adapter::default: no client, no stream.
new == [client |-> <<>>, stream |-> <<>>, subscribed |-> FALSE, aliases |-> <<>>]

Client(a) == Head(a.client)
SetClient(a, client) == [a EXCEPT !.client = <<client>>]

\* A call to a client that is reachable only in the process.
unreachable(client) == <<client.endpoint = "unreachable", Error("transport", "endpoint unreachable")>>

\* publish and publish_mock. An unreachable client fails before its arguments
\* are looked at, a mock one after.
publish(client, topic, value, headers) ==
  LET offset == Len(SelectSeq(client.messages, LAMBDA m : m.topic = topic)) IN
  Checked(client, << unreachable(client),
                     <<topic = "", InvalidArgument("topic is required")>>,
                     <<topic = "__missing_topic", Error("not_found", "topic not found")>> >>,
    Then([client EXCEPT !.messages = Append(@, [topic |-> topic, offset |-> offset, value |-> value, headers |-> headers])],
         Published(offset)))

\* CloudEvent::headers.
event_headers(event) == <<"ce_id", "ce_source", "ce_type", "ce_specversion">>
                  \o (IF event.datacontenttype THEN <<"content-type">> ELSE <<>>)

publish_event(client, topic, event) ==
  Checked(client, << <<event.id = "", InvalidArgument("CloudEvent id is required")>> >>,
          publish(client, topic, event.data, event_headers(event)))

\* Filter::to_gateway_filter, as checks.
to_gateway_filter(filter) ==
  << <<\E f \in filter : ~f.rooted, InvalidArgument("filter path must start with $.")>>,
     <<\E f \in filter : ~f.identifiers, InvalidArgument("filter path must contain identifier segments")>>,
     <<\E f \in filter : ~f.scalar, InvalidArgument("filter value must be a string, number, boolean, or null")>> >>

\* filter_matches: the path is walked one key at a time.
filter_matches(filter, value) == \A f \in filter : Holds(value, f.segments, f.value)

\* subscribe: on a mock client the stream is what has been published so far.
subscribe(client, topics, filter) ==
  Checked(client, to_gateway_filter(filter) \o <<unreachable(client)>>,
    Then(SelectSeq(client.messages, LAMBDA m : m.topic \in topics /\ filter_matches(filter, m.value)), Done))

clamp(max) == IF max < 1 THEN 1 ELSE IF max > 500 THEN 500 ELSE max

\* The sessions of the client with this id: one or none.
Sessions(client, id) == { s \in ToSet(client.queue_sessions) : s.id = id }

\* mock_message_is_available, mock_queue_state_mut: a message without a state
\* is available and was never delivered.
StateOf(client, group, id) ==
  IF <<group, id>> \in DOMAIN client.queue_states THEN client.queue_states[<<group, id>>]
  ELSE [disposition |-> "available", owner |-> NoSession, delivery_count |-> 0]

SetStates(client, group, states) ==
  [client EXCEPT !.queue_states = [k \in DOMAIN @ \cup {<<group, id>> : id \in DOMAIN states} |->
                                     IF k[1] = group /\ k[2] \in DOMAIN states THEN states[k[2]] ELSE @[k]]]

Id(m) == <<m.topic, m.offset>>

\* The early returns of acquire_with_session and mock_session_id.
acquire_checks(client, c, session) ==
  LET reused == session # NoSession IN
  << <<c.group = "", InvalidArgument("queue group is required")>>,
     <<c.topic = "", InvalidArgument("queue topic is required")>>,
     <<c.lock_duration_ms # 30000, InvalidArgument("queue lock_duration_ms must be 30000")>>,
     unreachable(client),
     <<reused /\ Sessions(client, session) = {}, InvalidArgument("queue session expired; re-acquire")>>,
     <<\E s \in Sessions(client, session) : s.topic # c.topic \/ s.group # c.group,
       InvalidArgument("group_id and topics are fixed when a queue session is created")>>,
     <<c.max # 0 /\ \E s \in Sessions(client, session) : clamp(c.max) # s.max_messages,
       InvalidArgument("max_messages is fixed when a queue session is created")>> >>

\* acquire_mock: a successful answer is the session with the deliveries.
acquire_mock(client, c, session) ==
  LET fresh == session = NoSession
      id == IF fresh THEN <<"mock-queue-session", Len(client.queue_sessions) + 1>> ELSE session
      available == SelectSeq(client.messages, LAMBDA m :
                     m.topic = c.topic /\ StateOf(client, c.group, Id(m)).disposition = "available")
      delivered == SubSeq(available, 1, Min({clamp(c.max), Len(available)}))
      count(mid) == StateOf(client, c.group, mid).delivery_count + 1
      opened == [client EXCEPT !.queue_sessions = IF ~fresh THEN @ ELSE
                   Append(@, [id |-> id, topic |-> c.topic, group |-> c.group, max_messages |-> clamp(c.max)])]
  IN Checked(client, acquire_checks(client, c, session),
       Then(SetStates(opened, c.group, [mid \in { Id(m) : m \in ToSet(delivered) } |->
                       [disposition |-> "acquired", owner |-> id, delivery_count |-> count(mid)]]),
            Acquired(id, [k \in 1..Len(delivered) |-> Delivery(delivered[k], count(Id(delivered[k])))])))

\* Fault injection: any session of the group may settle what one of them holds.
GroupOwns(client, session, mid) ==
  \E s \in Sessions(client, session) : StateOf(client, s.group, mid).disposition = "acquired"

\* The session holds the message in its group.
Owns(client, session, mid) ==
  \E s \in Sessions(client, session) : /\ StateOf(client, s.group, mid).disposition = "acquired"
                                       /\ StateOf(client, s.group, mid).owner = session

\* The early returns of acknowledge and renew.
session_checks(client, session) ==
  << unreachable(client),
     <<Sessions(client, session) = {}, InvalidArgument("queue session expired; re-acquire")>> >>

Disposition(ack_type) == CASE ack_type = "accept" -> "accepted"
                           [] ack_type = "release" -> "available"
                           [] ack_type = "reject" -> "rejected"

\* acknowledge_mock: entry by entry.
acknowledge_mock(client, session, entries) ==
  LET group == (CHOOSE s \in Sessions(client, session) : TRUE).group
      settle(acc, e) ==
        LET owned == Owns(acc.state, session, e.message_id) IN
        Then(SetStates(acc.state, group, [mid \in IF owned THEN {e.message_id} ELSE {} |->
                        [StateOf(acc.state, group, mid) EXCEPT !.disposition = Disposition(e.ack_type), !.owner = NoSession]]),
             Append(acc.answer, Result(e.message_id, owned)))
      settled == FoldLeft(settle, Then(client, <<>>), entries)
  IN Checked(client, session_checks(client, session), Then(settled.state, Results(settled.answer)))

\* renew_mock changes nothing: a mock lock does not run out.
renew_mock(client, session, entries) ==
  Checked(client, session_checks(client, session),
    Then(client, Results([k \in 1..Len(entries) |->
                            Result(entries[k].message_id, Owns(client, session, entries[k].message_id))])))
-----------------------------------------------------------------------------
(* bin/conformance_adapter.rs.                                             *)

\* The real session behind a name of the adapter; a name it does not know
\* reaches the client as it is.
Real(a, session) ==
  IF session[1] = "queue-session" /\ session[2] \in DOMAIN a.aliases THEN a.aliases[session[2]] ELSE session

\* alias_for_queue_session: the name a real session has, or the next one.
alias_for_queue_session(a, real) ==
  LET named == { n \in DOMAIN a.aliases : a.aliases[n] = real } IN
  IF named # {} THEN Then(a, <<"queue-session", Min(named)>>)
  ELSE Then([a EXCEPT !.aliases = Append(@, real)], <<"queue-session", Len(a.aliases) + 1>>)

\* parse_message_id: topic:partition:offset with a topic.
malformed(entries) == \E k \in 1..Len(entries) : entries[k].message_id[1] = ""

\* handle, QueueAcquire.
queue_acquire(a, c) ==
  LET r == acquire_mock(Client(a), c, Real(a, c.session_id))
      named == alias_for_queue_session(SetClient(a, r.state), r.answer[2][2])
  IN IF r.answer[1] = "error" THEN Then(SetClient(a, r.state), r.answer)
     ELSE Then(named.state, Acquired(named.answer, r.answer[2][3]))

\* What QueueAcknowledge and QueueRenew check before they call the client.
disposition_checks(a, c) ==
  << <<Real(a, c.session_id) = c.session_id, InvalidArgument("queue session expired; re-acquire")>>,
     <<malformed(c.entries), InvalidArgument("queue message_id must be topic:partition:offset")>> >>

\* The client's answer, in the adapter's state.
ByClient(a, r) == Then(SetClient(a, r.state), r.answer)

\* handle, NextMessage: the next message of the stream, or none for the time
\* the command allows.
next_message(a) ==
  Checked(a, << <<~a.subscribed, InvalidArgument("subscribe before next_message")>>,
                <<a.stream = <<>>, Error("not_found", "no message available")>> >>,
    Then([a EXCEPT !.stream = Tail(@)], Message(Head(a.stream))))

\* handle, Subscribe: a refused one keeps the stream there was.
subscribe_command(a, c) ==
  LET r == subscribe(Client(a), c.topics, c.filter) IN
  IF r.answer # Done THEN Then(a, r.answer)
  ELSE Then([a EXCEPT !.stream = r.state, !.subscribed = TRUE], Done)

undecodable(value) == <<value = NotBase64, InvalidArgument("not base64")>>

\* handle: one command of the protocol.
handle(a, c) ==
  LET configured == <<c.cmd \notin {"hello", "configure", "next_message", "queue_ack"} /\ a.client = <<>>,
                      InvalidArgument("configure first")>> IN
  CASE c.cmd = "hello" -> Then(a, Hello(CONTRACT_MAJOR, CONTRACT_MINOR_QUEUE_RPC))
    [] c.cmd = "configure" -> Then(SetClient(a, build(c.endpoint, c.bearer)), Configured(c.bearer))
    [] c.cmd = "publish" -> Checked(a, <<configured, undecodable(c.value)>>,
                                    ByClient(a, publish(Client(a), c.topic, c.value, c.headers)))
    [] c.cmd = "publish_event" -> Checked(a, <<configured, undecodable(c.event.data)>>,
                                          ByClient(a, publish_event(Client(a), c.topic, c.event)))
    [] c.cmd = "subscribe" -> Checked(a, <<configured>>, subscribe_command(a, c))
    [] c.cmd = "next_message" -> next_message(a)
    [] c.cmd = "queue_acquire" -> Checked(a, <<configured>>, queue_acquire(a, c))
    [] c.cmd = "queue_ack" -> Then(a, Unimplemented("queues", "gateway-sharegroup-rpc"))
    [] c.cmd = "queue_acknowledge" ->
         Checked(a, <<configured>> \o disposition_checks(a, c),
                 ByClient(a, acknowledge_mock(Client(a), Real(a, c.session_id), c.entries)))
    [] c.cmd = "queue_renew" ->
         Checked(a, <<configured>> \o disposition_checks(a, c),
                 ByClient(a, renew_mock(Client(a), Real(a, c.session_id), c.entries)))
    [] c.cmd = "db_connect" -> Checked(a, <<configured>>, Then(a, Unimplemented("database", "chapter-f-control-plane")))
    [] c.cmd = "auth_sign_in" ->
         Checked(a, <<configured>>, Then(a, Error("unauthenticated", "identity APIs are not part of contract v1")))
    [] c.cmd = "blob_put" -> Checked(a, <<configured, undecodable(c.value)>>, Then(a, Unimplemented("blob", "chapter-b-blob-api")))
    [] c.cmd = "blob_get" -> Checked(a, <<configured>>, Then(a, Unimplemented("blob", "chapter-b-blob-api")))
=============================================================================
