----------------------------- MODULE MockAdapter -----------------------------
(***************************************************************************)
(* The harness's own adapter: a deterministic in-memory gateway that the   *)
(* contract vectors are validated against. handle takes the adapter from   *)
(* one command to the next.                                                *)
(***************************************************************************)
EXTENDS Contract, FiniteSets, FiniteSetsExt, SequencesExt

\* MockAdapter::with_contract_minor.
new(minor, fault) ==
  [endpoint |-> "mock", bearer |-> FALSE, minor |-> minor, fault |-> fault, messages |-> <<>>,
   subscription |-> [topics |-> {}, filter |-> {}, next |-> 0], sessions |-> <<>>]

unimplemented_queues == Unimplemented("queues", "gateway-sharegroup-rpc")

\* A message nobody of the group has acquired yet.
Untouched == [state |-> "available", session |-> NoSession, delivery_count |-> 0]
StateOf(message, group) == IF group \in DOMAIN message.queue THEN message.queue[group] ELSE Untouched
SetState(message, group, s) ==
  [message EXCEPT !.queue = [g \in DOMAIN @ \cup {group} |-> IF g = group THEN s ELSE @[g]]]

\* publish: every topic has one partition, offsets count up from zero.
publish(a, topic, value, headers) ==
  LET offset == Len(SelectSeq(a.messages, LAMBDA m : m.topic = topic)) IN
  Checked(a, << <<a.fault = "wrong-publish", Published(999)>>,
                <<a.endpoint = "unreachable", Error("transport", "endpoint unreachable")>>,
                <<topic = "", InvalidArgument("topic is required")>>,
                <<topic = "__missing_topic", Error("not_found", "topic not found")>> >>,
    Then([a EXCEPT !.messages = Append(@, [topic |-> topic, offset |-> offset, value |-> value,
                                           headers |-> headers, queue |-> <<>>])],
         Published(offset)))

\* The headers of a CloudEvent in binary mode.
event_headers(event) == <<"ce_id", "ce_source", "ce_type", "ce_specversion">>
                        \o (IF event.datacontenttype THEN <<"content-type">> ELSE <<>>)

\* filter_matches: the whole path after "$." is one key of the document.
filter_matches(filter, m) == \A f \in filter : Holds(m.value, <<f.dotted>>, f.value)

\* validate_filter, as checks: a filter is the empty set or one equality.
validate_filter(filter) ==
  << <<\E f \in filter : ~f.rooted, InvalidArgument("filter path must start with $.")>>,
     <<\E f \in filter : ~f.identifiers, InvalidArgument("filter path must contain identifier segments")>>,
     <<\E f \in filter : ~f.scalar, InvalidArgument("filter value must be a string, number, boolean, or null")>> >>

\* subscribe: validated, then a cursor at the first message ever published.
subscribe(a, topics, filter) ==
  Checked(a, validate_filter(filter),
          Then([a EXCEPT !.subscription = [topics |-> topics, filter |-> filter, next |-> 1]], Done))

\* next_message: the cursor moves past the next message that matches.
next_message(a) ==
  LET s == a.subscription
      hits == { i \in s.next..Len(a.messages) :
                  i > 0 /\ a.messages[i].topic \in s.topics /\ filter_matches(s.filter, a.messages[i]) }
  IN Checked(a, << <<s.next = 0, InvalidArgument("subscribe before next_message")>> >>,
       IF hits = {} THEN Then([a EXCEPT !.subscription.next = Len(a.messages) + 1], Error("not_found", "no message available"))
       ELSE Then([a EXCEPT !.subscription.next = Min(hits) + 1], Message(a.messages[Min(hits)])))

clamp(max) == IF max < 1 THEN 1 ELSE IF max > 500 THEN 500 ELSE max

\* The sessions with this id: one or none.
Sessions(a, id) == { s \in ToSet(a.sessions) : s.id = id }

\* The early returns of queue_acquire.
acquire_checks(a, c) ==
  LET reused == c.session_id # NoSession IN
  << <<a.minor < CONTRACT_MINOR_QUEUE_RPC, unimplemented_queues>>,
     <<c.group = "", InvalidArgument("queue group is required")>>,
     <<c.topic = "", InvalidArgument("queue topic is required")>>,
     <<c.lock_duration_ms # 30000, InvalidArgument("queue lock_duration_ms must be 30000")>>,
     <<reused /\ Sessions(a, c.session_id) = {}, InvalidArgument("queue session expired; re-acquire")>>,
     <<\E s \in Sessions(a, c.session_id) : s.topic # c.topic \/ s.group # c.group,
       InvalidArgument("group_id and topics are fixed when a queue session is created")>>,
     <<c.max # 0 /\ \E s \in Sessions(a, c.session_id) : clamp(c.max) # s.max_messages,
       InvalidArgument("max_messages is fixed when a queue session is created")>> >>

\* queue_acquire: the first available messages of the topic, up to the maximum.
queue_acquire(a, c) ==
  LET fresh == c.session_id = NoSession
      id == IF fresh THEN <<"queue-session", Len(a.sessions) + 1>> ELSE c.session_id
      available == SelectSeq([i \in 1..Len(a.messages) |-> i],
                     LAMBDA i : a.messages[i].topic = c.topic /\ StateOf(a.messages[i], c.group).state = "available")
      taken == SubSeq(available, 1, Min({clamp(c.max), Len(available)}))
      count(i) == StateOf(a.messages[i], c.group).delivery_count + 1
      acquired(i) == [state |-> "acquired", session |-> id, delivery_count |-> count(i)]
  IN Checked(a, acquire_checks(a, c),
       Then([a EXCEPT !.sessions = IF ~fresh THEN @ ELSE
                         Append(@, [id |-> id, topic |-> c.topic, group |-> c.group, max_messages |-> clamp(c.max)]),
                      !.messages = [i \in 1..Len(@) |->
                         IF i \in ToSet(taken) THEN SetState(@[i], c.group, acquired(i)) ELSE @[i]]],
            Acquired(id, [k \in 1..Len(taken) |-> Delivery(a.messages[taken[k]], count(taken[k]))])))

\* queue_state_mut: the index of the message, when this session holds it in its group.
Held(a, session, id) ==
  { i \in 1..Len(a.messages) :
      /\ <<a.messages[i].topic, a.messages[i].offset>> = id
      /\ \E s \in Sessions(a, session) : /\ StateOf(a.messages[i], s.group).state = "acquired"
                                         /\ StateOf(a.messages[i], s.group).session = session }

\* queue_ack_result for one entry.
queue_ack_result(a, session, entry) ==
  LET s == CHOOSE s \in Sessions(a, session) : TRUE
      held == Held(a, session, entry.message_id)
      settled == CASE entry.ack_type = "accept" -> "accepted" [] entry.ack_type = "release" -> "available" [] OTHER -> "rejected"
  IN Then([a EXCEPT !.messages = [i \in 1..Len(@) |->
             IF i \in held THEN SetState(@[i], s.group, [StateOf(@[i], s.group) EXCEPT !.state = settled, !.session = NoSession])
             ELSE @[i]]],
          Result(entry.message_id, held # {}))

\* The early returns queue_acknowledge and queue_renew share.
session_checks(a, session) ==
  << <<a.minor < CONTRACT_MINOR_QUEUE_RPC, unimplemented_queues>>,
     <<session = NoSession, InvalidArgument("queue session_id is required")>>,
     <<Sessions(a, session) = {}, InvalidArgument("queue session expired; re-acquire")>> >>

\* queue_acknowledge: entry by entry, each on what the one before left.
queue_acknowledge(a, session, entries) ==
  LET settle(acc, entry) == LET r == queue_ack_result(acc.state, session, entry)
                            IN Then(r.state, Append(acc.answer, r.answer))
      settled == FoldLeft(settle, Then(a, <<>>), entries)
  IN Checked(a, session_checks(a, session), Then(settled.state, Results(settled.answer)))

queue_renew(a, session, entries) ==
  Checked(a, session_checks(a, session),
    Then(a, Results([k \in 1..Len(entries) |->
                       Result(entries[k].message_id, Held(a, session, entries[k].message_id) # {})])))

\* handle: one command of the protocol.
handle(a, c) ==
  CASE c.cmd = "hello" -> Then(a, Hello(CONTRACT_MAJOR, a.minor))
    [] c.cmd = "configure" -> Then([a EXCEPT !.endpoint = c.endpoint, !.bearer = c.bearer],
                                   Configured(IF a.fault = "wrong-configure" THEN ~c.bearer ELSE c.bearer))
    [] c.cmd = "publish" -> publish(a, c.topic, c.value, c.headers)
    [] c.cmd = "publish_event" -> IF c.event.id = "" THEN Then(a, InvalidArgument("CloudEvent id is required"))
                                  ELSE publish(a, c.topic, c.event.data, event_headers(c.event))
    [] c.cmd = "subscribe" -> subscribe(a, c.topics, c.filter)
    [] c.cmd = "next_message" -> next_message(a)
    [] c.cmd = "queue_acquire" -> queue_acquire(a, c)
    [] c.cmd = "queue_ack" -> Then(a, unimplemented_queues)
    [] c.cmd = "queue_acknowledge" -> queue_acknowledge(a, c.session_id, c.entries)
    [] c.cmd = "queue_renew" -> queue_renew(a, c.session_id, c.entries)
    [] c.cmd = "db_connect" -> Then(a, Unimplemented("database", "chapter-f-control-plane"))
    [] c.cmd = "auth_sign_in" -> Then(a, Error("unauthenticated", "identity APIs are not part of contract v1"))
    [] c.cmd \in {"blob_put", "blob_get"} -> Then(a, Unimplemented("blob", "chapter-b-blob-api"))
=============================================================================
