------------------------------ MODULE SendPath ------------------------------
(***************************************************************************)
(* A Send call from its batch of records to its results: the handler and   *)
(* its delivery window (handlers.rs), the route of a keyed record          *)
(* (produce.rs) and the forward to the owning replica (forward.rs).        *)
(*                                                                         *)
(* Who owns a dedup partition, and what a routing table says, is left open *)
(* at every step: what is shown here holds for every behaviour of          *)
(* Membership.  The dedup engine is one atomic step per call, which is     *)
(* what ExactlyOnce promises of DedupEngine.                               *)
(***************************************************************************)
EXTENDS Naturals, Sequences

CONSTANTS
  Replicas,    \* gateways
  Calls,       \* Send calls
  Records,     \* records, each in one call's batch
  batch,       \* batch[c]: the records of call c, in order
  origin,      \* origin[c]: the gateway that handles c
  idempotency_key,  \* idempotency_key[x], or None for a plain record
  Structured,  \* records whose body is structured JSON
  Denied,      \* Denied[r]: records whose caller the ACLs of r refuse
  None,
  SEND_WINDOW_CAPACITY,
  MaxFaults,   \* bound: failures of codecs, brokers and producers
  MaxResends   \* bound: how often a client sends what it may retry

ASSUME SendAssumption ==
  /\ batch \in [Calls -> Seq(Records)]
  /\ \A c, d \in Calls : \A i \in DOMAIN batch[c], j \in DOMAIN batch[d] :
       batch[c][i] = batch[d][j] => c = d /\ i = j
  /\ origin \in [Calls -> Replicas]
  /\ Records \subseteq DOMAIN idempotency_key
  /\ Structured \subseteq Records
  /\ Denied \in [Replicas -> SUBSET Records]
  /\ None \notin Replicas
  /\ SEND_WINDOW_CAPACITY \in Nat \ {0}
  /\ MaxFaults \in Nat /\ MaxResends \in Nat

VARIABLES
  acks,      \* acks[c]: the acknowledgement level the call asks for
  todo,      \* todo[c]: the records of the call under way
  next,      \* next[c]: index of the record the handler is at
  pc,        \* pc[c]: where the handler is
  pending,   \* pending[c]: the window, records enqueued and not yet yielded
  delivery,  \* delivery[x]: how far the delivery of a windowed record is
  results,   \* results[c]: the results so far
  peer,      \* peer[c]: the gateway the current record is forwarded to
  reply,     \* reply[c]: what its forward handler returned
  late,      \* forwards whose origin no longer waits
  log,       \* what Kafka has stored, in order: one topic partition
  faults,    \* failures so far
  resends    \* resends[c]: how often the client sent again

handlerVars == <<acks, todo, next, pc, pending, delivery, results>>
forwardVars == <<peer, reply, late>>
vars == <<handlerVars, forwardVars, log, faults, resends>>

\* What a delivery, a produce or a forward ends with, and the results the
\* caller sees: a retriable error, another error, PERMISSION_DENIED.
Outcomes == {"ok", "dup", "unavailable", "registry", "failed", "denied"}
RecordResults == {"ok", "dup", "retriable", "error", "denied"}

PCs == {"next", "drain", "route", "local", "forward", "reply", "done", "dropped"}

HandlerTypeOK ==
  /\ acks \in [Calls -> {"all", "weaker"}]
  /\ todo \in [Calls -> Seq(Records)]
  /\ next \in [Calls -> Nat]
  /\ pc \in [Calls -> PCs]
  /\ pending \in [Calls -> Seq(Records)]
  /\ delivery \in [Records -> Outcomes \cup {"none", "sent"}]
  /\ results \in [Calls -> Seq([rec: Records, result: RecordResults])]

ForwardTypeOK ==
  /\ peer \in [Calls -> Replicas \cup {None}]
  /\ reply \in [Calls -> Outcomes \cup {None}]
  /\ late \in SUBSET (Records \X Replicas)

\* Every variable holds a value of its type, and the window never exceeds
\* its capacity, nor reaches it when the handler takes another record.
TypeOK ==
  /\ HandlerTypeOK
  /\ ForwardTypeOK
  /\ log \in Seq([rec: Records, value: {"as sent", "encoded", "empty"}])
  /\ faults \in 0..MaxFaults
  /\ resends \in [Calls -> 0..MaxResends]
  /\ \A c \in Calls :
       /\ Len(pending[c]) <= SEND_WINDOW_CAPACITY
       /\ pc[c] = "next" => Len(pending[c]) < SEND_WINDOW_CAPACITY

Init ==
  /\ acks \in [Calls -> {"all", "weaker"}]
  /\ todo = batch
  /\ next = [c \in Calls |-> 1]
  /\ pc = [c \in Calls |-> "next"]
  /\ pending = [c \in Calls |-> <<>>]
  /\ delivery = [x \in Records |-> "none"]
  /\ results = [c \in Calls |-> <<>>]
  /\ peer = [c \in Calls |-> None]
  /\ reply = [c \in Calls |-> None]
  /\ late = {}
  /\ log = <<>>
  /\ faults = 0
  /\ resends = [c \in Calls |-> 0]

Keyed(x) == idempotency_key[x] # None
Current(c) == todo[c][next[c]]
AtRecord(c) == next[c] <= Len(todo[c])
Goto(c, l) == pc' = [pc EXCEPT ![c] = l]

Fault ==
  /\ faults < MaxFaults
  /\ faults' = faults + 1

Store(x, v) == log' = Append(log, [rec |-> x, value |-> v])
Stored(x) == \E i \in DOMAIN log : log[i].rec = x
Claimed(x) ==
  \E i \in DOMAIN log : idempotency_key[log[i].rec] = idempotency_key[x]

\* encode_body and encode: structured JSON is serialized, raw bytes are kept.
encode(x) == IF x \in Structured THEN "encoded" ELSE "as sent"

\* Fault injection: a failed produce is reported as retriable.
error_result_FailedRetriable(out) ==
  CASE out \in {"unavailable", "registry", "failed"} -> "retriable"
    [] OTHER -> out

\* send_result and error_result.
error_result(out) ==
  CASE out \in {"unavailable", "registry"} -> "retriable"
    [] out = "failed" -> "error"
    [] OTHER -> out

-----------------------------------------------------------------------------
(* The handler and its window.                                             *)

\* SendWindow::push: a full window is drained before the next record.
push(c, x, state) ==
  /\ pending' = [pending EXCEPT ![c] = Append(@, x)]
  /\ delivery' = [delivery EXCEPT ![x] = state]
  /\ next' = [next EXCEPT ![c] = @ + 1]
  /\ Goto(c, IF Len(pending[c]) + 1 = SEND_WINDOW_CAPACITY THEN "drain" ELSE "next")

\* The record's topic is denied: its result goes through the window.
Refuse(c) ==
  /\ pc[c] = "next" /\ AtRecord(c)
  /\ Current(c) \in Denied[origin[c]]
  /\ push(c, Current(c), "denied")
  /\ UNCHANGED <<acks, todo, results, forwardVars, log, faults, resends>>

\* enqueue_plain_with_acks: encode, then hand the record to the producer.
enqueue_plain(c) ==
  /\ pc[c] = "next" /\ AtRecord(c)
  /\ ~Keyed(Current(c)) /\ Current(c) \notin Denied[origin[c]]
  /\ \/ push(c, Current(c), "sent") /\ UNCHANGED faults
     \/ \E out \in {"registry", "failed"} : push(c, Current(c), out) /\ Fault
  /\ UNCHANGED <<acks, todo, results, forwardVars, log, resends>>

\* A record enqueued and not settled, which the producer settles next: with
\* acks=all it is idempotent and keeps the order of a partition, otherwise a
\* batch it retries may be overtaken.
SentNext(c, i) ==
  LET sent == {j \in DOMAIN pending[c] : delivery[pending[c][j]] = "sent"} IN
  i \in sent /\ (acks[c] = "all" => \A j \in sent : i <= j)

\* The delivery succeeds; with weaker acks the broker may lose the record.
Acknowledge(c) ==
  \E i \in DOMAIN pending[c] :
    LET x == pending[c][i] IN
    /\ SentNext(c, i)
    /\ \/ Store(x, encode(x)) /\ UNCHANGED faults
       \/ acks[c] # "all" /\ Fault /\ UNCHANGED log
    /\ delivery' = [delivery EXCEPT ![x] = "ok"]
    /\ UNCHANGED <<acks, todo, next, pc, pending, results, forwardVars, resends>>

\* The producer gives a record up; the broker may have stored it all the same.
DeliveryFails(c) ==
  \E i \in DOMAIN pending[c] :
    LET x == pending[c][i] IN
    /\ SentNext(c, i)
    /\ Fault
    /\ Store(x, encode(x)) \/ UNCHANGED log
    /\ delivery' = [delivery EXCEPT ![x] = "failed"]
    /\ UNCHANGED <<acks, todo, next, pc, pending, results, forwardVars, resends>>

\* Fault injection: a keyed record does not wait for the window.
StartDrain_NoBarrier(c) ==
  /\ pc[c] = "next"
  /\ AtRecord(c) => Keyed(Current(c)) /\ Current(c) \notin Denied[origin[c]]
  /\ Goto(c, IF AtRecord(c) THEN "route" ELSE "drain")
  /\ UNCHANGED <<acks, todo, next, pending, delivery, results, forwardVars, log, faults, resends>>

\* The handler drains the window before a keyed record and at the end.
StartDrain(c) ==
  /\ pc[c] = "next"
  /\ AtRecord(c) => Keyed(Current(c)) /\ Current(c) \notin Denied[origin[c]]
  /\ Goto(c, "drain")
  /\ UNCHANGED <<acks, todo, next, pending, delivery, results, forwardVars, log, faults, resends>>

Result(x, out) == [rec |-> x, result |-> error_result(out)]

\* Fault injection: results in the order of completion (FuturesUnordered).
drain_Unordered(c) ==
  /\ pc[c] = "drain"
  /\ \E i \in DOMAIN pending[c] :
       LET x == pending[c][i] IN
       /\ delivery[x] # "sent"
       /\ results' = [results EXCEPT ![c] = Append(@, Result(x, delivery[x]))]
       /\ pending' = [pending EXCEPT ![c] = SubSeq(@, 1, i - 1) \o SubSeq(@, i + 1, Len(@))]
  /\ UNCHANGED <<acks, todo, next, pc, delivery, forwardVars, log, faults, resends>>

\* Fault injection: a delivery that failed never yields.
drain_OkOnly(c) ==
  /\ pc[c] = "drain"
  /\ pending[c] # <<>>
  /\ LET x == Head(pending[c]) IN
     /\ delivery[x] \notin {"sent", "failed"}
     /\ results' = [results EXCEPT ![c] = Append(@, Result(x, delivery[x]))]
  /\ pending' = [pending EXCEPT ![c] = Tail(@)]
  /\ UNCHANGED <<acks, todo, next, pc, delivery, forwardVars, log, faults, resends>>

\* SendWindow::drain: FuturesOrdered yields the oldest once it is settled.
drain(c) ==
  /\ pc[c] = "drain"
  /\ pending[c] # <<>>
  /\ LET x == Head(pending[c]) IN
     /\ delivery[x] # "sent"
     /\ results' = [results EXCEPT ![c] = Append(@, Result(x, delivery[x]))]
  /\ pending' = [pending EXCEPT ![c] = Tail(@)]
  /\ UNCHANGED <<acks, todo, next, pc, delivery, forwardVars, log, faults, resends>>

\* The window is empty: the response, the keyed record the drain was for, or
\* the next record after a full window.
Drained(c) ==
  /\ pc[c] = "drain"
  /\ pending[c] = <<>>
  /\ Goto(c, IF ~AtRecord(c) THEN "done"
             ELSE IF Keyed(Current(c)) /\ Current(c) \notin Denied[origin[c]]
                  THEN "route" ELSE "next")
  /\ UNCHANGED <<acks, todo, next, pending, delivery, results, forwardVars, log, faults, resends>>

\* The produce of a keyed record has returned: its result follows directly.
Finish(c, out) ==
  /\ results' = [results EXCEPT ![c] = Append(@, Result(Current(c), out))]
  /\ next' = [next EXCEPT ![c] = @ + 1]
  /\ Goto(c, "next")
  /\ peer' = [peer EXCEPT ![c] = None]
  /\ reply' = [reply EXCEPT ![c] = None]
  /\ UNCHANGED <<acks, todo, pending, delivery, resends>>

-----------------------------------------------------------------------------
(* Routing and producing a keyed record.                                   *)

\* produce_with_acks: weaker acks are refused; otherwise the record is
\* produced here (owned here, or routed to this address), forwarded, or
\* refused for want of an owner.
produce_with_acks(c) ==
  /\ pc[c] = "route"
  /\ \/ acks[c] # "all" /\ Finish(c, "failed") /\ UNCHANGED <<late, log, faults>>
     \/ /\ acks[c] = "all"
        /\ Finish(c, "unavailable")
        /\ UNCHANGED <<late, log, faults>>
     \/ /\ acks[c] = "all"
        /\ Goto(c, "local")
        /\ UNCHANGED <<acks, todo, next, pending, delivery, results, forwardVars, log, faults, resends>>
     \/ /\ acks[c] = "all"
        /\ \E r \in Replicas \ {origin[c]} : peer' = [peer EXCEPT ![c] = r]
        /\ Goto(c, "forward")
        /\ UNCHANGED <<acks, todo, next, pending, delivery, results, reply, late, log, faults, resends>>

\* dedup_produce of a value, by its promise: one record per key.  The gate
\* may be shut; a failed transaction may have committed.
dedup_produce(x, v, out) ==
  \/ out = "unavailable" /\ UNCHANGED <<log, faults>>
  \/ out = "dup" /\ Claimed(x) /\ UNCHANGED <<log, faults>>
  \/ out = "ok" /\ ~Claimed(x) /\ Store(x, v) /\ UNCHANGED faults
  \/ out = "failed" /\ Fault /\ (UNCHANGED log \/ (~Claimed(x) /\ Store(x, v)))

\* produce_local for a keyed record whose body the codec turns into v.
produce_local(x, v, out) ==
  \/ dedup_produce(x, v, out)
  \/ out = "registry" /\ Fault /\ UNCHANGED log

ProduceHere(c) ==
  /\ pc[c] = "local"
  /\ \E out \in Outcomes : produce_local(Current(c), encode(Current(c)), out)
                           /\ Finish(c, out)
  /\ UNCHANGED late

\* from_record and into_record: the wire form has the raw value only, which
\* is empty for a structured body, and the receiver takes it for raw bytes.
into_record(x) == IF x \in Structured THEN "empty" ELSE "as sent"

\* forward_handler: authorize the caller again, then produce_local.
forward_handler(x, r, out) ==
  \/ x \in Denied[r] /\ out = "denied" /\ UNCHANGED <<log, faults>>
  \/ x \notin Denied[r] /\ produce_local(x, into_record(x), out)

ForwardHandled(c) ==
  /\ pc[c] = "forward"
  /\ \E out \in Outcomes :
       /\ forward_handler(Current(c), peer[c], out)
       /\ reply' = [reply EXCEPT ![c] = out]
  /\ Goto(c, "reply")
  /\ UNCHANGED <<acks, todo, next, pending, delivery, results, peer, late, resends>>

\* Fault injection: a reply counts as success unless the caller was denied.
forwarded_ErrorIgnored(out) ==
  CASE out \in {"dup", "denied", "unavailable"} -> out
    [] OTHER -> "ok"

\* Forwarder::forward on a reply: only Unavailable stays retriable.
forwarded(out) ==
  CASE out = "registry" -> "failed"
    [] OTHER -> out

ForwardAnswered(c) ==
  /\ pc[c] = "reply"
  /\ Finish(c, forwarded(reply[c]))
  /\ UNCHANGED <<late, log, faults>>

\* Forwarder::forward: the connection fails or the timeout ends the wait; the
\* handler at the peer may not have run, may have run, or may run later.  A
\* body that breaks off after a 2xx is an error that is not retriable.
ForwardTimeout(c) ==
  /\ pc[c] \in {"forward", "reply"}
  /\ late' = IF pc[c] = "forward" THEN late \cup {<<Current(c), peer[c]>>} ELSE late
  /\ \/ Finish(c, "unavailable") /\ UNCHANGED <<log, faults>>
     \/ pc[c] = "reply" /\ Finish(c, "failed") /\ Fault /\ UNCHANGED log

LateHandler(x, r) ==
  /\ <<x, r>> \in late
  /\ late' = late \ {<<x, r>>}
  /\ \/ \E out \in Outcomes : forward_handler(x, r, out)
     \/ UNCHANGED <<log, faults>>
  /\ UNCHANGED <<handlerVars, peer, reply, resends>>

\* The client goes away and the handler is dropped: what was forwarded or
\* enqueued may still arrive.
Drop(c) ==
  /\ pc[c] \notin {"done", "dropped"}
  /\ Fault
  /\ Goto(c, "dropped")
  /\ late' = IF pc[c] = "forward" THEN late \cup {<<Current(c), peer[c]>>} ELSE late
  /\ UNCHANGED <<acks, todo, next, pending, delivery, results, peer, reply, log, resends>>

Retriable(c) ==
  {results[c][i].rec : i \in {j \in DOMAIN results[c] : results[c][j].result = "retriable"}}

\* The client sends again, in any order, what it was told it may retry
\* (external).
Resend(c) ==
  /\ pc[c] = "done"
  /\ resends[c] < MaxResends
  /\ resends' = [resends EXCEPT ![c] = @ + 1]
  /\ \E n \in DOMAIN todo[c] : \E again \in [1..n -> Retriable(c)] :
       /\ \A i, j \in 1..n : again[i] = again[j] => i = j
       /\ \A x \in Retriable(c) : \E i \in 1..n : again[i] = x
       /\ todo' = [todo EXCEPT ![c] = again]
  /\ next' = [next EXCEPT ![c] = 1]
  /\ results' = [results EXCEPT ![c] = <<>>]
  /\ Goto(c, "next")
  /\ UNCHANGED <<acks, pending, delivery, forwardVars, log, faults>>

Handler(c) ==
  \/ Refuse(c) \/ enqueue_plain(c) \/ StartDrain(c) \/ drain(c) \/ Drained(c)
  \/ produce_with_acks(c) \/ ProduceHere(c) \/ ForwardAnswered(c) \/ ForwardTimeout(c)

Next ==
  \/ \E c \in Calls : \/ Handler(c) \/ ForwardHandled(c)
                      \/ Acknowledge(c) \/ DeliveryFails(c)
                      \/ Drop(c) \/ Resend(c)
  \/ \E x \in Records, r \in Replicas : LateHandler(x, r)

Spec == Init /\ [][Next]_vars

-----------------------------------------------------------------------------
(* Safety.                                                                 *)

\* The i-th result is the i-th record's: denials, window and keyed produces
\* arrive in one order although they complete in any.
ResultsMatchRecords ==
  \A c \in Calls : \A i \in DOMAIN results[c] : results[c][i].rec = todo[c][i]

\* Where the handler is inside one keyed record.
InKeyed == {"route", "local", "forward", "reply"}

CallInOrder(c) ==
  /\ next[c] = Len(results[c]) + Len(pending[c]) + 1
  /\ next[c] <= Len(todo[c]) + 1
  /\ \A i \in 1..Len(results[c]) : results[c][i].rec = todo[c][i]
  /\ \A j \in 1..Len(pending[c]) :
       /\ pending[c][j] = todo[c][Len(results[c]) + j]
       /\ delivery[pending[c][j]] # "none"
  /\ pc[c] \in InKeyed \cup {"done"} => pending[c] = <<>>
  /\ pc[c] \in InKeyed => next[c] <= Len(todo[c])
  /\ pc[c] \in {"forward", "reply"} => peer[c] \in Replicas
  /\ pc[c] = "reply" => reply[c] \in Outcomes

\* The inductive form: results and window together are the records taken so
\* far, every windowed record has a delivery, and the window is empty
\* wherever a result bypasses it.
WindowInOrder == \A c \in Calls : CallInOrder(c)

Position(x) == CHOOSE i \in DOMAIN log : log[i].rec = x

\* Records of one call with acks=all that are answered "ok" are stored in
\* input order: a keyed record is a barrier, on whichever gateway it is
\* produced, and one that a late handler stores was not answered "ok".
StoredInInputOrder ==
  \A c \in Calls : \A i, j \in DOMAIN results[c] :
    acks[c] = "all" /\ i < j /\ results[c][i].result = "ok" /\ results[c][j].result = "ok"
      => Position(results[c][i].rec) < Position(results[c][j].rec)

\* An answer is true of the log: with acks=all "ok" records are stored, and
\* the key of a "dup" record is claimed by a stored one, whatever was lost on
\* the way.
AnswersStand ==
  \A c \in Calls : \A i \in DOMAIN results[c] :
    LET x == results[c][i].rec IN
    /\ results[c][i].result = "ok" /\ acks[c] = "all" => Stored(x)
    /\ results[c][i].result = "dup" => Claimed(x)

\* "retriable" is safe: a client that sends again everything it may retry,
\* plain records too, while earlier attempts still run, stores nothing twice.
RetryStoresOnce ==
  \A i, j \in DOMAIN log : log[i].rec = log[j].rec => i = j

\* What is stored is the codec's output for the record, or the bytes as sent.
StoredAsSent ==
  \A i \in DOMAIN log : log[i].value = encode(log[i].rec)

-----------------------------------------------------------------------------
(* Liveness.                                                               *)

\* A handler that is not dropped is polled, brokers answer or the producer
\* gives up, and a forward ends at the latest with its timeout.
Fairness ==
  \A c \in Calls : WF_vars(Handler(c)) /\ WF_vars(Acknowledge(c))

FairSpec == Spec /\ Fairness

\* Every Send ends: the window, the barrier and the forward never wait for
\* something that does not come.
SendsFinish == \A c \in Calls : <>(pc[c] \in {"done", "dropped"})

=============================================================================
