------------------------------ MODULE SdkStream ------------------------------
(***************************************************************************)
(* The app SDK against a gateway: the error taxonomy of a unary call, and  *)
(* a subscription with its two tasks. The reader (read_streaming_response) *)
(* cuts the bytes of the response body into Connect frames and sends what  *)
(* they hold into a bounded channel; the forwarder (spawned by             *)
(* subscribe_live) turns that into messages and errors of the SDK in a     *)
(* second bounded channel, which the application reads until it ends, or   *)
(* drops.                                                                  *)
(*                                                                         *)
(* Bytes are positions: a frame is CellsPerFrame cells, chunks of the body *)
(* end anywhere, and response[i] says what frame i is.                     *)
(***************************************************************************)
EXTENDS Naturals, Sequences, FiniteSets, SequencesExt

CONSTANTS
  Frames,            \* what the gateway can send: <<"message", _>>, <<"undecodable">>, <<"end">>,
                     \* <<"end", code>>, <<"compressed">>, <<"unknown">>, <<"bad trailer">>
  ConnectFailures,   \* how opening the stream can fail, as errors of the Connect client
  Channel,           \* STREAM_CHANNEL_CAPACITY and SUBSCRIPTION_CHANNEL_CAPACITY
  Outcomes,          \* what goes wrong at the gateway, or on the way to it, for a unary call
  MaxFrames,         \* bound: frames of one response
  MaxCalls           \* bound: unary calls

ASSUME FramesAssumption ==
  \A f \in Frames : \/ f[1] \in {"message", "undecodable", "compressed", "unknown", "bad trailer"}
                    \/ f = <<"end">> \/ (f[1] = "end" /\ Len(f) = 2)
\* The errors of ConnectClientError that are no answer of a server.
LocalErrors == {"invalid endpoint", "io", "hyper", "http", "protobuf", "protobuf encode", "json",
                "partial frame", "compressed", "unknown flags"}
\* A record fails in publish, an entry in acknowledge, and anything else on the way.
ASSUME OutcomesAssumption ==
  \A o \in Outcomes : \/ o.cause[1] = "record" /\ o.op = "publish"
                      \/ o.cause[1] = "entry" /\ o.op = "acknowledge"
                      \/ o.cause[1] \in {"connect", "status", "no result"} \cup LocalErrors
ASSUME ChannelAssumption == Channel \in Nat

CellsPerFrame == 2

VARIABLES
  app,        \* the application: "idle", "reading", "ended" or "dropped"
  got,        \* what the stream has given it
  forwarder,  \* [pc, item, last]: "off", "connecting", "receiving", "sending" or "done"
  reader,     \* [pc, item, last]: "off", "reading", "decoding", "sending" or "done"
  inner,      \* the channel between reader and forwarder
  outer,      \* the channel between forwarder and application
  response,   \* the frames the gateway has sent
  body,       \* the response body: "open", "closed", "cut" inside its last frame, or "reset"
  read,       \* cells in or past the reader's buffer
  taken,      \* frames cut out of the buffer
  calls       \* unary calls answered: [op, outcome, kind]

streamVars == <<app, got, forwarder, reader, inner, outer, response, body, read, taken, calls>>
-----------------------------------------------------------------------------
(* error.rs, messaging.rs and stubs.rs: what the caller is told.           *)

\* KrabkaError::from_connect_code.
from_connect_code(code) ==
  CASE code = "not_found" -> "not_found"
    [] code \in {"invalid_argument", "failed_precondition", "out_of_range"} -> "invalid_argument"
    [] code = "unauthenticated" -> "unauthenticated"
    [] code \in {"unavailable", "deadline_exceeded"} -> "transport"
    [] OTHER -> "server_error"

from_http_status(status) ==
  CASE status = 400 -> "invalid_argument"
    [] status = 401 -> "unauthenticated"
    [] status = 404 -> "not_found"
    [] status \in {408, 429} \cup 502..504 -> "transport"
    [] OTHER -> "server_error"

\* From<ConnectClientError> for KrabkaError; everything but an answer of the
\* server is a transport error, the permanent ones (an endpoint that is no URL, a
\* request that cannot be encoded) included.
from_connect_error(e) ==
  CASE e[1] = "connect" -> from_connect_code(e[2])
    [] e[1] = "status" -> from_http_status(e[2])
    [] OTHER -> "transport"

\* error_result, in the gateway: the code of a record that could not be produced.
error_result(e) ==
  CASE e \in {"Unavailable", "Registry"} -> [code |-> 14, retriable |-> TRUE]
    [] e = "Unauthorized" -> [code |-> 7, retriable |-> FALSE]
    [] e = "Codec" -> [code |-> 3, retriable |-> FALSE]
    [] OTHER -> [code |-> 1, retriable |-> FALSE]

\* record_result_from_pb.
record_result_from_pb(error) ==
  from_connect_code(CASE error.code = 3 -> "invalid_argument"
                      [] error.code = 5 -> "not_found"
                      [] error.code = 7 -> "unauthenticated"
                      [] error.code = 14 -> "unavailable"
                      [] OTHER -> "internal")

\* ack_error and not_acquired_error, in the gateway. The code of a refusal by
\* the broker is the broker's own.
ack_error(e) ==
  CASE e[1] = "server" -> [code |-> e[2], retriable |-> e[2] \in {3, 5, 6, 7, 8, 9, 13, 14, 15, 16, 19, 20, 41, 56, 80, 88, 89}]
    [] e[1] \in {"client", "coordinator unavailable", "commit invalid", "rebalance failed"} -> [code |-> 13, retriable |-> TRUE]
    [] e[1] = "not acquired" -> [code |-> 9, retriable |-> FALSE]
    [] OTHER -> [code |-> 13, retriable |-> FALSE]

\* Fault injection: the code alone decides.
error_code_to_krabka(error) ==
  CASE error.code \in {3, 9} -> "invalid_argument"
    [] error.code = 16 -> "unauthenticated"
    [] error.code = 5 -> "not_found"
    [] OTHER -> "server_error"

error_info_to_krabka(error) ==
  CASE error.retriable -> "transport"
    [] ~error.retriable /\ error.code \in {3, 9} -> "invalid_argument"
    [] ~error.retriable /\ error.code = 16 -> "unauthenticated"
    [] ~error.retriable /\ error.code = 5 -> "not_found"
    [] OTHER -> "server_error"

\* publish, acknowledge and renew, when the call does not succeed.
Kind(op, cause) ==
  CASE cause[1] = "record" /\ op = "publish" -> record_result_from_pb(error_result(cause[2]))
    [] cause[1] = "entry" /\ op = "acknowledge" -> error_info_to_krabka(ack_error(cause[2]))
    [] cause[1] = "no result" -> "server_error"
    [] OTHER -> from_connect_error(cause)

Call(outcome) ==
  /\ Cardinality(calls) < MaxCalls
  /\ calls' = calls \cup {[op |-> outcome.op, outcome |-> outcome, kind |-> Kind(outcome.op, outcome.cause)]}
  /\ UNCHANGED <<app, got, forwarder, reader, inner, outer, response, body, read, taken>>
-----------------------------------------------------------------------------
(* The subscription.                                                       *)

Err(e) == <<"error", e>>
NoItem == <<"none">>
Task(pc) == [pc |-> pc, item |-> NoItem, last |-> FALSE]
Sending(item, last) == [pc |-> "sending", item |-> item, last |-> last]

StreamInit ==
  /\ app = "idle" /\ got = <<>>
  /\ forwarder = Task("off") /\ reader = Task("off")
  /\ inner = <<>> /\ outer = <<>>
  /\ response = <<>> /\ body = "open" /\ read = 0 /\ taken = 0
  /\ calls = {}

\* subscribe_live answers at once: the stream is opened by the task it spawns.
Subscribe ==
  /\ app = "idle"
  /\ app' = "reading"
  /\ forwarder' = Task("connecting")
  /\ UNCHANGED <<got, reader, inner, outer, response, body, read, taken, calls>>

\* ConnectClient::streaming: one Start frame, then the response's body.
Connect ==
  /\ forwarder.pc = "connecting"
  /\ \/ forwarder' = Task("receiving") /\ reader' = Task("reading")
     \/ \E e \in ConnectFailures : forwarder' = Sending(Err(e), TRUE) /\ UNCHANGED reader
  /\ UNCHANGED <<app, got, inner, outer, response, body, read, taken, calls>>

\* What a frame makes of the stream.
Final(frame) == frame[1] \notin {"message", "undecodable"}
Finished == \E i \in DOMAIN response : Final(response[i])

GatewaySends(frame) ==
  /\ reader.pc # "off" /\ body = "open" /\ ~Finished
  /\ Len(response) < MaxFrames
  /\ response' = Append(response, frame)
  /\ UNCHANGED <<app, got, forwarder, reader, inner, outer, body, read, taken, calls>>

\* The body ends: after a whole frame, inside one, or with the connection.
BodyEnds ==
  /\ reader.pc # "off" /\ body = "open"
  /\ \/ body' \in {"closed", "reset"}
     \/ body' = "cut" /\ response # <<>> /\ read < CellsPerFrame * Len(response)
  /\ UNCHANGED <<app, got, forwarder, reader, inner, outer, response, read, taken, calls>>

Cells == CellsPerFrame * Len(response) - (IF body = "cut" THEN 1 ELSE 0)

\* read_streaming_response: the next chunk, the end of the body, or its failure.
ReadChunk ==
  /\ reader.pc = "reading"
  /\ read' \in (read + 1)..Cells
  /\ reader' = Task("decoding")
  /\ UNCHANGED <<app, got, forwarder, inner, outer, response, body, taken, calls>>

ReadEnd ==
  /\ reader.pc = "reading"
  /\ body \in {"closed", "cut"} /\ read = Cells
  /\ reader' = IF read > CellsPerFrame * taken THEN Sending(Err(<<"partial frame">>), TRUE) ELSE Task("done")
  /\ UNCHANGED <<app, got, forwarder, inner, outer, response, body, read, taken, calls>>

ReadError ==
  /\ reader.pc = "reading" /\ body = "reset"
  /\ reader' = Sending(Err(<<"hyper">>), TRUE)
  /\ UNCHANGED <<app, got, forwarder, inner, outer, response, body, read, taken, calls>>

\* Fault injection: a frame whose header has arrived is taken for a whole one.
decode_header == IF read > CellsPerFrame * taken THEN {response[taken + 1]} ELSE {}

\* decode_next: the first whole frame of the buffer, if there is one.
decode_next == IF read >= CellsPerFrame * (taken + 1) THEN {response[taken + 1]} ELSE {}

\* The turn of the reader's inner loop for a frame.
OnFrame(frame) ==
  CASE frame[1] = "message" -> Sending(frame, FALSE)
    [] frame[1] = "undecodable" -> Sending(Err(<<"protobuf">>), FALSE)
    [] frame = <<"end">> -> Task("done")
    [] frame[1] = "end" /\ Len(frame) = 2 -> Sending(Err(<<"connect", frame[2]>>), TRUE)
    [] frame[1] \in {"compressed", "unknown", "bad trailer"} -> Sending(Err(frame), TRUE)

Decode ==
  /\ reader.pc = "decoding"
  /\ reader' = IF decode_next = {} THEN Task("reading") ELSE OnFrame(CHOOSE f \in decode_next : TRUE)
  /\ taken' = taken + Cardinality(decode_next)
  /\ UNCHANGED <<app, got, forwarder, inner, outer, response, body, read, calls>>

\* Fault injection: a reader that waits for room for ever.
ReaderInsists ==
  /\ reader.pc = "sending" /\ Len(inner) < Channel
  /\ inner' = Append(inner, reader.item)
  /\ reader' = IF reader.last THEN Task("done") ELSE Task("decoding")
  /\ UNCHANGED <<app, got, forwarder, outer, response, body, read, taken, calls>>

\* tx.send of the reader: waits for room, fails once the forwarder is gone.
ReaderSends ==
  /\ reader.pc = "sending"
  /\ \/ /\ forwarder.pc # "done" /\ Len(inner) < Channel
        /\ inner' = Append(inner, reader.item)
        /\ reader' = IF reader.last THEN Task("done") ELSE Task("decoding")
     \/ forwarder.pc = "done" /\ reader' = Task("done") /\ UNCHANGED inner
  /\ UNCHANGED <<app, got, forwarder, outer, response, body, read, taken, calls>>

\* The forwarder's loop: receive, map, send; it ends with the reader's channel.
Mapped(item) == IF item[1] = "error" THEN <<"error", from_connect_error(item[2])>> ELSE item

ForwarderReceives ==
  /\ forwarder.pc = "receiving"
  /\ \/ inner # <<>> /\ forwarder' = Sending(Head(inner), FALSE) /\ inner' = Tail(inner)
     \/ inner = <<>> /\ reader.pc = "done" /\ forwarder' = Task("done") /\ UNCHANGED inner
  /\ UNCHANGED <<app, got, reader, outer, response, body, read, taken, calls>>

ForwarderSends ==
  /\ forwarder.pc = "sending"
  /\ \/ /\ app # "dropped" /\ Len(outer) < Channel
        /\ outer' = Append(outer, Mapped(forwarder.item))
        /\ forwarder' = IF forwarder.last THEN Task("done") ELSE Task("receiving")
        /\ UNCHANGED inner
     \/ app = "dropped" /\ forwarder' = Task("done") /\ inner' = <<>> /\ UNCHANGED outer
  /\ UNCHANGED <<app, got, reader, response, body, read, taken, calls>>

\* MessageStream::poll_next.
NextMessage ==
  /\ app = "reading"
  /\ \/ outer # <<>> /\ got' = Append(got, Head(outer)) /\ outer' = Tail(outer) /\ UNCHANGED app
     \/ outer = <<>> /\ forwarder.pc = "done" /\ app' = "ended" /\ UNCHANGED <<got, outer>>
  /\ UNCHANGED <<forwarder, reader, inner, response, body, read, taken, calls>>

DropStream ==
  /\ app = "reading"
  /\ app' = "dropped" /\ outer' = <<>>
  /\ UNCHANGED <<got, forwarder, reader, inner, response, body, read, taken, calls>>

Tasks == Connect \/ ReadChunk \/ ReadEnd \/ ReadError \/ Decode \/ ReaderSends \/ ForwarderReceives \/ ForwarderSends

StreamNext ==
  \/ Subscribe \/ Tasks \/ NextMessage \/ DropStream \/ BodyEnds
  \/ \E frame \in Frames : GatewaySends(frame)

\* The runtime runs both tasks and an application that has not dropped its
\* stream goes on reading it. Nothing makes the gateway send or end.
ReaderRuns == ReadChunk \/ ReadEnd \/ ReadError \/ Decode \/ ReaderSends
ForwarderRuns == Connect \/ ForwarderReceives \/ ForwarderSends

StreamFairness ==
  /\ WF_streamVars(ReaderRuns)
  /\ WF_streamVars(ForwarderRuns)
  /\ WF_streamVars(NextMessage)

StreamSpec ==
  StreamInit /\ [][StreamNext \/ \E outcome \in Outcomes : Call(outcome)]_streamVars /\ StreamFairness
-----------------------------------------------------------------------------
StreamTypeOK ==
  /\ app \in {"idle", "reading", "ended", "dropped"}
  /\ forwarder.pc \in {"off", "connecting", "receiving", "sending", "done"}
  /\ reader.pc \in {"off", "reading", "decoding", "sending", "done"}
  /\ Len(inner) <= Channel /\ Len(outer) <= Channel
  /\ taken <= Len(response) /\ read <= CellsPerFrame * Len(response)

\* What the frames sent so far amount to for an application, whatever the
\* chunks they arrive in: messages and unreadable messages up to the frame that
\* ends the stream, which adds an error unless it is a clean end. Nothing
\* follows that frame, so a clean end is the last one.
Item(frame) ==
  IF frame[1] = "message" THEN frame
  ELSE <<"error", IF frame[1] = "end" THEN from_connect_code(frame[2]) ELSE "transport">>

Whole == IF body = "cut" THEN SubSeq(response, 1, Len(response) - 1) ELSE response
CleanEnd == Whole # <<>> /\ Whole[Len(Whole)] = <<"end">>
Promised == [i \in 1..(Len(Whole) - IF CleanEnd THEN 1 ELSE 0) |-> Item(Whole[i])]
Broken == <<"error", "transport">>

\* The application sees what the gateway sent, in order, without loss,
\* duplicates or invention, and a stream that simply ends is a complete one: a
\* response cut inside a frame, a reset connection and a refused stream all show
\* as an error first. (A body that ends after a whole frame without the Connect
\* end frame is indistinguishable from a complete one: nothing checks that the
\* end frame came.)
StreamFaithful ==
  LET refused == reader.pc = "off"
      broken == body = "cut" /\ \A i \in DOMAIN Whole : ~Final(Whole[i])
  IN CASE refused -> /\ Len(got) <= 1
                     /\ \A i \in DOMAIN got : got[i][1] = "error"
                     /\ app = "ended" => got # <<>>
       [] ~refused /\ body # "reset" ->
            LET all == IF broken THEN Append(Promised, Broken) ELSE Promised IN
            /\ IsPrefix(got, all)
            /\ app = "ended" => got = all
       [] OTHER -> \/ IsPrefix(got, Promised) /\ (app = "ended" => Finished /\ got = Promised)
                   \/ \E n \in 0..Len(Promised) : got = Append(SubSeq(Promised, 1, n), Broken)

\* The gateway's verdict on a record or an entry, retry or not, reaches the caller
\* over either of two ways: of a published record the SDK reads the code alone
\* (messaging.rs:411 ignores `retriable`), so the gateway must give code 14 to
\* just the retriable ones; of an acknowledged entry it reads `retriable` first
\* and the code after it (stubs.rs:521). That code is the broker's own number
\* when the broker refused (queue.rs:505), in a field where everybody else puts
\* gRPC codes: the ones that mean something there, 3, 5, 9 and 16, must all be
\* among the gateway's retriable ones, or the caller would be told that its
\* argument was invalid, its record not found or its credentials bad.
Judged(cause) == IF cause[1] = "record" THEN error_result(cause[2]) ELSE ack_error(cause[2])
VerdictSurvives ==
  \A c \in calls :
    LET cause == c.outcome.cause IN
    /\ cause[1] \in {"record", "entry"} => (c.kind = "transport" <=> Judged(cause).retriable)
    /\ cause[1] = "entry" /\ cause[2][1] = "server" => c.kind \in {"transport", "server_error"}

\* A stream that is over at the gateway is over for the application, even when
\* the connection stays up after the end frame.
StreamsDrain == (Finished \/ body # "open" \/ forwarder.last) ~> (app \in {"ended", "dropped"})

\* Dropping a stream frees both tasks (and with them the connection and the
\* group membership behind it), unless the gateway has nothing to send: neither
\* task looks at its receiver before it has something for it.
NothingToRead == body = "open" /\ taken = Len(response) /\ ~Finished
DroppedStreamsFreed ==
  (app = "dropped") ~> (NothingToRead \/ ({reader.pc, forwarder.pc} \subseteq {"off", "done"}))
=============================================================================
