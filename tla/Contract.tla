------------------------------- MODULE Contract -------------------------------
(***************************************************************************)
(* The vocabulary the conformance harness and the SDK adapters share: the  *)
(* commands and responses of the JSON-lines protocol and the versions of   *)
(* the contract. Both sides compare responses for equality, so a response  *)
(* keeps everything that a vector spells out: ids, offsets, counts, header *)
(* names, and the kind and wording of an error.                            *)
(*                                                                         *)
(* A value is the JSON document behind the base64 text: the set of its     *)
(* scalars, each with the keys that lead to it.                            *)
(***************************************************************************)
EXTENDS Naturals, Sequences

CONTRACT_MAJOR == 1
CONTRACT_MINOR_QUEUE_RPC == 1

\* Values that are not documents: text that is not base64, bytes that are not JSON.
NotBase64 == {<< <<>>, "not base64">>}
NotJson == {<< <<>>, "not JSON">>}

\* Response.
Hello(major, minor) == <<"hello", <<major, minor>> >>
Configured(bearer) == <<"ok", <<"bearer_configured", bearer>> >>
Published(offset) == <<"ok", <<"offset", offset>> >>
Done == <<"ok", <<"nothing">> >>
Message(m) == <<"message", [topic |-> m.topic, offset |-> m.offset, value |-> m.value, headers |-> m.headers]>>
Acquired(session, messages) == <<"ok", <<"messages", session, messages>> >>
Results(results) == <<"ok", <<"results", results>> >>
Error(kind, message) == <<"error", <<kind, message>> >>
InvalidArgument(message) == Error("invalid_argument", message)
Unimplemented(module, gated_on) == <<"error", <<"unimplemented", module, gated_on>> >>

\* One element of the answers to acquire, acknowledge and renew.
Delivery(m, count) == [topic |-> m.topic, offset |-> m.offset, value |-> m.value, headers |-> m.headers, delivery_count |-> count]
Result(id, accepted) == [message_id |-> id, error |-> IF accepted THEN "none" ELSE "queue message is not acquired"]

\* A step of an adapter or of a client: its next state and its answer.
Then(state, answer) == [state |-> state, answer |-> answer]

\* Early returns: the first check that holds decides the answer and nothing
\* changes; step is what happens when none does.
Checked(state, checks, step) ==
  LET failed == SelectSeq(checks, LAMBDA check : check[1]) IN
  IF failed = <<>> THEN step ELSE Then(state, Head(failed)[2])

\* The session id of a command that names none.
NoSession == <<"", 0>>

\* The document holds value at the end of the keys.
Holds(document, keys, value) == <<keys, value>> \in document

\* ContractVersion is ordered by major, then minor.
Before(v, w) == \/ v.major < w.major
                \/ v.major = w.major /\ v.minor < w.minor

\* ContractVersion::satisfies: the version is in the vector's range.
satisfies(v, vector) == /\ ~Before(v, vector.since)
                        /\ \A until \in vector.until : ~Before(until, v)
=============================================================================
