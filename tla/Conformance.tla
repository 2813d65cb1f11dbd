----------------------------- MODULE Conformance -----------------------------
(***************************************************************************)
(* A run of the conformance harness: it asks the adapter for its contract  *)
(* version, selects the vectors, boots a substrate when it is asked to,    *)
(* and runs every vector in an adapter process of its own, one command at  *)
(* a time over the pipes, until the first answer that is not the one the   *)
(* vector records.                                                         *)
(*                                                                         *)
(* A vector's steps are any commands of its vocabulary, and the answer it  *)
(* records is the one the reference adapter gives at the vector's version: *)
(* that is how the vectors of the repository are validated. The adapter    *)
(* under test is the Rust SDK's, or the reference one with or without a    *)
(* fault.                                                                  *)
(***************************************************************************)
EXTENDS Contract, FiniteSets, SequencesExt

CONSTANTS
  Vectors,     \* the vector files in name order: [id, since, until, live_only, live, commands, steps];
               \* steps bounds the length of the vector
  Setups,      \* [adapter, minor, fault, filter, substrate, compatible]: how the harness is started
  MaxFaults    \* bound: adapters that die or do not answer, substrates that fail

Sdk == INSTANCE AppSdk
Ref == INSTANCE MockAdapter

VARIABLES
  setup,       \* HarnessConfig and the adapter executable
  phase,       \* "discover", "plan", "boot", "next", "hello", "configure", "steps", "stop", "done" or "aborted"
  version,     \* the adapter's contract version
  todo,        \* vectors still to run, the current one first
  summary,     \* [passed, failed, skipped]: ids, in order
  process,     \* the adapter process: [alive, state, question, answer], each of the last two empty or one
  reference,   \* the reference adapter at the current vector's version
  expect,      \* the answer the current step records
  steps,       \* commands of the current vector so far
  horizon,     \* messages there were when the reference adapter last subscribed (history)
  strayed,     \* vectors that have left what both adapters promise (history)
  wrong,       \* vectors one of whose commands was answered wrongly (history)
  faults

harnessVars == <<setup, phase, version, todo, summary, process, reference, expect, steps, horizon, strayed, wrong, faults>>
history == <<horizon, strayed, wrong>>

NoProcess == [alive |-> FALSE, state |-> <<>>, question |-> <<>>, answer |-> <<>>]

\* AdapterProcess::spawn: every vector, and the question for the version, has
\* a process with nothing in it.
spawn == [alive |-> TRUE, question |-> <<>>, answer |-> <<>>,
          state |-> <<IF setup.adapter = "sdk" THEN Sdk!new ELSE Ref!new(setup.minor, setup.fault)>>]

\* What the adapter under test does with a command. On the live substrate the
\* answer is the gateway's: it may be what the vector records or not.
HandleUnderTest(state, command) == IF setup.adapter = "sdk" THEN Sdk!handle(state, command) ELSE Ref!handle(state, command)
Other == <<"ok", <<"something else">> >>
\* The part of an adapter's life that is the same on every substrate.
Handshake == {"discover", "hello", "configure"}

\* AdapterProcess::call: one line out, then one line back.
Ask(p, command) == [p EXCEPT !.question = <<command>>]

HarnessInit ==
  /\ setup \in Setups
  /\ phase = "discover"
  /\ version = [major |-> 0, minor |-> 0]
  /\ todo = <<>>
  /\ summary = [passed |-> <<>>, failed |-> <<>>, skipped |-> <<>>]
  /\ process = Ask(spawn, [cmd |-> "hello"])
  /\ reference = <<>> /\ expect = <<>> /\ steps = 0 /\ horizon = 0
  /\ strayed = {} /\ wrong = {} /\ faults = 0

\* The adapter's main loop: it handles the command and writes its answer.
AdapterAnswers ==
  /\ process.alive /\ process.question # <<>>
  /\ LET r == HandleUnderTest(process.state[1], process.question[1]) IN
     \/ /\ setup.substrate = "external" \/ phase \in Handshake
        /\ process' = [process EXCEPT !.state = <<r.state>>, !.question = <<>>, !.answer = <<r.answer>>]
     \/ /\ setup.substrate = "live" /\ phase \notin Handshake
        /\ \E answer \in {expect, <<Other>>} : process' = [process EXCEPT !.question = <<>>, !.answer = answer]
  /\ wrong' = wrong \cup IF phase \in {"configure", "steps"} /\ process'.answer # expect THEN {todo[1].id} ELSE {}
  /\ UNCHANGED <<setup, phase, version, todo, summary, reference, expect, steps, horizon, strayed, faults>>

\* The adapter dies before it answers.
AdapterDies ==
  /\ process.alive /\ process.question # <<>>
  /\ faults < MaxFaults /\ faults' = faults + 1
  /\ process' = [process EXCEPT !.alive = FALSE]
  /\ UNCHANGED <<setup, phase, version, todo, summary, reference, expect, steps, history>>

\* A harness error ends run_vector, and with it the run: the process is killed
\* when it is dropped, and a live substrate is shut down first.
Abort == /\ phase' = IF setup.substrate = "live" /\ phase \in {"hello", "configure", "steps"} THEN "stop and abort" ELSE "aborted"
         /\ process' = NoProcess

\* call reads end of file, or ADAPTER_CALL_TIMEOUT runs out.
CallFails ==
  /\ process.question # <<>>
  /\ \/ ~process.alive /\ UNCHANGED faults
     \/ process.alive /\ faults < MaxFaults /\ faults' = faults + 1
  /\ Abort
  /\ UNCHANGED <<setup, version, todo, summary, reference, expect, steps, history>>
-----------------------------------------------------------------------------
\* discover_adapter_version; the process is dropped with the answer.
Discover ==
  /\ phase = "discover" /\ process.answer # <<>>
  /\ LET hello == process.answer[1] IN
     /\ version' = [major |-> hello[2][1], minor |-> hello[2][2]]
     /\ phase' = IF hello[1] = "hello" /\ hello[2][1] = CONTRACT_MAJOR THEN "plan" ELSE "aborted"
  /\ process' = NoProcess
  /\ UNCHANGED <<setup, todo, summary, reference, expect, steps, history, faults>>

Ids(vectors) == [i \in DOMAIN vectors |-> vectors[i].id]

newer_contract_skips(v, vectors) == SelectSeq(vectors, LAMBDA x : Before(v, x.since))

\* --filter names one vector.
Named(vectors) == SelectSeq(vectors, LAMBDA x : \A id \in setup.filter : x.id = id)

\* LiveCompatiblePlan::from_full_vectors.
from_full_vectors(vectors) ==
  [vectors |-> SelectSeq(vectors, LAMBDA x : x.live), skipped |-> SelectSeq(vectors, LAMBDA x : ~x.live)]

\* run, up to the substrate: which vectors run and which are reported as skipped.
Plan ==
  /\ phase = "plan"
  /\ LET applicable == Named(SelectSeq(Vectors, LAMBDA x : satisfies(version, x)))
         live == setup.substrate = "live"
         offline == IF live THEN <<>> ELSE SelectSeq(applicable, LAMBDA x : x.live_only)
         runnable == IF live THEN applicable ELSE SelectSeq(applicable, LAMBDA x : ~x.live_only)
         plan == IF setup.compatible THEN from_full_vectors(runnable) ELSE [vectors |-> runnable, skipped |-> <<>>]
     IN /\ todo' = plan.vectors
        /\ summary' = [summary EXCEPT !.skipped = Ids(Named(newer_contract_skips(version, Vectors)) \o offline \o plan.skipped)]
        /\ phase' = IF live THEN "boot" ELSE "next"
  /\ UNCHANGED <<setup, version, process, reference, expect, steps, history, faults>>

\* LiveSubstrate::boot: broker, topics, share groups and gateway, or an error.
Boot ==
  /\ phase = "boot"
  /\ \/ phase' = "next" /\ UNCHANGED faults
     \/ phase' = "aborted" /\ faults < MaxFaults /\ faults' = faults + 1
  /\ UNCHANGED <<setup, version, todo, summary, process, reference, expect, steps, history>>

\* run_vectors_with_endpoint: the next vector, in a process of its own, or the end.
NextVector ==
  /\ phase = "next"
  /\ IF todo = <<>>
     THEN /\ phase' = IF setup.substrate = "live" THEN "stop" ELSE "done"
          /\ UNCHANGED <<process, reference>>
     ELSE /\ phase' = "hello"
          /\ process' = Ask(spawn, [cmd |-> "hello"])
          /\ reference' = <<Ref!new(todo[1].since.minor, "none")>>
  /\ horizon' = 0 /\ steps' = 0
  /\ UNCHANGED <<setup, version, todo, summary, expect, strayed, wrong, faults>>

\* The vector is over: the process is dropped.
Conclude(how) ==
  /\ summary' = [summary EXCEPT ![how] = Append(@, todo[1].id)]
  /\ todo' = Tail(todo)
  /\ phase' = "next"
  /\ process' = NoProcess /\ reference' = <<>> /\ expect' = <<>>

TheConfigure == [cmd |-> "configure", endpoint |-> "mock", bearer |-> FALSE]

\* run_vector: hello, then configure, each compared before the next is sent.
HelloAnswered ==
  /\ phase = "hello" /\ process.answer # <<>>
  /\ LET hello == process.answer[1] IN
     IF hello[1] = "hello" /\ satisfies([major |-> hello[2][1], minor |-> hello[2][2]], todo[1])
     THEN /\ phase' = "configure"
          /\ process' = Ask([process EXCEPT !.answer = <<>>], TheConfigure)
          /\ expect' = <<Configured(FALSE)>>
          /\ UNCHANGED <<todo, summary, reference>>
     ELSE Conclude("failed")
  /\ UNCHANGED <<setup, version, steps, history, faults>>

ConfigureAnswered ==
  /\ phase = "configure" /\ process.answer # <<>>
  /\ IF process.answer = expect
     THEN /\ phase' = "steps"
          /\ process' = [process EXCEPT !.answer = <<>>]
          /\ UNCHANGED <<todo, summary, reference, expect>>
     ELSE Conclude("failed")
  /\ UNCHANGED <<setup, version, steps, history, faults>>

\* Commands on which the two adapters differ by design: the reference one
\* keeps its state when it is configured again, ignores an unreachable endpoint
\* except to publish, stores what is not base64, takes a nested filter path for
\* one key, follows the topics it is subscribed to, and takes any message id
\* and an empty session id for ones it does not know.
Strays(a, c) ==
  CASE c.cmd = "configure" -> a.messages # <<>> \/ a.sessions # <<>> \/ a.subscription.next # 0
    [] c.cmd = "publish" -> c.value = NotBase64
    [] c.cmd = "subscribe" -> a.endpoint = "unreachable" \/ \E f \in c.filter : Len(f.segments) > 1
    [] c.cmd = "next_message" -> \E i \in DOMAIN a.messages : i > horizon /\ a.messages[i].topic \in a.subscription.topics
    [] c.cmd = "queue_acquire" -> a.endpoint = "unreachable"
    [] c.cmd \in {"queue_acknowledge", "queue_renew"} ->
         \/ a.endpoint = "unreachable" \/ c.session_id = NoSession
         \/ \E k \in 1..Len(c.entries) : c.entries[k].message_id[1] = ""
    [] OTHER -> FALSE

\* The next step of the vector, with the answer the reference adapter gave.
SendStep ==
  /\ phase = "steps" /\ process.question = <<>> /\ process.answer = <<>>
  /\ steps < todo[1].steps
  /\ \E c \in todo[1].commands :
       LET r == Ref!handle(reference[1], c) IN
       /\ process' = Ask(process, c)
       /\ reference' = <<r.state>>
       /\ expect' = <<r.answer>>
       /\ strayed' = strayed \cup IF Strays(reference[1], c) THEN {todo[1].id} ELSE {}
       /\ horizon' = IF c.cmd = "subscribe" /\ r.answer = Done THEN Len(reference[1].messages) ELSE horizon
  /\ steps' = steps + 1
  /\ UNCHANGED <<setup, phase, version, todo, summary, wrong, faults>>

\* The answer to a step is compared; the first that differs is the failure.
StepAnswered ==
  /\ phase = "steps" /\ process.answer # <<>>
  /\ IF process.answer = expect
     THEN process' = [process EXCEPT !.answer = <<>>] /\ UNCHANGED <<phase, todo, summary, reference, expect>>
     ELSE Conclude("failed")
  /\ UNCHANGED <<setup, version, steps, history, faults>>

\* The vector has no more steps.
VectorEnds ==
  /\ phase = "steps" /\ process.question = <<>> /\ process.answer = <<>>
  /\ Conclude("passed")
  /\ UNCHANGED <<setup, version, steps, history, faults>>

\* LiveSubstrate::shutdown; its failure hides the result of the run.
Shutdown ==
  /\ phase \in {"stop", "stop and abort"}
  /\ \/ phase' = (IF phase = "stop" THEN "done" ELSE "aborted") /\ UNCHANGED faults
     \/ phase' = "aborted" /\ faults < MaxFaults /\ faults' = faults + 1
  /\ UNCHANGED <<setup, version, todo, summary, process, reference, expect, steps, history>>

HarnessNext ==
  \/ AdapterAnswers \/ AdapterDies \/ CallFails
  \/ Discover \/ Plan \/ Boot \/ NextVector
  \/ HelloAnswered \/ ConfigureAnswered \/ SendStep \/ StepAnswered \/ VectorEnds
  \/ Shutdown

\* The harness goes on. A vector is finite: the choice to send another step
\* (SendStep) is never owed.
HarnessGoesOn == \/ Discover \/ Plan \/ Boot \/ NextVector \/ HelloAnswered \/ ConfigureAnswered
                 \/ StepAnswered \/ VectorEnds \/ Shutdown
\* An adapter that lives answers, or its call times out: the timeout is a fact
\* of the clock, and what is read at the end of a pipe (CallFails) the harness's.
NoCall == process.alive => process.question = <<>>
-----------------------------------------------------------------------------
HarnessTypeOK ==
  /\ phase \in {"discover", "plan", "boot", "next", "hello", "configure", "steps", "stop", "stop and abort", "done", "aborted"}
  /\ phase \in {"hello", "configure", "steps"} => todo # <<>> /\ reference # <<>>
  /\ Len(process.question) + Len(process.answer) <= 1
  /\ phase \in {"next", "stop", "done", "aborted"} => ~process.alive
  /\ faults <= MaxFaults

\* A vector that does not apply to the adapter's version because it ended
\* before it (stub_queues) is neither run nor reported.
Retired(v) == \E until \in v.until : Before(until, version)

\* A finished run has accounted for every vector exactly once: passed, failed
\* or skipped with a reason, whatever the version of the adapter, the filter,
\* the substrate and the order of the exclusions.
EveryVectorAccounted ==
  phase = "done" =>
    \A k \in DOMAIN Vectors :
      LET v == Vectors[k]
          reports == SelectSeq(summary.passed \o summary.failed \o summary.skipped, LAMBDA id : id = v.id)
      IN Len(reports) = IF ~Retired(v) /\ \A id \in setup.filter : v.id = id THEN 1 ELSE 0

\* The two adapters agree: whatever the commands of a vector, the Rust SDK on
\* its mock backend answers as the reference adapter does, session names,
\* delivery counts and error texts included, and so does the reference adapter
\* at a later version; only vectors that stray into one of the known
\* differences may fail. The state of one vector never shows in the next.
ConformingAdapterPasses ==
  setup.substrate = "external" /\ setup.fault = "none" => ToSet(summary.failed) \subseteq strayed

\* A run's verdict is the adapter's doing: a vector fails if and only if one of
\* its commands was answered wrongly, so no fault of an adapter goes unnoticed.
VerdictsAreDeserved ==
  /\ ToSet(summary.failed) \subseteq wrong
  /\ ToSet(summary.passed) \cap wrong = {}

\* Every run comes to an end, with a summary or an error.
RunsEnd == <>(phase \in {"done", "aborted"})
=============================================================================
