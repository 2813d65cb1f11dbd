--------------------------- MODULE QueueSessions ---------------------------
(***************************************************************************)
(* Queue sessions of one gateway process (crates/gateway/src/queue.rs).    *)
(* queue_acquire starts a session, which owns a share-group consumer, or   *)
(* polls an existing one; queue_acknowledge and queue_renew act on the     *)
(* records a session has acquired.  Idle sessions expire; a semaphore of   *)
(* MAX_SESSIONS permits bounds them, and a permit comes back when the last *)
(* reference to its session is dropped.                                    *)
(*                                                                         *)
(* The broker's share group is external: it hands records to members under *)
(* a lock that runs out.  Time is abstracted to the fact that a session    *)
(* has been idle for SESSION_IDLE since it was last touched.  Principals,  *)
(* groups and the contents of messages are left out.                       *)
(***************************************************************************)
EXTENDS Integers, FiniteSets

CONSTANTS
  Sessions,      \* session ids; each is used once
  Requests,      \* RPCs
  Records,       \* coordinates (topic, partition, offset) of the queue
  MAX_SESSIONS,
  max_messages,  \* the limit the sessions were created with
  None, Done,    \* holder of a free record, of one that is finished with
  MaxFaults      \* bound: failed backend calls and cancelled RPCs

ASSUME BoundsAssumption ==
  MAX_SESSIONS \in Nat \ {0} /\ max_messages \in Nat \ {0} /\ MaxFaults \in Nat
ASSUME FiniteAssumption == IsFiniteSet(Sessions) /\ IsFiniteSet(Records)
ASSUME NamesAssumption == None # Done /\ {None, Done} \cap Sessions = {}

VARIABLES
  holder,       \* holder[r]: the session whose member has r locked (external)
  sessions,     \* the ids in the table
  consumer,     \* consumer[s]: the native consumer of s
  closing,      \* the sessions with a close_removed task
  expired,      \* expired[s]: is_expired
  coordinates,  \* coordinates[s]: the tracked batch
  pc,           \* pc[q]: where RPC q is
  session,      \* session[q]: the session q holds a reference to, or None
  is_new,       \* is_new[q]: queue_acquire created that session
  entries,      \* entries[q]: what is left of the request's entries
  untracked,    \* sessions with a poll that failed, or was dropped, after the
                \* broker had locked records for it
  faults

tableVars == <<sessions, closing, expired>>
rpcVars == <<pc, session, is_new, entries>>
vars == <<holder, consumer, tableVars, coordinates, rpcVars, untracked, faults>>

Working == {"polling", "acknowledging", "renewing"}
Waiting == {"acquire", "acknowledge", "renew"}

Types ==
  /\ holder \in [Records -> Sessions \cup {None, Done}]
  /\ sessions \in SUBSET Sessions
  /\ consumer \in [Sessions -> {"none", "open", "closed"}]
  /\ closing \in SUBSET Sessions
  /\ expired \in [Sessions -> BOOLEAN]
  /\ coordinates \in [Sessions -> SUBSET Records]
  /\ pc \in [Requests -> {"idle", "starting", "returned"} \cup Waiting \cup Working]
  /\ session \in [Requests -> Sessions \cup {None}]
  /\ is_new \in [Requests -> BOOLEAN]
  /\ entries \in [Requests -> SUBSET Records]
  /\ untracked \in SUBSET Sessions
  /\ faults \in Nat

\* Every variable holds a value of its type, and no session tracks more than one
\* batch of max_messages: record_batch never grows past its limit.
TypeOK ==
  Types /\ \A s \in Sessions : Cardinality(coordinates[s]) <= max_messages

Init ==
  /\ holder = [r \in Records |-> None]
  /\ sessions = {} /\ closing = {} /\ untracked = {}
  /\ consumer = [s \in Sessions |-> "none"]
  /\ expired = [s \in Sessions |-> FALSE]
  /\ coordinates = [s \in Sessions |-> {}]
  /\ pc = [q \in Requests |-> "idle"]
  /\ session = [q \in Requests |-> None]
  /\ is_new = [q \in Requests |-> FALSE]
  /\ entries = [q \in Requests |-> {}]
  /\ faults = 0

Fault == faults < MaxFaults /\ faults' = faults + 1

-----------------------------------------------------------------------------
(* QueueSessionTable.                                                      *)

\* Fault injection: a session gives its permit back when it leaves the table.
Referenced_Table(s) == s \in sessions

\* Somebody holds a reference to session s, and so keeps its permit.
Referenced(s) ==
  s \in sessions \cup closing \/ \E q \in Requests : session[q] = s

Starting == {q \in Requests : pc[q] = "starting"}

PermitsTaken == Cardinality({s \in Sessions : Referenced(s)}) + Cardinality(Starting)

touch(s) == expired' = [expired EXCEPT ![s] = FALSE]

\* Take s out of the table, if it is still there, and spawn close_removed.
remove(s) ==
  /\ sessions' = sessions \ {s}
  /\ closing' = closing \cup ({s} \cap sessions)
  /\ UNCHANGED expired

\* Fault injection: a session with outstanding records is kept.
remove_expired_Idle(s) ==
  /\ s \in sessions /\ expired[s] /\ coordinates[s] = {}
  /\ remove(s)
  /\ UNCHANGED <<holder, consumer, coordinates, rpcVars, untracked, faults>>

\* The sweeper, at one id of its list.
remove_expired(s) ==
  /\ s \in sessions /\ expired[s]
  /\ remove(s)
  /\ UNCHANGED <<holder, consumer, coordinates, rpcVars, untracked, faults>>

\* The consumer mutex of s is free.
ConsumerFree(s) == \A q \in Requests : session[q] = s => pc[q] \notin Working

\* close_removed gets the consumer mutex and closes the consumer; the broker
\* releases what the member held, or never hears of it.
close_removed(s) ==
  /\ s \in closing /\ ConsumerFree(s)
  /\ consumer' = [consumer EXCEPT ![s] = "closed"]
  /\ closing' = closing \ {s}
  /\ \/ holder' = [r \in Records |-> IF holder[r] = s THEN None ELSE holder[r]]
     \/ UNCHANGED holder
  /\ UNCHANGED <<sessions, expired, coordinates, rpcVars, untracked, faults>>

\* SESSION_IDLE has passed since the last touch.
IdleElapses(s) ==
  /\ s \in sessions /\ ~expired[s]
  /\ expired' = [expired EXCEPT ![s] = TRUE]
  /\ UNCHANGED <<holder, consumer, sessions, closing, coordinates, rpcVars,
                 untracked, faults>>

-----------------------------------------------------------------------------
(* The RPCs.                                                               *)

\* RPC q ends: its reference is dropped, and the consumer mutex with it.
Return(q) ==
  /\ pc' = [pc EXCEPT ![q] = "returned"]
  /\ session' = [session EXCEPT ![q] = None]
  /\ is_new' = [is_new EXCEPT ![q] = FALSE]
  /\ entries' = [entries EXCEPT ![q] = {}]

\* queue_acquire without a session id: reserve a permit, or be refused.
reserve(q) ==
  /\ pc[q] = "idle"
  /\ pc' = [pc EXCEPT ![q] = IF PermitsTaken < MAX_SESSIONS THEN "starting" ELSE "returned"]
  /\ UNCHANGED <<holder, consumer, tableVars, coordinates, session, is_new, entries,
                 untracked, faults>>

\* start_session has built the consumer; insert.
start_session(q, s) ==
  /\ pc[q] = "starting"
  /\ consumer[s] = "none"
  /\ consumer' = [consumer EXCEPT ![s] = "open"]
  /\ sessions' = sessions \cup {s}
  /\ touch(s)
  /\ session' = [session EXCEPT ![q] = s]
  /\ is_new' = [is_new EXCEPT ![q] = TRUE]
  /\ pc' = [pc EXCEPT ![q] = "acquire"]
  /\ UNCHANGED <<holder, closing, coordinates, entries, untracked, faults>>

\* The consumer cannot be built, or the arguments are refused: the permit is
\* dropped.
StartFails(q) ==
  /\ pc[q] = "starting"
  /\ Return(q)
  /\ UNCHANGED <<holder, consumer, tableVars, coordinates, untracked, faults>>

\* get finds the session, which the RPC keeps (an acknowledgement or a renewal
\* with any entries) or which its arguments do not fit.
get(q, s) ==
  /\ pc[q] = "idle"
  /\ s \in sessions /\ ~expired[s]
  /\ touch(s)
  /\ \/ /\ session' = [session EXCEPT ![q] = s]
        /\ \/ /\ pc' = [pc EXCEPT ![q] = "acquire"]
              /\ UNCHANGED entries
           \/ \E l \in {"acknowledge", "renew"}, E \in SUBSET Records :
                /\ pc' = [pc EXCEPT ![q] = l]
                /\ entries' = [entries EXCEPT ![q] = E]
        /\ UNCHANGED is_new
     \/ Return(q)
  /\ UNCHANGED <<holder, consumer, sessions, closing, coordinates, untracked, faults>>

\* get finds that the session has expired, or does not find it.
GetExpired(q, s) ==
  /\ pc[q] = "idle"
  /\ consumer[s] # "none"
  /\ s \in sessions => expired[s]
  /\ remove(s)
  /\ Return(q)
  /\ UNCHANGED <<holder, consumer, coordinates, untracked, faults>>

can_poll(s) == coordinates[s] = {}

\* queue_acquire gets the consumer mutex.
LockToPoll(q) ==
  LET s == session[q] IN
  /\ pc[q] = "acquire" /\ ConsumerFree(s)
  /\ \/ /\ can_poll(s)
        /\ pc' = [pc EXCEPT ![q] = "polling"]
        /\ UNCHANGED <<session, is_new, entries>>
     \/ ~can_poll(s) /\ Return(q)
  /\ UNCHANGED <<holder, consumer, tableVars, coordinates, untracked, faults>>

\* The broker locks the records B for the member of s (external).
Acquired(s, B) ==
  /\ \A r \in B : holder[r] = None
  /\ holder' = [r \in Records |-> IF r \in B THEN s ELSE holder[r]]

\* The batch is larger than the session allows.
exceeds_limit(B) == Cardinality(B) > max_messages

\* The poll answers with B: record_batch and return.
PollTracked(q, B) ==
  LET s == session[q] IN
  /\ pc[q] = "polling" /\ consumer[s] = "open"
  /\ ~exceeds_limit(B)
  /\ Acquired(s, B)
  /\ coordinates' = [coordinates EXCEPT ![s] = @ \cup B]
  /\ touch(s)
  /\ Return(q)
  /\ UNCHANGED <<consumer, sessions, closing, untracked, faults>>

\* ... with too many records, which are not tracked: the session is given up.
LimitExceeded(q, B) ==
  LET s == session[q] IN
  /\ pc[q] = "polling" /\ consumer[s] = "open"
  /\ exceeds_limit(B)
  /\ Acquired(s, B)
  /\ remove(s)
  /\ Return(q)
  /\ UNCHANGED <<consumer, coordinates, untracked, faults>>

\* What a poll leaves at the broker when nobody learns of its answer.
PollLost(s) ==
  \/ UNCHANGED <<holder, untracked>>
  \/ /\ consumer[s] = "open"
     /\ \E B \in SUBSET Records \ {{}} : Acquired(s, B)
     /\ untracked' = untracked \cup {s}

\* The poll fails, at the latest when the consumer is closed: a session that
\* has just been created is given up, another one is kept.
PollFails(q) ==
  LET s == session[q] IN
  /\ pc[q] = "polling"
  /\ IF consumer[s] = "open" THEN Fault ELSE UNCHANGED faults
  /\ PollLost(s)
  /\ IF is_new[q] THEN remove(s) ELSE UNCHANGED tableVars
  /\ Return(q)
  /\ UNCHANGED <<consumer, coordinates>>

\* queue_acknowledge or queue_renew gets the consumer mutex.
LockToCommit(q) ==
  /\ pc[q] \in {"acknowledge", "renew"} /\ ConsumerFree(session[q])
  /\ pc' = [pc EXCEPT ![q] = IF @ = "renew" THEN "renewing" ELSE "acknowledging"]
  /\ UNCHANGED <<holder, consumer, tableVars, coordinates, session, is_new, entries,
                 untracked, faults>>

\* Fault injection: any answer to a renewal is taken for the broker's verdict.
acknowledgement_releases_tracking_Renew(op, verdict) == verdict \in {"ok", "invalid"}

\* Success, or INVALID_RECORD_STATE, of a disposition.
acknowledgement_releases_tracking(op, verdict) ==
  op = "acknowledging" /\ verdict \in {"ok", "invalid"}

\* The verdicts the broker may return: a broker without renewal refuses one of
\* a record that is still locked.
Verdicts(op, s, r) ==
  IF consumer[s] = "closed" THEN {"error"}
  ELSE IF holder[r] # s THEN {"invalid", "error"}
  ELSE IF op = "renewing" THEN {"ok", "invalid", "error"} ELSE {"ok", "error"}

\* The broker applies a disposition (accept or reject, release).
Dispose(s, r) ==
  /\ holder[r] = s
  /\ \E h \in {Done, None} : holder' = [holder EXCEPT ![r] = h]

\* One entry of the request: not acquired, or a call to the broker.  A
\* disposition may be applied although its answer is an error.
acknowledge_entry(q, r) ==
  LET s == session[q] IN
  /\ pc[q] \in {"acknowledging", "renewing"}
  /\ r \in entries[q]
  /\ \/ r \notin coordinates[s] /\ UNCHANGED <<holder, coordinates, faults>>
     \/ /\ r \in coordinates[s]
        /\ \E v \in Verdicts(pc[q], s, r) :
             /\ coordinates' =
                  IF acknowledgement_releases_tracking(pc[q], v)
                  THEN [coordinates EXCEPT ![s] = @ \ {r}] ELSE coordinates
             /\ IF pc[q] = "acknowledging" /\ v = "ok"
                THEN Dispose(s, r)
                ELSE UNCHANGED holder
                     \/ (pc[q] = "acknowledging" /\ v = "error" /\ consumer[s] = "open"
                          /\ Dispose(s, r))
             /\ IF v = "error" /\ consumer[s] = "open" THEN Fault ELSE UNCHANGED faults
  /\ entries' = [entries EXCEPT ![q] = @ \ {r}]
  /\ UNCHANGED <<consumer, tableVars, pc, session, is_new, untracked>>

\* All entries are through: touch and return.
EntriesDone(q) ==
  /\ pc[q] \in {"acknowledging", "renewing"} /\ entries[q] = {}
  /\ touch(session[q])
  /\ Return(q)
  /\ UNCHANGED <<holder, consumer, sessions, closing, coordinates, untracked, faults>>

\* The client goes away: the future is dropped wherever it awaits, a poll or a
\* disposition perhaps after it has reached the broker.
Cancel(q) ==
  /\ pc[q] \in {"starting"} \cup Waiting \cup Working
  /\ Fault
  /\ \/ pc[q] # "polling" /\ UNCHANGED <<holder, untracked>>
     \/ pc[q] = "polling" /\ PollLost(session[q])
     \/ /\ pc[q] = "acknowledging" /\ consumer[session[q]] = "open"
        /\ \E r \in entries[q] \cap coordinates[session[q]] : Dispose(session[q], r)
        /\ UNCHANGED untracked
  /\ Return(q)
  /\ UNCHANGED <<consumer, tableVars, coordinates>>

-----------------------------------------------------------------------------
(* The broker (external).                                                  *)

\* The lock on r runs out: any member may acquire it again.
LockExpires(r) ==
  /\ holder[r] \in Sessions
  /\ holder' = [holder EXCEPT ![r] = None]
  /\ UNCHANGED <<consumer, tableVars, coordinates, rpcVars, untracked, faults>>

Rpc(q) ==
  \/ StartFails(q) \/ LockToPoll(q) \/ PollFails(q) \/ LockToCommit(q) \/ EntriesDone(q)
  \/ \E s \in Sessions : start_session(q, s)
  \/ \E B \in SUBSET Records : PollTracked(q, B) \/ LimitExceeded(q, B)
  \/ \E r \in Records : acknowledge_entry(q, r)

Next ==
  \/ \E q \in Requests :
       \/ reserve(q) \/ Rpc(q) \/ Cancel(q)
       \/ \E s \in Sessions : get(q, s) \/ GetExpired(q, s)
  \/ \E s \in Sessions : remove_expired(s) \/ close_removed(s) \/ IdleElapses(s)
  \/ \E r \in Records : LockExpires(r)

Spec == Init /\ [][Next]_vars

-----------------------------------------------------------------------------
(* Safety.                                                                 *)

\* While a session can be used, every record the broker holds locked for it is
\* tracked, so that its client can acknowledge it: no verdict, expiry, renewal
\* or concurrent RPC makes the gateway forget a live lock.  The exception is a
\* poll whose answer was lost.  (README.md:64, "The gateway does not use a
\* local timeout to discard a lease that the broker may still consider valid".)
LockedIsTracked ==
  \A s \in sessions \ untracked : \A r \in Records :
    holder[r] = s => r \in coordinates[s]

\* One batch at a time: the broker never holds more than max_messages records
\* for a session that can be used.
OneBatchAtATime ==
  \A s \in sessions \ untracked :
    Cardinality({r \in Records : holder[r] = s}) <= max_messages

\* The native consumers that exist, being built or not closed yet, are never
\* more than MAX_SESSIONS, however slowly removed sessions are closed.
ConsumersBounded ==
  Cardinality({s \in Sessions : consumer[s] = "open"}) + Cardinality(Starting)
    <= MAX_SESSIONS

\* The table of sessions stays within its bounds (queue.rs): one batch per
\* session, and no more live consumers than permits.
SessionsBounded == TypeOK /\ OneBatchAtATime /\ ConsumersBounded

-----------------------------------------------------------------------------
(* Liveness.                                                               *)

\* Broker calls end by an answer or by their timeout, spawned tasks run, time
\* passes and the sweeper ticks.  Clients owe nothing.
Fairness ==
  /\ \A q \in Requests : WF_vars(Rpc(q))
  /\ \A s \in Sessions :
       WF_vars(remove_expired(s)) /\ WF_vars(close_removed(s)) /\ WF_vars(IdleElapses(s))

FairSpec == Spec /\ Fairness

\* A session whose client has gone gives its permit back: the table does not
\* stay full.
CapacityReturns == \A s \in Sessions : Referenced(s) ~> ~Referenced(s)

=============================================================================
