------------------------------ MODULE Outbound ------------------------------
(***************************************************************************)
(* Outbound webhook delivery (crates/gateway/src/outbound.rs).  Every      *)
(* gateway runs run_subscription for a subscription, as a member of one    *)
(* consumer group: it polls a batch, delivers it partition by partition    *)
(* (each in offset order, partitions concurrently), retries, dead-letters  *)
(* what it cannot deliver, and commits when the whole batch is through.    *)
(*                                                                         *)
(* The consumer client, the group and the webhook target are external.     *)
(***************************************************************************)
EXTENDS Integers

CONSTANTS
  Members,       \* the gateways that run the subscription
  Partitions,
  End,           \* End[p]: offsets 0 .. End[p]-1 of p hold records
  Filtered,      \* Filtered[p]: offsets the subscription's filter drops
  Invalid,       \* Invalid[p]: offsets render_delivery fails on
  max_attempts,
  dead_letter_topic,   \* whether the subscription has one
  None,
  MaxFaults      \* bound: crashes, revocations, poll failures, failed commits

ASSUME LogAssumption ==
  /\ End \in [Partitions -> Nat]
  /\ Filtered \in [Partitions -> SUBSET Nat]
  /\ Invalid \in [Partitions -> SUBSET Nat]
ASSUME BoundsAssumption ==
  /\ max_attempts \in Nat \ {0} /\ MaxFaults \in Nat
  /\ dead_letter_topic \in BOOLEAN
ASSUME NoneAssumption == None \notin Members

VARIABLES
  committed,   \* committed[p]: the group's committed offset (external)
  coord,       \* coord[p]: the member p is assigned to (external)
  position,    \* position[m][p]: next offset m's consumer reads (external)
  pc,          \* pc[m]: where run_subscription of m is
  batch,       \* batch[m][p]: what deliver_batch still has to deliver of p
  attempt,     \* attempt[m][p]: attempts made for the first of these
  posted,      \* posted[p]: offsets sent to the target at least once
  settled,     \* settled[p]: delivered, filtered, dead-lettered or dropped
  lost,        \* lost[p]: given up although the dead-letter produce failed
  faults

vars == <<committed, coord, position, pc, batch, attempt, posted, settled, lost,
          faults>>

\* Every variable holds a value of its type; no record is tried more often than
\* max_attempts allows.
TypeOK ==
  /\ committed \in [Partitions -> Nat]
  /\ coord \in [Partitions -> Members \cup {None}]
  /\ position \in [Members -> [Partitions -> Nat]]
  /\ pc \in [Members -> {"poll", "deliver", "commit", "down"}]
  /\ batch \in [Members -> [Partitions -> SUBSET Nat]]
  /\ attempt \in [Members -> [Partitions -> 0 .. max_attempts - 1]]
  /\ posted \in [Partitions -> SUBSET Nat]
  /\ settled \in [Partitions -> SUBSET Nat]
  /\ lost \in [Partitions -> SUBSET Nat]
  /\ faults \in Nat

Init ==
  /\ committed = [p \in Partitions |-> 0]
  /\ coord = [p \in Partitions |-> None]
  /\ position = [m \in Members |-> [p \in Partitions |-> 0]]
  /\ pc = [m \in Members |-> "poll"]
  /\ batch = [m \in Members |-> [p \in Partitions |-> {}]]
  /\ attempt = [m \in Members |-> [p \in Partitions |-> 0]]
  /\ posted = [p \in Partitions |-> {}]
  /\ settled = [p \in Partitions |-> {}]
  /\ lost = [p \in Partitions |-> {}]
  /\ faults = 0

Offsets == UNION {0 .. End[p] : p \in Partitions}

\* A fault happens, if the bound allows another one.
Fault == faults < MaxFaults /\ faults' = faults + 1

-----------------------------------------------------------------------------
(* run_subscription.                                                       *)

\* poll returns records of some assigned partitions, up to the cuts n.
Poll(m) ==
  /\ pc[m] = "poll"
  /\ \E n \in [Partitions -> Offsets] :
       /\ n # position[m]
       /\ \A p \in Partitions :
            \/ coord[p] = m /\ position[m][p] <= n[p] /\ n[p] <= End[p]
            \/ n[p] = position[m][p]
       /\ batch' = [batch EXCEPT ![m] =
            [p \in Partitions |-> position[m][p] .. n[p] - 1]]
       /\ position' = [position EXCEPT ![m] = n]
  /\ pc' = [pc EXCEPT ![m] = "deliver"]
  /\ UNCHANGED <<committed, coord, attempt, posted, settled, lost, faults>>

\* poll returns nothing: the loop goes round.
PollEmpty(m) ==
  /\ pc[m] = "poll"
  /\ UNCHANGED vars

\* The group loses member m (external).
Leave(m) == coord' = [p \in Partitions |-> IF coord[p] = m THEN None ELSE coord[p]]

\* The loop ends between two batches: shutdown, or a poll that fails.  The
\* consumer is closed and the process ends.
LoopEnds(m) ==
  /\ pc[m] = "poll"
  /\ Fault
  /\ pc' = [pc EXCEPT ![m] = "down"]
  /\ Leave(m)
  /\ UNCHANGED <<committed, position, batch, attempt, posted, settled, lost>>

\* Fault injection: a partition is delivered as it arrives, in any order.
is_next_Unsorted(S, o) == o \in S

\* deliver_batch sorts every partition by offset and takes one after the other.
is_next(S, o) == o \in S /\ \A x \in S : o <= x

\* deliver_one is working on offset o of p.
Delivering(m, p, o) == pc[m] = "deliver" /\ is_next(batch[m][p], o)

\* deliver_one returns: the next record of the partition is due.
Advance(m, p, o) ==
  /\ batch' = [batch EXCEPT ![m][p] = @ \ {o}]
  /\ attempt' = [attempt EXCEPT ![m][p] = 0]
  /\ UNCHANGED <<committed, coord, position, pc, faults>>

Settle(p, o) == settled' = [settled EXCEPT ![p] = @ \cup {o}] /\ UNCHANGED lost

\* The filter does not match.
Skip(m, p, o) ==
  /\ Delivering(m, p, o)
  /\ o \in Filtered[p]
  /\ Settle(p, o)
  /\ Advance(m, p, o)
  /\ UNCHANGED posted

\* dead_letter: drop the record, or write it to the dead-letter topic, which
\* may fail and is then only logged.
dead_letter(p, o) ==
  \/ Settle(p, o)
  \/ /\ dead_letter_topic
     /\ lost' = [lost EXCEPT ![p] = @ \cup {o}]
     /\ UNCHANGED settled

\* A record that cannot be rendered is never sent.
RenderFails(m, p, o) ==
  /\ Delivering(m, p, o)
  /\ o \in Invalid[p] \ Filtered[p]
  /\ dead_letter(p, o)
  /\ Advance(m, p, o)
  /\ UNCHANGED posted

Post(m, p, o) ==
  /\ Delivering(m, p, o)
  /\ o \notin Invalid[p] \cup Filtered[p]
  /\ posted' = [posted EXCEPT ![p] = @ \cup {o}]

\* The target answers 2xx.
Delivered(m, p, o) ==
  /\ Post(m, p, o)
  /\ Settle(p, o)
  /\ Advance(m, p, o)

next_attempt(n) == n + 1

exhausted(n) == n >= max_attempts

\* Any other answer, or none in time: once more after the backoff.
Retry(m, p, o) ==
  /\ Post(m, p, o)
  /\ ~exhausted(next_attempt(attempt[m][p]))
  /\ attempt' = [attempt EXCEPT ![m][p] = next_attempt(@)]
  /\ UNCHANGED <<committed, coord, position, pc, batch, settled, lost, faults>>

\* Fault injection: start over.
Exhausted_StartsOver(m, p, o) ==
  /\ Post(m, p, o)
  /\ exhausted(next_attempt(attempt[m][p]))
  /\ attempt' = [attempt EXCEPT ![m][p] = 0]
  /\ UNCHANGED <<committed, coord, position, pc, batch, settled, lost, faults>>

\* ... until the attempts are exhausted.
Exhausted(m, p, o) ==
  /\ Post(m, p, o)
  /\ exhausted(next_attempt(attempt[m][p]))
  /\ dead_letter(p, o)
  /\ Advance(m, p, o)

\* Fault injection: the first partition to finish ends the wait.
joined_Any(m) == \E p \in Partitions : batch[m][p] = {} /\ coord[p] = m

\* join_all: every partition is through.
joined(m) == \A p \in Partitions : batch[m][p] = {}

BatchDone(m) ==
  /\ pc[m] = "deliver"
  /\ joined(m)
  /\ pc' = [pc EXCEPT ![m] = "commit"]
  /\ UNCHANGED <<committed, coord, position, batch, attempt, posted, settled,
                 lost, faults>>

\* commit_sync: the position of every partition that is still assigned.
Commit(m) ==
  /\ pc[m] = "commit"
  /\ committed' = [p \in Partitions |-> IF coord[p] = m THEN position[m][p] ELSE committed[p]]
  /\ pc' = [pc EXCEPT ![m] = "poll"]
  /\ UNCHANGED <<coord, position, batch, attempt, posted, settled, lost, faults>>

\* A failed commit is logged; the next one covers this batch too.
CommitFails(m) ==
  /\ pc[m] = "commit"
  /\ Fault
  /\ pc' = [pc EXCEPT ![m] = "poll"]
  /\ UNCHANGED <<committed, coord, position, batch, attempt, posted, settled, lost>>

\* The process dies, with a batch half delivered or a commit half done.
Crash(m) ==
  /\ pc[m] # "down"
  /\ Fault
  /\ \/ UNCHANGED committed
     \/ /\ pc[m] = "commit"
        /\ committed' = [p \in Partitions |->
             IF coord[p] = m THEN position[m][p] ELSE committed[p]]
  /\ pc' = [pc EXCEPT ![m] = "down"]
  /\ batch' = [batch EXCEPT ![m] = [p \in Partitions |-> {}]]
  /\ attempt' = [attempt EXCEPT ![m] = [p \in Partitions |-> 0]]
  /\ Leave(m)
  /\ UNCHANGED <<position, posted, settled, lost>>

Start(m) ==
  /\ pc[m] = "down"
  /\ pc' = [pc EXCEPT ![m] = "poll"]
  /\ UNCHANGED <<committed, coord, position, batch, attempt, posted, settled, lost, faults>>

-----------------------------------------------------------------------------
(* The consumer group (external): in the background of a delivery, too.    *)

Assign(m, p) ==
  /\ pc[m] # "down"
  /\ coord[p] = None
  /\ coord' = [coord EXCEPT ![p] = m]
  /\ position' = [position EXCEPT ![m][p] = committed[p]]
  /\ UNCHANGED <<committed, pc, batch, attempt, posted, settled, lost, faults>>

Revoke(p) ==
  /\ coord[p] # None
  /\ Fault
  /\ coord' = [coord EXCEPT ![p] = None]
  /\ UNCHANGED <<committed, position, pc, batch, attempt, posted, settled, lost>>

Next ==
  \/ \E m \in Members :
       \/ Poll(m) \/ PollEmpty(m) \/ LoopEnds(m) \/ BatchDone(m)
       \/ Commit(m) \/ CommitFails(m) \/ Crash(m) \/ Start(m)
       \/ \E p \in Partitions :
            \/ Assign(m, p)
            \/ \E o \in batch[m][p] :
                 \/ Skip(m, p, o) \/ RenderFails(m, p, o) \/ Delivered(m, p, o)
                 \/ Retry(m, p, o) \/ Exhausted(m, p, o)
  \/ \E p \in Partitions : Revoke(p)

Spec == Init /\ [][Next]_vars

-----------------------------------------------------------------------------
(* Safety.                                                                 *)

\* Records the batch may leave behind.
Through(p) == settled[p] \cup lost[p]

\* A committed record has been delivered, filtered, dead-lettered, or dropped
\* where there is no dead-letter topic, through crashes and rebalances in the
\* middle of a batch, unless the produce to the dead-letter topic failed.
\* (outbound.rs:12, "the gateway never commits undelivered records".)
CommitsSettledUnlessLost ==
  \A p \in Partitions : 0 .. committed[p] - 1 \subseteq Through(p)

\* A record reaches the target only after every earlier record of its partition
\* is through, whichever members have worked on the partition.  (outbound.rs:5,
\* "Within one partition, the gateway delivers in offset order".)
DeliveredInOrder ==
  \A p \in Partitions : \A o \in posted[p] : 0 .. o - 1 \subseteq Through(p)

-----------------------------------------------------------------------------
(* The inductive invariant.                                                *)

\* T holds every offset below n.
Covers(T, n) == \A o \in Nat : o < n => o \in T

\* What an assigned consumer has read is through or in its batch; a batch goes
\* on where its partition has got to, even after the partition is gone; between
\* batches there is none.
BatchInv ==
  /\ \A m \in Members, p \in Partitions :
       /\ coord[p] = m => Covers(Through(p) \cup batch[m][p], position[m][p])
       /\ \A o \in batch[m][p] : Covers(Through(p) \cup batch[m][p], o)
       /\ pc[m] # "deliver" => batch[m][p] = {}
  /\ \A p \in Partitions :
       Covers(Through(p), committed[p]) /\ \A o \in posted[p] : Covers(Through(p), o)

-----------------------------------------------------------------------------
(* Liveness.                                                               *)

\* A running task goes on, dead processes are replaced, free partitions are
\* assigned, requests end by an answer or by the client's timeout.  The target
\* owes nobody a 2xx.
Fairness ==
  /\ \A m \in Members :
       /\ WF_vars(Poll(m)) /\ WF_vars(BatchDone(m)) /\ WF_vars(Commit(m)) /\ WF_vars(Start(m))
       /\ \A p \in Partitions :
            WF_vars(\E o \in batch[m][p] :
                      \/ Skip(m, p, o) \/ RenderFails(m, p, o) \/ Delivered(m, p, o)
                      \/ Retry(m, p, o) \/ Exhausted(m, p, o))
  /\ \A p \in Partitions : WF_vars(\E m \in Members : Assign(m, p))

FairSpec == Spec /\ Fairness

\* A target that never accepts anything does not hold the subscription up for
\* ever: every record gets through, one way or the other.
EventuallySettled ==
  <>(\A p \in Partitions : 0 .. End[p] - 1 \subseteq Through(p))

=============================================================================
