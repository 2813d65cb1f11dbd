----------------------------- MODULE Subscribe -----------------------------
(***************************************************************************)
(* A Subscribe stream of the gateway: subscribe_inner (streaming.rs) drives *)
(* a ConsumeSession and its PartitionAckStates (consume.rs), which turn the *)
(* client's acknowledgements into offset commits of a consumer group.      *)
(*                                                                         *)
(* One stream is followed from session to session, with the group around   *)
(* it: partitions may be taken away and given back while the stream runs,  *)
(* and while they are away another member works on them.  The Kafka client *)
(* and the group are external, modelled from how the code uses them: the   *)
(* builder of ConsumeSession leaves the client's own commits on, so that a *)
(* poll or the close may store the positions, acknowledged or not.  A poll *)
(* returns records of one partition at a time.                             *)
(***************************************************************************)
EXTENDS Integers, FiniteSets

CONSTANTS
  Partitions,      \* the topic partitions the stream subscribes to
  Visible,         \* Visible[p]: offsets a read-committed consumer sees in p
  Filtered,        \* Filtered[p]: those the subscription's filter drops
  MaxOutstanding,  \* MAX_OUTSTANDING_PER_PARTITION
  Modes,           \* the values of start.auto_commit that clients ask for
  decode_awaits,   \* the codec awaits (a registry codec), or never does
  None,            \* no tracker, no batch, no offset
  MaxAutoCommits,  \* bound: commits that the client makes by itself
  MaxRevokes,      \* bound: partitions taken away from a running session
  MaxEnds          \* bound: sessions ended by the client or by an error

ASSUME VisibleAssumption ==
  /\ Visible \in [Partitions -> SUBSET Nat]
  /\ Filtered \in [Partitions -> SUBSET Nat]
ASSUME BoundsAssumption ==
  /\ MaxOutstanding \in Nat \ {0}
  /\ decode_awaits \in BOOLEAN /\ Modes \in SUBSET BOOLEAN
  /\ MaxAutoCommits \in Nat /\ MaxRevokes \in Nat /\ MaxEnds \in Nat

VARIABLES
  committed,   \* committed[p]: the group's committed offset (external)
  assigned,    \* the partitions the group assigns to this stream (external)
  position,    \* position[p]: next offset the consumer reads (external),
               \* 0 while p is not assigned
  pc,          \* where subscribe_inner is
  auto_commit, \* start.auto_commit of the session
  batch,       \* what poll has fetched and is decoding
  tracker,     \* ack_tracker[p], a PartitionAckState
  delivered_offsets,     \* per partition, not yet below the frontier
  acknowledged_offsets,  \* per partition, the last frontier marked
  offsets,     \* offsets[p]: what the commit under way asks for
  seen,        \* seen[p]: offsets the client received in this session
  done,        \* done[p]: offsets processed: acknowledged by a client,
               \* filtered, or handed over where Ack frames are ignored
  reseeded,    \* an ack has seeded an empty tracker
  dropped,     \* a decoding batch was dropped by the select
  skipped,     \* skipped[p]: unprocessed offsets below a commit of the client
  lost,        \* the partitions taken away from this session, back or not
  floor,       \* floor[p]: committed[p] when p's holder last changed, or what
               \* was committed on purpose since
  autos, revokes, ends

external == <<committed, assigned, position>>
acking == <<tracker, delivered_offsets, acknowledged_offsets>>
commits == <<skipped, lost, floor, autos>>
vars == <<external, pc, auto_commit, batch, acking, offsets, seen, done,
          reseeded, dropped, commits, revokes, ends>>

Trackers == [frontier: Nat \cup {-1}, delivered: SUBSET Nat,
             pending: SUBSET Nat, last: Nat \cup {-1}]
Batches == [part: Partitions, first: Nat, offs: SUBSET Nat]

ASSUME NoneAssumption == None \notin Trackers \cup Batches \cup Nat

\* Every variable holds a value of its type; a frontier is -1 at the lowest.
TypeOK ==
  /\ committed \in [Partitions -> Nat]
  /\ assigned \in SUBSET Partitions
  /\ position \in [Partitions -> Nat]
  /\ pc \in {"select", "commit", "committing", "fenced", "ended"}
  /\ auto_commit \in BOOLEAN
  /\ batch \in Batches \cup {None}
  /\ tracker \in [Partitions -> Trackers \cup {None}]
  /\ delivered_offsets \in [Partitions -> SUBSET Nat]
  /\ acknowledged_offsets \in [Partitions -> Nat \cup {-1}]
  /\ offsets \in [Partitions -> Nat \cup {None}]
  /\ seen \in [Partitions -> SUBSET Nat]
  /\ done \in [Partitions -> SUBSET Nat]
  /\ reseeded \in BOOLEAN /\ dropped \in BOOLEAN
  /\ skipped \in [Partitions -> SUBSET Nat]
  /\ lost \in SUBSET Partitions
  /\ floor \in [Partitions -> Nat]
  /\ autos \in Nat /\ revokes \in Nat /\ ends \in Nat

\* Nothing is committed; a session has just started and owns nothing yet.
Init ==
  /\ committed = [p \in Partitions |-> 0]
  /\ assigned = {}
  /\ position = [p \in Partitions |-> 0]
  /\ pc = "select"
  /\ auto_commit \in Modes
  /\ batch = None
  /\ tracker = [p \in Partitions |-> None]
  /\ delivered_offsets = [p \in Partitions |-> {}]
  /\ acknowledged_offsets = [p \in Partitions |-> -1]
  /\ offsets = [p \in Partitions |-> None]
  /\ seen = [p \in Partitions |-> {}]
  /\ done = [p \in Partitions |-> {}]
  /\ reseeded = FALSE /\ dropped = FALSE
  /\ skipped = [p \in Partitions |-> {}]
  /\ lost = {}
  /\ floor = [p \in Partitions |-> 0]
  /\ autos = 0 /\ revokes = 0 /\ ends = 0

-----------------------------------------------------------------------------
(* PartitionAckState.                                                      *)

\* A tracker that has seen its first delivery, o.
Seeded(o, delivered) ==
  [frontier |-> o - 1, delivered |-> delivered, pending |-> {}, last |-> o - 1]

\* record_delivery of the offsets offs, the lowest being first, in tracker t.
record_delivery(t, first, offs) ==
  IF t = None THEN Seeded(first, offs)
  ELSE [t EXCEPT !.delivered = @ \cup {o \in offs : o > t.frontier}]

\* Fault injection: an acknowledgement covers everything below it.
drains_to_Cumulative(t, f) ==
  IF t.pending = {} THEN f = t.frontier
  ELSE f \in t.pending /\ \A d \in t.pending : d <= f

\* Fault injection: a missing offset counts as a missing acknowledgement.
drains_to_Consecutive(t, f) ==
  LET front == {d \in t.delivered : t.frontier + 1 .. d \subseteq t.pending} IN
  IF front = {} THEN f = t.frontier
  ELSE f \in front /\ \A d \in front : d <= f

\* drain leaves the frontier at f: delivered offsets are taken from the front
\* for as long as they are pending.
drains_to(t, f) ==
  LET front == {d \in t.delivered : \A e \in t.delivered : e <= d => e \in t.pending} IN
  IF front = {} THEN f = t.frontier
  ELSE f \in front /\ \A d \in front : d <= f

\* The tracker after drain has moved its frontier to f.
drain(t, f) ==
  [t EXCEPT !.frontier = f, !.delivered = {d \in @ : d > f}, !.pending = {d \in @ : d > f}]

\* record_ack of the delivered offsets acks, in tracker t; offsets at or below
\* the frontier are ignored.  The new tracker is that of frontier f.
record_ack(t, acks, f) ==
  LET u == [t EXCEPT !.pending = @ \cup {o \in acks : o > t.frontier}] IN
  [after |-> drain(u, f), ok |-> drains_to(u, f)]

\* Fault injection: one past the next offset to read.
commit_value_PastNext(t) ==
  IF t = None \/ t.frontier = t.last THEN None ELSE t.frontier + 2

\* commit_value: the frontier has moved since the last commit.
commit_value(t) ==
  IF t = None \/ t.frontier = t.last THEN None ELSE t.frontier + 1

-----------------------------------------------------------------------------
(* subscribe_inner.                                                        *)

\* Fault injection: the acknowledged frontier is not recorded.
mark_acknowledged_Forgotten(p, f, deliv) ==
  /\ delivered_offsets' = [delivered_offsets EXCEPT ![p] = {o \in deliv : o > f}]
  /\ UNCHANGED acknowledged_offsets

\* mark_acknowledged; deliv is delivered_offsets[p] with this batch included.
mark_acknowledged(p, f, deliv) ==
  IF f <= acknowledged_offsets[p]
    THEN /\ delivered_offsets' = [delivered_offsets EXCEPT ![p] = deliv]
         /\ UNCHANGED acknowledged_offsets
    ELSE /\ delivered_offsets' = [delivered_offsets EXCEPT ![p] = {o \in deliv : o > f}]
         /\ acknowledged_offsets' = [acknowledged_offsets EXCEPT ![p] = f]

\* The client stores its positions over c without being asked (external).  Of
\* the records below them, skipped keeps the ones nobody has processed yet.
StorePositions(c) ==
  /\ autos < MaxAutoCommits
  /\ \E p \in assigned : position[p] # c[p]
  /\ autos' = autos + 1
  /\ committed' = [p \in Partitions |-> IF p \in assigned THEN position[p] ELSE c[p]]
  /\ skipped' = [p \in Partitions |-> skipped[p] \cup
       {o \in Visible[p] : p \in assigned /\ o < position[p] /\ o \notin done[p]}]

\* The session is over, the group at c: dropping it closes the consumer, which
\* may store its positions and leaves the group.  Its state is gone.
End(c) ==
  /\ \/ committed' = c /\ UNCHANGED <<skipped, autos>>
     \/ StorePositions(c)
  /\ floor' = committed'
  /\ lost' = {}
  /\ pc' = "ended"
  /\ assigned' = {}
  /\ position' = [p \in Partitions |-> 0]
  /\ batch' = None
  /\ tracker' = [p \in Partitions |-> None]
  /\ delivered_offsets' = [p \in Partitions |-> {}]
  /\ acknowledged_offsets' = [p \in Partitions |-> -1]
  /\ offsets' = [p \in Partitions |-> None]
  /\ seen' = [p \in Partitions |-> {}]
  /\ UNCHANGED auto_commit

\* The poll begins with a commit of the client's own (external).
AutoCommit ==
  /\ pc = "select" /\ batch = None
  /\ StorePositions(committed)
  /\ UNCHANGED <<assigned, position, pc, auto_commit, batch, acking, offsets,
                 seen, done, reseeded, dropped, lost, floor, revokes, ends>>

\* The select is waiting on session.poll, which asks the consumer: it returns
\* the next visible offsets of p, up to last, and moves on.
Fetch(p) ==
  /\ pc = "select" /\ batch = None
  /\ p \in assigned
  /\ \E first, last \in Visible[p] :
       /\ position[p] <= first /\ first <= last
       /\ \A o \in Visible[p] : position[p] <= o => first <= o
       /\ batch' = [part |-> p, first |-> first,
                    offs |-> {o \in Visible[p] : first <= o /\ o <= last}]
       /\ position' = [position EXCEPT ![p] = last + 1]
  /\ UNCHANGED <<committed, assigned, pc, auto_commit, acking, offsets, seen,
                 done, reseeded, dropped, commits, revokes, ends>>

\* session.poll times out with nothing: the loop goes round.
PollEmpty ==
  /\ pc = "select" /\ batch = None
  /\ UNCHANGED vars

\* The batch is decoded, and the stream auto-commits: hand it over, commit.
DeliverAuto ==
  /\ pc = "select" /\ batch # None
  /\ auto_commit
  /\ done' = [done EXCEPT ![batch.part] = @ \cup batch.offs]
  /\ seen' = [seen EXCEPT ![batch.part] = @ \cup (batch.offs \ Filtered[batch.part])]
  /\ batch' = None
  /\ pc' = "commit"
  /\ UNCHANGED <<external, auto_commit, acking, offsets, reseeded, dropped,
                 commits, revokes, ends>>

\* The batch is decoded: register the deliveries, hand over what the filter
\* lets through, acknowledge the rest.
Deliver ==
  LET p == batch.part
      dropping == batch.offs \cap Filtered[p]
      passing == batch.offs \ Filtered[p]
      t == record_delivery(tracker[p], batch.first, batch.offs)
      deliv == delivered_offsets[p] \cup passing
  IN
  /\ pc = "select" /\ batch # None
  /\ ~auto_commit
  /\ Cardinality(t.delivered) <= MaxOutstanding
  /\ \E f \in {t.frontier} \cup t.delivered :
       LET a == record_ack(t, dropping, f) IN
       /\ a.ok
       /\ tracker' = [tracker EXCEPT ![p] = a.after]
       /\ IF dropping = {}
            THEN /\ delivered_offsets' = [delivered_offsets EXCEPT ![p] = deliv]
                 /\ UNCHANGED acknowledged_offsets
            ELSE mark_acknowledged(p, f, deliv)
  /\ seen' = [seen EXCEPT ![p] = @ \cup passing]
  /\ done' = [done EXCEPT ![p] = @ \cup dropping]
  /\ batch' = None
  /\ pc' = IF dropping = {} THEN "select" ELSE "commit"
  /\ UNCHANGED <<external, auto_commit, offsets, reseeded, dropped, commits,
                 revokes, ends>>

\* ... unless a partition has too many deliveries outstanding: nothing of the
\* batch is handed over.
TooManyUnacked ==
  LET p == batch.part IN
  /\ pc = "select" /\ batch # None
  /\ ~auto_commit
  /\ Cardinality(record_delivery(tracker[p], batch.first, batch.offs).delivered)
       > MaxOutstanding
  /\ End(committed)
  /\ UNCHANGED <<done, reseeded, dropped, revokes, ends>>

\* A frame wins the select: whatever poll was decoding is dropped with it.
FrameWins ==
  /\ pc = "select"
  /\ batch = None \/ decode_awaits
  /\ batch' = None
  /\ dropped' = (dropped \/ batch # None)

\* An Ack for o in p that validate_ack accepts and the tracker knows.
AckFrame(p, o) ==
  LET t == IF tracker[p] = None THEN Seeded(o, {o}) ELSE tracker[p] IN
  /\ FrameWins
  /\ ~auto_commit
  /\ o > acknowledged_offsets[p] /\ o \in delivered_offsets[p]
  /\ o <= t.frontier \/ o \in t.delivered
  /\ \E f \in {t.frontier} \cup t.delivered :
       LET a == record_ack(t, {o}, f) IN
       /\ a.ok
       /\ tracker' = [tracker EXCEPT ![p] = a.after]
       /\ mark_acknowledged(p, f, delivered_offsets[p])
  /\ done' = [done EXCEPT ![p] = @ \cup {o}]
  /\ reseeded' = (reseeded \/ tracker[p] = None)
  /\ pc' = "commit"
  /\ UNCHANGED <<external, auto_commit, offsets, seen, commits, revokes, ends>>

\* An Ack the tracker does not know, or that validate_ack finds was never
\* delivered: the stream ends with an error.  (Acknowledging what it has not
\* received is one of the client's ways to end a session, and bounded.)
AckRefused(p, o) ==
  /\ pc = "select"
  /\ batch = None \/ decode_awaits
  /\ ~auto_commit
  /\ o > acknowledged_offsets[p]
  /\ \/ o \notin delivered_offsets[p]
     \/ /\ tracker[p] # None
        /\ o > tracker[p].frontier /\ o \notin tracker[p].delivered
  /\ IF o \in seen[p] THEN UNCHANGED ends ELSE ends < MaxEnds /\ ends' = ends + 1
  /\ End(committed)
  /\ UNCHANGED <<done, reseeded, dropped, revokes>>

\* A frame without effect: Start, any Ack of an auto-committing stream, or an
\* Ack at or below the last frontier.
IgnoredFrame(p, o) ==
  /\ FrameWins
  /\ auto_commit \/ o <= acknowledged_offsets[p]
  /\ done' = IF o \in seen[p] THEN [done EXCEPT ![p] = @ \cup {o}] ELSE done
  /\ UNCHANGED <<external, pc, auto_commit, acking, offsets, seen, reseeded,
                 commits, revokes, ends>>

\* Fault injection: partitions that were taken away keep their state.
retain_All(p) == tracker[p]

\* What commit_acked keeps: state of partitions that are still assigned.
retain(p) == IF p \in assigned THEN tracker[p] ELSE None

\* commit_acked until it calls the consumer.
commit_acked ==
  LET values == [p \in Partitions |-> commit_value(retain(p))] IN
  /\ pc = "commit" /\ ~auto_commit
  /\ tracker' = [p \in Partitions |-> retain(p)]
  /\ offsets' = values
  /\ pc' = IF \A p \in Partitions : values[p] = None THEN "select" ELSE "committing"
  /\ UNCHANGED <<external, auto_commit, batch, delivered_offsets,
                 acknowledged_offsets, seen, done, reseeded, dropped, commits,
                 revokes, ends>>

\* commit of an auto-committing stream: every current position.
commit ==
  /\ pc = "commit" /\ auto_commit
  /\ offsets' = [p \in Partitions |-> IF p \in assigned THEN position[p] ELSE None]
  /\ pc' = "committing"
  /\ UNCHANGED <<external, auto_commit, batch, acking, seen, done, reseeded,
                 dropped, commits, revokes, ends>>

\* c once the group coordinator has stored the offsets asked for (external).
OffsetsStored(c) == [p \in Partitions |-> IF offsets[p] = None THEN c[p] ELSE offsets[p]]

\* The commit is confirmed; commit_acked remembers what it has committed.
CommitConfirmed ==
  /\ pc = "committing"
  /\ committed' = OffsetsStored(committed)
  /\ floor' = OffsetsStored(floor)
  /\ tracker' = [p \in Partitions |->
       IF auto_commit \/ tracker[p] = None \/ offsets[p] = None THEN tracker[p]
       ELSE [tracker[p] EXCEPT !.last = offsets[p] - 1]]
  /\ offsets' = [p \in Partitions |-> None]
  /\ pc' = "select"
  /\ UNCHANGED <<assigned, position, auto_commit, batch, delivered_offsets,
                 acknowledged_offsets, seen, done, reseeded, dropped, skipped,
                 lost, autos, revokes, ends>>

\* The client goes away, or a poll, a decode or a commit fails.  A commit under
\* way may have reached the coordinator all the same.
EndSession ==
  /\ pc # "ended"
  /\ ends < MaxEnds
  /\ ends' = ends + 1
  /\ \/ End(committed)
     \/ pc = "committing" /\ End(OffsetsStored(committed))
  /\ UNCHANGED <<done, reseeded, dropped, revokes>>

\* The coordinator refuses a commit of an earlier generation: the stream ends.
CommitFenced ==
  /\ pc = "fenced"
  /\ End(committed)
  /\ UNCHANGED <<done, reseeded, dropped, revokes, ends>>

\* The client subscribes again.
StartSession ==
  /\ pc = "ended"
  /\ pc' = "select"
  /\ auto_commit' \in Modes
  /\ UNCHANGED <<external, batch, acking, offsets, seen, done, reseeded, dropped,
                 commits, revokes, ends>>

-----------------------------------------------------------------------------
(* The consumer group (external).  Revocation and assignment happen in the *)
(* consumer's background task, at any time.                                *)

\* The consumer starts at the committed offset, or at the earliest one.
Assign(p) ==
  /\ pc # "ended"
  /\ p \notin assigned
  /\ assigned' = assigned \cup {p}
  /\ position' = [position EXCEPT ![p] = committed[p]]
  /\ floor' = [floor EXCEPT ![p] = committed[p]]
  /\ UNCHANGED <<committed, pc, auto_commit, batch, acking, offsets, seen, done,
                 reseeded, dropped, skipped, lost, autos, revokes, ends>>

\* A commit under way belongs to a generation that is over.
Revoke(p) ==
  /\ p \in assigned
  /\ revokes < MaxRevokes
  /\ revokes' = revokes + 1
  /\ assigned' = assigned \ {p}
  /\ position' = [position EXCEPT ![p] = 0]
  /\ lost' = lost \cup {p}
  /\ floor' = [floor EXCEPT ![p] = committed[p]]
  /\ pc' = IF pc = "committing" THEN "fenced" ELSE pc
  /\ UNCHANGED <<committed, auto_commit, batch, acking, offsets, seen, done,
                 reseeded, dropped, skipped, autos, ends>>

\* Another member, which has p for now, processes up to last and commits that.
OtherMember(p) ==
  /\ p \notin assigned
  /\ \E last \in Visible[p] :
       /\ committed[p] <= last
       /\ done' = [done EXCEPT ![p] = @ \cup
                    {o \in Visible[p] : committed[p] <= o /\ o <= last}]
       /\ committed' = [committed EXCEPT ![p] = last + 1]
       /\ floor' = [floor EXCEPT ![p] = last + 1]
  /\ UNCHANGED <<assigned, position, pc, auto_commit, batch, acking, offsets,
                 seen, reseeded, dropped, skipped, lost, autos, revokes, ends>>

Next ==
  \/ PollEmpty \/ AutoCommit \/ DeliverAuto \/ Deliver \/ TooManyUnacked
  \/ commit_acked \/ commit \/ CommitConfirmed \/ CommitFenced
  \/ EndSession \/ StartSession
  \/ \E p \in Partitions :
       \/ Fetch(p) \/ Assign(p) \/ Revoke(p) \/ OtherMember(p)
       \/ \E o \in Visible[p] : AckFrame(p, o) \/ AckRefused(p, o) \/ IgnoredFrame(p, o)

Spec == Init /\ [][Next]_vars

-----------------------------------------------------------------------------
(* Safety.                                                                 *)

\* The offsets of p that are processed, or that a commit of the client's own has
\* skipped.
Settled(p) == done[p] \cup skipped[p]

\* At-least-once: the group moves past a record that nobody has processed only
\* by a commit that the Kafka client makes on its own, which the gateway leaves
\* enabled.  (streaming.rs:587, "Each later `Ack` frame drives an offset commit,
\* which gives at-least-once"; docs/gitlab-mr-ha-gap-analysis.md:121, automatic
\* commits bypass "the explicit acknowledgment frontier during polls or close".)
AtLeastOnce ==
  \A p \in Partitions : \A o \in Visible[p] : o < committed[p] => o \in Settled(p)

\* An ack above a gap cannot skip an unacknowledged record, whatever the
\* rebalances, restarts and commits of the client, unless the select has dropped
\* a batch that was being decoded or record_ack has seeded a tracker that
\* commit_acked had discarded.
AtLeastOnceUnlessReseeded == reseeded \/ dropped \/ AtLeastOnce

\* A client that acknowledges what it has received is not told that the record
\* was never delivered, however late or often it acknowledges it.
HonestAcksAccepted ==
  ~auto_commit =>
    \A p \in Partitions : \A o \in seen[p] :
      o <= acknowledged_offsets[p] \/ o \in delivered_offsets[p]

\* No commit takes the group back (consume.rs:295, "this member cannot regress
\* the new owner's committed offset"): below where the holder of the partition
\* started, or below what it or the member that has the partition now committed
\* on purpose, whatever sessions and rebalances came before.  A partition that
\* this session has lost is the new owner's; only one that is given back to the
\* same session finds its old tracker, and its next commit may go back.
CommittedNeverRegresses ==
  [][\A p \in Partitions : p \in lost \cap assigned \/ committed'[p] >= floor[p]]_vars

-----------------------------------------------------------------------------
(* The inductive invariant behind at-least-once.                           *)

\* The session's account of offset o of p: settled, or waiting in the tracker.
Accounted(p, o) ==
  o \in Settled(p) \/ (tracker[p] # None /\ o \in tracker[p].delivered)

\* Tracker t of a partition with visible offsets V, of which D are settled:
\* everything at or below the frontier is settled, and the deliveries above
\* it leave no hole.
TrackerSound(t, V, D) ==
  /\ \A o \in V : o <= t.frontier => o \in D
  /\ t.pending \subseteq D
  /\ \A d \in t.delivered, o \in V : o < d => o \in D \cup t.delivered

FrontierSound ==
  \A p \in Partitions :
    tracker[p] # None => TrackerSound(tracker[p], Visible[p], Settled(p))

\* The consumer has read nothing that is not accounted for or being decoded.
PositionSound ==
  \A p \in assigned : \A o \in Visible[p] : o < position[p] =>
    Accounted(p, o) \/ (batch # None /\ batch.part = p /\ o \in batch.offs)

\* A batch that is being decoded continues what is accounted for.
BatchSound ==
  batch # None =>
    /\ pc = "select"
    /\ batch.first \in batch.offs
    /\ \A x \in batch.offs : batch.first <= x
    /\ \A o \in Visible[batch.part] :
         /\ o < batch.first => Accounted(batch.part, o)
         /\ \A x \in batch.offs : batch.first <= o /\ o < x => o \in batch.offs

\* A commit under way asks for nothing that is not settled; a stream that
\* auto-commits, or has ended, tracks nothing.
CommitSound ==
  /\ \A p \in Partitions : offsets[p] # None =>
       \A o \in Visible[p] : o < offsets[p] => o \in Settled(p)
  /\ auto_commit \/ pc = "ended" => tracker = [p \in Partitions |-> None]

Sound ==
  FrontierSound /\ PositionSound /\ BatchSound /\ CommitSound /\ AtLeastOnce

\* The inductive invariant: what the tracker, the position, the batch and the
\* commit under way claim about settled records is true.
AckInv == TypeOK /\ (reseeded \/ dropped \/ Sound)

-----------------------------------------------------------------------------
(* Liveness.                                                               *)

\* A running stream finishes what it has begun, the client subscribes again,
\* the group assigns free partitions.  The client acknowledges every record it
\* has received, and tokio's select, which picks among its ready branches at
\* random, starves neither these acknowledgements nor the poll.
Fairness ==
  /\ WF_vars(DeliverAuto \/ Deliver \/ TooManyUnacked)
  /\ WF_vars(commit_acked \/ commit \/ CommitConfirmed \/ CommitFenced)
  /\ WF_vars(StartSession)
  /\ \A p \in Partitions :
       /\ WF_vars(Assign(p))
       /\ SF_vars(Fetch(p))
       /\ \A o \in Visible[p] : SF_vars(o \in seen[p] /\ AckFrame(p, o))

FairSpec == Spec /\ Fairness

\* Every record is processed in the end, whatever is revoked and given back, and
\* a session that lost no partition has it committed too: offsets that do not
\* exist are not waited for, and no stream receives acknowledgements and commits
\* nothing. The exceptions are the holes of at-least-once (a record that a
\* commit of the client's own has skipped among them), and a partition whose
\* polls always hold more than MaxOutstanding allows, which ends every stream
\* that reads it.
AcksDriveCommits ==
  \/ <>(\/ dropped \/ reseeded
        \/ \A p \in Partitions : \A o \in Visible[p] :
             \/ o \in skipped[p]
             \/ o \in done[p] /\ (revokes = 0 => o < committed[p]))
  \/ []<><<TooManyUnacked>>_vars

=============================================================================
