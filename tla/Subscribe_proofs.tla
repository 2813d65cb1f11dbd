-------------------------- MODULE Subscribe_proofs --------------------------
(* Proofs about the way of a record to a subscriber: Subscribe, for all      *)
(* partitions, logs, filters and bounds, and Pipeline, for all registries,   *)
(* schemas, documents, stored values, cache sizes and lifetimes. The         *)
(* two have no state in common; each has an invariant of its own.            *)
EXTENDS Subscribe, Pipeline, FiniteSetTheorems, SequenceTheorems, TLAPS

-----------------------------------------------------------------------------
(* The tracker.                                                            *)

\* Draining a sound tracker leaves a sound tracker, and loses no delivery that
\* has not been processed.
LEMMA DrainSound ==
  ASSUME NEW t \in Trackers, NEW V \in SUBSET Nat, NEW D \in SUBSET Nat,
         TrackerSound(t, V, D),
         NEW f \in {t.frontier} \cup t.delivered, drains_to(t, f)
  PROVE  /\ drain(t, f) \in Trackers
         /\ TrackerSound(drain(t, f), V, D)
         /\ \A o \in V : o \in D \cup t.delivered => o \in D \cup drain(t, f).delivered
  <1> DEFINE front == {d \in t.delivered : \A e \in t.delivered : e <= d => e \in t.pending}
             u == drain(t, f)
  <1>1. u \in Trackers
    BY DEF drain, Trackers
  <1>2. /\ u.frontier = f
        /\ u.delivered = {d \in t.delivered : d > f}
        /\ u.pending = {d \in t.pending : d > f}
    BY DEF drain, Trackers
  <1>3. \A o \in V : o <= f => o \in D
    <2>1. CASE front = {}
      BY <2>1 DEF drains_to, TrackerSound
    <2>2. CASE front # {}
      BY <2>2 DEF drains_to, TrackerSound, Trackers
    <2> QED
      BY <2>1, <2>2
  <1>4. \A o \in V : o \in D \cup t.delivered => o \in D \cup u.delivered
    BY <1>2, <1>3 DEF Trackers
  <1>5. TrackerSound(u, V, D)
    BY <1>2, <1>3, <1>4 DEF TrackerSound
  <1> QED
    BY <1>1, <1>4, <1>5

\* So does recording acknowledgements of processed records.
LEMMA AckSound ==
  ASSUME NEW t \in Trackers, NEW V \in SUBSET Nat, NEW D \in SUBSET Nat,
         TrackerSound(t, V, D),
         NEW acks \in SUBSET D,
         NEW f \in {t.frontier} \cup t.delivered, record_ack(t, acks, f).ok
  PROVE  /\ record_ack(t, acks, f).after \in Trackers
         /\ TrackerSound(record_ack(t, acks, f).after, V, D)
         /\ \A o \in V : o \in D \cup t.delivered
                           => o \in D \cup record_ack(t, acks, f).after.delivered
  <1> DEFINE u == [t EXCEPT !.pending = @ \cup {o \in acks : o > t.frontier}]
  <1>1. /\ u \in Trackers
        /\ u.frontier = t.frontier /\ u.delivered = t.delivered
        /\ u.pending = t.pending \cup {o \in acks : o > t.frontier}
    BY DEF Trackers
  <1>2. TrackerSound(u, V, D)
    BY <1>1 DEF TrackerSound
  <1>3. drains_to(u, f) /\ record_ack(t, acks, f).after = drain(u, f)
    BY DEF record_ack
  <1> HIDE DEF u
  <1> QED
    BY <1>1, <1>2, <1>3, DrainSound

\* Registering a batch that continues what is accounted for keeps a tracker
\* sound; a fresh tracker starts right below the batch.
LEMMA DeliverySound ==
  ASSUME NEW t \in Trackers \cup {None}, NEW V \in SUBSET Nat, NEW D \in SUBSET Nat,
         t # None => TrackerSound(t, V, D),
         NEW offs \in SUBSET Nat, NEW first \in offs,
         \A x \in offs : first <= x,
         \A o \in V : o < first => o \in D \/ (t # None /\ o \in t.delivered),
         \A o \in V, x \in offs : first <= o /\ o < x => o \in offs
  PROVE  /\ record_delivery(t, first, offs) \in Trackers
         /\ TrackerSound(record_delivery(t, first, offs), V, D)
         /\ \A o \in V : (t # None /\ o \in t.delivered) \/ o \in offs
                  => o \in D \cup record_delivery(t, first, offs).delivered
  <1> DEFINE u == record_delivery(t, first, offs)
  <1>1. CASE t = None
    <2>1. /\ u \in Trackers
          /\ u.frontier = first - 1 /\ u.delivered = offs /\ u.pending = {}
      BY <1>1 DEF record_delivery, Seeded, Trackers
    <2>2. \A o \in V : o < first => o \in D
      BY <1>1
    <2>3. \A o \in V : o <= u.frontier => o \in D
      BY <2>1, <2>2
    <2>4. ASSUME NEW d \in offs, NEW o \in V, o < d PROVE o \in D \cup offs
      <3>1. CASE o < first
        BY <2>2, <3>1
      <3>2. CASE first <= o
        BY <2>4, <3>2
      <3> QED
        BY <3>1, <3>2
    <2>5. TrackerSound(u, V, D)
      BY <2>1, <2>3, <2>4 DEF TrackerSound
    <2> QED
      BY <1>1, <2>1, <2>5
  <1>2. CASE t # None
    <2>1. t \in Trackers
      BY <1>2
    <2>2. /\ u \in Trackers
          /\ u.frontier = t.frontier /\ u.pending = t.pending
          /\ u.delivered = t.delivered \cup {o \in offs : o > t.frontier}
      BY <1>2, <2>1 DEF record_delivery, Trackers
    <2>3. \A o \in V : o \in offs => o \in D \cup u.delivered
      BY <1>2, <2>1, <2>2 DEF TrackerSound, Trackers
    <2>4. TrackerSound(u, V, D)
      BY <1>2, <2>1, <2>2, <2>3 DEF TrackerSound, Trackers
    <2> QED
      BY <1>2, <2>2, <2>3, <2>4
  <1> QED
    BY <1>1, <1>2

-----------------------------------------------------------------------------
(* Types.                                                                  *)

\* At the start.
LEMMA TypeInit == Init => TypeOK
  <1> SUFFICES ASSUME Init PROVE TypeOK
    OBVIOUS
  <1>1. auto_commit \in BOOLEAN /\ reseeded \in BOOLEAN /\ dropped \in BOOLEAN
    BY BoundsAssumption DEF Init
  <1> QED
    BY <1>1 DEF Init, TypeOK

\* The offsets that the client stores by itself.
LEMMA PositionsType ==
  ASSUME TypeOK, NEW c \in [Partitions -> Nat], StorePositions(c)
  PROVE  /\ committed' \in [Partitions -> Nat] /\ skipped' \in [Partitions -> SUBSET Nat]
         /\ autos' \in Nat
  BY VisibleAssumption DEF TypeOK, StorePositions

\* The end of a session.
LEMMA EndType ==
  ASSUME TypeOK, NEW c \in [Partitions -> Nat], End(c), UNCHANGED <<done, reseeded, dropped>>,
         revokes' \in Nat, ends' \in Nat
  PROVE  TypeOK'
  <1>1. /\ committed' \in [Partitions -> Nat] /\ skipped' \in [Partitions -> SUBSET Nat]
        /\ autos' \in Nat
    BY PositionsType DEF End, TypeOK
  <1> QED
    BY <1>1 DEF End, TypeOK

\* One step per action.
LEMMA TypeStep == TypeOK /\ [Next]_vars => TypeOK'
  <1> SUFFICES ASSUME TypeOK, [Next]_vars PROVE TypeOK'
    OBVIOUS
  <1> USE VisibleAssumption, BoundsAssumption, NoneAssumption DEF TypeOK, external, acking, commits
  <1>1. ASSUME PollEmpty PROVE TypeOK'
    BY <1>1 DEF PollEmpty, vars
  <1>2. ASSUME DeliverAuto PROVE TypeOK'
    BY <1>2 DEF DeliverAuto, Batches
  <1>3. ASSUME TooManyUnacked PROVE TypeOK'
    BY <1>3, EndType DEF TooManyUnacked
  <1>4. ASSUME commit_acked PROVE TypeOK'
    <2>1. \A p \in Partitions : retain(p) \in Trackers \cup {None}
      BY DEF retain
    <2>2. \A p \in Partitions : commit_value(retain(p)) \in Nat \cup {None}
      BY <2>1 DEF commit_value, Trackers
    <2> QED
      BY <1>4, <2>1, <2>2 DEF commit_acked
  <1>5. ASSUME commit PROVE TypeOK'
    BY <1>5 DEF commit
  <1>6. ASSUME CommitConfirmed PROVE TypeOK'
    <2>1. committed' \in [Partitions -> Nat] /\ floor' \in [Partitions -> Nat]
      BY <1>6 DEF CommitConfirmed, OffsetsStored
    <2>2. ASSUME NEW p \in Partitions, tracker[p] # None, offsets[p] # None
          PROVE [tracker[p] EXCEPT !.last = offsets[p] - 1] \in Trackers
      BY <2>2 DEF Trackers
    <2>3. tracker' \in [Partitions -> Trackers \cup {None}]
      BY <1>6, <2>2 DEF CommitConfirmed
    <2> QED
      BY <1>6, <2>1, <2>3 DEF CommitConfirmed
  <1>7. ASSUME CommitFenced PROVE TypeOK'
    BY <1>7, EndType DEF CommitFenced
  <1>8. ASSUME EndSession PROVE TypeOK'
    <2>1. OffsetsStored(committed) \in [Partitions -> Nat]
      BY DEF OffsetsStored
    <2>2. ends' \in Nat /\ revokes' \in Nat /\ UNCHANGED <<done, reseeded, dropped>>
      BY <1>8 DEF EndSession
    <2> QED
      BY <1>8, <2>1, <2>2, EndType DEF EndSession
  <1>9. ASSUME StartSession PROVE TypeOK'
    BY <1>9 DEF StartSession
  <1>10. ASSUME Deliver PROVE TypeOK'
    <2>0. batch \in Batches
      BY <1>10 DEF Deliver
    <2> DEFINE p == batch.part
               t == record_delivery(tracker[p], batch.first, batch.offs)
               deliv == delivered_offsets[p] \cup (batch.offs \ Filtered[p])
    <2>1. p \in Partitions /\ batch.first \in Nat /\ batch.offs \in SUBSET Nat /\ deliv \in SUBSET Nat
      BY <2>0 DEF Batches
    <2>2. t \in Trackers
      <3>1. tracker[p] \in Trackers \cup {None}
        BY <2>1
      <3> QED
        BY <2>1, <3>1 DEF record_delivery, Seeded, Trackers
    <2>3. PICK f \in {t.frontier} \cup t.delivered :
            /\ tracker' = [tracker EXCEPT ![p] = record_ack(t, batch.offs \cap Filtered[p], f).after]
            /\ \/ /\ delivered_offsets' = [delivered_offsets EXCEPT ![p] = deliv]
                  /\ UNCHANGED acknowledged_offsets
               \/ mark_acknowledged(p, f, deliv)
      BY <1>10 DEF Deliver
    <2>4. f \in Nat \cup {-1}
      BY <2>2 DEF Trackers
    <2>5. record_ack(t, batch.offs \cap Filtered[p], f).after \in Trackers
      BY <2>1, <2>2, <2>4 DEF record_ack, drain, Trackers
    <2>6. /\ delivered_offsets' \in [Partitions -> SUBSET Nat]
          /\ acknowledged_offsets' \in [Partitions -> Nat \cup {-1}]
      BY <2>1, <2>3, <2>4 DEF mark_acknowledged
    <2>7. tracker' \in [Partitions -> Trackers \cup {None}]
      BY <2>1, <2>3, <2>5
    <2>8. /\ seen' \in [Partitions -> SUBSET Nat] /\ done' \in [Partitions -> SUBSET Nat]
          /\ batch' = None /\ pc' \in {"select", "commit"}
      BY <1>10, <2>1 DEF Deliver
    <2> QED
      BY <1>10, <2>6, <2>7, <2>8 DEF Deliver
  <1>11. ASSUME NEW p \in Partitions, Fetch(p) PROVE TypeOK'
    <2>1. PICK first \in Visible[p], last \in Visible[p] :
            /\ batch' = [part |-> p, first |-> first,
                         offs |-> {o \in Visible[p] : first <= o /\ o <= last}]
            /\ position' = [position EXCEPT ![p] = last + 1]
      BY <1>11 DEF Fetch
    <2>2. batch' \in Batches /\ position' \in [Partitions -> Nat]
      BY <2>1 DEF Batches
    <2> QED
      BY <1>11, <2>2 DEF Fetch
  <1>12. ASSUME NEW p \in Partitions, Assign(p) PROVE TypeOK'
    BY <1>12 DEF Assign
  <1>13. ASSUME NEW p \in Partitions, Revoke(p) PROVE TypeOK'
    BY <1>13 DEF Revoke
  <1>14. ASSUME NEW p \in Partitions, OtherMember(p) PROVE TypeOK'
    <2>1. PICK last \in Visible[p] :
            /\ done' = [done EXCEPT ![p] = @ \cup
                         {o \in Visible[p] : committed[p] <= o /\ o <= last}]
            /\ committed' = [committed EXCEPT ![p] = last + 1]
            /\ floor' = [floor EXCEPT ![p] = last + 1]
      BY <1>14 DEF OtherMember
    <2>2. /\ done' \in [Partitions -> SUBSET Nat] /\ committed' \in [Partitions -> Nat]
          /\ floor' \in [Partitions -> Nat]
      BY <2>1
    <2> QED
      BY <1>14, <2>2 DEF OtherMember
  <1>15. ASSUME NEW p \in Partitions, NEW o \in Visible[p], AckFrame(p, o) PROVE TypeOK'
    <2> DEFINE t == IF tracker[p] = None THEN Seeded(o, {o}) ELSE tracker[p]
    <2>1. t \in Trackers /\ o \in Nat
      <3>1. o \in Nat /\ tracker[p] \in Trackers \cup {None}
        OBVIOUS
      <3> QED
        BY <3>1 DEF Seeded, Trackers
    <2>2. PICK f \in {t.frontier} \cup t.delivered :
            /\ tracker' = [tracker EXCEPT ![p] = record_ack(t, {o}, f).after]
            /\ mark_acknowledged(p, f, delivered_offsets[p])
      BY <1>15 DEF AckFrame
    <2>3. f \in Nat \cup {-1}
      BY <2>1 DEF Trackers
    <2>4. record_ack(t, {o}, f).after \in Trackers
      BY <2>1, <2>3 DEF record_ack, drain, Trackers
    <2>5. /\ delivered_offsets' \in [Partitions -> SUBSET Nat]
          /\ acknowledged_offsets' \in [Partitions -> Nat \cup {-1}]
      BY <2>2, <2>3 DEF mark_acknowledged
    <2>6. tracker' \in [Partitions -> Trackers \cup {None}]
      BY <2>2, <2>4
    <2>7. /\ done' \in [Partitions -> SUBSET Nat]
          /\ batch' = None /\ pc' = "commit" /\ dropped' \in BOOLEAN /\ reseeded' \in BOOLEAN
      BY <1>15, <2>1 DEF AckFrame, FrameWins
    <2> QED
      BY <1>15, <2>5, <2>6, <2>7 DEF AckFrame
  <1>16. ASSUME NEW p \in Partitions, NEW o \in Visible[p], AckRefused(p, o) PROVE TypeOK'
    <2>1. ends' \in Nat /\ End(committed) /\ UNCHANGED <<done, reseeded, dropped, revokes>>
      BY <1>16 DEF AckRefused
    <2> QED
      BY <2>1, EndType
  <1>17. ASSUME NEW p \in Partitions, NEW o \in Visible[p], IgnoredFrame(p, o) PROVE TypeOK'
    BY <1>17 DEF IgnoredFrame, FrameWins
  <1>18. ASSUME UNCHANGED vars PROVE TypeOK'
    BY <1>18 DEF vars
  <1>19. ASSUME AutoCommit PROVE TypeOK'
    BY <1>19, PositionsType DEF AutoCommit
  <1> QED
    BY <1>1, <1>2, <1>3, <1>4, <1>5, <1>6, <1>7, <1>8, <1>9, <1>10, <1>11, <1>12, <1>13, <1>14, <1>15, <1>16, <1>17, <1>18, <1>19 DEF Next

-----------------------------------------------------------------------------
(* At-least-once.                                                          *)

\* Positions that the client stores over a sound c are past settled records
\* only: skipped takes up the others.
LEMMA PositionsSound ==
  ASSUME TypeOK, NEW c \in [Partitions -> Nat], StorePositions(c), UNCHANGED done,
         \A p \in Partitions : \A o \in Visible[p] : o < c[p] => o \in Settled(p)
  PROVE  AtLeastOnce' /\ \A p \in Partitions : Settled(p) \subseteq Settled(p)'
  <1>1. \A p \in Partitions :
          /\ committed'[p] = IF p \in assigned THEN position[p] ELSE c[p]
          /\ skipped'[p] = skipped[p] \cup
               {o \in Visible[p] : p \in assigned /\ o < position[p] /\ o \notin done[p]}
    BY DEF StorePositions
  <1>2. \A p \in Partitions : Settled(p)' = done[p] \cup skipped'[p]
    BY DEF Settled
  <1> QED
    BY <1>1, <1>2 DEF AtLeastOnce, Settled

\* A session that ends leaves nothing behind but what is committed.
LEMMA EndSound ==
  ASSUME TypeOK, NEW c \in [Partitions -> Nat], End(c), UNCHANGED done,
         \A p \in Partitions : \A o \in Visible[p] : o < c[p] => o \in Settled(p)
  PROVE  Sound'
  <1>1. AtLeastOnce'
    <2>1. CASE committed' = c /\ UNCHANGED skipped
      BY <2>1 DEF AtLeastOnce, Settled
    <2>2. CASE StorePositions(c)
      BY <2>2, PositionsSound
    <2> QED
      BY <2>1, <2>2 DEF End
  <1> QED
    BY <1>1 DEF End, Sound, FrontierSound, PositionSound, BatchSound, CommitSound

\* The offsets of a sound commit are past settled records only.
LEMMA StoredSound ==
  ASSUME TypeOK, Sound
  PROVE  /\ OffsetsStored(committed) \in [Partitions -> Nat]
         /\ \A p \in Partitions : \A o \in Visible[p] :
              o < OffsetsStored(committed)[p] => o \in Settled(p)
  BY DEF TypeOK, Sound, CommitSound, AtLeastOnce, OffsetsStored

\* Decoding is over: what Deliver does to the tracker of the batch's partition.
LEMMA DeliverSound ==
  ASSUME TypeOK, Sound, Deliver PROVE Sound'
  <1> USE VisibleAssumption, NoneAssumption DEF Sound
  <1> DEFINE p == batch.part
             V == Visible[p]
             D == Settled(p) \cup (batch.offs \cap Filtered[p])
             t == record_delivery(tracker[p], batch.first, batch.offs)
             u == tracker'[p]
  <1>1. /\ batch \in Batches /\ p \in Partitions /\ V \in SUBSET Nat /\ D \in SUBSET Nat
        /\ batch.offs \in SUBSET Nat /\ tracker[p] \in Trackers \cup {None}
    BY DEF Deliver, TypeOK, Batches, Settled
  <1>2. /\ done' = [done EXCEPT ![p] = @ \cup (batch.offs \cap Filtered[p])]
        /\ batch' = None /\ ~auto_commit
        /\ UNCHANGED <<committed, assigned, position, auto_commit, offsets, skipped>>
        /\ pc' # "ended"
    BY DEF Deliver, external, commits
  <1>3. \A q \in Partitions :
          /\ Settled(q)' = IF q = p THEN D ELSE Settled(q)
          /\ Settled(q) \subseteq Settled(q)'
    BY <1>1, <1>2 DEF TypeOK, Settled
  <1>4. /\ t \in Trackers /\ TrackerSound(t, V, D)
        /\ \A o \in V : (tracker[p] # None /\ o \in tracker[p].delivered) \/ o \in batch.offs
                          => o \in D \cup t.delivered
    <2>1. tracker[p] # None => TrackerSound(tracker[p], V, D)
      BY <1>1 DEF FrontierSound, TrackerSound
    <2>2. /\ batch.first \in batch.offs /\ \A x \in batch.offs : batch.first <= x
          /\ \A o \in V : o < batch.first =>
               o \in D \/ (tracker[p] # None /\ o \in tracker[p].delivered)
          /\ \A o \in V, x \in batch.offs : batch.first <= o /\ o < x => o \in batch.offs
      BY <1>1 DEF Deliver, BatchSound, Accounted
    <2> HIDE DEF D, V
    <2> QED
      BY <1>1, <2>1, <2>2, DeliverySound
  <1>5. PICK f \in {t.frontier} \cup t.delivered :
          /\ record_ack(t, batch.offs \cap Filtered[p], f).ok
          /\ tracker' = [tracker EXCEPT ![p] = record_ack(t, batch.offs \cap Filtered[p], f).after]
    BY DEF Deliver
  <1>6. u = record_ack(t, batch.offs \cap Filtered[p], f).after
    BY <1>1, <1>5 DEF TypeOK
  <1>7. /\ u \in Trackers /\ TrackerSound(u, V, D)
        /\ \A o \in V : o \in D \cup t.delivered => o \in D \cup u.delivered
    <2>1. batch.offs \cap Filtered[p] \in SUBSET D
      OBVIOUS
    <2> HIDE DEF D, V, t, u
    <2> QED
      BY <1>1, <1>4, <1>5, <1>6, <2>1, AckSound
  <1>8. \A q \in Partitions : q # p => tracker'[q] = tracker[q] /\ Settled(q)' = Settled(q)
    BY <1>1, <1>3, <1>5 DEF TypeOK
  <1>9. u # None
    BY <1>7
  <1>10. FrontierSound'
    BY <1>3, <1>7, <1>8 DEF FrontierSound
  <1>11. PositionSound'
    <2> SUFFICES ASSUME NEW q \in assigned, NEW o \in Visible[q], o < position[q]
                 PROVE Accounted(q, o)'
      BY <1>2 DEF PositionSound
    <2>1. q \in Partitions
      BY DEF TypeOK
    <2>2. Accounted(q, o) \/ (p = q /\ o \in batch.offs)
      BY DEF PositionSound
    <2>3. CASE q = p
      <3>1. o \in D \/ (tracker[p] # None /\ o \in tracker[p].delivered) \/ o \in batch.offs
        BY <2>2, <2>3 DEF Accounted
      <3>2. o \in D \cup t.delivered
        BY <1>4, <2>3, <3>1
      <3>3. o \in D \cup u.delivered
        BY <1>7, <2>3, <3>2
      <3>4. Settled(q)' = D /\ tracker'[q] = u
        BY <1>3, <2>1, <2>3
      <3> QED
        BY <1>9, <3>3, <3>4 DEF Accounted
    <2>4. CASE q # p
      BY <1>8, <2>1, <2>2, <2>4 DEF Accounted
    <2> QED
      BY <2>3, <2>4
  <1>12. CommitSound' /\ AtLeastOnce' /\ BatchSound'
    BY <1>2, <1>3 DEF CommitSound, AtLeastOnce, BatchSound
  <1> QED
    BY <1>10, <1>11, <1>12

\* An Ack of a tracked delivery.
LEMMA AckFrameSound ==
  ASSUME TypeOK, Sound, NEW p \in Partitions, NEW o \in Visible[p], AckFrame(p, o),
         ~reseeded', ~dropped'
  PROVE  Sound'
  <1> USE VisibleAssumption, NoneAssumption DEF Sound
  <1> DEFINE V == Visible[p]
             D == Settled(p) \cup {o}
             t == tracker[p]
             u == tracker'[p]
  <1>1. t # None /\ t \in Trackers /\ batch = None
    BY DEF AckFrame, FrameWins, TypeOK
  <1>2. V \in SUBSET Nat /\ D \in SUBSET Nat /\ {o} \in SUBSET D
    BY DEF TypeOK, Settled
  <1>3. /\ done' = [done EXCEPT ![p] = @ \cup {o}] /\ batch' = None /\ ~auto_commit
        /\ UNCHANGED <<committed, assigned, position, auto_commit, offsets, skipped>>
        /\ pc' # "ended"
    BY DEF AckFrame, FrameWins, external, commits
  <1>4. /\ Settled(p)' = D /\ \A q \in Partitions : Settled(q) \subseteq Settled(q)'
        /\ \A q \in Partitions : q # p => Settled(q)' = Settled(q)
    BY <1>3 DEF TypeOK, Settled
  <1>5. TrackerSound(t, V, D)
    BY <1>1 DEF FrontierSound, TrackerSound
  <1>6. PICK f \in {t.frontier} \cup t.delivered :
          /\ record_ack(t, {o}, f).ok
          /\ tracker' = [tracker EXCEPT ![p] = record_ack(t, {o}, f).after]
    BY <1>1 DEF AckFrame
  <1>7. u = record_ack(t, {o}, f).after
    BY <1>6 DEF TypeOK
  <1>8. /\ u \in Trackers /\ TrackerSound(u, V, D)
        /\ \A x \in V : x \in D \cup t.delivered => x \in D \cup u.delivered
    <2> HIDE DEF D, V, t, u
    <2> QED
      BY <1>1, <1>2, <1>5, <1>6, <1>7, AckSound
  <1>9. \A q \in Partitions : q # p => tracker'[q] = tracker[q] /\ Settled(q)' = Settled(q)
    BY <1>4, <1>6 DEF TypeOK
  <1>10. u # None
    BY <1>8
  <1>11. FrontierSound'
    BY <1>4, <1>8, <1>9 DEF FrontierSound
  <1>12. PositionSound'
    <2> SUFFICES ASSUME NEW q \in assigned, NEW x \in Visible[q], x < position[q]
                 PROVE Accounted(q, x)'
      BY <1>3 DEF PositionSound
    <2>1. q \in Partitions
      BY DEF TypeOK
    <2>2. Accounted(q, x)
      BY <1>1 DEF PositionSound
    <2>3. CASE q = p
      BY <1>4, <1>8, <1>10, <2>2, <2>3 DEF Accounted
    <2>4. CASE q # p
      BY <1>9, <2>1, <2>2, <2>4 DEF Accounted
    <2> QED
      BY <2>3, <2>4
  <1>13. CommitSound' /\ AtLeastOnce' /\ BatchSound'
    BY <1>3, <1>4 DEF CommitSound, AtLeastOnce, BatchSound
  <1> QED
    BY <1>11, <1>12, <1>13

\* Records that another member processes, or that are acknowledged again, only
\* help: a step that settles more and leaves the session alone.
LEMMA MoreDone ==
  ASSUME TypeOK, Sound, AtLeastOnce',
         \A p \in Partitions : Settled(p) \subseteq Settled(p)',
         UNCHANGED <<assigned, position, pc, auto_commit, batch, tracker, offsets>>
  PROVE  Sound'
  <1>1. \A p \in Partitions : \A o : Accounted(p, o) => Accounted(p, o)'
    BY DEF Accounted
  <1>2. FrontierSound'
    BY DEF Sound, FrontierSound, TrackerSound
  <1>3. PositionSound'
    BY <1>1 DEF Sound, PositionSound, TypeOK
  <1>4. BatchSound'
    BY <1>1 DEF Sound, BatchSound, TypeOK, Batches
  <1>5. CommitSound'
    BY DEF Sound, CommitSound
  <1> QED
    BY <1>2, <1>3, <1>4, <1>5 DEF Sound

\* A fetch takes up exactly where the position was.
LEMMA FetchSound ==
  ASSUME TypeOK, Sound, NEW p \in Partitions, Fetch(p) PROVE Sound'
  <1> USE VisibleAssumption, NoneAssumption DEF Sound
  <1>1. PICK first \in Visible[p], last \in Visible[p] :
          /\ position[p] <= first /\ first <= last
          /\ \A o \in Visible[p] : position[p] <= o => first <= o
          /\ batch' = [part |-> p, first |-> first,
                       offs |-> {o \in Visible[p] : first <= o /\ o <= last}]
          /\ position' = [position EXCEPT ![p] = last + 1]
    BY DEF Fetch
  <1>2. /\ pc = "select" /\ batch = None /\ p \in assigned
        /\ UNCHANGED <<committed, assigned, pc, auto_commit, tracker, offsets, done, skipped>>
    BY DEF Fetch, acking, commits
  <1>3. \A q \in Partitions : \A o : Accounted(q, o)' <=> Accounted(q, o)
    BY <1>2 DEF Accounted, Settled
  <1>4. \A o \in Visible[p] : o < first => Accounted(p, o)
    BY <1>1, <1>2 DEF PositionSound, TypeOK
  <1>5. batch' # None /\ batch'.part = p /\ batch'.first = first
        /\ batch'.offs = {o \in Visible[p] : first <= o /\ o <= last}
    <2>1. batch' \in Batches
      BY <1>1 DEF Batches
    <2> QED
      BY <1>1, <2>1
  <1>6. BatchSound'
    BY <1>1, <1>2, <1>3, <1>4, <1>5 DEF BatchSound
  <1>7. PositionSound'
    <2> SUFFICES ASSUME NEW q \in assigned, NEW o \in Visible[q], o < position'[q]
                 PROVE Accounted(q, o) \/ (p = q /\ o \in batch'.offs)
      BY <1>2, <1>3, <1>5 DEF PositionSound, TypeOK
    <2>1. CASE q = p
      <3>1. o \in Nat /\ o <= last
        BY <1>1, <2>1 DEF TypeOK
      <3> QED
        BY <1>1, <1>4, <1>5, <2>1, <3>1
    <2>2. CASE q # p
      <3>1. position'[q] = position[q]
        BY <1>1, <2>2 DEF TypeOK
      <3> QED
        BY <1>2, <2>2, <3>1 DEF PositionSound
    <2> QED
      BY <2>1, <2>2
  <1>8. FrontierSound' /\ CommitSound' /\ AtLeastOnce'
    BY <1>2 DEF FrontierSound, CommitSound, AtLeastOnce, Settled
  <1> QED
    BY <1>6, <1>7, <1>8

\* commit_acked asks for the frontier, and forgets only partitions that the
\* session has lost.
LEMMA CommitAckedSound ==
  ASSUME TypeOK, Sound, commit_acked PROVE Sound'
  <1> USE VisibleAssumption, NoneAssumption DEF Sound
  <1>1. /\ batch = None
        /\ UNCHANGED <<committed, assigned, position, auto_commit, batch>>
        /\ ~auto_commit /\ pc' # "ended" /\ \A p : Settled(p)' = Settled(p)
    BY DEF commit_acked, BatchSound, external, commits, Settled
  <1>2. \A p \in Partitions : tracker'[p] = retain(p) /\ offsets'[p] = commit_value(retain(p))
    BY DEF commit_acked
  <1>3. \A p \in Partitions : tracker'[p] # None => tracker'[p] = tracker[p]
    BY <1>2 DEF retain
  <1>4. \A p \in assigned : tracker'[p] = tracker[p]
    BY <1>2 DEF retain, TypeOK
  <1>5. FrontierSound'
    BY <1>1, <1>3 DEF FrontierSound
  <1>6. PositionSound'
    BY <1>1, <1>4 DEF PositionSound, Accounted, TypeOK
  <1>7. ASSUME NEW p \in Partitions, offsets'[p] # None, NEW o \in Visible[p], o < offsets'[p]
        PROVE o \in Settled(p)
    <2>1. tracker'[p] # None /\ offsets'[p] = tracker[p].frontier + 1
      BY <1>2, <1>3, <1>7 DEF commit_value
    <2>2. tracker[p] \in Trackers /\ tracker[p] # None /\ o \in Nat
      BY <1>3, <2>1 DEF TypeOK
    <2>3. o <= tracker[p].frontier
      BY <1>7, <2>1, <2>2 DEF Trackers
    <2> QED
      BY <2>2, <2>3 DEF FrontierSound, TrackerSound
  <1>8. CommitSound' /\ BatchSound' /\ AtLeastOnce'
    BY <1>1, <1>7 DEF CommitSound, BatchSound, AtLeastOnce
  <1> QED
    BY <1>5, <1>6, <1>8

\* The commit of an auto-committing stream asks for what has been handed over.
LEMMA HandedOverSound ==
  ASSUME TypeOK, Sound, commit PROVE Sound'
  <1> USE DEF Sound
  <1>1. /\ batch = None /\ auto_commit
        /\ UNCHANGED <<committed, assigned, position, auto_commit, batch, tracker>>
        /\ \A p : Settled(p)' = Settled(p)
    BY DEF commit, BatchSound, external, acking, commits, Settled
  <1>2. \A p \in Partitions : tracker[p] = None
    BY <1>1 DEF CommitSound
  <1>3. \A p \in assigned : \A o \in Visible[p] : o < position[p] => o \in Settled(p)
    BY <1>1, <1>2 DEF PositionSound, Accounted, TypeOK
  <1>4. \A p \in Partitions : offsets'[p] = IF p \in assigned THEN position[p] ELSE None
    BY DEF commit
  <1>5. CommitSound'
    BY <1>1, <1>3, <1>4 DEF CommitSound
  <1> QED
    BY <1>1, <1>5 DEF FrontierSound, PositionSound, BatchSound, AtLeastOnce, Accounted, TypeOK

\* Confirming a commit changes trackers only in what was last committed.
LEMMA OnlyLast ==
  ASSUME TypeOK, CommitConfirmed, NEW p \in Partitions
  PROVE  /\ tracker'[p] = None <=> tracker[p] = None
         /\ tracker[p] # None =>
              /\ tracker'[p].frontier = tracker[p].frontier
              /\ tracker'[p].delivered = tracker[p].delivered
              /\ tracker'[p].pending = tracker[p].pending
  <1>1. tracker[p] # None /\ offsets[p] # None =>
          [tracker[p] EXCEPT !.last = offsets[p] - 1] \in Trackers
    BY NoneAssumption DEF TypeOK, Trackers
  <1>2. tracker'[p] = IF auto_commit \/ tracker[p] = None \/ offsets[p] = None THEN tracker[p]
                      ELSE [tracker[p] EXCEPT !.last = offsets[p] - 1]
    BY DEF CommitConfirmed
  <1> QED
    BY <1>1, <1>2, NoneAssumption DEF TypeOK, Trackers

\* So a confirmed commit is sound.
LEMMA ConfirmedSound ==
  ASSUME TypeOK, Sound, CommitConfirmed PROVE Sound'
  <1> USE NoneAssumption DEF Sound
  <1>1. /\ committed' = OffsetsStored(committed) /\ batch = None /\ offsets' = [p \in Partitions |-> None]
        /\ UNCHANGED <<assigned, position, auto_commit, batch>>
        /\ \A p : Settled(p)' = Settled(p)
    BY DEF CommitConfirmed, BatchSound, Settled
  <1>2. AtLeastOnce'
    BY <1>1, StoredSound DEF AtLeastOnce
  <1>3. ASSUME NEW p \in Partitions
        PROVE /\ tracker'[p] = None <=> tracker[p] = None
              /\ tracker[p] # None =>
                   /\ tracker'[p].frontier = tracker[p].frontier
                   /\ tracker'[p].delivered = tracker[p].delivered
                   /\ tracker'[p].pending = tracker[p].pending
    BY OnlyLast
  <1>4. FrontierSound'
    BY <1>1, <1>3 DEF FrontierSound, TrackerSound
  <1>5. PositionSound'
    BY <1>1, <1>3 DEF PositionSound, Accounted, TypeOK
  <1>6. CommitSound'
    BY <1>1 DEF CommitSound, CommitConfirmed
  <1> QED
    BY <1>1, <1>2, <1>4, <1>5, <1>6 DEF BatchSound

\* At the start nothing is delivered or committed.
LEMMA AckInit == Init => AckInv
  <1> SUFFICES ASSUME Init PROVE Sound
    BY TypeInit DEF AckInv
  <1>1. FrontierSound /\ PositionSound /\ BatchSound
    BY DEF Init, FrontierSound, PositionSound, BatchSound
  <1>2. CommitSound
    BY DEF Init, CommitSound
  <1>3. AtLeastOnce
    BY VisibleAssumption DEF Init, AtLeastOnce
  <1> QED
    BY <1>1, <1>2, <1>3 DEF Sound

\* One step per action.
LEMMA AckStep == AckInv /\ [Next]_vars => AckInv'
  <1> SUFFICES ASSUME AckInv, [Next]_vars PROVE AckInv'
    OBVIOUS
  <1>1. TypeOK /\ TypeOK'
    BY TypeStep DEF AckInv
  <1>2. (reseeded => reseeded') /\ (dropped => dropped')
    <2>1. ASSUME NEW p \in Partitions, NEW o \in Visible[p], AckFrame(p, o)
          PROVE (reseeded => reseeded') /\ (dropped => dropped')
      BY <2>1, Zenon DEF AckFrame, FrameWins
    <2>2. ASSUME NEW p \in Partitions, NEW o \in Visible[p], IgnoredFrame(p, o)
          PROVE (reseeded => reseeded') /\ (dropped => dropped')
      BY <2>2, Zenon DEF IgnoredFrame, FrameWins
    <2>3. CASE UNCHANGED <<reseeded, dropped>>
      BY <2>3
    <2> QED
      BY <2>1, <2>2, <2>3 DEF Next, PollEmpty, AutoCommit, DeliverAuto, Deliver, TooManyUnacked,
         commit_acked, commit, CommitConfirmed, CommitFenced, EndSession, StartSession,
         Fetch, Assign, Revoke, OtherMember, AckRefused, vars
  <1> SUFFICES ASSUME ~reseeded', ~dropped' PROVE Sound'
    BY <1>1 DEF AckInv
  <1>3. Sound
    BY <1>2 DEF AckInv
  <1> USE <1>1, <1>3
  <1>4. ASSUME UNCHANGED vars PROVE Sound'
    BY <1>4 DEF vars, external, acking, commits, Sound, FrontierSound, PositionSound, BatchSound,
       CommitSound, AtLeastOnce, Accounted, Settled
  <1>5. ASSUME DeliverAuto PROVE Sound'
    <2> USE <1>5 DEF Sound
    <2>1. /\ batch' = None /\ auto_commit /\ batch \in Batches
          /\ done' = [done EXCEPT ![batch.part] = @ \cup batch.offs]
          /\ UNCHANGED <<committed, assigned, position, auto_commit, tracker, offsets, skipped>>
      BY DEF DeliverAuto, external, acking, commits, TypeOK
    <2>2. \A q \in Partitions : Settled(q) \subseteq Settled(q)'
      BY <2>1 DEF TypeOK, Settled
    <2>3. \A q \in Partitions : q = batch.part => batch.offs \subseteq Settled(q)'
      BY <2>1 DEF TypeOK, Batches, Settled
    <2>4. PositionSound'
      BY <2>1, <2>2, <2>3 DEF PositionSound, Accounted, TypeOK
    <2>5. FrontierSound' /\ CommitSound' /\ AtLeastOnce' /\ BatchSound'
      BY <2>1, <2>2 DEF FrontierSound, CommitSound, AtLeastOnce, BatchSound
    <2> QED
      BY <2>4, <2>5
  <1>6. ASSUME TooManyUnacked \/ CommitFenced PROVE Sound'
    <2>1. End(committed) /\ UNCHANGED done
      BY <1>6 DEF TooManyUnacked, CommitFenced
    <2> QED
      BY <2>1, EndSound DEF Sound, AtLeastOnce, TypeOK
  <1>7. ASSUME NEW p \in Partitions, NEW o \in Visible[p], AckRefused(p, o) PROVE Sound'
    <2>1. End(committed) /\ UNCHANGED done
      BY <1>7 DEF AckRefused
    <2> QED
      BY <2>1, EndSound DEF Sound, AtLeastOnce, TypeOK
  <1>8. ASSUME EndSession PROVE Sound'
    <2>1. UNCHANGED done /\ (End(committed) \/ End(OffsetsStored(committed)))
      BY <1>8 DEF EndSession
    <2>2. CASE End(committed)
      BY <2>1, <2>2, EndSound DEF Sound, AtLeastOnce, TypeOK
    <2>3. CASE End(OffsetsStored(committed))
      BY <2>1, <2>3, EndSound, StoredSound
    <2> QED
      BY <2>1, <2>2, <2>3
  <1>9. ASSUME StartSession PROVE Sound'
    <2>1. /\ pc = "ended" /\ batch = None
          /\ UNCHANGED <<committed, assigned, position, batch, tracker, offsets>>
          /\ \A q : Settled(q)' = Settled(q)
      BY <1>9 DEF StartSession, external, acking, commits, Settled, Sound, BatchSound
    <2>2. tracker = [q \in Partitions |-> None]
      BY <2>1 DEF Sound, CommitSound
    <2> QED
      BY <2>1, <2>2 DEF Sound, FrontierSound, PositionSound, BatchSound, CommitSound,
         AtLeastOnce, Accounted, TypeOK
  <1>10. ASSUME NEW p \in Partitions, Assign(p) PROVE Sound'
    <2> USE <1>10 DEF Sound
    <2>1. /\ UNCHANGED <<committed, pc, auto_commit, batch, tracker, offsets>>
          /\ assigned' = assigned \cup {p} /\ \A q : Settled(q)' = Settled(q)
          /\ position' = [position EXCEPT ![p] = committed[p]]
      BY DEF Assign, acking, Settled
    <2>2. position'[p] = committed[p] /\ \A q \in Partitions : q # p => position'[q] = position[q]
      BY <2>1 DEF TypeOK
    <2>3. PositionSound'
      BY <2>1, <2>2 DEF PositionSound, AtLeastOnce, Accounted, TypeOK
    <2> QED
      BY <2>1, <2>3 DEF FrontierSound, CommitSound, AtLeastOnce, BatchSound, Accounted, TypeOK
  <1>11. ASSUME NEW p \in Partitions, Revoke(p) PROVE Sound'
    <2> USE <1>11 DEF Sound
    <2>1. /\ UNCHANGED <<committed, auto_commit, batch, tracker, offsets>>
          /\ assigned' \subseteq assigned /\ \A q : Settled(q)' = Settled(q)
          /\ \A q \in assigned' : position'[q] = position[q]
          /\ pc = "select" => pc' = "select"
          /\ pc' = "ended" => pc = "ended"
      BY DEF Revoke, acking, Settled, TypeOK
    <2> QED
      BY <2>1 DEF FrontierSound, PositionSound, CommitSound, AtLeastOnce, BatchSound, Accounted, TypeOK
  <1>12. ASSUME NEW p \in Partitions, OtherMember(p) PROVE Sound'
    <2>1. PICK last \in Visible[p] :
            /\ committed[p] <= last
            /\ done' = [done EXCEPT ![p] = @ \cup
                         {o \in Visible[p] : committed[p] <= o /\ o <= last}]
            /\ committed' = [committed EXCEPT ![p] = last + 1]
      BY <1>12 DEF OtherMember
    <2>a. UNCHANGED skipped
      BY <1>12 DEF OtherMember
    <2>2. \A q \in Partitions : Settled(q) \subseteq Settled(q)'
      BY <2>1, <2>a DEF TypeOK, Settled
    <2>3. AtLeastOnce'
      BY <2>1, <2>a, VisibleAssumption DEF Sound, AtLeastOnce, TypeOK, Settled
    <2> QED
      BY <1>12, <2>2, <2>3, MoreDone DEF OtherMember, acking
  <1>13. ASSUME NEW p \in Partitions, NEW o \in Visible[p], IgnoredFrame(p, o) PROVE Sound'
    <2>1. /\ batch' = batch /\ \A q \in Partitions : Settled(q) \subseteq Settled(q)'
          /\ UNCHANGED <<committed, assigned, position, pc, auto_commit, tracker, offsets>>
      BY <1>13 DEF IgnoredFrame, FrameWins, external, acking, commits, TypeOK, Settled
    <2>2. AtLeastOnce'
      BY <2>1 DEF Sound, AtLeastOnce
    <2> QED
      BY <2>1, <2>2, MoreDone
  <1>14. ASSUME AutoCommit PROVE Sound'
    <2>1. AtLeastOnce' /\ \A p \in Partitions : Settled(p) \subseteq Settled(p)'
      BY <1>14, PositionsSound DEF AutoCommit, Sound, AtLeastOnce, TypeOK
    <2> QED
      BY <1>14, <2>1, MoreDone DEF AutoCommit, acking
  <1> QED
    BY <1>4, <1>5, <1>6, <1>7, <1>8, <1>9, <1>10, <1>11, <1>12, <1>13, <1>14, DeliverSound,
       AckFrameSound, FetchSound, CommitAckedSound, HandedOverSound, ConfirmedSound
       DEF Next, PollEmpty

\* The inductive invariant holds for every log, filter, number of partitions,
\* rebalances, restarts and commits of the client: what the tracker, the consumer
\* position and a commit under way claim to be settled is processed, or was
\* skipped by a commit that the client made on its own.
THEOREM AckTracking == Spec => []AckInv
  BY AckInit, AckStep, PTL DEF Spec

\* At-least-once: the group's committed offset skips a record that nobody
\* processed only by a commit that the Kafka client makes on its own, which
\* ConsumeSession leaves enabled, unless the select dropped a decoding batch or
\* an ack seeded a tracker that commit_acked had discarded.
THEOREM AtLeastOnceHolds == Spec => []AtLeastOnceUnlessReseeded
  <1>1. AckInv => AtLeastOnceUnlessReseeded
    BY DEF AckInv, Sound, AtLeastOnceUnlessReseeded
  <1> QED
    BY <1>1, AckTracking, PTL

-----------------------------------------------------------------------------
(* The committed offset and honest acknowledgements.                       *)

\* What there is in each phase of the loop.
Phases ==
  /\ batch # None => pc = "select" /\ batch.first \in batch.offs
  /\ (\E p \in Partitions : offsets[p] # None) => pc \in {"committing", "fenced"}
  /\ auto_commit \/ pc = "ended" => \A p \in Partitions : tracker[p] = None
  /\ pc = "ended" =>
       assigned = {} /\ \A p \in Partitions : delivered_offsets[p] = {} /\ seen[p] = {}

\* Of the partitions it has not lost, the session holds state of those it has
\* been assigned only.
Owned ==
  \A p \in Partitions \ lost :
    \/ tracker[p] # None \/ offsets[p] # None \/ delivered_offsets[p] # {}
    \/ batch # None /\ batch.part = p
    => p \in assigned

\* What the stream waits for, the tracker knows: no ack seeds one.
Remembered ==
  \A p \in Partitions \ lost : delivered_offsets[p] # {} => tracker[p] # None

\* No commit of a partition that is gone reaches the coordinator.
LeftAlone == \A p \in lost \ assigned : offsets[p] # None => pc = "fenced"

\* Tracker t stands between the floor c and the position n.
Between(t, c, n) ==
  /\ c <= t.frontier + 1 /\ t.frontier < n
  /\ \A d \in t.delivered : t.frontier < d /\ d < n

\* Nothing the session works on is below the floor, unless it was lost once.
Ahead ==
  \A p \in assigned \ lost :
    /\ floor[p] <= position[p]
    /\ tracker[p] # None => Between(tracker[p], floor[p], position[p])
    /\ offsets[p] # None =>
         /\ floor[p] <= offsets[p] /\ offsets[p] <= position[p]
         /\ tracker[p] # None => offsets[p] <= tracker[p].frontier + 1
    /\ batch # None /\ batch.part = p =>
         /\ floor[p] <= batch.first
         /\ \A x \in batch.offs : batch.first <= x /\ x < position[p]

\* The group is not below the floor, except where a lost partition is back.
OnFloor == \A p \in Partitions : p \in lost \cap assigned \/ floor[p] <= committed[p]

Forward == Owned /\ Remembered /\ LeftAlone /\ Ahead /\ OnFloor

CommitInv == TypeOK /\ Phases /\ Forward

\* Acknowledgements move the frontier forward, within what was delivered.
LEMMA BetweenAck ==
  ASSUME NEW t \in Trackers, NEW c \in Nat, NEW n \in Nat, Between(t, c, n),
         NEW acks \in SUBSET Nat, NEW f \in {t.frontier} \cup t.delivered
  PROVE  /\ record_ack(t, acks, f).after \in Trackers
         /\ Between(record_ack(t, acks, f).after, c, n)
  <1>1. f \in Nat \cup {-1} /\ t.frontier <= f /\ f < n /\ t.frontier \in Nat \cup {-1}
    BY DEF Between, Trackers
  <1>2. /\ record_ack(t, acks, f).after \in Trackers
        /\ record_ack(t, acks, f).after.frontier = f
        /\ record_ack(t, acks, f).after.delivered = {d \in t.delivered : d > f}
    BY <1>1 DEF record_ack, drain, Trackers
  <1> QED
    BY <1>1, <1>2 DEF Between, Trackers

\* A batch that is not below the floor keeps the tracker there.
LEMMA BetweenDelivery ==
  ASSUME NEW t \in Trackers \cup {None}, NEW c \in Nat, NEW n \in Nat,
         t # None => Between(t, c, n),
         NEW offs \in SUBSET Nat, NEW first \in offs, c <= first,
         \A x \in offs : first <= x /\ x < n
  PROVE  /\ record_delivery(t, first, offs) \in Trackers
         /\ Between(record_delivery(t, first, offs), c, n)
  <1>1. CASE t = None
    BY <1>1 DEF record_delivery, Seeded, Trackers, Between
  <1>2. CASE t # None
    <2>1. t \in Trackers
      BY <1>2
    <2>2. /\ record_delivery(t, first, offs) \in Trackers
          /\ record_delivery(t, first, offs).frontier = t.frontier
          /\ record_delivery(t, first, offs).delivered = t.delivered \cup {o \in offs : o > t.frontier}
      BY <1>2, <2>1 DEF record_delivery, Trackers
    <2> QED
      BY <1>2, <2>1, <2>2 DEF Between, Trackers
  <1> QED
    BY <1>1, <1>2

\* The phases of the loop, one step per action.
LEMMA PhasesStep ==
  ASSUME TypeOK, Phases, [Next]_vars PROVE Phases'
  <1> USE NoneAssumption, VisibleAssumption DEF Phases, external, acking
  <1>0. ASSUME AutoCommit PROVE Phases'
    BY <1>0 DEF AutoCommit
  <1>1. ASSUME UNCHANGED vars PROVE Phases'
    BY <1>1 DEF vars
  <1>2. ASSUME DeliverAuto PROVE Phases'
    BY <1>2 DEF DeliverAuto
  <1>3. ASSUME Deliver PROVE Phases'
    BY <1>3 DEF Deliver
  <1>4. ASSUME NEW c, End(c) PROVE Phases'
    BY <1>4 DEF End
  <1>5. ASSUME commit_acked PROVE Phases'
    <2>1. \A p \in Partitions : tracker'[p] = retain(p) /\ offsets'[p] = commit_value(retain(p))
      BY <1>5 DEF commit_acked
    <2>2. (\E p \in Partitions : offsets'[p] # None) => pc' = "committing"
      BY <1>5, <2>1 DEF commit_acked
    <2> QED
      BY <1>5, <2>2 DEF commit_acked
  <1>6. ASSUME commit PROVE Phases'
    BY <1>6 DEF commit
  <1>7. ASSUME CommitConfirmed PROVE Phases'
    BY <1>7 DEF CommitConfirmed
  <1>8. ASSUME StartSession PROVE Phases'
    BY <1>8 DEF StartSession
  <1>9. ASSUME NEW p \in Partitions, Fetch(p) PROVE Phases'
    <2>1. PICK first \in Visible[p], last \in Visible[p] :
            /\ first <= last
            /\ batch' = [part |-> p, first |-> first,
                         offs |-> {o \in Visible[p] : first <= o /\ o <= last}]
      BY <1>9 DEF Fetch
    <2>2. batch'.first \in batch'.offs
      BY <2>1
    <2> QED
      BY <1>9, <2>2 DEF Fetch
  <1>10. ASSUME NEW p \in Partitions, Assign(p) \/ Revoke(p) \/ OtherMember(p) PROVE Phases'
    BY <1>10 DEF Assign, Revoke, OtherMember
  <1>11. ASSUME NEW p \in Partitions, NEW o \in Visible[p], AckFrame(p, o) PROVE Phases'
    BY <1>11 DEF AckFrame, FrameWins
  <1>12. ASSUME NEW p \in Partitions, NEW o \in Visible[p], IgnoredFrame(p, o) PROVE Phases'
    BY <1>12 DEF IgnoredFrame, FrameWins
  <1> QED
    BY <1>0, <1>1, <1>2, <1>3, <1>4, <1>5, <1>6, <1>7, <1>8, <1>9, <1>10, <1>11, <1>12
    DEF Next, PollEmpty, TooManyUnacked, CommitFenced, EndSession, AckRefused

\* A step that moves tracker p between its bounds, or anywhere if the session
\* has lost p, and no other state that Forward speaks of but what is delivered
\* from p.
LEMMA TrackerMoves ==
  ASSUME TypeOK, TypeOK', Forward, NEW p \in Partitions, NEW u \in Trackers,
         p \notin lost => p \in assigned /\ Between(u, floor[p], position[p]),
         tracker' = [tracker EXCEPT ![p] = u],
         \A q \in Partitions : q # p => delivered_offsets'[q] = delivered_offsets[q],
         batch' = None, \A q \in Partitions : offsets[q] = None,
         UNCHANGED <<committed, assigned, position, offsets, lost, floor>>
  PROVE  Forward'
  <1> USE DEF Forward
  <1>1. /\ tracker'[p] = u /\ u # None
        /\ \A q \in Partitions : q # p => tracker'[q] = tracker[q]
    BY NoneAssumption DEF TypeOK
  <1>2. Owned' /\ Remembered'
    BY <1>1 DEF Owned, Remembered
  <1>3. LeftAlone' /\ OnFloor'
    BY DEF LeftAlone, OnFloor, TypeOK
  <1>4. Ahead'
    <2> SUFFICES ASSUME NEW q \in assigned \ lost
                 PROVE  /\ floor[q] <= position[q]
                        /\ tracker'[q] # None => Between(tracker'[q], floor[q], position[q])
      BY DEF Ahead, TypeOK
    <2>1. q \in Partitions
      BY DEF TypeOK
    <2> QED
      BY <1>1, <2>1 DEF Ahead
  <1> QED
    BY <1>2, <1>3, <1>4

\* A step that leaves the session's work on its partitions alone, or drops the
\* batch.
LEMMA WorkStays ==
  ASSUME TypeOK, Forward, batch' \in {batch, None}, pc = "fenced" => pc' = "fenced",
         UNCHANGED <<committed, assigned, position, tracker, delivered_offsets, offsets, lost, floor>>
  PROVE  Forward'
  <1> USE DEF Forward
  <1>1. Owned' /\ Remembered' /\ LeftAlone' /\ OnFloor'
    BY DEF Owned, Remembered, LeftAlone, OnFloor
  <1>2. Ahead'
    BY DEF Ahead, Between
  <1> QED
    BY <1>1, <1>2

\* Nothing falls below the floor, one step per action.
LEMMA ForwardStep ==
  ASSUME TypeOK, TypeOK', Phases, Forward, [Next]_vars
  PROVE  Forward'
  <1> USE NoneAssumption, VisibleAssumption DEF Forward
  <1>1. CASE UNCHANGED vars
    BY <1>1, WorkStays DEF vars, external, acking, commits
  <1>2. CASE DeliverAuto
    BY <1>2, WorkStays DEF DeliverAuto, external, acking, commits
  <1>3. CASE Deliver
    <2>1. batch \in Batches /\ pc = "select" /\ batch # None
      BY <1>3 DEF Deliver, TypeOK
    <2>2. PICK p, b, offs, first :
            p = batch.part /\ b = batch.offs \cap Filtered[p] /\ offs = batch.offs /\ first = batch.first
      OBVIOUS
    <2>3. /\ p \in Partitions /\ offs \in SUBSET Nat /\ first \in offs /\ b \in SUBSET Nat
          /\ floor[p] \in Nat /\ position[p] \in Nat
          /\ p \notin lost =>
               p \in assigned /\ floor[p] <= first /\ \A x \in offs : first <= x /\ x < position[p]
      BY <2>1, <2>2 DEF Owned, Ahead, Phases, TypeOK, Batches
    <2>4. PICK t : t = record_delivery(tracker[p], first, offs)
      OBVIOUS
    <2>5. t \in Trackers /\ (p \notin lost => Between(t, floor[p], position[p]))
      <3>1. PICK t0, c, n : t0 = tracker[p] /\ c = floor[p] /\ n = position[p]
        OBVIOUS
      <3>2. t0 \in Trackers \cup {None} /\ (p \notin lost /\ t0 # None => Between(t0, c, n))
        BY <2>3, <3>1 DEF TypeOK, Ahead
      <3>3. t \in Trackers
        BY <2>3, <2>4, <3>1, <3>2 DEF record_delivery, Seeded, Trackers
      <3> QED
        BY <2>3, <2>4, <3>1, <3>2, <3>3, BetweenDelivery
    <2>6. PICK f \in {t.frontier} \cup t.delivered :
            tracker' = [tracker EXCEPT ![p] = record_ack(t, b, f).after]
      BY <1>3, <2>2, <2>4 DEF Deliver
    <2>7. PICK u : u = record_ack(t, b, f).after
      OBVIOUS
    <2>8. u \in Trackers /\ (p \notin lost => Between(u, floor[p], position[p]))
      <3>1. PICK c, n : c = floor[p] /\ n = position[p]
        OBVIOUS
      <3>2. u \in Trackers
        BY <2>3, <2>5, <2>7 DEF record_ack, drain, Trackers
      <3> QED
        BY <2>3, <2>5, <2>7, <3>1, <3>2, BetweenAck
    <2>9. /\ \A q \in Partitions : q # p => delivered_offsets'[q] = delivered_offsets[q]
          /\ batch' = None
          /\ UNCHANGED <<committed, assigned, position, offsets, lost, floor>>
      BY <1>3, <2>2, <2>3 DEF Deliver, mark_acknowledged, external, commits, TypeOK
    <2>10. \A q \in Partitions : offsets[q] = None
      BY <2>1 DEF Phases
    <2> QED
      BY <2>3, <2>6, <2>7, <2>8, <2>9, <2>10, TrackerMoves
  <1>4. ASSUME NEW c, End(c) PROVE Forward'
    <2>1. Owned' /\ Remembered' /\ LeftAlone' /\ Ahead'
      BY <1>4 DEF End, Owned, Remembered, LeftAlone, Ahead
    <2>2. OnFloor'
      BY <1>4 DEF End, OnFloor, TypeOK
    <2> QED
      BY <2>1, <2>2
  <1>5. CASE commit_acked
    <2>1. batch = None /\ UNCHANGED <<committed, assigned, position, batch, delivered_offsets, lost, floor>>
      BY <1>5 DEF commit_acked, Phases, external, commits
    <2>2. \A p \in Partitions : tracker'[p] = retain(p) /\ offsets'[p] = commit_value(retain(p))
      BY <1>5 DEF commit_acked
    <2>3. \A p \in Partitions : p \notin assigned => tracker'[p] = None /\ offsets'[p] = None
      BY <2>2 DEF retain, commit_value
    <2>4. \A p \in assigned : tracker'[p] = tracker[p] /\ (offsets'[p] # None =>
            tracker[p] # None /\ offsets'[p] = tracker[p].frontier + 1)
      BY <2>2 DEF retain, commit_value, TypeOK
    <2>5. Owned' /\ Remembered' /\ LeftAlone' /\ OnFloor'
      BY <2>1, <2>3, <2>4 DEF Owned, Remembered, LeftAlone, OnFloor, TypeOK
    <2>6. Ahead'
      <3> SUFFICES ASSUME NEW p \in assigned \ lost
                   PROVE  /\ tracker[p] # None => Between(tracker[p], floor[p], position[p])
                          /\ floor[p] <= position[p]
                          /\ offsets'[p] # None =>
                               /\ floor[p] <= offsets'[p] /\ offsets'[p] <= position[p]
                               /\ tracker[p] # None => offsets'[p] <= tracker[p].frontier + 1
        BY <2>1, <2>4 DEF Ahead, TypeOK
      <3>1. p \in Partitions
        BY DEF TypeOK
      <3>2. tracker[p] # None => tracker[p] \in Trackers
        BY <3>1 DEF TypeOK
      <3> QED
        BY <2>4, <3>1, <3>2 DEF Ahead, Between, TypeOK, Trackers
    <2> QED
      BY <2>5, <2>6
  <1>6. CASE commit
    <2>1. /\ batch = None /\ (\A p \in Partitions : tracker[p] = None)
          /\ UNCHANGED <<committed, assigned, position, batch, tracker, delivered_offsets, lost, floor>>
          /\ \A p \in Partitions : offsets'[p] = IF p \in assigned THEN position[p] ELSE None
      BY <1>6 DEF commit, Phases, external, acking, commits
    <2> QED
      BY <2>1 DEF Owned, Remembered, LeftAlone, OnFloor, Ahead, TypeOK
  <1>7. CASE CommitConfirmed
    <2>1. /\ batch = None /\ (\A p \in Partitions : offsets'[p] = None)
          /\ UNCHANGED <<assigned, position, batch, delivered_offsets, lost>>
      BY <1>7 DEF CommitConfirmed, Phases
    <2>2. ASSUME NEW p \in Partitions
          PROVE  /\ tracker'[p] = None <=> tracker[p] = None
                 /\ tracker[p] # None =>
                      tracker'[p].frontier = tracker[p].frontier /\ tracker'[p].delivered = tracker[p].delivered
      BY <1>7, OnlyLast
    <2>3. \A p \in Partitions :
            /\ committed'[p] = IF offsets[p] = None THEN committed[p] ELSE offsets[p]
            /\ floor'[p] = IF offsets[p] = None THEN floor[p] ELSE offsets[p]
      BY <1>7 DEF CommitConfirmed, OffsetsStored
    <2>4. Owned' /\ Remembered' /\ LeftAlone'
      BY <2>1, <2>2 DEF Owned, Remembered, LeftAlone, TypeOK
    <2>5. OnFloor'
      BY <2>1, <2>3 DEF OnFloor, TypeOK
    <2>6. Ahead'
      <3> SUFFICES ASSUME NEW p \in assigned \ lost
                   PROVE  /\ floor'[p] <= position[p]
                          /\ tracker'[p] # None => Between(tracker'[p], floor'[p], position[p])
        BY <2>1 DEF Ahead, TypeOK
      <3>1. p \in Partitions
        BY DEF TypeOK
      <3> QED
        BY <2>2, <2>3, <3>1 DEF Ahead, Between
    <2> QED
      BY <2>4, <2>5, <2>6
  <1>8. CASE StartSession
    BY <1>8, WorkStays DEF StartSession, external, acking, commits
  <1>9. CASE \E p \in Partitions : Fetch(p)
    <2>1. PICK p \in Partitions : Fetch(p)
      BY <1>9
    <2>2. PICK first \in Visible[p], last \in Visible[p] :
            /\ position[p] <= first /\ first <= last
            /\ batch' = [part |-> p, first |-> first,
                         offs |-> {o \in Visible[p] : first <= o /\ o <= last}]
            /\ position' = [position EXCEPT ![p] = last + 1]
      BY <2>1 DEF Fetch
    <2>3. /\ p \in assigned
          /\ UNCHANGED <<committed, assigned, tracker, delivered_offsets, offsets, lost, floor>>
          /\ \A q \in Partitions : offsets[q] = None
      BY <2>1 DEF Fetch, acking, commits, Phases
    <2>4. /\ position'[p] = last + 1 /\ \A q \in Partitions : q # p => position'[q] = position[q]
          /\ position[p] \in Nat /\ first \in Nat /\ last \in Nat /\ floor[p] \in Nat
      BY <2>2 DEF TypeOK
    <2>5. batch'.part = p /\ batch'.first = first /\ \A x \in batch'.offs : x \in Nat /\ first <= x /\ x <= last
      BY <2>2
    <2>6. Owned' /\ Remembered' /\ LeftAlone' /\ OnFloor'
      BY <2>3, <2>5 DEF Owned, Remembered, LeftAlone, OnFloor, TypeOK
    <2>7. Ahead'
      <3> SUFFICES ASSUME NEW q \in assigned \ lost
                   PROVE  /\ floor[q] <= position'[q]
                          /\ tracker[q] # None => Between(tracker[q], floor[q], position'[q])
                          /\ q = p => /\ floor[q] <= first
                                      /\ \A x \in batch'.offs : first <= x /\ x < position'[q]
        BY <2>3, <2>5 DEF Ahead, TypeOK
      <3>1. CASE q = p
        <4>1. floor[p] <= position[p] /\ (tracker[p] # None => Between(tracker[p], floor[p], position[p]))
          BY <2>3, <3>1 DEF Ahead
        <4>2. tracker[p] # None => tracker[p] \in Trackers
          BY DEF TypeOK
        <4>3. tracker[p] # None => Between(tracker[p], floor[p], position'[p])
          BY <2>2, <2>4, <4>1, <4>2 DEF Between, Trackers
        <4> QED
          BY <2>2, <2>4, <2>5, <3>1, <4>1, <4>3
      <3>2. CASE q # p
        BY <2>4, <3>2 DEF Ahead, TypeOK
      <3> QED
        BY <3>1, <3>2
    <2> QED
      BY <2>6, <2>7
  <1>10. CASE \E p \in Partitions : Assign(p)
    <2>1. PICK p \in Partitions : Assign(p)
      BY <1>10
    <2>2. /\ p \notin assigned /\ assigned' = assigned \cup {p}
          /\ UNCHANGED <<committed, pc, batch, tracker, delivered_offsets, offsets, lost>>
          /\ position'[p] = committed[p] /\ \A q \in Partitions : q # p => position'[q] = position[q]
          /\ floor'[p] = committed[p] /\ \A q \in Partitions : q # p => floor'[q] = floor[q]
      BY <2>1 DEF Assign, acking, TypeOK
    <2>3. Owned' /\ Remembered' /\ LeftAlone'
      BY <2>2 DEF Owned, Remembered, LeftAlone
    <2>4. p \notin lost => tracker[p] = None /\ offsets[p] = None /\ (batch # None => batch.part # p)
      BY <2>2 DEF Owned
    <2>5. OnFloor'
      BY <2>2 DEF OnFloor, TypeOK
    <2>6. Ahead'
      BY <2>2, <2>4 DEF Ahead, TypeOK
    <2> QED
      BY <2>3, <2>5, <2>6
  <1>11. CASE \E p \in Partitions : Revoke(p)
    <2>1. PICK p \in Partitions : Revoke(p)
      BY <1>11
    <2>2. /\ assigned' = assigned \ {p} /\ lost' = lost \cup {p}
          /\ UNCHANGED <<committed, batch, tracker, delivered_offsets, offsets>>
          /\ \A q \in Partitions : q # p => position'[q] = position[q] /\ floor'[q] = floor[q]
          /\ floor'[p] = committed[p]
          /\ pc' = IF pc = "committing" THEN "fenced" ELSE pc
      BY <2>1 DEF Revoke, acking, TypeOK
    <2>3. Owned' /\ Remembered'
      BY <2>2 DEF Owned, Remembered
    <2>4. LeftAlone'
      BY <2>2 DEF LeftAlone, Phases, TypeOK
    <2>5. OnFloor'
      BY <2>2 DEF OnFloor, TypeOK
    <2>6. Ahead'
      BY <2>2 DEF Ahead, TypeOK
    <2> QED
      BY <2>3, <2>4, <2>5, <2>6
  <1>12. CASE \E p \in Partitions : OtherMember(p)
    <2>1. PICK p \in Partitions : OtherMember(p)
      BY <1>12
    <2>2. /\ p \notin assigned
          /\ UNCHANGED <<assigned, position, pc, batch, tracker, delivered_offsets, offsets, lost>>
          /\ \A q \in Partitions : q # p => committed'[q] = committed[q] /\ floor'[q] = floor[q]
          /\ committed'[p] = floor'[p]
      BY <2>1 DEF OtherMember, acking, TypeOK
    <2>3. Owned' /\ Remembered' /\ LeftAlone'
      BY <2>2 DEF Owned, Remembered, LeftAlone
    <2>4. OnFloor'
      BY <2>2 DEF OnFloor, TypeOK
    <2>5. Ahead'
      BY <2>2 DEF Ahead, TypeOK
    <2> QED
      BY <2>3, <2>4, <2>5
  <1>13. CASE \E p \in Partitions : \E o \in Visible[p] : AckFrame(p, o)
    <2>1. PICK p \in Partitions : \E o \in Visible[p] : AckFrame(p, o)
      BY <1>13
    <2>a. PICK o \in Visible[p] : AckFrame(p, o)
      BY <2>1
    <2>2. PICK t, c, n : /\ t = (IF tracker[p] = None THEN Seeded(o, {o}) ELSE tracker[p])
                         /\ c = floor[p] /\ n = position[p]
      OBVIOUS
    <2>3. /\ t \in Trackers /\ c \in Nat /\ n \in Nat /\ {o} \in SUBSET Nat
          /\ p \notin lost => t = tracker[p] /\ tracker[p] # None /\ p \in assigned
      <3>1. o \in Nat /\ tracker[p] \in Trackers \cup {None}
        BY DEF TypeOK
      <3>2. t \in Trackers
        BY <2>2, <3>1 DEF Seeded, Trackers
      <3>3. p \notin lost => tracker[p] # None /\ p \in assigned
        BY <2>a DEF AckFrame, Remembered, Owned
      <3> QED
        BY <2>2, <3>1, <3>2, <3>3 DEF TypeOK
    <2>4. p \notin lost => Between(t, c, n)
      BY <2>2, <2>3 DEF Ahead
    <2>5. PICK f \in {t.frontier} \cup t.delivered :
            tracker' = [tracker EXCEPT ![p] = record_ack(t, {o}, f).after]
      BY <2>a, <2>2 DEF AckFrame
    <2>6. PICK u : u = record_ack(t, {o}, f).after
      OBVIOUS
    <2>7. u \in Trackers /\ (p \notin lost => Between(u, c, n))
      <3>1. u \in Trackers
        BY <2>3, <2>6 DEF record_ack, drain, Trackers
      <3> QED
        BY <2>3, <2>4, <2>6, <3>1, BetweenAck
    <2>8. /\ \A q \in Partitions : q # p => delivered_offsets'[q] = delivered_offsets[q]
          /\ batch' = None /\ pc = "select"
          /\ UNCHANGED <<committed, assigned, position, offsets, lost, floor>>
      BY <2>a DEF AckFrame, FrameWins, mark_acknowledged, external, commits, TypeOK
    <2>9. \A q \in Partitions : offsets[q] = None
      BY <2>8 DEF Phases
    <2> QED
      BY <2>2, <2>3, <2>5, <2>6, <2>7, <2>8, <2>9, TrackerMoves
  <1>14. CASE \E p \in Partitions : \E o \in Visible[p] : IgnoredFrame(p, o)
    BY <1>14, WorkStays DEF IgnoredFrame, FrameWins, external, acking, commits
  <1>15. CASE AutoCommit
    <2>1. /\ UNCHANGED <<assigned, position, pc, batch, tracker, delivered_offsets, offsets, lost, floor>>
          /\ \A p \in Partitions : committed'[p] = IF p \in assigned THEN position[p] ELSE committed[p]
      BY <1>15 DEF AutoCommit, StorePositions, acking
    <2>2. Owned' /\ Remembered' /\ LeftAlone'
      BY <2>1 DEF Owned, Remembered, LeftAlone
    <2>3. OnFloor'
      BY <2>1 DEF OnFloor, Ahead, TypeOK
    <2>4. Ahead'
      BY <2>1 DEF Ahead, Between
    <2> QED
      BY <2>2, <2>3, <2>4
  <1> QED
    BY <1>1, <1>2, <1>3, <1>4, <1>5, <1>6, <1>7, <1>8, <1>9, <1>10, <1>11, <1>12, <1>13, <1>14, <1>15
    DEF Next, PollEmpty, TooManyUnacked, CommitFenced, EndSession, AckRefused

\* At the start there is nothing.
LEMMA CommitInit == Init => CommitInv
  <1> SUFFICES ASSUME Init PROVE CommitInv
    OBVIOUS
  <1>1. TypeOK
    BY TypeInit
  <1>2. Phases
    BY DEF Init, Phases
  <1>3. Forward
    BY DEF Init, Forward, Owned, Remembered, LeftAlone, Ahead, OnFloor
  <1> QED
    BY <1>1, <1>2, <1>3 DEF CommitInv

\* The inductive step.
LEMMA CommitStep == CommitInv /\ [Next]_vars => CommitInv'
  BY TypeStep, PhasesStep, ForwardStep DEF CommitInv

\* What a commit under way stores is not below the floor.
LEMMA StoreForward ==
  ASSUME TypeOK, Forward, pc = "committing", NEW p \in Partitions, p \notin lost \cap assigned
  PROVE  OffsetsStored(committed)[p] >= floor[p]
  <1>1. OffsetsStored(committed)[p] = IF offsets[p] = None THEN committed[p] ELSE offsets[p]
    BY DEF OffsetsStored
  <1>2. CASE offsets[p] = None
    BY <1>1, <1>2 DEF Forward, OnFloor, TypeOK
  <1>3. CASE offsets[p] # None
    BY <1>1, <1>3 DEF Forward, Owned, LeftAlone, Ahead, TypeOK
  <1> QED
    BY <1>2, <1>3

\* Neither are the positions that the client stores over c.
LEMMA PositionsForward ==
  ASSUME TypeOK, Forward, NEW c \in [Partitions -> Nat], StorePositions(c),
         NEW p \in Partitions, p \notin lost \cap assigned, c[p] >= floor[p]
  PROVE  committed'[p] >= floor[p]
  BY DEF TypeOK, Forward, Ahead, StorePositions

\* No commit (commit_acked, commit, the client's own) takes the group below where
\* the holder of a partition started or what was committed on purpose since,
\* whatever sessions end, restart or leave undone and whatever partitions are
\* taken away; only a partition that is given back to the session that lost it
\* is excused.
THEOREM CommitsGoForward == Spec => CommittedNeverRegresses
  <1> DEFINE Held == \A p \in Partitions : p \in lost \cap assigned \/ committed'[p] >= floor[p]
  <1>1. ASSUME CommitInv, [Next]_vars PROVE [Held]_vars
    <2>0. TypeOK /\ TypeOK' /\ Forward
      BY <1>1, TypeStep DEF CommitInv
    <2> SUFFICES ASSUME Next, NEW p \in Partitions, p \notin lost \cap assigned
                 PROVE  committed'[p] >= floor[p]
      BY <1>1
    <2>1. committed[p] >= floor[p]
      BY <2>0 DEF Forward, OnFloor, TypeOK
    <2>2. CASE UNCHANGED committed
      BY <2>1, <2>2
    <2>3. ASSUME NEW c \in [Partitions -> Nat], c[p] >= floor[p], End(c) PROVE committed'[p] >= floor[p]
      BY <2>0, <2>3, PositionsForward DEF End
    <2>4. CASE TooManyUnacked \/ CommitFenced \/ \E q \in Partitions : \E o \in Visible[q] : AckRefused(q, o)
      BY <2>0, <2>1, <2>3, <2>4 DEF TooManyUnacked, CommitFenced, AckRefused, TypeOK
    <2>5. CASE EndSession
      <3>1. CASE End(committed)
        BY <2>0, <2>1, <2>3, <3>1 DEF TypeOK
      <3>2. CASE pc = "committing" /\ End(OffsetsStored(committed))
        <4>1. OffsetsStored(committed) \in [Partitions -> Nat]
          BY <2>0 DEF OffsetsStored, TypeOK
        <4> QED
          BY <2>0, <2>3, <3>2, <4>1, StoreForward
      <3> QED
        BY <2>5, <3>1, <3>2 DEF EndSession
    <2>6. CASE CommitConfirmed
      BY <2>0, <2>6, StoreForward DEF CommitConfirmed
    <2>7. CASE AutoCommit
      BY <2>0, <2>1, <2>7, PositionsForward DEF AutoCommit, TypeOK
    <2>8. CASE \E q \in Partitions : OtherMember(q)
      <3>1. PICK q \in Partitions : OtherMember(q)
        BY <2>8
      <3>2. committed'[p] >= committed[p]
        BY <2>0, <3>1, VisibleAssumption DEF OtherMember, TypeOK
      <3> QED
        BY <2>0, <2>1, <3>2 DEF TypeOK
    <2>9. CASE \E q \in Partitions : \E o \in Visible[q] : AckFrame(q, o) \/ IgnoredFrame(q, o)
      BY <2>2, <2>9 DEF AckFrame, IgnoredFrame, external
    <2> QED
      BY <2>2, <2>4, <2>5, <2>6, <2>7, <2>8, <2>9
      DEF Next, PollEmpty, DeliverAuto, Deliver, commit_acked, commit, StartSession, Fetch,
          Assign, Revoke, vars, external
  <1> QED
    BY <1>1, CommitInit, CommitStep, PTL DEF Spec, CommittedNeverRegresses

\* mark_acknowledged drops an offset only when the frontier covers it.
LEMMA MarkKeeps ==
  ASSUME TypeOK, NEW p \in Partitions, NEW f \in Nat \cup {-1}, NEW deliv \in SUBSET Nat,
         mark_acknowledged(p, f, deliv)
  PROVE  /\ \A o \in Nat : o <= acknowledged_offsets[p] \/ o \in deliv =>
              o <= acknowledged_offsets'[p] \/ o \in delivered_offsets'[p]
         /\ \A q \in Partitions : q # p =>
              /\ acknowledged_offsets'[q] = acknowledged_offsets[q]
              /\ delivered_offsets'[q] = delivered_offsets[q]
  BY DEF TypeOK, mark_acknowledged

\* One step per action.
LEMMA HonestStep == CommitInv /\ HonestAcksAccepted /\ [Next]_vars => HonestAcksAccepted'
  <1> SUFFICES ASSUME CommitInv, HonestAcksAccepted, [Next]_vars, ~auto_commit',
                      NEW q \in Partitions, NEW x \in seen'[q]
               PROVE  x <= acknowledged_offsets'[q] \/ x \in delivered_offsets'[q]
    BY DEF HonestAcksAccepted
  <1>0. TypeOK /\ TypeOK' /\ x \in Nat
    BY TypeStep DEF CommitInv, TypeOK
  <1>1. CASE UNCHANGED <<auto_commit, seen, delivered_offsets, acknowledged_offsets>>
    BY <1>1 DEF HonestAcksAccepted
  <1>2. ASSUME NEW c, End(c) PROVE x <= acknowledged_offsets'[q] \/ x \in delivered_offsets'[q]
    BY <1>2 DEF End
  <1>3. CASE StartSession
    BY <1>3 DEF StartSession, CommitInv, Phases
  <1>4. CASE DeliverAuto
    BY <1>4 DEF DeliverAuto
  <1>5. CASE Deliver
    <2>1. batch \in Batches /\ ~auto_commit
      BY <1>0, <1>5 DEF Deliver, TypeOK
    <2>2. PICK p, passing, deliv, t :
            /\ p = batch.part /\ passing = batch.offs \ Filtered[p]
            /\ deliv = delivered_offsets[p] \cup passing
            /\ t = record_delivery(tracker[p], batch.first, batch.offs)
      OBVIOUS
    <2>3. p \in Partitions /\ deliv \in SUBSET Nat /\ seen' = [seen EXCEPT ![p] = @ \cup passing]
      BY <1>0, <1>5, <2>1, <2>2 DEF Deliver, TypeOK, Batches
    <2>4. t \in Trackers
      <3>1. tracker[p] \in Trackers \cup {None} /\ batch.first \in Nat /\ batch.offs \in SUBSET Nat
        BY <1>0, <2>1, <2>3 DEF TypeOK, Batches
      <3> QED
        BY <2>2, <3>1 DEF record_delivery, Seeded, Trackers
    <2>5. \/ /\ delivered_offsets' = [delivered_offsets EXCEPT ![p] = deliv]
             /\ UNCHANGED acknowledged_offsets
          \/ \E f \in {t.frontier} \cup t.delivered : mark_acknowledged(p, f, deliv)
      BY <1>5, <2>2 DEF Deliver
    <2>6. /\ \A o \in Nat : o <= acknowledged_offsets[p] \/ o \in deliv =>
               o <= acknowledged_offsets'[p] \/ o \in delivered_offsets'[p]
          /\ \A r \in Partitions : r # p =>
               /\ acknowledged_offsets'[r] = acknowledged_offsets[r]
               /\ delivered_offsets'[r] = delivered_offsets[r]
      <3>1. CASE /\ delivered_offsets' = [delivered_offsets EXCEPT ![p] = deliv]
                 /\ UNCHANGED acknowledged_offsets
        BY <1>0, <2>3, <3>1 DEF TypeOK
      <3>2. CASE \E f \in {t.frontier} \cup t.delivered : mark_acknowledged(p, f, deliv)
        <4>1. PICK f \in {t.frontier} \cup t.delivered : mark_acknowledged(p, f, deliv)
          BY <3>2
        <4>2. f \in Nat \cup {-1}
          BY <2>4 DEF Trackers
        <4> QED
          BY <1>0, <2>3, <4>1, <4>2, MarkKeeps
      <3> QED
        BY <2>5, <3>1, <3>2
    <2>7. CASE q = p
      <3>1. x <= acknowledged_offsets[p] \/ x \in deliv
        BY <1>0, <2>1, <2>2, <2>3, <2>7 DEF HonestAcksAccepted, TypeOK
      <3> QED
        BY <1>0, <2>6, <2>7, <3>1
    <2>8. CASE q # p
      BY <1>0, <2>1, <2>3, <2>6, <2>8 DEF HonestAcksAccepted, TypeOK
    <2> QED
      BY <2>7, <2>8
  <1>6. CASE \E p \in Partitions : \E o \in Visible[p] : AckFrame(p, o)
    <2>1. PICK p \in Partitions : \E o \in Visible[p] : AckFrame(p, o)
      BY <1>6
    <2>a. PICK o \in Visible[p] : AckFrame(p, o)
      BY <2>1
    <2>2. PICK t : t = IF tracker[p] = None THEN Seeded(o, {o}) ELSE tracker[p]
      OBVIOUS
    <2>3. t \in Trackers
      <3>1. o \in Nat /\ tracker[p] \in Trackers \cup {None}
        BY <1>0, VisibleAssumption DEF TypeOK
      <3> QED
        BY <2>2, <3>1 DEF Seeded, Trackers
    <2>4. PICK f \in {t.frontier} \cup t.delivered : mark_acknowledged(p, f, delivered_offsets[p])
      BY <2>a, <2>2 DEF AckFrame
    <2>5. f \in Nat \cup {-1}
      BY <2>3 DEF Trackers
    <2>6. PICK deliv : deliv = delivered_offsets[p]
      OBVIOUS
    <2>7. /\ \A y \in Nat : y <= acknowledged_offsets[p] \/ y \in deliv =>
               y <= acknowledged_offsets'[p] \/ y \in delivered_offsets'[p]
          /\ \A r \in Partitions : r # p =>
               /\ acknowledged_offsets'[r] = acknowledged_offsets[r]
               /\ delivered_offsets'[r] = delivered_offsets[r]
      <3>1. deliv \in SUBSET Nat /\ mark_acknowledged(p, f, deliv)
        BY <1>0, <2>4, <2>6 DEF TypeOK
      <3> QED
        BY <1>0, <2>5, <3>1, MarkKeeps
    <2>8. ~auto_commit /\ UNCHANGED seen
      BY <2>a DEF AckFrame
    <2> QED
      BY <1>0, <2>6, <2>7, <2>8 DEF HonestAcksAccepted
  <1> QED
    BY <1>1, <1>2, <1>3, <1>4, <1>5, <1>6
    DEF Next, PollEmpty, AutoCommit, TooManyUnacked, CommitFenced, EndSession, AckRefused, Fetch, Assign,
        Revoke, OtherMember, IgnoredFrame, commit_acked, commit, CommitConfirmed, vars, acking

\* A client that acknowledges what this session has handed to it is never told
\* that the record was not delivered (validate_ack): the offset is still in
\* delivered_offsets, or at or below the frontier.
THEOREM HonestAcks == Spec => []HonestAcksAccepted
  <1>1. Init => HonestAcksAccepted
    BY DEF Init, HonestAcksAccepted
  <1> QED
    BY <1>1, CommitInit, CommitStep, HonestStep, PTL DEF Spec

-----------------------------------------------------------------------------
(* Documents.                                                                *)

Types == {"string", "long", "double"}
Formats == {"AVRO", "JSON", "PROTOBUF"}
IsSchema(schema) == /\ schema.fmt \in Formats
                    /\ \A f \in DOMAIN schema.fields : schema.fields[f] \in Types
                    /\ schema.fmt = "PROTOBUF" =>
                          \A f, g \in DOMAIN schema.fields : json_name(f) = json_name(g) => f = g

\* A JSON name is its own JSON name (prost_reflect).
LEMMA JsonNameTwice == ASSUME NEW f PROVE json_name(json_name(f)) = json_name(f)
  BY ScenariosAssumption DEF json_name

\* A field that goes by its own name is shown under it.
LEMMA ShownByName ==
  ASSUME NEW schema, NEW doc, NEW f \in DOMAIN doc.fields
  PROVE  Shown(schema, doc, f) = doc.fields[f]
  BY DEF Shown, Given, Spelled, Spellings

\* Equality is the order 0 (ComparisonOperator::compare_order).
LEMMA EqualOrder == compare_order("=", 0)
  BY Zenon DEF compare_order

\* Numbers with the same halves compare equal, whichever of them is an integer
\* (NumericValue::compare).
LEMMA EqualValues ==
  ASSUME NEW v, NEW w, v[1] = "num", w[1] = "num", v[2].halves \in Int, v[2].halves = w[2].halves
  PROVE  filter_value_matches(v, "=", w)
  <1>1. as_f64(v[2]) \in Int /\ as_f64(v[2]) = as_f64(w[2])
    BY CodecAssumption DEF as_f64
  <1>2. compare_numbers(w[2], v[2]) = 0
    BY <1>1 DEF compare_numbers, Sign
  <1>3. compare_order("=", compare_numbers(w[2], v[2]))
    BY ONLY <1>2, EqualOrder
  <1>4. v # Null
    BY DEF Null
  <1> QED
    BY ONLY <1>3, <1>4, v[1] = "num", w[1] = "num" DEF filter_value_matches

\* The proto3 mapping writes an integer as a numeral that reads as the integer.
LEMMA EqualNumerals ==
  ASSUME NEW v, v[1] = "num", v[2].kind = "int", IsNumber(v[2])
  PROVE  filter_value_matches(v, "=", <<"str", <<NumeralOf(v[2].halves \div 2)>>>>)
  <1> DEFINE n == NumeralOf(v[2].halves \div 2)
  <1>1. PICK l \in DOMAIN IntegerOf : v[2].halves = 2 * IntegerOf[l]
    BY DEF IsNumber
  <1>2. IntegerOf[l] \in Int
    BY <1>1, ScenariosAssumption
  <1>3. v[2].halves \div 2 = IntegerOf[l]
    BY <1>1, <1>2
  <1>4. n \in DOMAIN IntegerOf /\ IntegerOf[n] = IntegerOf[l]
    BY <1>3 DEF NumeralOf
  <1> HIDE DEF n
  <1>5. parse_number(<<n>>) = <<Integer(IntegerOf[n])>>
    BY <1>4 DEF parse_number, Numeral
  <1>6. ToSet(parse_number(<<n>>)) = {Integer(IntegerOf[n])}
    BY <1>5 DEF ToSet
  <1> DEFINE m == Integer(IntegerOf[n])
  <1>7. m.kind = "int" /\ m.halves = v[2].halves /\ m.halves \in Int
    BY <1>1, <1>2, <1>4 DEF Integer
  <1> HIDE DEF m
  <1>8. compare_numbers(m, v[2]) = 0
    BY <1>7 DEF compare_numbers, Sign
  <1>9. compare_order("=", compare_numbers(m, v[2]))
    BY ONLY <1>8, EqualOrder
  <1>10. \E x \in ToSet(parse_number(<<n>>)) : compare_order("=", compare_numbers(x, v[2]))
    BY <1>6, <1>9 DEF m
  <1> DEFINE w == <<"str", <<n>>>>
  <1>11. w[1] = "str" /\ w[2] = <<n>>
    OBVIOUS
  <1> HIDE DEF w
  <1>12. \E x \in ToSet(parse_number(w[2])) : compare_order("=", compare_numbers(x, v[2]))
    BY ONLY <1>10, <1>11
  <1>13. v # Null
    BY DEF Null
  <1>14. filter_value_matches(v, "=", w)
    BY ONLY <1>11, <1>12, <1>13, v[1] = "num" DEF filter_value_matches
  <1> QED
    BY <1>14 DEF w, n

\* What Avro writes has the schema's fields and reads back (apache_avro).
LEMMA AvroRoundTrip ==
  ASSUME NEW schema, IsSchema(schema), schema.fmt = "AVRO", NEW doc, IsDocument(doc), doc.kind = "object",
         serialize(schema, doc) # <<>>
  PROVE  LET view == deserialize(schema, serialize(schema, doc)[1])
         IN  /\ view # <<>>
             /\ \A f \in DOMAIN schema.fields :
                   SameField(schema.fields[f], Shown(schema, doc, f), Shown(schema, view[1], f))
  <1> DEFINE w == [doc EXCEPT !.fields = [f \in DOMAIN schema.fields |->
              IF schema.fields[f] = "double" THEN <<"num", Float(doc.fields[f][2].halves)>> ELSE doc.fields[f]]]
  <1>1. /\ DOMAIN schema.fields \subseteq DOMAIN doc.fields /\ AllFit(schema, doc)
        /\ serialize(schema, doc) = <<w>>
    BY DEF serialize, avro_serialize
  <1>2. /\ DOMAIN w = {"kind", "fields"} /\ w.kind = "object" /\ DOMAIN w.fields = DOMAIN schema.fields
        /\ \A f \in DOMAIN schema.fields :
              w.fields[f] = IF schema.fields[f] = "double" THEN <<"num", Float(doc.fields[f][2].halves)>> ELSE doc.fields[f]
    BY DEF IsDocument
  <1> HIDE DEF w
  <1>3. AllFit(schema, w)
    <2> SUFFICES ASSUME NEW f \in DOMAIN schema.fields PROVE Fits(schema.fields[f], w.fields[f])
      BY <1>2 DEF AllFit
    <2>1. Fits(schema.fields[f], doc.fields[f]) /\ schema.fields[f] \in Types
      BY <1>1 DEF AllFit, IsSchema
    <2>2. CASE schema.fields[f] = "double"
      <3>1. w.fields[f] = <<"num", Float(doc.fields[f][2].halves)>>
        BY <1>2, <2>2
      <3>2. w.fields[f][1] = "num"
        BY <3>1
      <3> QED
        BY <2>2, <3>2 DEF Fits
    <2>3. CASE schema.fields[f] # "double"
      BY <1>2, <2>1, <2>3
    <2> QED
      BY <2>2, <2>3
  <1>4. serialize(schema, w) # <<>>
    BY <1>2, <1>3 DEF serialize, avro_serialize
  <1>5. deserialize(schema, w) = <<w>>
    BY <1>4 DEF deserialize
  <1>6. ASSUME NEW f \in DOMAIN schema.fields
        PROVE  SameField(schema.fields[f], doc.fields[f], w.fields[f])
    <2>1. Fits(schema.fields[f], doc.fields[f]) /\ schema.fields[f] \in Types
      BY <1>1 DEF AllFit, IsSchema
    <2>2. CASE schema.fields[f] = "string"
      BY <1>2, <2>2 DEF SameField
    <2>3. CASE schema.fields[f] = "long"
      <3>1. w.fields[f] = doc.fields[f] /\ doc.fields[f][1] = "num"
        BY <1>2, <2>1, <2>3 DEF Fits
      <3>2. doc.fields[f][2].halves \in Int
        BY <1>1, <3>1 DEF IsDocument, IsNumber
      <3>3. filter_value_matches(doc.fields[f], "=", w.fields[f])
        BY <3>1, <3>2, EqualValues
      <3> QED
        BY <2>3, <3>3 DEF SameField
    <2>4. CASE schema.fields[f] = "double"
      <3>1. w.fields[f] = <<"num", Float(doc.fields[f][2].halves)>> /\ doc.fields[f][1] = "num"
        BY <1>2, <2>1, <2>4 DEF Fits
      <3>2. doc.fields[f][2].halves \in Int
        BY <1>1, <3>1 DEF IsDocument, IsNumber
      <3>3. w.fields[f][1] = "num" /\ w.fields[f][2].halves = doc.fields[f][2].halves
        BY <3>1 DEF Float
      <3>4. filter_value_matches(doc.fields[f], "=", w.fields[f])
        BY <3>1, <3>2, <3>3, EqualValues
      <3> QED
        BY <2>4, <3>4 DEF SameField
    <2> QED
      BY <2>1, <2>2, <2>3, <2>4 DEF Types
  <1>7. \A f \in DOMAIN schema.fields : Shown(schema, doc, f) = doc.fields[f] /\ Shown(schema, w, f) = w.fields[f]
    BY <1>1, <1>2, ShownByName
  <1>8. serialize(schema, doc)[1] = w
    BY <1>1
  <1> QED
    BY <1>5, <1>6, <1>7, <1>8

\* A JSON document is stored as it is, once validated (jsonschema).
LEMMA JsonRoundTrip ==
  ASSUME NEW schema, IsSchema(schema), schema.fmt = "JSON", NEW doc, IsDocument(doc), doc.kind = "object",
         serialize(schema, doc) # <<>>
  PROVE  LET view == deserialize(schema, serialize(schema, doc)[1])
         IN  /\ view # <<>>
             /\ \A f \in DOMAIN schema.fields :
                   SameField(schema.fields[f], Shown(schema, doc, f), Shown(schema, view[1], f))
  <1>1. /\ DOMAIN schema.fields \subseteq DOMAIN doc.fields /\ AllFit(schema, doc)
        /\ serialize(schema, doc) = <<doc>>
    BY DEF serialize, json_validate
  <1>2. serialize(schema, doc)[1] = doc /\ deserialize(schema, doc) = <<doc>>
    BY <1>1 DEF deserialize
  <1>3. ASSUME NEW f \in DOMAIN schema.fields
        PROVE  SameField(schema.fields[f], doc.fields[f], doc.fields[f])
    <2>1. Fits(schema.fields[f], doc.fields[f]) /\ schema.fields[f] \in Types
      BY <1>1 DEF AllFit, IsSchema
    <2>2. CASE schema.fields[f] = "string"
      BY <2>2 DEF SameField
    <2>3. CASE schema.fields[f] # "string"
      <3>1. doc.fields[f][1] = "num"
        BY <2>1, <2>3 DEF Fits, Types
      <3>2. doc.fields[f][2].halves \in Int
        BY <1>1, <3>1 DEF IsDocument, IsNumber
      <3>3. filter_value_matches(doc.fields[f], "=", doc.fields[f])
        BY <3>1, <3>2, EqualValues
      <3> QED
        BY <2>3, <3>3 DEF SameField
    <2> QED
      BY <2>2, <2>3
  <1>4. \A f \in DOMAIN schema.fields : Shown(schema, doc, f) = doc.fields[f]
    BY <1>1, ShownByName
  <1> QED
    BY <1>2, <1>3, <1>4

\* The message of a document has the values of the fields that are given in it,
\* under either name; it is a message of the same schema (prost_reflect).
LEMMA ProtobufMessage ==
  ASSUME NEW schema, IsSchema(schema), schema.fmt = "PROTOBUF", NEW doc, IsDocument(doc), doc.kind = "object",
         serialize(schema, doc) # <<>>
  PROVE  LET m == serialize(schema, doc)[1]
         IN  /\ DOMAIN m = {"kind", "fields"} /\ DOMAIN m.fields = {f \in DOMAIN schema.fields : Given(doc, f)}
             /\ AllFit(schema, m) /\ deserialize(schema, m) = <<protobuf_deserialize(schema, m)>>
             /\ \A f \in DOMAIN m.fields : m.fields[f][1] = "num" => IsNumber(m.fields[f][2])
             /\ \A f \in DOMAIN schema.fields :
                   Shown(schema, doc, f) = IF f \in DOMAIN m.fields THEN m.fields[f] ELSE Default(schema.fields[f])
  <1> DEFINE given == {f \in DOMAIN schema.fields : Given(doc, f)}
             m == [doc EXCEPT !.fields = [f \in given |-> doc.fields[Spelled(doc, f)]]]
             again == {f \in DOMAIN schema.fields : Given(m, f)}
             back == [m EXCEPT !.fields = [f \in again |-> m.fields[Spelled(m, f)]]]
  <1>1. AllFit(schema, m) /\ serialize(schema, doc) = <<m>>
    BY DEF serialize, protobuf_serialize
  <1>2. /\ DOMAIN m = {"kind", "fields"} /\ m.kind = "object" /\ DOMAIN m.fields = given
        /\ \A f \in given : m.fields[f] = doc.fields[Spelled(doc, f)]
    BY DEF IsDocument
  <1> HIDE DEF m
  <1>3. \A f \in given : Spelled(doc, f) \in DOMAIN doc.fields
    BY DEF Given, Spelled, Spellings
  <1>4. ASSUME NEW f \in given, m.fields[f][1] = "num" PROVE IsNumber(m.fields[f][2])
    BY <1>2, <1>3, <1>4 DEF IsDocument
  <1>5. ASSUME NEW f \in DOMAIN schema.fields
        PROVE  Shown(schema, doc, f) = IF f \in given THEN m.fields[f] ELSE Default(schema.fields[f])
    BY <1>2 DEF Shown
  <1>6. ASSUME NEW f \in again PROVE f \in given
    <2>1. f \in DOMAIN m.fields \/ json_name(f) \in DOMAIN m.fields
      BY DEF Given, Spellings
    <2>2. CASE json_name(f) \in DOMAIN m.fields
      <3>1. json_name(f) \in DOMAIN schema.fields /\ json_name(json_name(f)) = json_name(f)
        BY <1>2, <2>2, JsonNameTwice
      <3>2. json_name(f) = f
        BY <3>1 DEF IsSchema
      <3> QED
        BY <1>2, <2>2, <3>2
    <2> QED
      BY <1>2, <2>1, <2>2
  <1>7. again = given /\ \A f \in again : Spelled(m, f) = f
    BY <1>2, <1>6 DEF Given, Spelled, Spellings
  <1>8. DOMAIN back.fields = given /\ \A f \in given : back.fields[f] = m.fields[f]
    BY <1>2, <1>7
  <1>9. AllFit(schema, back)
    BY <1>1, <1>2, <1>8 DEF AllFit
  <1>10. DOMAIN m.fields \subseteq UNION {Spellings(f) : f \in DOMAIN schema.fields}
    BY <1>2 DEF Spellings
  <1>11. serialize(schema, m) = <<back>>
    BY <1>2, <1>9, <1>10 DEF serialize, protobuf_serialize
  <1>12. deserialize(schema, m) = <<protobuf_deserialize(schema, m)>>
    BY <1>2, <1>11 DEF deserialize
  <1>13. serialize(schema, doc)[1] = m
    BY <1>1
  <1> QED
    BY <1>1, <1>2, <1>4, <1>5, <1>12, <1>13

\* A field the proto3 mapping leaves away has its default on both sides, a field
\* it shows has its JSON name, which is no other field's, and a long that became
\* a numeral still compares equal (prost_reflect).
LEMMA ProtobufRoundTrip ==
  ASSUME NEW schema, IsSchema(schema), schema.fmt = "PROTOBUF", NEW doc, IsDocument(doc), doc.kind = "object",
         serialize(schema, doc) # <<>>
  PROVE  LET view == deserialize(schema, serialize(schema, doc)[1])
         IN  /\ view # <<>>
             /\ \A f \in DOMAIN schema.fields :
                   SameField(schema.fields[f], Shown(schema, doc, f), Shown(schema, view[1], f))
  <1>1. PICK m : m = serialize(schema, doc)[1]
    OBVIOUS
  <1> DEFINE shown == {f \in DOMAIN m.fields : m.fields[f] # Default(schema.fields[f])}
             field(name) == CHOOSE f \in shown : json_name(f) = name
             value(f) == IF schema.fields[f] = "long" THEN <<"str", <<NumeralOf(m.fields[f][2].halves \div 2)>>>>
                         ELSE m.fields[f]
             w == [m EXCEPT !.fields = [name \in {json_name(f) : f \in shown} |-> value(field(name))]]
  <1>2. /\ DOMAIN m = {"kind", "fields"} /\ DOMAIN m.fields \subseteq DOMAIN schema.fields
        /\ AllFit(schema, m) /\ deserialize(schema, m) = <<protobuf_deserialize(schema, m)>>
        /\ \A f \in DOMAIN m.fields : m.fields[f][1] = "num" => IsNumber(m.fields[f][2])
        /\ \A f \in DOMAIN schema.fields :
              Shown(schema, doc, f) = IF f \in DOMAIN m.fields THEN m.fields[f] ELSE Default(schema.fields[f])
    BY <1>1, ProtobufMessage
  <1>3. deserialize(schema, m) = <<w>>
    BY <1>2 DEF protobuf_deserialize
  <1>4. /\ DOMAIN w.fields = {json_name(f) : f \in shown}
        /\ \A name \in {json_name(f) : f \in shown} : w.fields[name] = value(field(name))
    BY <1>2
  <1>5. \A f, g \in DOMAIN schema.fields : json_name(f) = json_name(g) => f = g
    BY DEF IsSchema
  <1>6. \A f \in shown : field(json_name(f)) = f
    BY <1>2, <1>5
  <1> HIDE DEF w, field
  <1>7. ASSUME NEW f \in shown PROVE Shown(schema, w, f) = value(f)
    <2>1. json_name(f) \in DOMAIN w.fields /\ w.fields[json_name(f)] = value(f)
      BY <1>4, <1>6
    <2>2. ASSUME f \in DOMAIN w.fields PROVE json_name(f) = f
      BY <1>4, <2>2, JsonNameTwice
    <2>3. Given(w, f) /\ Spelled(w, f) = json_name(f)
      BY <2>1, <2>2 DEF Given, Spelled, Spellings
    <2> QED
      BY <2>1, <2>3 DEF Shown
  <1>8. ASSUME NEW f \in DOMAIN schema.fields, f \notin shown PROVE Shown(schema, w, f) = Default(schema.fields[f])
    <2>1. ASSUME NEW g \in shown PROVE json_name(g) # f /\ json_name(g) # json_name(f)
      BY <1>2, <1>5, <1>8, JsonNameTwice
    <2>2. ~Given(w, f)
      BY <1>4, <2>1 DEF Given, Spellings
    <2> QED
      BY <2>2 DEF Shown
  <1>9. ASSUME NEW f \in DOMAIN schema.fields
        PROVE  SameField(schema.fields[f], Shown(schema, doc, f), Shown(schema, w, f))
    <2>1. CASE f \notin shown
      <3>1. Shown(schema, doc, f) = Default(schema.fields[f]) /\ Shown(schema, w, f) = Default(schema.fields[f])
        BY <1>2, <1>8, <2>1
      <3>2. CASE schema.fields[f] = "string"
        BY <3>1, <3>2 DEF SameField
      <3>3. CASE schema.fields[f] # "string"
        <4> DEFINE d == Default(schema.fields[f])
        <4>1. d[1] = "num" /\ d[2].halves \in Int
          BY <3>3 DEF Default, Integer
        <4> HIDE DEF d
        <4>2. filter_value_matches(d, "=", d)
          BY <4>1, EqualValues
        <4> QED
          BY <3>1, <3>3, <4>2 DEF d, SameField
      <3> QED
        BY <3>2, <3>3
    <2>2. CASE f \in shown
      <3>1. Shown(schema, doc, f) = m.fields[f] /\ Shown(schema, w, f) = value(f) /\ f \in DOMAIN m.fields
        BY <1>2, <1>7, <2>2
      <3>2. Fits(schema.fields[f], m.fields[f]) /\ schema.fields[f] \in Types
        BY <1>2, <3>1 DEF AllFit, IsSchema
      <3>3. CASE schema.fields[f] = "string"
        BY <3>1, <3>3 DEF SameField
      <3>4. CASE schema.fields[f] = "long"
        <4>1. m.fields[f][1] = "num" /\ m.fields[f][2].kind = "int"
          BY <3>2, <3>4 DEF Fits
        <4>2. IsNumber(m.fields[f][2])
          BY <1>2, <3>1, <4>1
        <4>3. filter_value_matches(m.fields[f], "=", <<"str", <<NumeralOf(m.fields[f][2].halves \div 2)>>>>)
          BY <4>1, <4>2, EqualNumerals
        <4>4. value(f) = <<"str", <<NumeralOf(m.fields[f][2].halves \div 2)>>>>
          BY <3>4
        <4> HIDE DEF value
        <4>5. filter_value_matches(m.fields[f], "=", value(f))
          BY ONLY <4>3, <4>4
        <4> QED
          BY <3>1, <3>4, <4>5 DEF SameField
      <3>5. CASE schema.fields[f] = "double"
        <4>1. m.fields[f][1] = "num"
          BY <3>2, <3>5 DEF Fits
        <4>2. m.fields[f][2].halves \in Int
          BY <1>2, <3>1, <4>1 DEF IsNumber
        <4>3. filter_value_matches(m.fields[f], "=", m.fields[f])
          BY <4>1, <4>2, EqualValues
        <4>4. value(f) = m.fields[f]
          BY <3>5
        <4> QED
          BY <3>1, <3>5, <4>3, <4>4 DEF SameField
      <3> QED
        BY <3>2, <3>3, <3>4, <3>5 DEF Types
    <2> QED
      BY <2>1, <2>2
  <1> QED
    BY <1>1, <1>3, <1>9

\* Whatever its format, a schema reads back what it wrote.
LEMMA RoundTrip ==
  ASSUME NEW schema, IsSchema(schema), NEW doc, IsDocument(doc), serialize(schema, doc) # <<>>
  PROVE  LET view == deserialize(schema, serialize(schema, doc)[1])
         IN  /\ view # <<>>
             /\ \A f \in DOMAIN schema.fields :
                   SameField(schema.fields[f], Shown(schema, doc, f), Shown(schema, view[1], f))
  <1>1. doc.kind = "object"
    BY DEF serialize
  <1>2. schema.fmt \in Formats
    BY DEF IsSchema
  <1> QED
    BY <1>1, <1>2, AvroRoundTrip, JsonRoundTrip, ProtobufRoundTrip DEF Formats

-----------------------------------------------------------------------------
(* The invariant of the pipeline. The codec's part: registry versions are    *)
(* numbered as they came, caches and calls repeat what the registry said     *)
(* (and how long ago), a slot belongs to one id for as long as anybody holds *)
(* it, and a stored document was written by the schema its frame names. The  *)
(* subscription's part: who does what, how far the poll is, and that the     *)
(* filter's verdicts and waiting group are in step with it.                  *)

Callers == Tasks \cup {poller}
CallFields == {"op", "stage", "body", "selector", "wire", "id", "schema", "slot", "asked", "decoded"}
Ids == 1..Len(registry.schemas)

\* Versions are numbered in the order of their registration.
Versions ==
    /\ now \in Nat
    /\ DOMAIN registry = {"schemas", "since", "coming", "up"}
    /\ registry.schemas \in Seq(Schemas) /\ registry.coming \in Seq(Schemas)
    /\ registry.since \in Seq(Nat) /\ Len(registry.since) = Len(registry.schemas)
    /\ \A i \in Ids : registry.since[i] <= now
CallShapes == DOMAIN call = Callers /\ \A t \in Callers : DOMAIN call[t] = CallFields

\* A version was the latest at some moment not before time: what came after it
\* came later.
LatestSince(id, time) == id \in Nat /\ (id + 1 \in Ids => registry.since[id + 1] >= time)

\* The caches repeat what the registry said, and the cached latest version was
\* the latest at most a registry round trip before it was cached.
Caches ==
    /\ \A i \in DOMAIN by_id : i \in Ids /\ by_id[i] = registry.schemas[i]
    /\ \A entry \in ToSet(by_subject_latest) :
          entry.fetched_at \in Nat /\ entry.fetched_at <= now /\ LatestSince(entry.id, entry.fetched_at - MaxFlight)

\* So does what a call carries.
Agrees(c) ==
    /\ c.stage \in {"slot", "prepare"} => c.id \in Ids /\ c.schema = <<registry.schemas[c.id]>>
    /\ c.stage \in {"got_id", "got_latest"} /\ c.schema # <<>> => c.id \in Ids /\ c.schema = <<registry.schemas[c.id]>>
    /\ c.stage = "got_latest" => LatestSince(c.id, c.asked)
    /\ c.stage \in {"ask_id", "ask_latest", "got_id", "got_latest"} =>
          c.asked \in Nat /\ c.asked <= now /\ now - c.asked <= MaxFlight
CallsAgree == \A t \in Callers : Agrees(call[t])

\* A slot belongs to one id for as long as anybody holds it, in the cache or in
\* a call, and holds nothing but the schema of that id.
KeepsOnly(slot, id) == slot \in DOMAIN slots /\ slots[slot] \in {<<>>, <<registry.schemas[id]>>}
SlotsAgree ==
    /\ DOMAIN slots = 1..(PREPARED_SCHEMA_CAPACITY + Cardinality(Callers))
    /\ \A i \in DOMAIN prepared.entries : i \in Ids /\ KeepsOnly(prepared.entries[i], i)
    /\ \A i, j \in DOMAIN prepared.entries : prepared.entries[i] = prepared.entries[j] => i = j
    /\ \A t \in Callers : At(t, "prepare") =>
          /\ KeepsOnly(call[t].slot, call[t].id)
          /\ \A i \in DOMAIN prepared.entries : prepared.entries[i] = call[t].slot => i = call[t].id
          /\ \A u \in Callers : At(u, "prepare") /\ call[u].slot = call[t].slot => call[u].id = call[t].id

\* The eviction queue lists the cached ids, each once.
Queued ==
    /\ IsFiniteSet(DOMAIN prepared.entries)
    /\ prepared.insertion_order \in Seq(Nat)
    /\ \A m, n \in 1..Len(prepared.insertion_order) :
          prepared.insertion_order[m] = prepared.insertion_order[n] => m = n
    /\ PreparedCacheIsBounded

\* A stored document was written by the schema of the id in its header.
Described ==
    /\ log \in Seq(ToSet(log))
    /\ \A n \in 1..Len(log) : log[n].sent # <<>> =>
          LET frame == log[n].wire
              schema == registry.schemas[frame.id]
          IN  /\ frame.id \in Ids /\ IsDocument(log[n].sent[1])
              /\ serialize(schema, log[n].sent[1]) # <<>>
              /\ frame.body = serialize(schema, log[n].sent[1])[1]

\* Tasks encode documents; the poller decodes the next record of its poll.
Roles ==
    /\ \A t \in Tasks : /\ call[t].op \in {"none", "encode"}
                        /\ call[t].op = "encode" => IsDocument(call[t].body[1].doc)
    /\ \/ At(poller, "free") /\ call[poller].op = "none"
       \/ /\ call[poller].op = "decode" /\ Len(decoded) < Len(pending)
          /\ call[poller].stage \notin {"encode", "latest", "ask_latest", "got_latest"}
Polls ==
    /\ handed \in Nat /\ pending \in Seq(Nat) /\ decoded \in Seq(ToSet(decoded))
    /\ handed + Len(pending) <= Len(log) /\ Len(decoded) <= Len(pending)

\* The verdicts, then the one group that waits, are the first k records of a poll.
Waits(group, w, poll) == /\ group \in Seq(ToSet(poll))
                         /\ \A i \in 1..Len(group) : group[i] = poll[Len(w.decisions) + i]
Follows(w, poll, k) ==
    /\ w.decisions \in Seq(ToSet(w.decisions))
    /\ \A i \in 1..Len(w.decisions) : w.decisions[i].n = poll[i].n
    /\ Waits(w.arrow_group, w, poll) /\ Waits(w.schema_json_group, w, poll)
    /\ w.arrow_group = <<>> \/ w.schema_json_group = <<>>
    /\ Len(w.decisions) + Len(w.arrow_group) + Len(w.schema_json_group) = k
WorkFields == {"decisions", "arrow_group", "schema_json_group", "ok", "cache"}
InStep(w, poll, k) == DOMAIN w = WorkFields /\ (w.ok => Follows(w, poll, k))
Drained(w) == w.ok => w.arrow_group = <<>> /\ w.schema_json_group = <<>>
Verdicts == /\ polled \in Seq(ToSet(polled)) /\ taken \in 0..Len(polled)
            /\ InStep(work, polled, taken)
            /\ polled # <<>> /\ taken = Len(polled) => Drained(work)

CodecInv == Versions /\ CallShapes /\ Caches /\ CallsAgree /\ SlotsAgree /\ Queued /\ Described
PipelineInv == CodecInv /\ Roles /\ Polls /\ Verdicts

-----------------------------------------------------------------------------
(* Sequences.                                                                *)

\* A sequence over its own elements grows by one.
LEMMA Grows ==
  ASSUME NEW s, s \in Seq(ToSet(s)), NEW e
  PROVE  LET a == Append(s, e)
         IN  /\ a \in Seq(ToSet(a)) /\ Len(a) = Len(s) + 1 /\ Len(s) \in Nat
             /\ a[Len(s) + 1] = e /\ \A i \in 1..Len(s) : a[i] = s[i]
  <1> DEFINE S == ToSet(s) \cup {e}
             a == Append(s, e)
  <1>1. s \in Seq(S) /\ e \in S
    OBVIOUS
  <1> HIDE DEF S
  <1>2. /\ a \in Seq(S) /\ Len(a) = Len(s) + 1 /\ Len(s) \in Nat
        /\ a[Len(s) + 1] = e /\ \A i \in 1..Len(s) : a[i] = s[i]
    BY <1>1, AppendProperties, LenProperties
  <1> HIDE DEF a
  <1>3. a \in [1..Len(a) -> ToSet(a)] /\ Len(a) \in Nat
    BY <1>2, LenProperties DEF ToSet
  <1>4. a \in Seq(ToSet(a))
    BY <1>2, <1>3
  <1> QED
    BY <1>2, <1>4 DEF a

-----------------------------------------------------------------------------
(* Calls.                                                                    *)

\* A step of one call: the others stay as they are.
Moves(t) == CallShapes' /\ \A u \in Callers \ {t} : call'[u] = call[u]
SameRole(t) == call'[t].op = call[t].op /\ call'[t].body = call[t].body
\* What a step may add to the log without a document to describe.
Plain == log' = log \/ \E wire : log' = Append(log, [wire |-> wire, sent |-> <<>>])

\* Setting a call's stage moves that call only.
LEMMA StageMoves ==
  ASSUME CallShapes, NEW t \in Callers, NEW stage, call' = [call EXCEPT ![t].stage = stage]
  PROVE  Moves(t) /\ SameRole(t) /\ call'[t].stage = stage
  BY DEF CallShapes, CallFields, Moves, SameRole

\* A call that is neither talking to the registry nor holding a slot carries
\* nothing that could disagree with the registry.
Carrying == {"slot", "prepare", "got_id", "got_latest", "ask_id", "ask_latest"}

\* Nothing is asked of a call outside those stages.
LEMMA QuietAgrees == \A c : c.stage \notin Carrying => Agrees(c)
  BY DEF Agrees, Carrying

\* A log without anything new to describe stays described.
LEMMA PlainDescribed ==
  ASSUME Described, UNCHANGED registry, Plain
  PROVE  Described'
  <1>1. CASE log' = log
    BY <1>1 DEF Described, Ids
  <1>2. ASSUME NEW wire, log' = Append(log, [wire |-> wire, sent |-> <<>>]) PROVE Described'
    <2> DEFINE e == [wire |-> wire, sent |-> <<>>]
    <2>1. e.sent = <<>> /\ log' = Append(log, e)
      BY <1>2
    <2> HIDE DEF e
    <2>2. log \in Seq(ToSet(log))
      BY DEF Described
    <2>3. /\ log' \in Seq(ToSet(log')) /\ Len(log') = Len(log) + 1 /\ Len(log) \in Nat
          /\ log'[Len(log) + 1] = e /\ \A i \in 1..Len(log) : log'[i] = log[i]
      BY <2>1, <2>2, Grows
    <2>4. \A n \in 1..Len(log') : log'[n].sent # <<>> => n \in 1..Len(log) /\ log'[n] = log[n]
      BY <2>1, <2>3
    <2> QED
      BY <2>3, <2>4 DEF Described, Ids
  <1> QED
    BY <1>1, <1>2 DEF Plain

\* What a step of a call that takes no slot needs to keep.
LEMMA CallMoves ==
  ASSUME CodecInv, NEW t \in Callers, Moves(t), Plain, Caches',
         call'[t].stage # "prepare", Agrees(call'[t]),
         UNCHANGED <<registry, now, prepared, slots>>
  PROVE  CodecInv'
  <1>1. Versions'
    BY DEF CodecInv, Versions, Ids
  <1>2. CallShapes'
    BY DEF Moves
  <1>3. CallsAgree'
    <2>1. ASSUME NEW u \in Callers PROVE Agrees(call'[u])
      BY DEF CodecInv, CallsAgree, Moves
    <2> QED
      BY <2>1 DEF CallsAgree, Agrees, Ids, LatestSince, Callers
  <1>4. SlotsAgree'
    <2>1. \A u \in Callers : At(u, "prepare")' => At(u, "prepare") /\ call'[u] = call[u]
      BY DEF At, Moves
    <2>2. SlotsAgree /\ (\A slot, id : KeepsOnly(slot, id)' <=> KeepsOnly(slot, id)) /\ Ids' = Ids
      BY DEF CodecInv, KeepsOnly, Ids
    <2>3. /\ DOMAIN slots' = 1..(PREPARED_SCHEMA_CAPACITY + Cardinality(Callers))
          /\ \A i \in DOMAIN prepared'.entries : i \in Ids' /\ KeepsOnly(prepared.entries[i], i)'
          /\ \A i, j \in DOMAIN prepared'.entries : prepared'.entries[i] = prepared'.entries[j] => i = j
      BY <2>2 DEF SlotsAgree
    <2>4. ASSUME NEW u \in Callers, At(u, "prepare")'
          PROVE  /\ KeepsOnly(call[u].slot, call[u].id)'
                 /\ \A i \in DOMAIN prepared'.entries : prepared'.entries[i] = call'[u].slot => i = call'[u].id
                 /\ \A v \in Callers : At(v, "prepare")' /\ call'[v].slot = call'[u].slot => call'[v].id = call'[u].id
      <3>1. At(u, "prepare") /\ call'[u] = call[u]
        BY <2>1, <2>4
      <3>2. KeepsOnly(call[u].slot, call[u].id)'
        BY <2>2, <3>1 DEF SlotsAgree
      <3> QED
        BY <2>1, <2>2, <3>1, <3>2 DEF SlotsAgree
    <2> QED
      BY <2>3, <2>4 DEF SlotsAgree, Callers
  <1>5. Queued'
    BY DEF CodecInv, Queued, PreparedCacheIsBounded
  <1>6. Described'
    BY PlainDescribed DEF CodecInv
  <1> QED
    BY <1>1, <1>2, <1>3, <1>4, <1>5, <1>6 DEF CodecInv

\* The same when the caches are left alone.
LEMMA QuietMoves ==
  ASSUME CodecInv, NEW t \in Callers, Moves(t), Plain, call'[t].stage # "prepare", Agrees(call'[t]),
         UNCHANGED <<registry, now, by_id, by_subject_latest, prepared, slots>>
  PROVE  CodecInv'
  <1>1. Caches'
    BY DEF CodecInv, Caches, Ids, LatestSince
  <1> QED
    BY <1>1, CallMoves

\* An encode stores bytes as they are or starts to look for a schema
\* (SchemaRegistryCodec::encode).
LEMMA EncodeSound ==
  ASSUME CodecInv, NEW t \in Callers, Encode(t)
  PROVE  CodecInv' /\ Moves(t) /\ SameRole(t) /\ call'[t].stage \in {"stored", "by_id", "latest"}
  <1>1. CallShapes
    BY DEF CodecInv
  <1>2. Moves(t) /\ SameRole(t) /\ call'[t].stage \in {"stored", "by_id", "latest"} /\ Plain
    <2>1. CASE Goto(t, "stored") /\ Write(call[t].body[1].wire, <<>>)
      BY <1>1, <2>1, StageMoves DEF Goto, Write, Plain
    <2>2. CASE call' = [call EXCEPT ![t].stage = "latest"] /\ UNCHANGED log
      BY <1>1, <2>2, StageMoves DEF Plain
    <2>3. CASE call' = [call EXCEPT ![t].stage = "by_id", ![t].id = call[t].selector[1]] /\ UNCHANGED log
      BY <1>1, <2>3 DEF CallShapes, CallFields, Moves, SameRole, Plain
    <2> QED
      BY <2>1, <2>2, <2>3 DEF Encode
  <1>3. Agrees(call'[t]) /\ call'[t].stage # "prepare"
    BY <1>2, QuietAgrees DEF Carrying
  <1>4. CodecInv'
    BY <1>2, <1>3, QuietMoves DEF Encode, cacheVars
  <1> QED
    BY <1>2, <1>4

\* A decode passes bytes through, refuses a short header, or looks for the
\* schema of the header's id (SchemaRegistryCodec::decode).
LEMMA DecodeSound ==
  ASSUME CodecInv, NEW t \in Callers, Decode(t)
  PROVE  CodecInv' /\ Moves(t) /\ SameRole(t) /\ call'[t].stage \in {"decoded", "framing", "by_id"} /\ UNCHANGED log
  <1>1. CallShapes
    BY DEF CodecInv
  <1>2. Moves(t) /\ SameRole(t) /\ call'[t].stage \in {"decoded", "framing", "by_id"}
    <2>1. CASE call' = [call EXCEPT ![t].stage = "decoded", ![t].decoded = <<Passthrough(call[t].wire[1])>>]
      BY <1>1, <2>1 DEF CallShapes, CallFields, Moves, SameRole
    <2>2. CASE Fail(t, "framing")
      BY <1>1, <2>2, StageMoves DEF Fail
    <2>3. CASE call' = [call EXCEPT ![t].stage = "by_id", ![t].id = call[t].wire[1].id]
      BY <1>1, <2>3 DEF CallShapes, CallFields, Moves, SameRole
    <2> QED
      BY <2>1, <2>2, <2>3 DEF Decode
  <1>3. Agrees(call'[t]) /\ call'[t].stage # "prepare"
    BY <1>2, QuietAgrees DEF Carrying
  <1>4. UNCHANGED log
    BY DEF Decode
  <1>5. CodecInv'
    BY <1>2, <1>3, <1>4, QuietMoves DEF Decode, cacheVars, Plain
  <1> QED
    BY <1>2, <1>4, <1>5

\* A call that has its schema goes on to its slot, or ends.
Ready(t, id) ==
    /\ Moves(t) /\ SameRole(t) /\ Plain
    /\ \/ call'[t].stage = "stored" /\ call[t].op = "encode"
          /\ \E wire : wire.id = id /\ log' = Append(log, [wire |-> wire, sent |-> <<>>])
       \/ call'[t].stage = "framing"
       \/ call'[t].stage = "slot" /\ call'[t].id = id /\ call'[t].schema = <<registry.schemas[id]>>

\* Resolving an id to the registry's schema makes the call ready with it.
LEMMA ResolvedReady ==
  ASSUME CallShapes, NEW t \in Callers, NEW id \in Ids, NEW schema, schema = registry.schemas[id],
         Resolved(t, id, schema)
  PROVE  Ready(t, id) /\ Agrees(call'[t]) /\ call'[t].stage \in {"stored", "framing", "slot"}
  <1>1. CASE call[t].op = "encode" /\ ~call[t].body[1].structured
    <2> DEFINE wire == encode_frame(id, schema.fmt, call[t].body[1].doc)
    <2>1. Goto(t, "stored") /\ log' = Append(log, [wire |-> wire, sent |-> <<>>])
      BY <1>1 DEF Resolved, Write
    <2>2. wire.id = id
      BY DEF encode_frame
    <2> HIDE DEF wire
    <2>3. Moves(t) /\ SameRole(t) /\ call'[t].stage = "stored"
      BY <2>1, StageMoves DEF Goto
    <2> QED
      BY <1>1, <2>1, <2>2, <2>3, QuietAgrees DEF Ready, Plain, Carrying
  <1>2. CASE ~(call[t].op = "encode" /\ ~call[t].body[1].structured)
    <2>1. Fail(t, "framing") \/ call' = [call EXCEPT ![t].stage = "slot", ![t].id = id, ![t].schema = <<schema>>]
      BY <1>2 DEF Resolved
    <2>2. UNCHANGED log
      BY <1>2 DEF Resolved
    <2>3. CASE Fail(t, "framing")
      <3>1. Moves(t) /\ SameRole(t) /\ call'[t].stage = "framing"
        BY <2>3, StageMoves DEF Fail
      <3> QED
        BY <2>2, <3>1, QuietAgrees DEF Ready, Plain, Carrying
    <2>4. CASE call' = [call EXCEPT ![t].stage = "slot", ![t].id = id, ![t].schema = <<schema>>]
      <3>1. /\ Moves(t) /\ SameRole(t)
            /\ call'[t].stage = "slot" /\ call'[t].id = id /\ call'[t].schema = <<schema>>
        BY <2>4 DEF CallShapes, CallFields, Moves, SameRole
      <3>2. Agrees(call'[t])
        BY <3>1 DEF Agrees
      <3> QED
        BY <2>2, <3>1, <3>2 DEF Ready, Plain
    <2> QED
      BY <2>1, <2>3, <2>4
  <1> QED
    BY <1>1, <1>2

\* A question to the registry carries the time it was asked.
LEMMA AskAgrees ==
  ASSUME CodecInv, NEW t \in Callers, NEW stage \in {"ask_id", "ask_latest"},
         call' = [call EXCEPT ![t].stage = stage, ![t].asked = now]
  PROVE  Moves(t) /\ SameRole(t) /\ call'[t].stage = stage /\ Agrees(call'[t])
  <1>1. Moves(t) /\ SameRole(t) /\ call'[t].stage = stage /\ call'[t].asked = now
    BY DEF CodecInv, CallShapes, CallFields, Moves, SameRole
  <1>2. now \in Nat /\ MaxFlight \in Nat
    BY CodecAssumption DEF CodecInv, Versions
  <1> QED
    BY <1>1, <1>2 DEF Agrees

\* A schema is taken from the cache by its id, or asked for (schema_by_id).
LEMMA ByIdSound ==
  ASSUME CodecInv, NEW t \in Callers, ById(t)
  PROVE  CodecInv' /\ Moves(t) /\ SameRole(t)
         /\ call'[t].stage \in {"stored", "framing", "slot", "ask_id"} /\ Plain
         /\ (call'[t].stage = "stored" => call[t].op = "encode")
  <1>1. CASE call[t].id \in DOMAIN by_id
    <2>1. call[t].id \in Ids /\ by_id[call[t].id] = registry.schemas[call[t].id]
      BY <1>1 DEF CodecInv, Caches
    <2>2. Resolved(t, call[t].id, by_id[call[t].id]) /\ CallShapes
      BY <1>1 DEF ById, CodecInv
    <2>3. PICK id, schema : id = call[t].id /\ schema = by_id[call[t].id]
      OBVIOUS
    <2>4. Ready(t, id) /\ Agrees(call'[t]) /\ call'[t].stage \in {"stored", "framing", "slot"}
      BY <2>1, <2>2, <2>3, ResolvedReady
    <2>5. Moves(t) /\ SameRole(t) /\ Plain /\ call'[t].stage # "prepare"
      BY <2>4 DEF Ready
    <2>6. CodecInv'
      BY <2>4, <2>5, QuietMoves DEF ById, cacheVars
    <2>7. call'[t].stage = "stored" => call[t].op = "encode"
      BY <2>4 DEF Ready
    <2> QED
      BY <2>4, <2>5, <2>6, <2>7
  <1>2. CASE call[t].id \notin DOMAIN by_id
    <2>1. call' = [call EXCEPT ![t].stage = "ask_id", ![t].asked = now] /\ UNCHANGED log
      BY <1>2 DEF ById
    <2>2. Moves(t) /\ SameRole(t) /\ call'[t].stage = "ask_id" /\ Agrees(call'[t])
      BY <2>1, AskAgrees
    <2>3. Plain /\ call'[t].stage # "prepare"
      BY <2>1, <2>2 DEF Plain
    <2>4. CodecInv'
      BY <2>2, <2>3, QuietMoves DEF ById, cacheVars
    <2> QED
      BY <2>2, <2>3, <2>4
  <1> QED
    BY <1>1, <1>2

\* The version an encode takes from the cache was superseded less than a
\* lifetime and a round trip ago.
Recent(id) == id \in Nat /\ (id + 1 \in Ids => now - registry.since[id + 1] < latest_cache_ttl + MaxFlight)

\* A latest version that is taken from the cache is recent
\* (SchemaRegistryClient::latest).
LEMMA LatestSound ==
  ASSUME CodecInv, NEW t \in Callers, Latest(t)
  PROVE  /\ CodecInv'
         /\ \/ Moves(t) /\ SameRole(t) /\ call'[t].stage = "ask_latest" /\ UNCHANGED log
            \/ \E id \in Ids : Ready(t, id) /\ Recent(id)
  <1>1. ASSUME NEW entry \in ToSet(by_subject_latest), fresh(entry), entry.id \in DOMAIN by_id,
               Resolved(t, entry.id, by_id[entry.id])
        PROVE  CodecInv' /\ \E id \in Ids : Ready(t, id) /\ Recent(id)
    <2>1. entry.id \in Ids /\ by_id[entry.id] = registry.schemas[entry.id] /\ CallShapes
      BY <1>1 DEF CodecInv, Caches
    <2>2. PICK id, schema : id = entry.id /\ schema = by_id[entry.id]
      OBVIOUS
    <2>3. Ready(t, id) /\ Agrees(call'[t]) /\ call'[t].stage \in {"stored", "framing", "slot"}
      BY <1>1, <2>1, <2>2, ResolvedReady
    <2>4. Moves(t) /\ Plain /\ call'[t].stage # "prepare"
      BY <2>3 DEF Ready
    <2>5. CodecInv'
      BY <2>3, <2>4, QuietMoves DEF Latest, cacheVars
    <2>6. Recent(id)
      <3>1. /\ entry.fetched_at \in Nat /\ now - entry.fetched_at < latest_cache_ttl
            /\ id \in Nat /\ (id + 1 \in Ids => registry.since[id + 1] >= entry.fetched_at - MaxFlight)
        BY <1>1, <2>2 DEF CodecInv, Caches, LatestSince, fresh
      <3>2. now \in Nat /\ latest_cache_ttl \in Nat /\ MaxFlight \in Nat
        BY CodecAssumption DEF CodecInv, Versions
      <3>3. id + 1 \in Ids => registry.since[id + 1] \in Nat
        BY LenProperties DEF CodecInv, Versions, Ids
      <3> QED
        BY <3>1, <3>2, <3>3 DEF Recent
    <2> QED
      BY <2>1, <2>2, <2>3, <2>5, <2>6
  <1>2. ASSUME call' = [call EXCEPT ![t].stage = "ask_latest", ![t].asked = now], UNCHANGED log
        PROVE  CodecInv' /\ Moves(t) /\ SameRole(t) /\ call'[t].stage = "ask_latest" /\ UNCHANGED log
    <2>1. Moves(t) /\ SameRole(t) /\ call'[t].stage = "ask_latest" /\ Agrees(call'[t])
      BY <1>2, AskAgrees
    <2>2. Plain /\ call'[t].stage # "prepare"
      BY <1>2, <2>1 DEF Plain
    <2>3. CodecInv'
      BY <2>1, <2>2, QuietMoves DEF Latest, cacheVars
    <2> QED
      BY <1>2, <2>1, <2>3
  <1> QED
    BY <1>1, <1>2 DEF Latest

\* The registry answers with what it holds at that moment.
LEMMA AnswersSound ==
  ASSUME CodecInv, NEW t \in Callers, RegistryAnswers(t)
  PROVE  CodecInv' /\ Moves(t) /\ SameRole(t) /\ UNCHANGED log
         /\ call'[t].stage = IF At(t, "ask_id") THEN "got_id" ELSE "got_latest"
  <1> DEFINE id == IF At(t, "ask_id") THEN call[t].id ELSE Len(registry.schemas)
             stage == IF At(t, "ask_id") THEN "got_id" ELSE "got_latest"
             schema == IF id \in Ids THEN <<registry.schemas[id]>> ELSE <<>>
  <1>1. call' = [call EXCEPT ![t].stage = stage, ![t].id = id, ![t].schema = schema]
    BY DEF RegistryAnswers, Ids
  <1>2. CallShapes /\ Agrees(call[t]) /\ call[t].stage \in {"ask_id", "ask_latest"} /\ UNCHANGED log
    BY DEF CodecInv, CallsAgree, RegistryAnswers, At
  <1> HIDE DEF id, stage, schema
  <1>3. /\ Moves(t) /\ SameRole(t) /\ call'[t].stage = stage /\ call'[t].id = id /\ call'[t].schema = schema
        /\ call'[t].asked = call[t].asked
    BY <1>1, <1>2 DEF CallShapes, CallFields, Moves, SameRole
  <1>4. Agrees(call'[t])
    <2>1. call[t].asked \in Nat /\ call[t].asked <= now /\ now - call[t].asked <= MaxFlight
      BY <1>2 DEF Agrees
    <2>2. stage \in {"got_id", "got_latest"} /\ (stage = "got_latest" => id = Len(registry.schemas))
      BY DEF stage, id
    <2>3. schema # <<>> => id \in Ids /\ schema = <<registry.schemas[id]>>
      BY DEF schema
    <2>4. Len(registry.schemas) \in Nat
      BY LenProperties DEF CodecInv, Versions
    <2>5. stage = "got_latest" => LatestSince(id, call[t].asked)
      BY <2>2, <2>4 DEF LatestSince, Ids
    <2> QED
      BY <1>3, <2>1, <2>2, <2>3, <2>5 DEF Agrees
  <1>5. stage # "prepare" /\ Plain
    BY <1>2 DEF stage, Plain
  <1>6. CodecInv'
    BY <1>3, <1>4, <1>5, QuietMoves DEF RegistryAnswers, cacheVars
  <1> QED
    BY <1>2, <1>3, <1>6 DEF stage

\* A request that fails ends its call and caches nothing.
LEMMA FailsSound ==
  ASSUME CodecInv, NEW t \in Callers, RegistryFails(t)
  PROVE  CodecInv' /\ Moves(t) /\ SameRole(t) /\ call'[t].stage = "registry" /\ UNCHANGED log
  <1>1. Moves(t) /\ SameRole(t) /\ call'[t].stage = "registry" /\ UNCHANGED log
    BY StageMoves DEF RegistryFails, Fail, CodecInv
  <1>2. Agrees(call'[t]) /\ Plain /\ call'[t].stage # "prepare"
    BY <1>1, QuietAgrees DEF Carrying, Plain
  <1> QED
    BY <1>1, <1>2, QuietMoves DEF RegistryFails, cacheVars

\* A retry starts the call over.
LEMMA RetrySound ==
  ASSUME CodecInv, NEW t \in Callers, Retry(t)
  PROVE  CodecInv' /\ Moves(t) /\ SameRole(t) /\ call'[t].stage = "encode" /\ UNCHANGED log
  <1>1. Moves(t) /\ SameRole(t) /\ call'[t].stage = "encode" /\ UNCHANGED log
    BY DEF Retry, CodecInv, CallShapes, CallFields, Moves, SameRole
  <1>2. Agrees(call'[t]) /\ Plain /\ call'[t].stage # "prepare"
    BY <1>1, QuietAgrees DEF Carrying, Plain
  <1> QED
    BY <1>1, <1>2, QuietMoves DEF Retry, cacheVars

\* An answer is cached for its id; a latest one for its subject too. One that
\* names no schema is not.
LEMMA ReceiveSound ==
  ASSUME CodecInv, NEW t \in Callers, Receive(t)
  PROVE  /\ CodecInv' /\ call[t].stage \in {"got_id", "got_latest"}
         /\ \/ Moves(t) /\ SameRole(t) /\ call'[t].stage = "registry" /\ UNCHANGED log
            \/ \E id \in Ids : Ready(t, id) /\ (At(t, "got_latest") => Recent(id))
  <1>1. CallShapes /\ Caches /\ Versions /\ Agrees(call[t]) /\ call[t].stage \in {"got_id", "got_latest"}
    BY DEF CodecInv, CallsAgree, Receive, At
  <1>2. CASE call[t].schema = <<>>
    <2>1. Fail(t, "registry") /\ UNCHANGED <<by_id, by_subject_latest, log>>
      BY <1>2 DEF Receive, not_found
    <2>2. Moves(t) /\ SameRole(t) /\ call'[t].stage = "registry"
      BY <1>1, <2>1, StageMoves DEF Fail
    <2>3. Agrees(call'[t]) /\ Plain /\ call'[t].stage # "prepare"
      BY <2>1, <2>2, QuietAgrees DEF Carrying, Plain
    <2>4. CodecInv'
      BY <2>1, <2>2, <2>3, QuietMoves DEF Receive
    <2> QED
      BY <1>1, <2>1, <2>2, <2>4
  <1>3. CASE call[t].schema # <<>>
    <2>1. PICK id, schema : id = call[t].id /\ schema = call[t].schema[1]
      OBVIOUS
    <2>2. id \in Ids /\ schema = registry.schemas[id]
      BY <1>1, <1>3, <2>1 DEF Agrees
    <2>3. /\ by_id' = With(by_id, id, schema) /\ Resolved(t, id, schema)
          /\ by_subject_latest' = IF At(t, "got_latest") THEN <<[id |-> id, fetched_at |-> now]>>
                                  ELSE by_subject_latest
      BY <1>3, <2>1 DEF Receive
    <2>4. Ready(t, id) /\ Agrees(call'[t]) /\ call'[t].stage \in {"stored", "framing", "slot"}
      BY <1>1, <2>2, <2>3, ResolvedReady
    <2>5. UNCHANGED <<registry, now, prepared, slots>>
      BY DEF Receive
    <2>6. At(t, "got_latest") => LatestSince(id, now - MaxFlight) /\ Recent(id)
      <3>1. SUFFICES ASSUME At(t, "got_latest") PROVE LatestSince(id, now - MaxFlight) /\ Recent(id)
        OBVIOUS
      <3>2. LatestSince(id, call[t].asked) /\ call[t].asked \in Nat /\ now - call[t].asked <= MaxFlight
        BY <1>1, <2>1, <3>1 DEF Agrees, At
      <3>3. now \in Nat /\ latest_cache_ttl \in Nat \ {0} /\ MaxFlight \in Nat
        BY <1>1, CodecAssumption DEF Versions
      <3>4. id + 1 \in Ids => registry.since[id + 1] \in Nat
        BY <1>1, LenProperties DEF Versions, Ids
      <3> QED
        BY <3>2, <3>3, <3>4 DEF LatestSince, Recent
    <2>7. Caches'
      <3>1. \A i \in DOMAIN by_id' : i \in Ids' /\ by_id'[i] = registry'.schemas[i]
        BY <1>1, <2>2, <2>3, <2>5 DEF Caches, With, Ids
      <3>2. CASE At(t, "got_latest")
        <4> DEFINE e == [id |-> id, fetched_at |-> now]
        <4>1. ToSet(by_subject_latest') = {e}
          BY <2>3, <3>2 DEF ToSet
        <4>2. e.id = id /\ e.fetched_at = now /\ now \in Nat
          BY <1>1 DEF Versions
        <4> HIDE DEF e
        <4>3. LatestSince(e.id, e.fetched_at - MaxFlight)
          BY <2>6, <3>2, <4>2
        <4>4. \A entry \in ToSet(by_subject_latest') :
                 entry.fetched_at \in Nat /\ entry.fetched_at <= now' /\ LatestSince(entry.id, entry.fetched_at - MaxFlight)
          BY <2>5, <4>1, <4>2, <4>3
        <4> QED
          BY <2>5, <3>1, <4>4 DEF Caches, LatestSince, Ids
      <3>3. CASE ~At(t, "got_latest")
        BY <1>1, <2>3, <2>5, <3>1, <3>3 DEF Caches, LatestSince, Ids
      <3> QED
        BY <3>2, <3>3
    <2>8. Moves(t) /\ Plain /\ call'[t].stage # "prepare"
      BY <2>4 DEF Ready
    <2>9. CodecInv'
      BY <2>4, <2>5, <2>7, <2>8, CallMoves
    <2> QED
      BY <1>1, <2>2, <2>4, <2>6, <2>9
  <1> QED
    BY <1>2, <1>3

\* There are more slots than holders, so a call that needs one finds one.
LEMMA FreshSlot ==
  ASSUME CodecInv, NEW t \in Callers, At(t, "slot")
  PROVE  fresh_slot \in DOMAIN slots /\ fresh_slot \notin Entered /\ fresh_slot \notin InUse
  <1> DEFINE D == DOMAIN prepared.entries
             P == {u \in Callers : At(u, "prepare")}
             N == Cardinality(Callers)
  <1>1. IsFiniteSet(Callers) /\ N \in Nat
    <2>1. IsFiniteSet(Callers)
      BY CodecAssumption, FS_AddElement DEF Callers
    <2> QED
      BY <2>1, FS_CardinalityType
  <1>2. IsFiniteSet(P) /\ Cardinality(P) <= N - 1 /\ Cardinality(P) \in Nat
    <2>1. P \in SUBSET (Callers \ {t})
      BY DEF At
    <2>2. IsFiniteSet(Callers \ {t}) /\ Cardinality(Callers \ {t}) = N - 1
      BY <1>1, FS_RemoveElement
    <2>3. IsFiniteSet(P) /\ Cardinality(P) <= Cardinality(Callers \ {t})
      BY <2>1, <2>2, FS_Subset
    <2> QED
      BY <2>2, <2>3, FS_CardinalityType
  <1>3. IsFiniteSet(D) /\ Cardinality(D) <= PREPARED_SCHEMA_CAPACITY /\ Cardinality(D) \in Nat
    BY FS_CardinalityType DEF CodecInv, Queued, PreparedCacheIsBounded
  <1>4. IsFiniteSet(Entered) /\ Cardinality(Entered) <= Cardinality(D)
    <2>1. [i \in D |-> prepared.entries[i]] \in Surjection(D, Entered)
      BY DEF Entered, Surjection
    <2> QED
      BY <1>3, <2>1, FS_Surjection
  <1>5. IsFiniteSet(InUse) /\ Cardinality(InUse) <= Cardinality(P)
    <2>1. InUse = {call[u].slot : u \in P}
      BY DEF InUse, CodecInv, CallShapes
    <2>2. [u \in P |-> call[u].slot] \in Surjection(P, InUse)
      BY <2>1 DEF Surjection
    <2> QED
      BY <1>2, <2>2, FS_Surjection
  <1>6. IsFiniteSet(Entered \cup InUse) /\ Cardinality(Entered \cup InUse) <= Cardinality(Entered) + Cardinality(InUse)
    <2>1. /\ IsFiniteSet(Entered \cup InUse)
          /\ Cardinality(Entered \cup InUse) = Cardinality(Entered) + Cardinality(InUse) - Cardinality(Entered \cap InUse)
      BY <1>4, <1>5, FS_Union
    <2>2. IsFiniteSet(Entered \cap InUse)
      BY <1>4, FS_Intersection
    <2>3. Cardinality(Entered \cap InUse) \in Nat /\ Cardinality(Entered) \in Nat /\ Cardinality(InUse) \in Nat
      BY <1>4, <1>5, <2>2, FS_CardinalityType
    <2> QED
      BY <2>1, <2>3
  <1>7. PREPARED_SCHEMA_CAPACITY \in Nat
    BY CodecAssumption
  <1>8. Cardinality(DOMAIN slots) = PREPARED_SCHEMA_CAPACITY + N
    <2>1. DOMAIN slots = 1..(PREPARED_SCHEMA_CAPACITY + N)
      BY DEF CodecInv, SlotsAgree
    <2>2. PICK k : k = PREPARED_SCHEMA_CAPACITY + N
      OBVIOUS
    <2>3. k \in Nat /\ k \in Int /\ 1 \in Int
      BY <1>1, <1>7, <2>2
    <2>4. Cardinality(1..k) = IF 1 > k THEN 0 ELSE k - 1 + 1
      BY <2>3, FS_Interval
    <2>5. Cardinality(1..k) = k
      BY <2>3, <2>4
    <2> QED
      BY <2>1, <2>2, <2>5
  <1>9. Unheld # {}
    <2>1. SUFFICES ASSUME Unheld = {} PROVE FALSE
      OBVIOUS
    <2>2. DOMAIN slots \in SUBSET (Entered \cup InUse)
      BY <2>1 DEF Unheld
    <2>3. Cardinality(DOMAIN slots) <= Cardinality(Entered \cup InUse)
      BY <1>6, <2>2, FS_Subset
    <2>4. Cardinality(Entered) \in Nat /\ Cardinality(InUse) \in Nat /\ Cardinality(Entered \cup InUse) \in Nat
      BY <1>4, <1>5, <1>6, FS_CardinalityType
    <2> HIDE DEF N, D, P
    <2> QED
      BY <1>1, <1>2, <1>3, <1>4, <1>5, <1>6, <1>7, <1>8, <2>3, <2>4
  <1> QED
    BY <1>9 DEF fresh_slot, Unheld

\* The cache after making room.
Room == IF AtCapacity THEN Evicted ELSE prepared

\* Making room evicts the oldest id, which the queue names.
LEMMA RoomMade ==
  ASSUME Queued
  PROVE  LET D == DOMAIN Room.entries
         IN  /\ D \subseteq DOMAIN prepared.entries /\ \A i \in D : Room.entries[i] = prepared.entries[i]
             /\ IsFiniteSet(D) /\ Cardinality(D) \in Nat /\ Cardinality(D) + 1 <= PREPARED_SCHEMA_CAPACITY
             /\ Room.insertion_order \in Seq(Nat) /\ Len(Room.insertion_order) = Cardinality(D)
             /\ \A m, n \in 1..Len(Room.insertion_order) :
                   Room.insertion_order[m] = Room.insertion_order[n] => m = n
             /\ \A x : x \in D <=> \E m \in 1..Len(Room.insertion_order) : Room.insertion_order[m] = x
  <1> DEFINE order == prepared.insertion_order
             D == DOMAIN prepared.entries
  <1>1. /\ IsFiniteSet(D) /\ Cardinality(D) \in Nat /\ Cardinality(D) <= PREPARED_SCHEMA_CAPACITY
        /\ order \in Seq(Nat) /\ Len(order) = Cardinality(D) /\ ToSet(order) = D
        /\ \A m, n \in 1..Len(order) : order[m] = order[n] => m = n
    BY FS_CardinalityType DEF Queued, PreparedCacheIsBounded
  <1>2. PREPARED_SCHEMA_CAPACITY \in Nat \ {0}
    BY CodecAssumption
  <1>3. DOMAIN order = 1..Len(order)
    BY <1>1, LenProperties
  <1>4. \A x : x \in D <=> \E m \in 1..Len(order) : order[m] = x
    BY <1>1, <1>3 DEF ToSet
  <1>5. CASE ~AtCapacity
    <2>1. Room = prepared
      BY <1>5 DEF Room
    <2>2. Cardinality(D) + 1 <= PREPARED_SCHEMA_CAPACITY
      BY <1>1, <1>2, <1>5 DEF AtCapacity
    <2> QED
      BY <1>1, <1>4, <2>1, <2>2
  <1>6. CASE AtCapacity
    <2> DEFINE h == Head(order)
               rest == Tail(order)
    <2>1. /\ Room.entries = Restrict(prepared.entries, D \ {h}) /\ Room.insertion_order = rest
      BY <1>6 DEF Room, Evicted
    <2>2. Len(order) > 0 /\ order # <<>>
      BY <1>1, <1>2, <1>6, EmptySeq DEF AtCapacity
    <2>3. /\ rest \in Seq(Nat) /\ Len(rest) = Len(order) - 1 /\ h = order[1]
          /\ \A m \in 1..Len(rest) : rest[m] = order[m + 1]
      <3>1. h = order[1]
        BY <1>1, <2>2
      <3> QED
        BY ONLY <1>1, <2>2, <3>1, HeadTailProperties
    <2> HIDE DEF order, rest, h
    <2>4. Len(order) \in Nat
      BY <1>1
    <2>5. h \in D
      BY <1>4, <2>2, <2>3, <2>4
    <2>6. DOMAIN Room.entries = D \ {h} /\ \A i \in D \ {h} : Room.entries[i] = prepared.entries[i]
      BY <2>1 DEF Restrict
    <2>7. IsFiniteSet(D \ {h}) /\ Cardinality(D \ {h}) = Cardinality(D) - 1
      BY <1>1, <2>5, FS_RemoveElement
    <2>8. ASSUME NEW m \in 1..Len(rest), NEW n \in 1..Len(rest), rest[m] = rest[n] PROVE m = n
      <3>1. m + 1 \in 1..Len(order) /\ n + 1 \in 1..Len(order)
        BY <2>3, <2>4
      <3>2. order[m + 1] = order[n + 1]
        BY <2>3, <2>8
      <3>3. m + 1 = n + 1
        BY <1>1, <3>1, <3>2
      <3> QED
        BY <3>3
    <2>9. ASSUME NEW x PROVE x \in D \ {h} <=> \E m \in 1..Len(rest) : rest[m] = x
      <3>1. ASSUME x \in D, x # h PROVE \E m \in 1..Len(rest) : rest[m] = x
        <4>1. PICK m \in 1..Len(order) : order[m] = x
          BY <1>4, <3>1
        <4>2. m # 1 /\ m - 1 \in 1..Len(rest) /\ (m - 1) + 1 = m
          BY <2>3, <2>4, <3>1, <4>1
        <4> QED
          BY <2>3, <4>1, <4>2
      <3>2. ASSUME NEW m \in 1..Len(rest), rest[m] = x PROVE x \in D /\ x # h
        <4>1. m + 1 \in 1..Len(order) /\ order[m + 1] = x /\ m + 1 # 1 /\ 1 \in 1..Len(order)
          BY <2>2, <2>3, <2>4, <3>2
        <4> QED
          BY <1>1, <1>4, <2>3, <4>1
      <3> QED
        BY <3>1, <3>2
    <2>10. Cardinality(D) = PREPARED_SCHEMA_CAPACITY
      BY <1>6 DEF AtCapacity
    <2>11. Cardinality(D \ {h}) \in Nat /\ Cardinality(D \ {h}) + 1 <= PREPARED_SCHEMA_CAPACITY
      BY <1>1, <1>2, <2>7, <2>10
    <2>12. Len(Room.insertion_order) = Cardinality(D \ {h})
      BY <1>1, <2>1, <2>3, <2>7
    <2>13. D \ {h} \subseteq D
      OBVIOUS
    <2> HIDE DEF D
    <2> QED
      BY ONLY <2>1, <2>3, <2>6, <2>7, <2>8, <2>9, <2>11, <2>12, <2>13 DEF D
  <1> QED
    BY <1>5, <1>6

\* A new id joins the queue at its end.
LEMMA InsertQueued ==
  ASSUME Queued, NEW id \in Nat, id \notin DOMAIN prepared.entries, NEW n, insert(id, n)
  PROVE  /\ Queued'
         /\ prepared'.entries = With(Room.entries, id, n)
  <1> DEFINE D == DOMAIN Room.entries
             order == Room.insertion_order
             after == prepared'.insertion_order
             E == DOMAIN prepared'.entries
  <1>1. prepared'.entries = With(Room.entries, id, n) /\ after = Append(order, id)
    BY DEF insert, Room
  <1>2. /\ D \subseteq DOMAIN prepared.entries
        /\ IsFiniteSet(D) /\ Cardinality(D) \in Nat /\ Cardinality(D) + 1 <= PREPARED_SCHEMA_CAPACITY
        /\ order \in Seq(Nat) /\ Len(order) = Cardinality(D)
        /\ \A l, m \in 1..Len(order) : order[l] = order[m] => l = m
        /\ \A x : x \in D <=> \E m \in 1..Len(order) : order[m] = x
    BY RoomMade
  <1>3. E = D \cup {id} /\ id \notin D
    BY <1>1, <1>2 DEF With
  <1>4. /\ after \in Seq(Nat) /\ Len(after) = Len(order) + 1
        /\ after[Len(order) + 1] = id /\ \A m \in 1..Len(order) : after[m] = order[m]
    BY <1>1, <1>2, AppendProperties
  <1> HIDE DEF D, order, after, E
  <1>5. IsFiniteSet(E) /\ Cardinality(E) = Cardinality(D) + 1
    BY <1>2, <1>3, FS_AddElement
  <1>6. Cardinality(E) <= PREPARED_SCHEMA_CAPACITY /\ Len(after) = Cardinality(E) /\ Len(order) \in Nat
    BY <1>2, <1>4, <1>5
  <1>7. \A m \in 1..Len(after) : m \in 1..Len(order) \/ m = Len(order) + 1
    BY <1>4, <1>6
  <1>8. \A m \in 1..Len(order) : after[m] \in D
    BY <1>2, <1>4
  <1>9. \A l, m \in 1..Len(after) : after[l] = after[m] => l = m
    BY <1>2, <1>3, <1>4, <1>7, <1>8
  <1>10. ToSet(after) = E
    <2>1. DOMAIN after = 1..Len(after)
      BY <1>4, LenProperties
    <2>2. \A x \in E : \E m \in 1..Len(after) : after[m] = x
      <3>1. Len(order) + 1 \in 1..Len(after) /\ \A m \in 1..Len(order) : m \in 1..Len(after)
        BY <1>4, <1>6
      <3> QED
        BY <1>2, <1>3, <1>4, <3>1
    <2>3. \A m \in 1..Len(after) : after[m] \in E
      BY <1>3, <1>4, <1>7, <1>8
    <2> QED
      BY <2>1, <2>2, <2>3 DEF ToSet
  <1>11. Queued'
    BY <1>4, <1>5, <1>6, <1>9, <1>10 DEF Queued, PreparedCacheIsBounded, after, E
  <1> QED
    BY <1>1, <1>11

\* A call takes the slot of its id, or a fresh one for it.
LEMMA TakeSlotSound ==
  ASSUME CodecInv, NEW t \in Callers, TakeSlot(t)
  PROVE  CodecInv' /\ Moves(t) /\ SameRole(t) /\ call'[t].stage = "prepare" /\ UNCHANGED log
  <1> DEFINE id == call[t].id
             known == id \in DOMAIN prepared.entries
             n == IF known THEN prepared.entries[id] ELSE fresh_slot
  <1>1. /\ CallShapes /\ CallsAgree /\ SlotsAgree /\ Queued /\ At(t, "slot")
        /\ id \in Ids /\ call[t].schema = <<registry.schemas[id]>>
    BY DEF CodecInv, CallsAgree, Agrees, TakeSlot, At
  <1>2. /\ call' = [call EXCEPT ![t].stage = "prepare", ![t].slot = n]
        /\ UNCHANGED <<setting, registry, now, by_id, by_subject_latest, log, faults>>
        /\ known => UNCHANGED <<prepared, slots>>
        /\ ~known => insert(id, n) /\ slots' = [slots EXCEPT ![n] = <<>>]
    BY DEF TakeSlot, cacheVars
  <1>3. ~known => n \in DOMAIN slots /\ n \notin Entered /\ n \notin InUse
    BY <1>1, FreshSlot
  <1>4. known => n = prepared.entries[id]
    OBVIOUS
  <1> HIDE DEF n
  <1>5. /\ Moves(t) /\ SameRole(t) /\ call'[t].stage = "prepare" /\ call'[t].slot = n
        /\ call'[t].id = id /\ call'[t].schema = call[t].schema
    BY <1>1, <1>2 DEF CallShapes, CallFields, Moves, SameRole
  <1>6. Ids' = Ids /\ registry' = registry
    BY <1>2 DEF Ids
  <1>7. Agrees(call'[t])
    BY <1>1, <1>5 DEF Agrees
  <1>8. CallsAgree'
    <2>1. ASSUME NEW u \in Callers PROVE Agrees(call'[u])
      BY <1>1, <1>5, <1>7 DEF CallsAgree, Moves
    <2> QED
      BY <1>2, <2>1 DEF CallsAgree, Agrees, Ids, LatestSince, Callers
  <1>9. Queued' /\ (~known => prepared'.entries = With(Room.entries, id, n))
    <2>1. CASE known
      BY <1>1, <1>2, <2>1 DEF Queued, PreparedCacheIsBounded
    <2>2. CASE ~known
      <3>1. PICK i, m : i = id /\ m = n
        OBVIOUS
      <3>2. i \in Nat
        BY <1>1, <3>1, LenProperties DEF Ids
      <3>3. Queued' /\ prepared'.entries = With(Room.entries, i, m)
        BY <1>1, <1>2, <2>2, <3>1, <3>2, InsertQueued
      <3> QED
        BY <3>1, <3>3
    <2> QED
      BY <2>1, <2>2
  <1>10. /\ DOMAIN slots' = DOMAIN slots
         /\ \A i \in DOMAIN prepared'.entries :
               \/ i = id /\ prepared'.entries[i] = n
               \/ i # id /\ i \in DOMAIN prepared.entries /\ prepared'.entries[i] = prepared.entries[i]
    <2>1. CASE known
      BY <1>2, <1>4, <2>1
    <2>2. CASE ~known
      <3>1. DOMAIN Room.entries \subseteq DOMAIN prepared.entries
            /\ \A i \in DOMAIN Room.entries : Room.entries[i] = prepared.entries[i]
        BY <1>1, RoomMade
      <3>2. prepared'.entries = With(Room.entries, id, n)
        BY <1>9, <2>2
      <3>3. \A i \in DOMAIN prepared'.entries :
               \/ i = id /\ prepared'.entries[i] = n
               \/ i # id /\ i \in DOMAIN prepared.entries /\ prepared'.entries[i] = prepared.entries[i]
        BY <2>2, <3>1, <3>2 DEF With
      <3> QED
        BY <1>2, <2>2, <3>3
    <2> QED
      BY <2>1, <2>2
  <1>11. /\ n \in DOMAIN slots /\ slots'[n] \in {<<>>, <<registry.schemas[id]>>}
         /\ \A m \in DOMAIN slots : m # n => slots'[m] = slots[m]
         /\ \A i \in DOMAIN prepared.entries : prepared.entries[i] = n => i = id
         /\ \A u \in Callers : At(u, "prepare") /\ call[u].slot = n => call[u].id = id
    <2>1. CASE known
      BY <1>1, <1>2, <1>4, <2>1 DEF SlotsAgree, KeepsOnly
    <2>2. CASE ~known
      <3>1. \A i \in DOMAIN prepared.entries : prepared.entries[i] # n
        BY <1>3, <2>2 DEF Entered
      <3>2. \A u \in Callers : At(u, "prepare") => call[u].slot # n
        BY <1>1, <1>3, <2>2 DEF InUse, CallShapes
      <3> QED
        BY <1>2, <1>3, <2>2, <3>1, <3>2
    <2> QED
      BY <2>1, <2>2
  <1>12. SlotsAgree'
    <2>1. ASSUME NEW m \in DOMAIN slots, NEW i, KeepsOnly(m, i), m # n \/ i = id
          PROVE  m \in DOMAIN slots' /\ slots'[m] \in {<<>>, <<registry'.schemas[i]>>}
      BY <1>6, <1>10, <1>11, <2>1 DEF KeepsOnly
    <2>2. ASSUME NEW i \in DOMAIN prepared'.entries PROVE i \in Ids' /\ KeepsOnly(prepared.entries[i], i)'
      <3>1. CASE i = id
        <4>1. prepared'.entries[i] = n
          BY <1>10, <3>1
        <4> QED
          BY <1>1, <1>6, <1>10, <1>11, <3>1, <4>1 DEF KeepsOnly
      <3>2. CASE i # id
        <4>1. i \in DOMAIN prepared.entries /\ prepared'.entries[i] = prepared.entries[i]
          BY <1>10, <3>2
        <4>2. i \in Ids /\ KeepsOnly(prepared.entries[i], i) /\ prepared.entries[i] # n
          BY <1>1, <1>11, <3>2, <4>1 DEF SlotsAgree
        <4> QED
          BY <1>6, <2>1, <4>1, <4>2 DEF KeepsOnly
      <3> QED
        BY <3>1, <3>2
    <2>3. ASSUME NEW i \in DOMAIN prepared'.entries, NEW j \in DOMAIN prepared'.entries,
                 prepared'.entries[i] = prepared'.entries[j]
          PROVE  i = j
      BY <1>1, <1>10, <1>11, <2>3 DEF SlotsAgree
    <2>4. ASSUME NEW u \in Callers, At(u, "prepare")'
          PROVE  /\ KeepsOnly(call[u].slot, call[u].id)'
                 /\ \A i \in DOMAIN prepared'.entries : prepared'.entries[i] = call'[u].slot => i = call'[u].id
                 /\ \A v \in Callers : At(v, "prepare")' /\ call'[v].slot = call'[u].slot => call'[v].id = call'[u].id
      <3>1. \A v \in Callers : At(v, "prepare")' =>
               \/ v = t /\ call'[v].slot = n /\ call'[v].id = id
               \/ v # t /\ At(v, "prepare") /\ call'[v] = call[v]
        BY <1>5 DEF Moves, At
      <3>2. CASE u = t
        <4>1. call'[u].slot = n /\ call'[u].id = id
          BY <1>5, <3>2
        <4>2. KeepsOnly(call[u].slot, call[u].id)'
          BY <1>6, <1>10, <1>11, <4>1 DEF KeepsOnly
        <4>3. \A i \in DOMAIN prepared'.entries : prepared'.entries[i] = n => i = id
          BY <1>10, <1>11
        <4>4. \A v \in Callers : At(v, "prepare")' /\ call'[v].slot = n => call'[v].id = id
          BY <1>11, <3>1
        <4> QED
          BY <4>1, <4>2, <4>3, <4>4
      <3>3. CASE u # t
        <4>1. At(u, "prepare") /\ call'[u] = call[u]
          BY <2>4, <3>1, <3>3
        <4>2. /\ KeepsOnly(call[u].slot, call[u].id)
              /\ \A i \in DOMAIN prepared.entries : prepared.entries[i] = call[u].slot => i = call[u].id
              /\ \A v \in Callers : At(v, "prepare") /\ call[v].slot = call[u].slot => call[v].id = call[u].id
              /\ call[u].slot = n => call[u].id = id
          BY <1>1, <1>11, <4>1 DEF SlotsAgree
        <4>3. KeepsOnly(call[u].slot, call[u].id)'
          BY <2>1, <4>1, <4>2 DEF KeepsOnly
        <4>4. \A i \in DOMAIN prepared'.entries : prepared'.entries[i] = call[u].slot => i = call[u].id
          BY <1>10, <4>2
        <4>5. \A v \in Callers : At(v, "prepare")' /\ call'[v].slot = call[u].slot => call'[v].id = call[u].id
          BY <3>1, <4>2
        <4> QED
          BY <4>1, <4>3, <4>4, <4>5
      <3> QED
        BY <3>2, <3>3
    <2>5. DOMAIN slots' = 1..(PREPARED_SCHEMA_CAPACITY + Cardinality(Callers))
      BY <1>1, <1>10 DEF SlotsAgree
    <2> QED
      BY <2>2, <2>3, <2>4, <2>5 DEF SlotsAgree, Callers
  <1>13. Versions' /\ Caches' /\ Described' /\ CallShapes'
    <2>1. Versions'
      BY <1>2 DEF CodecInv, Versions, Ids
    <2>2. Caches'
      BY <1>2 DEF CodecInv, Caches, Ids, LatestSince
    <2>3. Described'
      BY <1>2 DEF CodecInv, Described, Ids
    <2> QED
      BY <1>5, <2>1, <2>2, <2>3 DEF Moves
  <1> QED
    BY <1>2, <1>5, <1>8, <1>9, <1>12, <1>13 DEF CodecInv

\* A call prepares its schema in its slot, or finds it there, and uses it.
LEMMA PrepareSound ==
  ASSUME CodecInv, NEW t \in Callers, Prepare(t), call[t].op = "encode" => IsDocument(call[t].body[1].doc)
  PROVE  CodecInv' /\ Moves(t) /\ SameRole(t) /\ call'[t].stage \in {"serialize", "stored", "decoded"}
         /\ (log' = log \/ \E e : log' = Append(log, e)) /\ (call'[t].stage = "stored" => call[t].op = "encode")
  <1> DEFINE schema == get_or_prepare(t)
             id == call[t].id
             doc == call[t].body[1].doc
  <1>1. /\ CallShapes /\ CallsAgree /\ SlotsAgree /\ Queued /\ At(t, "prepare") /\ KeepsOnly(call[t].slot, id)
        /\ id \in Ids /\ call[t].schema = <<registry.schemas[id]>>
    BY DEF CodecInv, CallsAgree, Agrees, Prepare, At, SlotsAgree
  <1>2. schema \in {<<>>, <<registry.schemas[id]>>}
    BY <1>1 DEF get_or_prepare, KeepsOnly
  <1>3. slots' = [slots EXCEPT ![call[t].slot] = schema] /\ UNCHANGED <<registry, now, by_id, by_subject_latest, prepared>>
    BY DEF Prepare, cacheVars
  <1>4. \/ Fail(t, "serialize") /\ UNCHANGED log
        \/ /\ schema # <<>> /\ call[t].op = "encode" /\ serialize(schema[1], doc) # <<>> /\ Goto(t, "stored")
           /\ Write(encode_frame(id, call[t].schema[1].fmt, serialize(schema[1], doc)[1]), <<doc>>)
        \/ /\ UNCHANGED log
           /\ \E d : call' = [call EXCEPT ![t].stage = "decoded", ![t].decoded = d]
    BY Zenon DEF Prepare
  <1> HIDE DEF schema
  <1>5. /\ Moves(t) /\ SameRole(t) /\ call'[t].stage \in {"serialize", "stored", "decoded"}
        /\ call'[t].stage = "stored" => call[t].op = "encode"
    <2>1. CASE Fail(t, "serialize")
      BY <1>1, <2>1, StageMoves DEF Fail
    <2>2. CASE Goto(t, "stored") /\ call[t].op = "encode"
      BY <1>1, <2>2, StageMoves DEF Goto
    <2>3. CASE \E d : call' = [call EXCEPT ![t].stage = "decoded", ![t].decoded = d]
      BY <1>1, <2>3 DEF CallShapes, CallFields, Moves, SameRole
    <2> QED
      BY <1>4, <2>1, <2>2, <2>3
  <1>6. Described' /\ (log' = log \/ \E e : log' = Append(log, e))
    <2>1. CASE UNCHANGED log
      BY <1>3, <2>1, PlainDescribed DEF CodecInv, Plain
    <2>2. CASE /\ schema # <<>> /\ call[t].op = "encode" /\ serialize(schema[1], doc) # <<>>
               /\ Write(encode_frame(id, call[t].schema[1].fmt, serialize(schema[1], doc)[1]), <<doc>>)
      <3> DEFINE wire == encode_frame(id, call[t].schema[1].fmt, serialize(schema[1], doc)[1])
                 e == [wire |-> wire, sent |-> <<doc>>]
      <3>1. wire.id = id /\ wire.body = serialize(schema[1], doc)[1]
        BY DEF encode_frame
      <3>2. schema[1] = registry.schemas[id]
        BY <1>2, <2>2
      <3> HIDE DEF wire
      <3>3. log' = Append(log, e) /\ e.wire = wire /\ e.sent = <<doc>>
        BY <2>2 DEF Write, wire
      <3>4. e.sent[1] = doc /\ IsDocument(doc)
        BY <2>2, <3>3
      <3> HIDE DEF e, doc
      <3>5. Described /\ log \in Seq(ToSet(log))
        BY DEF CodecInv, Described
      <3>6. /\ log' \in Seq(ToSet(log')) /\ Len(log') = Len(log) + 1 /\ Len(log) \in Nat
            /\ log'[Len(log) + 1] = e /\ \A i \in 1..Len(log) : log'[i] = log[i]
        BY <3>3, <3>5, Grows
      <3>7. ASSUME NEW k \in 1..Len(log'), log'[k].sent # <<>>
            PROVE  /\ log'[k].wire.id \in Ids' /\ IsDocument(log'[k].sent[1])
                   /\ serialize(registry'.schemas[log'[k].wire.id], log'[k].sent[1]) # <<>>
                   /\ log'[k].wire.body = serialize(registry'.schemas[log'[k].wire.id], log'[k].sent[1])[1]
        <4>1. CASE k = Len(log) + 1
          <5>1. log'[k] = e
            BY <3>6, <4>1
          <5> QED
            BY <1>1, <1>3, <2>2, <3>1, <3>2, <3>3, <3>4, <5>1 DEF Ids
        <4>2. CASE k # Len(log) + 1
          <5>1. k \in 1..Len(log) /\ log'[k] = log[k]
            BY <3>6, <4>2
          <5> QED
            BY <1>3, <3>5, <3>7, <5>1 DEF Described, Ids
        <4> QED
          BY <4>1, <4>2
      <3> QED
        BY <3>3, <3>6, <3>7 DEF Described
    <2> QED
      BY <1>4, <2>1, <2>2
  <1>7. Agrees(call'[t])
    BY <1>5, QuietAgrees DEF Carrying
  <1>8. CallsAgree'
    <2>1. ASSUME NEW u \in Callers PROVE Agrees(call'[u])
      BY <1>1, <1>5, <1>7 DEF CallsAgree, Moves
    <2> QED
      BY <1>3, <2>1 DEF CallsAgree, Agrees, Ids, LatestSince, Callers
  <1>9. SlotsAgree'
    <2>1. \A u \in Callers : At(u, "prepare")' => At(u, "prepare") /\ call'[u] = call[u]
      BY <1>5 DEF At, Moves
    <2>2. ASSUME NEW m, NEW i, KeepsOnly(m, i), m = call[t].slot => i = id
          PROVE  m \in DOMAIN slots' /\ slots'[m] \in {<<>>, <<registry'.schemas[i]>>}
      BY <1>2, <1>3, <2>2 DEF KeepsOnly
    <2>3. ASSUME NEW i \in DOMAIN prepared'.entries PROVE i \in Ids' /\ KeepsOnly(prepared.entries[i], i)'
      <3>1. /\ i \in DOMAIN prepared.entries /\ i \in Ids /\ KeepsOnly(prepared.entries[i], i)
            /\ prepared.entries[i] = call[t].slot => i = id
        BY <1>1, <1>3 DEF SlotsAgree
      <3> QED
        BY <1>3, <2>2, <3>1 DEF KeepsOnly, Ids
    <2>4. ASSUME NEW u \in Callers, At(u, "prepare")' PROVE KeepsOnly(call[u].slot, call[u].id)'
      <3>1. /\ At(u, "prepare") /\ call'[u] = call[u] /\ KeepsOnly(call[u].slot, call[u].id)
            /\ call[u].slot = call[t].slot => call[u].id = id
        BY <1>1, <2>1, <2>4 DEF SlotsAgree
      <3> QED
        BY <2>2, <3>1 DEF KeepsOnly
    <2>5. DOMAIN slots' = 1..(PREPARED_SCHEMA_CAPACITY + Cardinality(Callers))
      BY <1>1, <1>3 DEF SlotsAgree
    <2>6. \A i, j \in DOMAIN prepared'.entries : prepared'.entries[i] = prepared'.entries[j] => i = j
      BY <1>1, <1>3 DEF SlotsAgree
    <2>7. ASSUME NEW u \in Callers, At(u, "prepare")'
          PROVE  /\ \A i \in DOMAIN prepared'.entries : prepared'.entries[i] = call'[u].slot => i = call'[u].id
                 /\ \A v \in Callers : At(v, "prepare")' /\ call'[v].slot = call'[u].slot => call'[v].id = call'[u].id
      <3>1. At(u, "prepare") /\ call'[u] = call[u]
        BY <2>1, <2>7
      <3> QED
        BY <1>1, <1>3, <2>1, <3>1 DEF SlotsAgree
    <2> QED
      BY <2>3, <2>4, <2>5, <2>6, <2>7 DEF SlotsAgree, Callers
  <1>10. Versions' /\ Caches' /\ Queued' /\ CallShapes'
    <2>1. Versions'
      BY <1>3 DEF CodecInv, Versions, Ids
    <2>2. Caches'
      BY <1>3 DEF CodecInv, Caches, Ids, LatestSince
    <2>3. Queued'
      BY <1>1, <1>3 DEF Queued, PreparedCacheIsBounded
    <2> QED
      BY <1>5, <2>1, <2>2, <2>3 DEF Moves
  <1> QED
    BY <1>5, <1>6, <1>8, <1>9, <1>10 DEF CodecInv

-----------------------------------------------------------------------------
(* The registry and time.                                                    *)

\* A registry only grows, and time passes only while no answer travels too long.
LEMMA RegistryGrows ==
  ASSUME CodecInv, Versions', now' >= now,
         \A i \in Ids : i \in Ids' /\ registry'.schemas[i] = registry.schemas[i] /\ registry'.since[i] = registry.since[i],
         \A i \in Ids' : i \notin Ids => registry'.since[i] >= now,
         \A t \in Callers : Asking(t) => now' - call[t].asked <= MaxFlight,
         UNCHANGED <<by_id, by_subject_latest, prepared, slots, call, log>>
  PROVE  CodecInv'
  <1>1. now \in Nat /\ now' \in Nat /\ MaxFlight \in Nat
    BY CodecAssumption DEF CodecInv, Versions
  <1>2. ASSUME NEW id, NEW time \in Int, time <= now, LatestSince(id, time) PROVE LatestSince(id, time)'
    <2>1. \A i \in Ids' : registry'.since[i] \in Nat
      BY LenProperties DEF Versions, Ids
    <2>2. ASSUME id + 1 \in Ids' PROVE registry'.since[id + 1] >= time
      <3>1. CASE id + 1 \in Ids
        BY <1>2, <3>1 DEF LatestSince
      <3>2. CASE id + 1 \notin Ids
        <4>1. registry'.since[id + 1] >= now /\ registry'.since[id + 1] \in Nat
          BY <2>1, <2>2, <3>2
        <4> QED
          BY <1>1, <1>2, <4>1
      <3> QED
        BY <3>1, <3>2
    <2> QED
      BY <1>2, <2>2 DEF LatestSince
  <1>3. Caches'
    <2>1. \A i \in DOMAIN by_id' : i \in Ids' /\ by_id'[i] = registry'.schemas[i]
      BY DEF CodecInv, Caches
    <2>2. ASSUME NEW entry \in ToSet(by_subject_latest')
          PROVE  entry.fetched_at \in Nat /\ entry.fetched_at <= now' /\ LatestSince(entry.id, entry.fetched_at - MaxFlight)'
      <3>1. /\ entry.fetched_at \in Nat /\ entry.fetched_at <= now
            /\ LatestSince(entry.id, entry.fetched_at - MaxFlight)
        BY DEF CodecInv, Caches
      <3>2. PICK id, time : id = entry.id /\ time = entry.fetched_at - MaxFlight
        OBVIOUS
      <3>3. time \in Int /\ time <= now
        BY <1>1, <3>1, <3>2
      <3>4. LatestSince(id, time)'
        BY <1>2, <3>1, <3>2, <3>3
      <3> QED
        BY <1>1, <3>1, <3>2, <3>4
    <2> QED
      BY <2>1, <2>2 DEF Caches
  <1>4. CallsAgree'
    <2> SUFFICES ASSUME NEW t \in Callers PROVE Agrees(call[t])'
      BY DEF CallsAgree, Callers
    <2>1. Agrees(call[t]) /\ call'[t] = call[t]
      BY DEF CodecInv, CallsAgree
    <2>2. call[t].stage \in {"slot", "prepare"} =>
            call[t].id \in Ids' /\ call[t].schema = <<registry'.schemas[call[t].id]>>
      BY <2>1 DEF Agrees
    <2>3. call[t].stage \in {"got_id", "got_latest"} /\ call[t].schema # <<>> =>
            call[t].id \in Ids' /\ call[t].schema = <<registry'.schemas[call[t].id]>>
      BY <2>1 DEF Agrees
    <2>4. call[t].stage \in {"ask_id", "ask_latest", "got_id", "got_latest"} =>
            call[t].asked \in Nat /\ call[t].asked <= now /\ call[t].asked <= now' /\ now' - call[t].asked <= MaxFlight
      BY <1>1, <2>1 DEF Agrees, Asking
    <2>5. call[t].stage = "got_latest" => LatestSince(call[t].id, call[t].asked)'
      <3>1. SUFFICES ASSUME call[t].stage = "got_latest" PROVE LatestSince(call[t].id, call[t].asked)'
        OBVIOUS
      <3>2. LatestSince(call[t].id, call[t].asked) /\ call[t].asked \in Nat /\ call[t].asked <= now
        BY <2>1, <2>4, <3>1 DEF Agrees
      <3>3. PICK id, time : id = call[t].id /\ time = call[t].asked
        OBVIOUS
      <3>4. LatestSince(id, time)'
        BY <1>2, <3>2, <3>3
      <3> QED
        BY <2>1, <3>3, <3>4
    <2> QED
      BY <2>1, <2>2, <2>3, <2>4, <2>5 DEF Agrees
  <1>5. SlotsAgree'
    <2>1. SlotsAgree
      BY DEF CodecInv
    <2>2. ASSUME NEW m, NEW i \in Ids, KeepsOnly(m, i) PROVE m \in DOMAIN slots' /\ slots'[m] \in {<<>>, <<registry'.schemas[i]>>}
      BY <2>2 DEF KeepsOnly
    <2>3. \A i \in DOMAIN prepared'.entries : i \in Ids' /\ KeepsOnly(prepared.entries[i], i)'
      BY <2>1, <2>2 DEF SlotsAgree, KeepsOnly
    <2>4. ASSUME NEW t \in Callers, At(t, "prepare")' PROVE KeepsOnly(call[t].slot, call[t].id)'
      <3>1. At(t, "prepare") /\ KeepsOnly(call[t].slot, call[t].id) /\ call[t].id \in Ids
        BY <2>1, <2>4 DEF SlotsAgree, CodecInv, CallsAgree, Agrees, At
      <3> QED
        BY <2>2, <3>1 DEF KeepsOnly
    <2> QED
      BY <2>1, <2>3, <2>4 DEF SlotsAgree, At, Callers
  <1>6. Queued' /\ CallShapes'
    BY DEF CodecInv, Queued, PreparedCacheIsBounded, CallShapes, Callers
  <1>7. Described'
    <2>1. Described
      BY DEF CodecInv
    <2> QED
      BY <2>1 DEF Described
  <1> QED
    BY <1>3, <1>4, <1>5, <1>6, <1>7 DEF CodecInv

\* The registry's own steps, and time, keep the codec's invariant.
LEMMA RegistrySound ==
  ASSUME CodecInv, NewVersion \/ GoesDown \/ ComesBack \/ Tick
  PROVE  CodecInv' /\ UNCHANGED <<call, log>>
  <1>1. Versions /\ now \in Nat /\ MaxFlight \in Nat
    BY CodecAssumption DEF CodecInv, Versions
  <1>2. \A t \in Callers : Asking(t) => call[t].asked \in Nat /\ now - call[t].asked <= MaxFlight
    BY DEF CodecInv, CallsAgree, Agrees, Asking
  <1>3. CASE NewVersion
    <2>1. /\ registry.coming # <<>>
          /\ registry' = [registry EXCEPT !.schemas = Append(@, Head(registry.coming)), !.since = Append(@, now),
                                          !.coming = Tail(@)]
          /\ UNCHANGED <<now, by_id, by_subject_latest, prepared, slots, call, log>>
      BY <1>3 DEF NewVersion, cacheVars
    <2>2. /\ DOMAIN registry' = {"schemas", "since", "coming", "up"}
          /\ registry'.schemas = Append(registry.schemas, Head(registry.coming))
          /\ registry'.since = Append(registry.since, now) /\ registry'.coming = Tail(registry.coming)
      BY <1>1, <2>1 DEF Versions
    <2>3. Head(registry.coming) \in Schemas /\ registry'.coming \in Seq(Schemas)
      BY <1>1, <2>1, <2>2, HeadTailProperties DEF Versions
    <2>4. /\ registry'.schemas \in Seq(Schemas) /\ Len(registry'.schemas) = Len(registry.schemas) + 1
          /\ \A i \in 1..Len(registry.schemas) : registry'.schemas[i] = registry.schemas[i]
      BY <1>1, <2>2, <2>3, AppendProperties DEF Versions
    <2>5. /\ registry'.since \in Seq(Nat) /\ Len(registry'.since) = Len(registry.since) + 1
          /\ registry'.since[Len(registry.since) + 1] = now
          /\ \A i \in 1..Len(registry.since) : registry'.since[i] = registry.since[i]
      BY <1>1, <2>2, AppendProperties DEF Versions
    <2>6. Len(registry.schemas) \in Nat /\ Len(registry.since) = Len(registry.schemas)
      BY <1>1, LenProperties DEF Versions
    <2>7. \A i \in Ids' : i \in Ids \/ i = Len(registry.since) + 1
      BY <2>4, <2>6 DEF Ids
    <2>8. \A i \in Ids : i \in Ids' /\ registry'.schemas[i] = registry.schemas[i] /\ registry'.since[i] = registry.since[i]
      BY <2>4, <2>5, <2>6 DEF Ids
    <2>9. Versions'
      <3>1. \A i \in Ids' : registry'.since[i] <= now'
        <4>1. \A i \in Ids : registry.since[i] <= now
          BY <1>1 DEF Versions
        <4>2. now <= now' /\ now' = now
          BY <1>1, <2>1
        <4>3. ASSUME NEW i \in Ids' PROVE registry'.since[i] <= now'
          <5>1. CASE i \in Ids
            BY <2>8, <4>1, <4>2, <5>1
          <5>2. CASE i = Len(registry.since) + 1
            BY <2>5, <4>2, <5>2
          <5> QED
            BY <2>7, <5>1, <5>2
        <4> QED
          BY <4>3
      <3>2. now' \in Nat /\ Len(registry'.since) = Len(registry'.schemas)
        BY <1>1, <2>1, <2>4, <2>5, <2>6
      <3> QED
        BY <2>2, <2>3, <2>4, <2>5, <3>1, <3>2 DEF Versions
    <2>10. now' >= now /\ \A i \in Ids' : i \notin Ids => registry'.since[i] >= now
      BY <1>1, <2>1, <2>5, <2>7
    <2> QED
      BY <1>2, <2>1, <2>8, <2>9, <2>10, RegistryGrows
  <1>4. CASE GoesDown \/ ComesBack
    <2>1. /\ \E b : registry' = [registry EXCEPT !.up = b]
          /\ UNCHANGED <<now, by_id, by_subject_latest, prepared, slots, call, log>>
      BY <1>4 DEF GoesDown, ComesBack, cacheVars
    <2>2. /\ DOMAIN registry' = {"schemas", "since", "coming", "up"} /\ registry'.schemas = registry.schemas
          /\ registry'.since = registry.since /\ registry'.coming = registry.coming
      BY <1>1, <2>1 DEF Versions
    <2>3. Versions' /\ Ids' = Ids /\ now' >= now
      BY <1>1, <2>1, <2>2 DEF Versions, Ids
    <2>4. \A i \in Ids : i \in Ids' /\ registry'.schemas[i] = registry.schemas[i] /\ registry'.since[i] = registry.since[i]
      BY <2>2, <2>3
    <2>5. \A i \in Ids' : i \notin Ids => registry'.since[i] >= now
      BY <2>3
    <2> QED
      BY <1>2, <2>1, <2>3, <2>4, <2>5, RegistryGrows
  <1>5. CASE Tick
    <2>1. /\ now' = now + 1 /\ \A t \in Callers : Asking(t) => now - call[t].asked < MaxFlight
          /\ UNCHANGED <<registry, by_id, by_subject_latest, prepared, slots, call, log>>
      BY <1>5 DEF Tick, cacheVars, CodecInv, CallShapes
    <2>2. \A t \in Callers : Asking(t) => now' - call[t].asked <= MaxFlight
      BY <1>1, <1>2, <2>1
    <2>3. Ids' = Ids /\ now' >= now /\ now' \in Nat
      BY <1>1, <2>1 DEF Ids
    <2>4. \A i \in Ids : registry.since[i] \in Nat
      BY <1>1, LenProperties DEF Versions, Ids
    <2>5. Versions'
      BY <1>1, <2>1, <2>3, <2>4 DEF Versions
    <2>6. \A i \in Ids : i \in Ids' /\ registry'.schemas[i] = registry.schemas[i] /\ registry'.since[i] = registry.since[i]
      BY <2>1, <2>3
    <2>7. \A i \in Ids' : i \notin Ids => registry'.since[i] >= now
      BY <2>3
    <2> QED
      BY <2>1, <2>2, <2>3, <2>5, <2>6, <2>7, RegistryGrows
  <1> QED
    BY <1>3, <1>4, <1>5

-----------------------------------------------------------------------------
(* Polls.                                                                    *)

\* Roles survive a step of a call that keeps its own.
LEMMA RolesKept ==
  ASSUME Roles, NEW t \in Callers, Moves(t), SameRole(t), UNCHANGED <<decoded, pending>>,
         t = poller => call[t].op = "decode" /\ call'[t].stage \notin {"encode", "latest", "ask_latest", "got_latest"}
  PROVE  Roles'
  <1>1. \A u \in Tasks : call'[u].op = call[u].op /\ call'[u].body = call[u].body
    BY DEF Moves, SameRole, Callers
  <1>2. poller \in Callers /\ (t # poller => call'[poller] = call[poller])
    BY DEF Moves, Callers
  <1>3. \A u \in Tasks : /\ call'[u].op \in {"none", "encode"}
                         /\ call'[u].op = "encode" => IsDocument(call'[u].body[1].doc)
    BY <1>1 DEF Roles
  <1>4. CASE t = poller
    <2>1. call'[poller].op = "decode" /\ call'[poller].stage \notin {"encode", "latest", "ask_latest", "got_latest"}
      BY <1>4 DEF SameRole
    <2>2. Len(decoded) < Len(pending)
      BY <1>4 DEF Roles
    <2> QED
      BY <1>3, <2>1, <2>2 DEF Roles
  <1>5. CASE t # poller
    BY <1>2, <1>3, <1>5 DEF Roles, At
  <1> QED
    BY <1>4, <1>5

\* The log only grows.
LEMMA LogGrows ==
  ASSUME Described, log' = log \/ \E e : log' = Append(log, e)
  PROVE  Len(log) \in Nat /\ Len(log') \in Nat /\ Len(log') >= Len(log)
  <1>1. log \in Seq(ToSet(log)) /\ Len(log) \in Nat
    BY LenProperties DEF Described
  <1>2. ASSUME NEW e, log' = Append(log, e) PROVE Len(log') = Len(log) + 1
    BY <1>1, <1>2, Grows
  <1> QED
    BY <1>1, <1>2

\* So does every step of a call, and the log only grows by it.
LEMMA CallStepSound ==
  ASSUME CodecInv, Roles, NEW t \in Callers, CallStep(t), UNCHANGED <<decoded, pending>>
  PROVE  CodecInv' /\ Roles' /\ Moves(t) /\ (log' = log \/ \E e : log' = Append(log, e))
  <1>1. call[t].stage # "free" /\ call[t].op = "encode" => t # poller
    BY DEF Roles, At
  <1>2. t = poller => (call[t].stage = "free" \/ call[t].op = "decode")
                      /\ call[t].stage \notin {"encode", "latest", "ask_latest", "got_latest"}
    BY DEF Roles, At
  <1>3. call[t].op = "encode" => IsDocument(call[t].body[1].doc)
    <2>1. CASE t = poller
      BY <2>1 DEF Roles
    <2>2. CASE t # poller
      BY <2>2 DEF Roles, Callers
    <2> QED
      BY <2>1, <2>2
  <1>4. CodecInv' /\ Moves(t) /\ SameRole(t) /\ (log' = log \/ \E e : log' = Append(log, e)) /\ call[t].stage # "free"
        /\ (t = poller => call'[t].stage \notin {"encode", "latest", "ask_latest", "got_latest"})
    <2>1. CASE Encode(t)
      BY <1>2, <2>1, EncodeSound DEF Encode, At, Write
    <2>2. CASE Decode(t)
      BY <2>2, DecodeSound DEF Decode, At
    <2>3. CASE ById(t)
      BY <2>3, ByIdSound DEF ById, At, Plain
    <2>4. CASE Latest(t)
      BY <1>2, <2>4, LatestSound DEF Latest, At, Ready, Plain
    <2>5. CASE RegistryAnswers(t)
      <3>1. call[t].stage \in {"ask_id", "ask_latest"} /\ (t = poller => At(t, "ask_id"))
        BY <1>2, <2>5 DEF RegistryAnswers, At
      <3>2. /\ CodecInv' /\ Moves(t) /\ SameRole(t) /\ UNCHANGED log
            /\ call'[t].stage = IF At(t, "ask_id") THEN "got_id" ELSE "got_latest"
        BY <2>5, AnswersSound
      <3> QED
        BY <3>1, <3>2
    <2>6. CASE RegistryFails(t)
      BY <2>6, FailsSound DEF RegistryFails, At
    <2>7. CASE Receive(t)
      BY <2>7, ReceiveSound DEF Receive, At, Ready, Plain
    <2>8. CASE TakeSlot(t)
      BY <2>8, TakeSlotSound DEF TakeSlot, At
    <2>9. CASE Prepare(t)
      BY <1>3, <2>9, PrepareSound DEF Prepare, At
    <2>10. CASE Retry(t)
      BY <1>1, <2>10, RetrySound DEF Retry, At
    <2> QED
      BY <2>1, <2>2, <2>3, <2>4, <2>5, <2>6, <2>7, <2>8, <2>9, <2>10 DEF CallStep
  <1>5. Roles'
    BY <1>2, <1>4, RolesKept
  <1> QED
    BY <1>4, <1>5

-----------------------------------------------------------------------------
(* The filter's loop.                                                        *)

Chain(s, r) == s \o r

\* Two sequences over their own elements, one after the other.
IsSeq(s) == s \in Seq(ToSet(s))
Joined(j, s, r) == /\ IsSeq(j) /\ Len(j) = Len(s) + Len(r) /\ Len(s) \in Nat /\ Len(r) \in Nat
                   /\ \A i \in 1..Len(s) : j[i] = s[i]
                   /\ \A i \in 1..Len(r) : j[Len(s) + i] = r[i]

\* Joining them keeps the elements of both in their order.
LEMMA Joins ==
  ASSUME NEW s, IsSeq(s), NEW r, IsSeq(r)
  PROVE  Joined(Chain(s, r), s, r)
  <1> DEFINE S == ToSet(s) \cup ToSet(r)
             j == Chain(s, r)
  <1>1. s \in Seq(S) /\ r \in Seq(S)
    BY DEF IsSeq
  <1> HIDE DEF S
  <1>2. Len(s) \in Nat /\ Len(r) \in Nat
    BY <1>1, LenProperties
  <1>3. /\ j \in Seq(S) /\ Len(j) = Len(s) + Len(r)
        /\ \A i \in 1..(Len(s) + Len(r)) : j[i] = IF i <= Len(s) THEN s[i] ELSE r[i - Len(s)]
    BY <1>1, ConcatProperties DEF Chain
  <1> HIDE DEF j
  <1>4. \A i \in 1..Len(s) : j[i] = s[i]
    BY <1>2, <1>3
  <1>5. ASSUME NEW i \in 1..Len(r) PROVE j[Len(s) + i] = r[i]
    <2>1. Len(s) + i \in 1..(Len(s) + Len(r)) /\ ~(Len(s) + i <= Len(s)) /\ (Len(s) + i) - Len(s) = i
      BY <1>2
    <2> QED
      BY <1>3, <2>1
  <1>6. j \in [1..Len(j) -> ToSet(j)] /\ Len(j) \in Nat
    BY <1>3, LenProperties DEF ToSet
  <1>7. j \in Seq(ToSet(j))
    BY ONLY <1>3, <1>6
  <1> QED
    BY <1>2, <1>3, <1>4, <1>5, <1>7 DEF j, IsSeq, Joined

\* A group was judged: a verdict for each of its records in their order, or an
\* error.
Judged(x, w, group) ==
    /\ DOMAIN x = WorkFields
    /\ x.ok => /\ x.arrow_group = w.arrow_group /\ x.schema_json_group = w.schema_json_group
               /\ \E verdicts : /\ verdicts \in Seq(ToSet(verdicts)) /\ Len(verdicts) = Len(group)
                                /\ \A i \in 1..Len(group) : verdicts[i].n = group[i].n
                                /\ x.decisions = Chain(w.decisions, verdicts)

\* Decide gives a verdict to each record of its group.
LEMMA DecideJudges ==
  ASSUME NEW w, DOMAIN w = WorkFields, NEW group, Len(group) \in Nat, NEW v
  PROVE  Judged(Decide(w, group, v), w, group)
  <1> DEFINE verdicts == [i \in 1..Len(group) |-> Decision(group[i], v[i])]
             x == Decide(w, group, v)
  <1>1. /\ DOMAIN x = WorkFields /\ x.decisions = Chain(w.decisions, verdicts)
        /\ x.arrow_group = w.arrow_group /\ x.schema_json_group = w.schema_json_group
    BY DEF Decide, WorkFields, Chain
  <1> HIDE DEF x
  <1>2. \A i \in 1..Len(group) : verdicts[i].n = group[i].n
    BY DEF Decision
  <1>3. DOMAIN verdicts = 1..Len(group) /\ verdicts \in [1..Len(group) -> ToSet(verdicts)]
    BY DEF ToSet
  <1> HIDE DEF verdicts
  <1>4. verdicts \in Seq(ToSet(verdicts)) /\ Len(verdicts) = Len(group)
    BY <1>3
  <1>5. Judged(x, w, group)
    BY <1>1, <1>2, <1>4 DEF Judged
  <1> QED
    BY <1>5 DEF x

\* Evaluating a batch changes nothing but the cache.
Like(x, w) == /\ DOMAIN x = WorkFields /\ x.decisions = w.decisions /\ x.ok = w.ok
              /\ x.arrow_group = w.arrow_group /\ x.schema_json_group = w.schema_json_group

\* Whether the expression was cached, compiled or not needed at all
\* (evaluate_arrow_batch_for_schema_id).
LEMMA EvaluateLike ==
  ASSUME NEW w, DOMAIN w = WorkFields, NEW id, NEW rows
  PROVE  Like(evaluate_arrow_batch_for_schema_id(w, id, rows).w, w)
  <1>1. Like(w, w)
    BY DEF Like
  <1>2. ASSUME NEW key, NEW compiled PROVE Like(Evaluated(w, key, compiled, rows).w, w)
    <2>1. CASE compiled = <<>>
      BY <1>1, <2>1 DEF Evaluated
    <2>2. CASE compiled # <<>>
      <3>1. \E c : Evaluated(w, key, compiled, rows).w = [w EXCEPT !.cache = c]
        BY <2>2 DEF Evaluated
      <3>2. ASSUME NEW c PROVE Like([w EXCEPT !.cache = c], w)
        BY DEF Like, WorkFields
      <3> QED
        BY <3>1, <3>2
    <2> QED
      BY <2>1, <2>2
  <1> QED
    BY <1>1, <1>2 DEF evaluate_arrow_batch_for_schema_id

\* A failed group leaves an error behind.
LEMMA FailedJudges ==
  ASSUME NEW w, DOMAIN w = WorkFields, NEW x, NEW group
  PROVE  Judged([w EXCEPT !.ok = FALSE], x, group)
  <1>1. [w EXCEPT !.ok = FALSE].ok = FALSE /\ DOMAIN [w EXCEPT !.ok = FALSE] = WorkFields
    BY DEF WorkFields
  <1> QED
    BY <1>1 DEF Judged

\* What was judged after an evaluation was judged from before it.
LEMMA LikeJudges ==
  ASSUME NEW x, NEW y, NEW w, NEW group, Like(y, w), Judged(x, y, group)
  PROVE  Judged(x, w, group)
  BY DEF Like, Judged

\* An Arrow group is judged, or fails (filter_arrow_ipc_group).
LEMMA ArrowJudged ==
  ASSUME NEW w, DOMAIN w = WorkFields, NEW group, Len(group) \in Nat
  PROVE  Judged(filter_arrow_ipc_group(w, group), w, group)
  <1>1. ASSUME NEW r, Like(r.w, w) PROVE Judged(JudgeRanges(r, group), w, group)
    <2>1. CASE r.mask = <<>>
      <3>1. DOMAIN r.w = WorkFields
        BY <1>1 DEF Like
      <3> QED
        BY <2>1, <3>1, FailedJudges DEF JudgeRanges
    <2>2. CASE r.mask # <<>>
      <3>1. PICK v : JudgeRanges(r, group) = Decide(r.w, group, v)
        BY <2>2 DEF JudgeRanges
      <3>2. Judged(Decide(r.w, group, v), r.w, group)
        BY <1>1, DecideJudges DEF Like
      <3> QED
        BY ONLY <1>1, <3>1, <3>2, LikeJudges
    <2> QED
      BY <2>1, <2>2
  <1> DEFINE batches == FlattenSeq([i \in 1..Len(group) |-> group[i].value.batches])
  <1>2. CASE batches = <<>>
    BY <1>2, DecideJudges DEF filter_arrow_ipc_group
  <1>3. CASE batches # <<>>
    <2>1. PICK joined : filter_arrow_ipc_group(w, group) = JudgeConcat(w, joined, group)
      BY <1>3 DEF filter_arrow_ipc_group
    <2>2. CASE joined = <<>>
      BY <2>1, <2>2, FailedJudges DEF JudgeConcat
    <2>3. CASE joined # <<>>
      <3>1. PICK r : r = evaluate_arrow_batch_for_schema_id(w, <<>>, joined[1])
        OBVIOUS
      <3>2. Like(r.w, w) /\ JudgeConcat(w, joined, group) = JudgeRanges(r, group)
        BY <2>3, <3>1, EvaluateLike DEF JudgeConcat
      <3> QED
        BY <1>1, <2>1, <3>2
    <2> QED
      BY <2>2, <2>3
  <1> QED
    BY <1>2, <1>3

\* So is a group of registry documents (filter_schema_json_group).
LEMMA JsonJudged ==
  ASSUME NEW w, DOMAIN w = WorkFields, NEW group, Len(group) \in Nat
  PROVE  Judged(filter_schema_json_group(w, group), w, group)
  <1>1. ASSUME NEW rows PROVE Judged(JudgeBatch(w, rows, group), w, group)
    <2>1. CASE rows = <<>>
      BY <2>1, FailedJudges DEF JudgeBatch
    <2>2. CASE rows # <<>>
      <3>1. PICK r : r = evaluate_arrow_batch_for_schema_id(w, group[1].schema, rows[1])
        OBVIOUS
      <3>2. Like(r.w, w) /\ JudgeBatch(w, rows, group) = JudgeRows(r, group)
        BY <2>2, <3>1, EvaluateLike DEF JudgeBatch
      <3>3. CASE r.mask = <<>>
        <4>1. DOMAIN r.w = WorkFields
          BY <3>2 DEF Like
        <4>2. JudgeBatch(w, rows, group) = [r.w EXCEPT !.ok = FALSE]
          BY <3>2, <3>3 DEF JudgeRows
        <4> QED
          BY ONLY <4>1, <4>2, FailedJudges
      <3>4. CASE r.mask # <<>>
        <4>1. JudgeRows(r, group) = Decide(r.w, group, r.mask[1])
          BY <3>4 DEF JudgeRows
        <4>2. Judged(Decide(r.w, group, r.mask[1]), r.w, group)
          BY <3>2, DecideJudges DEF Like
        <4>3. Judged(JudgeBatch(w, rows, group), r.w, group)
          BY ONLY <3>2, <4>1, <4>2
        <4> QED
          BY ONLY <3>2, <4>3, LikeJudges
      <3> QED
        BY <3>3, <3>4
    <2> QED
      BY <2>1, <2>2
  <1> QED
    BY <1>1 DEF filter_schema_json_group

\* Draining a group gives its records the next verdicts.
LEMMA JudgedFollows ==
  ASSUME NEW poll, poll \in Seq(ToSet(poll)), NEW k, NEW w, NEW group, Len(group) \in Nat,
         w.decisions \in Seq(ToSet(w.decisions)), \A i \in 1..Len(w.decisions) : w.decisions[i].n = poll[i].n,
         \A i \in 1..Len(group) : group[i] = poll[Len(w.decisions) + i],
         Len(w.decisions) + Len(group) = k, w.arrow_group = <<>>, w.schema_json_group = <<>>,
         NEW x, Judged(x, w, group)
  PROVE  InStep(x, poll, k) /\ Drained(x)
  <1>1. DOMAIN x = WorkFields
    BY DEF Judged
  <1>2. CASE x.ok
    <2>1. PICK verdicts : /\ verdicts \in Seq(ToSet(verdicts)) /\ Len(verdicts) = Len(group)
                          /\ \A i \in 1..Len(group) : verdicts[i].n = group[i].n
                          /\ x.decisions = Chain(w.decisions, verdicts)
      BY <1>2 DEF Judged
    <2>2. x.arrow_group = <<>> /\ x.schema_json_group = <<>>
      BY <1>2 DEF Judged
    <2>3. PICK d : d = w.decisions /\ d \in Seq(ToSet(d)) /\ x.decisions = Chain(d, verdicts)
      BY <2>1
    <2>4. /\ x.decisions \in Seq(ToSet(x.decisions)) /\ Len(x.decisions) = Len(d) + Len(group) /\ Len(d) \in Nat
          /\ \A i \in 1..Len(d) : x.decisions[i] = d[i]
          /\ \A i \in 1..Len(group) : x.decisions[Len(d) + i] = verdicts[i]
      <3>1. IsSeq(d) /\ IsSeq(verdicts)
        BY <2>1, <2>3 DEF IsSeq
      <3>2. Joined(Chain(d, verdicts), d, verdicts)
        BY ONLY <3>1, Joins
      <3>3. Joined(x.decisions, d, verdicts)
        BY ONLY <2>3, <3>2
      <3> QED
        BY ONLY <2>1, <3>3 DEF Joined, IsSeq
    <2>5. ASSUME NEW i \in 1..Len(x.decisions) PROVE x.decisions[i].n = poll[i].n
      <3>1. CASE i \in 1..Len(d)
        BY <2>3, <2>4, <3>1
      <3>2. CASE i \notin 1..Len(d)
        <4>1. i - Len(d) \in 1..Len(group) /\ Len(d) + (i - Len(d)) = i
          BY <2>4, <3>2
        <4>2. PICK m \in 1..Len(group) : i = Len(d) + m
          BY <4>1
        <4>3. x.decisions[i].n = group[m].n /\ group[m] = poll[i]
          BY <2>1, <2>3, <2>4, <4>2
        <4> QED
          BY <4>3
      <3> QED
        BY <3>1, <3>2
    <2>6. <<>> \in Seq(ToSet(poll)) /\ Len(<<>>) = 0
      BY EmptySeq
    <2>7. Waits(<<>>, x, poll)
      BY <2>6 DEF Waits
    <2>8. Len(x.decisions) + Len(x.arrow_group) + Len(x.schema_json_group) = k
      BY <2>2, <2>3, <2>4, <2>6
    <2> QED
      BY <1>1, <2>2, <2>4, <2>5, <2>7, <2>8 DEF InStep, Follows, Drained
  <1>3. CASE ~x.ok
    BY <1>1, <1>3 DEF InStep, Drained
  <1> QED
    BY <1>2, <1>3

\* Draining the Arrow group keeps the loop in step and leaves it empty.
LEMMA DrainArrow ==
  ASSUME NEW poll, poll \in Seq(ToSet(poll)), NEW k, NEW w, InStep(w, poll, k)
  PROVE  /\ InStep(drain_arrow(w), poll, k)
         /\ drain_arrow(w).ok => drain_arrow(w).arrow_group = <<>>
         /\ Drained(w) => Drained(drain_arrow(w))
         /\ (w.ok => w.schema_json_group = <<>>) => Drained(drain_arrow(w))
  <1>1. CASE w.arrow_group = <<>> \/ ~w.ok
    <2>1. drain_arrow(w) = w
      BY <1>1 DEF drain_arrow
    <2> QED
      BY <1>1, <2>1 DEF Drained
  <1>2. CASE w.arrow_group # <<>> /\ w.ok
    <2>1. PICK g, v : g = w.arrow_group /\ v = [w EXCEPT !.arrow_group = <<>>]
      OBVIOUS
    <2>2. drain_arrow(w) = filter_arrow_ipc_group(v, g)
      BY <1>2, <2>1 DEF drain_arrow
    <2>3. /\ DOMAIN v = WorkFields /\ v.decisions = w.decisions /\ v.arrow_group = <<>>
          /\ v.schema_json_group = w.schema_json_group
      BY <2>1 DEF InStep, WorkFields
    <2>4. /\ w.decisions \in Seq(ToSet(w.decisions)) /\ \A i \in 1..Len(w.decisions) : w.decisions[i].n = poll[i].n
          /\ w.schema_json_group = <<>> /\ g \in Seq(ToSet(poll)) /\ Len(g) \in Nat
          /\ \A i \in 1..Len(g) : g[i] = poll[Len(w.decisions) + i]
          /\ Len(w.decisions) + Len(g) + Len(<<>>) = k /\ Len(w.decisions) \in Nat
      BY <1>2, <2>1, LenProperties DEF InStep, Follows, Waits
    <2>5. Len(w.decisions) + Len(g) = k
      BY <2>4, EmptySeq
    <2>6. Judged(filter_arrow_ipc_group(v, g), v, g)
      BY <2>3, <2>4, ArrowJudged
    <2>7. PICK x : x = filter_arrow_ipc_group(v, g)
      OBVIOUS
    <2>8. InStep(x, poll, k) /\ Drained(x)
      BY <2>3, <2>4, <2>5, <2>6, <2>7, JudgedFollows
    <2> QED
      BY <2>2, <2>7, <2>8 DEF Drained
  <1> QED
    BY <1>1, <1>2

\* So does draining the JSON group.
LEMMA DrainJson ==
  ASSUME NEW poll, poll \in Seq(ToSet(poll)), NEW k, NEW w, InStep(w, poll, k)
  PROVE  /\ InStep(drain_schema_json(w), poll, k)
         /\ drain_schema_json(w).ok => drain_schema_json(w).schema_json_group = <<>>
         /\ (w.ok => w.arrow_group = <<>>) => Drained(drain_schema_json(w))
  <1>1. CASE w.schema_json_group = <<>> \/ ~w.ok
    <2>1. drain_schema_json(w) = w
      BY <1>1 DEF drain_schema_json
    <2> QED
      BY <1>1, <2>1 DEF Drained
  <1>2. CASE w.schema_json_group # <<>> /\ w.ok
    <2>1. PICK g, v : g = w.schema_json_group /\ v = [w EXCEPT !.schema_json_group = <<>>]
      OBVIOUS
    <2>2. drain_schema_json(w) = filter_schema_json_group(v, g)
      BY <1>2, <2>1 DEF drain_schema_json
    <2>3. /\ DOMAIN v = WorkFields /\ v.decisions = w.decisions /\ v.schema_json_group = <<>>
          /\ v.arrow_group = w.arrow_group
      BY <2>1 DEF InStep, WorkFields
    <2>4. /\ w.decisions \in Seq(ToSet(w.decisions)) /\ \A i \in 1..Len(w.decisions) : w.decisions[i].n = poll[i].n
          /\ w.arrow_group = <<>> /\ g \in Seq(ToSet(poll)) /\ Len(g) \in Nat
          /\ \A i \in 1..Len(g) : g[i] = poll[Len(w.decisions) + i]
          /\ Len(w.decisions) + Len(<<>>) + Len(g) = k /\ Len(w.decisions) \in Nat
      BY <1>2, <2>1, LenProperties DEF InStep, Follows, Waits
    <2>5. Len(w.decisions) + Len(g) = k
      BY <2>4, EmptySeq
    <2>6. Judged(filter_schema_json_group(v, g), v, g)
      BY <2>3, <2>4, JsonJudged
    <2>7. PICK x : x = filter_schema_json_group(v, g)
      OBVIOUS
    <2>8. InStep(x, poll, k) /\ Drained(x)
      BY <2>3, <2>4, <2>5, <2>6, <2>7, JudgedFollows
    <2> QED
      BY <2>2, <2>7, <2>8 DEF Drained
  <1> QED
    BY <1>1, <1>2

-----------------------------------------------------------------------------
(* One pass of the loop, and its end.                                        *)

\* A record that joins the waiting Arrow group comes right after it in the poll.
LEMMA JoinArrow ==
  ASSUME NEW poll, poll \in Seq(ToSet(poll)), NEW k \in Nat, k + 1 \in 1..Len(poll), NEW w, InStep(w, poll, k),
         w.ok => w.schema_json_group = <<>>
  PROVE  InStep(AppendArrow(w, poll[k + 1]), poll, k + 1)
  <1> DEFINE x == AppendArrow(w, poll[k + 1])
  <1> SUFFICES InStep(x, poll, k + 1)
    OBVIOUS
  <1>1. /\ DOMAIN x = WorkFields /\ (x.ok <=> w.ok) /\ x.decisions = w.decisions
        /\ x.schema_json_group = w.schema_json_group
        /\ w.ok => x.arrow_group = Append(w.arrow_group, poll[k + 1])
    BY DEF AppendArrow, InStep, WorkFields
  <1> HIDE DEF x
  <1>2. CASE w.ok
    <2>1. PICK g, d : g = w.arrow_group /\ d = w.decisions
      OBVIOUS
    <2>2. /\ d \in Seq(ToSet(d)) /\ \A i \in 1..Len(d) : d[i].n = poll[i].n
          /\ g \in Seq(ToSet(poll)) /\ \A i \in 1..Len(g) : g[i] = poll[Len(d) + i]
          /\ Len(d) + Len(g) + Len(<<>>) = k
      BY <1>2, <2>1 DEF InStep, Follows, Waits
    <2>3. Len(d) \in Nat /\ Len(g) \in Nat /\ Len(<<>>) = 0 /\ <<>> \in Seq(ToSet(poll))
      BY <2>2, LenProperties, EmptySeq
    <2>4. Len(d) + Len(g) = k
      BY <2>2, <2>3
    <2>5. poll[k + 1] \in ToSet(poll)
      BY DEF ToSet
    <2>6. PICK h : h = Append(g, poll[k + 1])
      OBVIOUS
    <2>7. /\ h \in Seq(ToSet(poll)) /\ Len(h) = Len(g) + 1 /\ h[Len(g) + 1] = poll[k + 1]
          /\ \A i \in 1..Len(g) : h[i] = g[i]
      BY <2>2, <2>5, <2>6, AppendProperties
    <2>8. ASSUME NEW i \in 1..Len(h) PROVE h[i] = poll[Len(d) + i]
      <3>1. i \in 1..Len(g) \/ (i = Len(g) + 1 /\ Len(d) + i = k + 1)
        BY <2>3, <2>4, <2>7
      <3> QED
        BY <2>2, <2>7, <3>1
    <2>9. x.arrow_group = h /\ x.decisions = d /\ x.schema_json_group = <<>>
      BY <1>1, <1>2, <2>1, <2>6
    <2>10. Waits(h, x, poll) /\ Waits(<<>>, x, poll)
      BY <2>3, <2>7, <2>8, <2>9 DEF Waits
    <2>11. Len(d) + Len(h) + Len(<<>>) = k + 1
      BY <2>3, <2>4, <2>7
    <2>12. Follows(x, poll, k + 1)
      BY <2>2, <2>9, <2>10, <2>11 DEF Follows
    <2> QED
      BY <1>1, <2>12 DEF InStep
  <1>3. CASE ~w.ok
    <2>1. ~x.ok
      BY <1>1, <1>3
    <2> QED
      BY <1>1, <2>1 DEF InStep
  <1> QED
    BY <1>2, <1>3

\* So does one that joins the waiting JSON group.
LEMMA JoinJson ==
  ASSUME NEW poll, poll \in Seq(ToSet(poll)), NEW k \in Nat, k + 1 \in 1..Len(poll), NEW w, InStep(w, poll, k),
         w.ok => w.arrow_group = <<>>
  PROVE  InStep(AppendJson(w, poll[k + 1]), poll, k + 1)
  <1> DEFINE x == AppendJson(w, poll[k + 1])
  <1> SUFFICES InStep(x, poll, k + 1)
    OBVIOUS
  <1>1. /\ DOMAIN x = WorkFields /\ (x.ok <=> w.ok) /\ x.decisions = w.decisions
        /\ x.arrow_group = w.arrow_group
        /\ w.ok => x.schema_json_group = Append(w.schema_json_group, poll[k + 1])
    BY DEF AppendJson, InStep, WorkFields
  <1> HIDE DEF x
  <1>2. CASE w.ok
    <2>1. PICK g, d : g = w.schema_json_group /\ d = w.decisions
      OBVIOUS
    <2>2. /\ d \in Seq(ToSet(d)) /\ \A i \in 1..Len(d) : d[i].n = poll[i].n
          /\ g \in Seq(ToSet(poll)) /\ \A i \in 1..Len(g) : g[i] = poll[Len(d) + i]
          /\ Len(d) + Len(<<>>) + Len(g) = k
      BY <1>2, <2>1 DEF InStep, Follows, Waits
    <2>3. Len(d) \in Nat /\ Len(g) \in Nat /\ Len(<<>>) = 0 /\ <<>> \in Seq(ToSet(poll))
      BY <2>2, LenProperties, EmptySeq
    <2>4. Len(d) + Len(g) = k
      BY <2>2, <2>3
    <2>5. poll[k + 1] \in ToSet(poll)
      BY DEF ToSet
    <2>6. PICK h : h = Append(g, poll[k + 1])
      OBVIOUS
    <2>7. /\ h \in Seq(ToSet(poll)) /\ Len(h) = Len(g) + 1 /\ h[Len(g) + 1] = poll[k + 1]
          /\ \A i \in 1..Len(g) : h[i] = g[i]
      BY <2>2, <2>5, <2>6, AppendProperties
    <2>8. ASSUME NEW i \in 1..Len(h) PROVE h[i] = poll[Len(d) + i]
      <3>1. i \in 1..Len(g) \/ (i = Len(g) + 1 /\ Len(d) + i = k + 1)
        BY <2>3, <2>4, <2>7
      <3> QED
        BY <2>2, <2>7, <3>1
    <2>9. x.schema_json_group = h /\ x.decisions = d /\ x.arrow_group = <<>>
      BY <1>1, <1>2, <2>1, <2>6
    <2>10. Waits(h, x, poll) /\ Waits(<<>>, x, poll)
      BY <2>3, <2>7, <2>8, <2>9 DEF Waits
    <2>11. Len(d) + Len(<<>>) + Len(h) = k + 1
      BY <2>3, <2>4, <2>7
    <2>12. Follows(x, poll, k + 1)
      BY <2>2, <2>9, <2>10, <2>11 DEF Follows
    <2> QED
      BY <1>1, <2>12 DEF InStep
  <1>3. CASE ~w.ok
    <2>1. ~x.ok
      BY <1>1, <1>3
    <2> QED
      BY <1>1, <2>1 DEF InStep
  <1> QED
    BY <1>2, <1>3

\* A record judged by itself, when nothing waits, gets the next verdict.
LEMMA FallbackInStep ==
  ASSUME NEW poll, poll \in Seq(ToSet(poll)), NEW k \in Nat, NEW w, InStep(w, poll, k), Drained(w)
  PROVE  InStep(filter_json_fallback_record(w, poll[k + 1]), poll, k + 1)
  <1>1. CASE ~w.ok
    BY <1>1 DEF InStep, filter_json_fallback_record
  <1>2. CASE w.ok
    <2>1. PICK x : x = filter_json_fallback_record(w, poll[k + 1])
      OBVIOUS
    <2>2. PICK verdict : x = [w EXCEPT !.decisions = Append(@, Decision(poll[k + 1], verdict))]
      BY <1>2, <2>1 DEF filter_json_fallback_record
    <2>3. PICK c, d : c = Decision(poll[k + 1], verdict) /\ d = w.decisions
      OBVIOUS
    <2>4. /\ DOMAIN x = WorkFields /\ x.decisions = Append(d, c)
          /\ x.arrow_group = w.arrow_group /\ x.schema_json_group = w.schema_json_group
      BY <2>2, <2>3 DEF InStep, WorkFields
    <2>5. /\ d \in Seq(ToSet(d)) /\ \A i \in 1..Len(d) : d[i].n = poll[i].n
          /\ w.arrow_group = <<>> /\ w.schema_json_group = <<>>
          /\ Len(d) + Len(<<>>) + Len(<<>>) = k
      BY <1>2, <2>3 DEF InStep, Follows, Drained
    <2>6. Len(d) \in Nat /\ Len(<<>>) = 0 /\ <<>> \in Seq(ToSet(poll))
      BY <2>5, LenProperties, EmptySeq
    <2>7. Len(d) = k
      BY <2>5, <2>6
    <2>8. c.n = poll[k + 1].n
      BY <2>3 DEF Decision
    <2>9. PICK e, S : e = Append(d, c) /\ S = ToSet(d) \cup {c}
      OBVIOUS
    <2>10. d \in Seq(S) /\ c \in S
      BY <2>5, <2>9
    <2>11. e \in Seq(S) /\ Len(e) = k + 1 /\ e[k + 1] = c /\ \A i \in 1..k : e[i] = d[i]
      BY <2>7, <2>9, <2>10, AppendProperties
    <2>12. \A i \in 1..Len(e) : e[i].n = poll[i].n
      BY <2>5, <2>7, <2>8, <2>11
    <2>13. e \in [1..Len(e) -> ToSet(e)] /\ Len(e) \in Nat
      BY <2>11, LenProperties DEF ToSet
    <2>14. e \in Seq(ToSet(e))
      BY ONLY <2>11, <2>13
    <2>15. Waits(<<>>, x, poll)
      BY <2>6 DEF Waits
    <2>16. Len(e) + Len(<<>>) + Len(<<>>) = k + 1
      BY <2>6, <2>11
    <2> QED
      BY <2>1, <2>4, <2>5, <2>9, <2>12, <2>14, <2>15, <2>16 DEF InStep, Follows
  <1> QED
    BY <1>1, <1>2

\* Every record the loop routes keeps the verdicts and the waiting group in step.
LEMMA RouteInStep ==
  ASSUME NEW poll, poll \in Seq(ToSet(poll)), NEW k \in Nat, k + 1 \in 1..Len(poll), NEW w, InStep(w, poll, k)
  PROVE  InStep(route(w, poll[k + 1]), poll, k + 1)
  <1>1. PICK rec, a, j : rec = poll[k + 1] /\ a = drain_arrow(w) /\ j = drain_schema_json(w)
    OBVIOUS
  <1>2. InStep(a, poll, k) /\ (a.ok => a.arrow_group = <<>>)
    BY <1>1, DrainArrow
  <1>3. InStep(j, poll, k) /\ (j.ok => j.schema_json_group = <<>>)
    BY <1>1, DrainJson
  <1>4. CASE rec.value.kind = "corrupt"
    <2>1. route(w, rec) = [w EXCEPT !.ok = FALSE]
      BY <1>4 DEF route
    <2>2. [w EXCEPT !.ok = FALSE].ok = FALSE /\ DOMAIN [w EXCEPT !.ok = FALSE] = WorkFields
      BY DEF InStep, WorkFields
    <2> QED
      BY <1>1, <2>1, <2>2 DEF InStep
  <1>5. CASE rec.value.kind = "ipc"
    <2>1. route(w, rec) = AppendArrow(IF arrow_accepts(j, rec) THEN j ELSE drain_arrow(j), rec)
      BY <1>1, <1>5 DEF route, PushArrow
    <2>2. PICK aj : aj = drain_arrow(j)
      OBVIOUS
    <2>3. InStep(aj, poll, k) /\ (aj.ok => aj.schema_json_group = <<>>)
      BY <1>3, <2>2, DrainArrow DEF Drained
    <2>4. InStep(AppendArrow(j, rec), poll, k + 1) /\ InStep(AppendArrow(aj, rec), poll, k + 1)
      BY <1>1, <1>3, <2>3, JoinArrow
    <2> QED
      BY <1>1, <2>1, <2>2, <2>4
  <1>6. CASE rec.value.kind \in {"json", "bytes"} /\ schema_json_filter_schema_id(rec) # <<>>
    <2>1. route(w, rec) = AppendJson(IF schema_json_accepts(a, rec.schema) THEN a ELSE drain_schema_json(a), rec)
      BY <1>1, <1>6 DEF route, PushJson
    <2>2. PICK ja : ja = drain_schema_json(a)
      OBVIOUS
    <2>3. InStep(ja, poll, k) /\ (ja.ok => ja.arrow_group = <<>>)
      BY <1>2, <2>2, DrainJson DEF Drained
    <2>4. InStep(AppendJson(a, rec), poll, k + 1) /\ InStep(AppendJson(ja, rec), poll, k + 1)
      BY <1>1, <1>2, <2>3, JoinJson
    <2> QED
      BY <1>1, <2>1, <2>2, <2>4
  <1>7. CASE /\ rec.value.kind \notin {"corrupt", "ipc"}
             /\ ~(rec.value.kind \in {"json", "bytes"} /\ schema_json_filter_schema_id(rec) # <<>>)
    <2>1. route(w, rec) = filter_json_fallback_record(drain_schema_json(a), rec)
      BY <1>1, <1>7 DEF route
    <2>2. PICK ja : ja = drain_schema_json(a)
      OBVIOUS
    <2>3. InStep(ja, poll, k) /\ Drained(ja)
      BY <1>2, <2>2, DrainJson
    <2>4. InStep(filter_json_fallback_record(ja, rec), poll, k + 1)
      BY <1>1, <2>3, FallbackInStep
    <2> QED
      BY <1>1, <2>1, <2>2, <2>4
  <1> QED
    BY <1>4, <1>5, <1>6, <1>7

\* The end of the poll drains both groups.
LEMMA FinishDrains ==
  ASSUME NEW poll, poll \in Seq(ToSet(poll)), NEW k, NEW w, InStep(w, poll, k)
  PROVE  InStep(finish(w), poll, k) /\ Drained(finish(w))
  <1>1. PICK a : a = drain_arrow(w)
    OBVIOUS
  <1>2. InStep(a, poll, k) /\ (a.ok => a.arrow_group = <<>>)
    BY <1>1, DrainArrow
  <1>3. finish(w) = drain_schema_json(a)
    BY <1>1 DEF finish
  <1> QED
    BY <1>2, <1>3, DrainJson

\* Route and TakePoll keep the verdicts in step with the poll.
LEMMA RouteSound ==
  ASSUME Verdicts, Route
  PROVE  Verdicts'
  <1>1. /\ polled' = polled /\ taken' = taken + 1 /\ taken \in Nat /\ taken + 1 \in 1..Len(polled) /\ Len(polled) \in Nat
        /\ polled \in Seq(ToSet(polled)) /\ InStep(work, polled, taken)
        /\ work' = AfterRecord(route(work, polled[taken + 1]), taken + 1 = Len(polled))
    BY LenProperties DEF Verdicts, Route
  <1>2. PICK poll, k, w, x, y : /\ poll = polled /\ k = taken /\ w = work /\ x = route(work, polled[taken + 1])
                                /\ y = work'
    OBVIOUS
  <1>3. InStep(route(w, poll[k + 1]), poll, k + 1)
    BY <1>1, <1>2, RouteInStep
  <1>4. InStep(x, poll, k + 1)
    BY ONLY <1>2, <1>3
  <1>5. y = AfterRecord(x, k + 1 = Len(poll))
    BY <1>1, <1>2
  <1>6. InStep(y, poll, k + 1) /\ (k + 1 = Len(poll) => Drained(y))
    <2>1. CASE k + 1 = Len(poll)
      <3>1. poll \in Seq(ToSet(poll)) /\ y = finish(x)
        BY <1>1, <1>2, <1>5, <2>1 DEF AfterRecord
      <3> QED
        BY ONLY <1>4, <3>1, FinishDrains
    <2>2. CASE k + 1 # Len(poll)
      BY <1>4, <1>5, <2>2 DEF AfterRecord
    <2> QED
      BY <2>1, <2>2
  <1>7. InStep(work', polled', taken')
    BY ONLY <1>1, <1>2, <1>6
  <1>8. taken' = Len(polled') => Drained(work')
    BY ONLY <1>1, <1>2, <1>6
  <1>9. polled' \in Seq(ToSet(polled')) /\ taken' \in 0..Len(polled')
    BY ONLY <1>1
  <1> QED
    BY ONLY <1>7, <1>8, <1>9 DEF Verdicts

-----------------------------------------------------------------------------
(* The steps of the pipeline.                                                *)

\* A step elsewhere leaves the codec alone.
LEMMA CodecStutters ==
  ASSUME CodecInv, UNCHANGED codecVars
  PROVE  CodecInv'
  <1>1. /\ registry' = registry /\ now' = now /\ by_id' = by_id /\ by_subject_latest' = by_subject_latest
        /\ prepared' = prepared /\ slots' = slots /\ call' = call /\ log' = log
    BY DEF codecVars
  <1>2. Versions' /\ CallShapes' /\ Queued'
    BY <1>1 DEF CodecInv, Versions, Ids, CallShapes, Callers, Queued, PreparedCacheIsBounded
  <1>3. Caches' /\ CallsAgree'
    BY <1>1 DEF CodecInv, Caches, CallsAgree, Agrees, LatestSince, Ids, Callers
  <1>4. SlotsAgree'
    BY <1>1 DEF CodecInv, SlotsAgree, KeepsOnly, Ids, Callers, At
  <1>5. Described'
    BY <1>1 DEF CodecInv, Described, Ids
  <1> QED
    BY <1>2, <1>3, <1>4, <1>5 DEF CodecInv

\* The poller is free while no poll has records left to decode.
LEMMA PollerFree ==
  ASSUME Roles, Polls, ~(Len(decoded) < Len(pending))
  PROVE  At(poller, "free") /\ call[poller].op = "none"
  BY DEF Roles

\* A step that leaves the calls of the tasks alone keeps their roles.
LEMMA RolesOf ==
  ASSUME Roles, Moves(poller),
         \/ call'[poller].stage = "free" /\ call'[poller].op = "none"
         \/ /\ call'[poller].op = "decode" /\ Len(decoded') < Len(pending')
            /\ call'[poller].stage \notin {"encode", "latest", "ask_latest", "got_latest"}
  PROVE  Roles'
  <1>1. \A u \in Tasks : call'[u] = call[u]
    BY ScenariosAssumption DEF Moves, Callers, poller
  <1> QED
    BY <1>1 DEF Roles, At, poller

\* An idle filter is in step with the start of any poll.
LEMMA IdleInStep ==
  ASSUME NEW poll, NEW cache
  PROVE  InStep(Idle(cache), poll, 0) /\ Drained(Idle(cache))
  <1> DEFINE w == Idle(cache)
  <1>1. /\ DOMAIN w = WorkFields /\ w.decisions = <<>> /\ w.arrow_group = <<>> /\ w.schema_json_group = <<>>
    BY DEF Idle, WorkFields
  <1> HIDE DEF w
  <1>2. Len(<<>>) = 0 /\ <<>> \in Seq(ToSet(poll)) /\ <<>> \in Seq(ToSet(<<>>))
    BY EmptySeq
  <1>3. Waits(<<>>, w, poll)
    BY <1>2 DEF Waits
  <1>4. Follows(w, poll, 0)
    BY <1>1, <1>2, <1>3 DEF Follows
  <1>5. InStep(w, poll, 0) /\ Drained(w)
    BY <1>1, <1>4 DEF InStep, Drained
  <1> QED
    BY <1>5 DEF w

\* Resetting the poller's call, or giving it a record to decode.
LEMMA PollerMoves ==
  ASSUME CodecInv, NEW c, DOMAIN c = CallFields, c.stage \in {"free", "decode"},
         call' = [call EXCEPT ![poller] = c],
         UNCHANGED <<registry, now, by_id, by_subject_latest, prepared, slots, log>>
  PROVE  CodecInv' /\ Moves(poller) /\ call'[poller] = c
  <1>1. poller \in Callers /\ DOMAIN call = Callers
    BY DEF CodecInv, CallShapes, Callers
  <1>2. Moves(poller) /\ call'[poller] = c
    BY <1>1 DEF CodecInv, CallShapes, Moves, Callers
  <1>3. Agrees(call'[poller]) /\ call'[poller].stage # "prepare"
    BY <1>2, QuietAgrees DEF Carrying
  <1>4. CodecInv'
    BY <1>1, <1>2, <1>3, QuietMoves DEF Plain
  <1> QED
    BY <1>2, <1>4

\* A new poll starts with nothing decoded.
LEMMA PollSound ==
  ASSUME PipelineInv, Poll
  PROVE  PipelineInv' /\ UNCHANGED call
  <1>1. CodecInv' /\ UNCHANGED <<call, log, handed, polled, taken, work>>
    BY CodecStutters DEF PipelineInv, Poll, codecVars, filterVars
  <1>2. PICK n \in 1..MaxPoll : handed + n <= Len(log) /\ pending' = [i \in 1..n |-> handed + i]
    BY DEF Poll
  <1>3. n \in Nat /\ handed \in Nat /\ Len(log) \in Nat
    BY ScenariosAssumption, LenProperties DEF PipelineInv, Polls, CodecInv, Described
  <1>4. pending' \in Seq(Nat) /\ Len(pending') = n
    BY <1>2, <1>3
  <1>5. decoded' = <<>> /\ Len(decoded') = 0 /\ decoded' \in Seq(ToSet(decoded'))
    BY EmptySeq DEF Poll
  <1>6. Polls'
    BY <1>1, <1>2, <1>3, <1>4, <1>5 DEF Polls, PipelineInv
  <1>7. Roles'
    <2>1. pending = <<>> /\ Len(pending) = 0 /\ Len(decoded) \in Nat
      BY EmptySeq, LenProperties DEF Poll, Idling, PipelineInv, Polls
    <2>2. At(poller, "free") /\ call[poller].op = "none"
      BY <2>1, PollerFree DEF PipelineInv
    <2>3. Moves(poller)
      BY <1>1 DEF PipelineInv, CodecInv, CallShapes, Callers, Moves
    <2> QED
      BY <1>1, <2>2, <2>3, RolesOf DEF PipelineInv, At
  <1>8. Verdicts'
    BY <1>1 DEF PipelineInv, Verdicts, InStep, Follows, Waits, Drained
  <1> QED
    BY <1>1, <1>6, <1>7, <1>8 DEF PipelineInv

\* The poller turns to the next record (ConsumeSession::poll).
LEMMA NextDecodeSound ==
  ASSUME PipelineInv, NextDecode
  PROVE  PipelineInv' /\ Moves(poller)
  <1> DEFINE c == [Free EXCEPT !.op = "decode", !.stage = "decode", !.wire = <<log[pending[Len(decoded) + 1]].wire>>]
  <1>1. DOMAIN c = CallFields /\ c.stage = "decode" /\ c.op = "decode" /\ call' = [call EXCEPT ![poller] = c]
    BY DEF Free, CallFields, NextDecode
  <1> HIDE DEF c
  <1>2. UNCHANGED <<registry, now, by_id, by_subject_latest, prepared, slots, log, handed, pending, decoded, polled, taken, work>>
    BY DEF NextDecode, cacheVars, filterVars, pollVars
  <1>3. CodecInv' /\ Moves(poller) /\ call'[poller] = c
    BY <1>1, <1>2, PollerMoves DEF PipelineInv
  <1>4. Roles'
    BY <1>1, <1>2, <1>3, RolesOf DEF PipelineInv, NextDecode
  <1>5. Polls' /\ Verdicts'
    BY <1>2 DEF PipelineInv, Polls, Verdicts
  <1> QED
    BY <1>3, <1>4, <1>5 DEF PipelineInv

\* A decoded record joins those before it.
LEMMA DecodeDoneSound ==
  ASSUME PipelineInv, DecodeDone
  PROVE  PipelineInv' /\ Moves(poller)
  <1>1. DOMAIN Free = CallFields /\ Free.stage = "free" /\ Free.op = "none" /\ call' = [call EXCEPT ![poller] = Free]
    BY DEF Free, CallFields, DecodeDone
  <1>2. UNCHANGED <<registry, now, by_id, by_subject_latest, prepared, slots, log, handed, pending, polled, taken, work>>
    BY DEF DecodeDone, cacheVars, filterVars
  <1>3. CodecInv' /\ Moves(poller) /\ call'[poller] = Free
    BY <1>1, <1>2, PollerMoves DEF PipelineInv
  <1>4. Roles'
    BY <1>1, <1>3, RolesOf DEF PipelineInv
  <1>5. Len(decoded) < Len(pending)
    BY DEF PipelineInv, Roles, At, DecodeDone
  <1>6. PICK d : decoded' = Append(decoded, d)
    BY DEF DecodeDone
  <1>7. decoded \in Seq(ToSet(decoded)) /\ Len(pending) \in Nat
    BY LenProperties DEF PipelineInv, Polls
  <1>8. decoded' \in Seq(ToSet(decoded')) /\ Len(decoded') = Len(decoded) + 1 /\ Len(decoded) \in Nat
    BY <1>6, <1>7, Grows
  <1>9. Polls'
    BY <1>2, <1>5, <1>7, <1>8 DEF PipelineInv, Polls
  <1>10. Verdicts'
    BY <1>2 DEF PipelineInv, Verdicts
  <1> QED
    BY <1>3, <1>4, <1>9, <1>10 DEF PipelineInv

\* A decoded poll is handed to a filter whose locals are fresh.
LEMMA HandOverSound ==
  ASSUME PipelineInv, HandOver
  PROVE  PipelineInv' /\ UNCHANGED call
  <1>1. CodecInv' /\ UNCHANGED <<call, log>>
    BY CodecStutters DEF PipelineInv, HandOver, codecVars
  <1>2. /\ polled' = decoded /\ taken' = 0 /\ work' = Idle(work.cache) /\ Len(decoded) = Len(pending)
        /\ handed' = handed + Len(pending) /\ pending' = <<>> /\ decoded' = <<>>
    BY DEF HandOver, TakePoll
  <1>3. /\ handed \in Nat /\ Len(pending) \in Nat /\ decoded \in Seq(ToSet(decoded)) /\ Len(decoded) \in Nat
        /\ handed + Len(pending) <= Len(log)
    BY LenProperties DEF PipelineInv, Polls
  <1>4. Len(<<>>) = 0 /\ <<>> \in Seq(Nat) /\ <<>> \in Seq(ToSet(<<>>))
    BY EmptySeq
  <1>5. Len(log) \in Nat
    BY LenProperties DEF PipelineInv, CodecInv, Described
  <1>6. Polls'
    BY <1>1, <1>2, <1>3, <1>4, <1>5 DEF Polls
  <1>7. Roles'
    <2>1. At(poller, "free") /\ call[poller].op = "none"
      BY <1>2, <1>3, PollerFree DEF PipelineInv
    <2>2. Moves(poller)
      BY <1>1 DEF PipelineInv, CodecInv, CallShapes, Callers, Moves
    <2> QED
      BY <1>1, <2>1, <2>2, RolesOf DEF PipelineInv, At
  <1>8. Verdicts'
    <2>1. InStep(work', polled', taken') /\ Drained(work')
      BY <1>2, IdleInStep
    <2>2. polled' \in Seq(ToSet(polled')) /\ taken' \in 0..Len(polled')
      BY <1>2, <1>3
    <2> QED
      BY ONLY <2>1, <2>2 DEF Verdicts
  <1> QED
    BY <1>1, <1>6, <1>7, <1>8 DEF PipelineInv

\* A new subscription starts over.
LEMMA ResubscribeSound ==
  ASSUME PipelineInv, Resubscribe
  PROVE  PipelineInv' /\ Moves(poller)
  <1>1. DOMAIN Free = CallFields /\ Free.stage = "free" /\ Free.op = "none" /\ call' = [call EXCEPT ![poller] = Free]
    BY DEF Free, CallFields, Resubscribe
  <1>2. /\ UNCHANGED <<registry, now, by_id, by_subject_latest, prepared, slots, log>>
        /\ polled' = <<>> /\ taken' = 0 /\ work' = Idle(NoCache) /\ handed' = 0 /\ pending' = <<>> /\ decoded' = <<>>
    BY DEF Resubscribe, cacheVars
  <1>3. CodecInv' /\ Moves(poller) /\ call'[poller] = Free
    BY <1>1, <1>2, PollerMoves DEF PipelineInv
  <1>4. Roles'
    BY <1>1, <1>3, RolesOf DEF PipelineInv
  <1>5. Len(<<>>) = 0 /\ <<>> \in Seq(Nat) /\ <<>> \in Seq(ToSet(<<>>))
    BY EmptySeq
  <1>6. Len(log) \in Nat
    BY LenProperties DEF PipelineInv, CodecInv, Described
  <1>7. Polls'
    BY <1>2, <1>5, <1>6 DEF Polls
  <1>8. Verdicts'
    <2>1. InStep(work', polled', taken') /\ Drained(work')
      BY <1>2, IdleInStep
    <2>2. polled' \in Seq(ToSet(polled')) /\ taken' \in 0..Len(polled')
      BY <1>2, <1>5
    <2> QED
      BY ONLY <2>1, <2>2 DEF Verdicts
  <1> QED
    BY <1>3, <1>4, <1>7, <1>8 DEF PipelineInv

\* Steps of the filter, of the registry and of the calls; and none at all.
LEMMA FilterStepSound ==
  ASSUME PipelineInv, FilterStep
  PROVE  PipelineInv' /\ UNCHANGED call
  <1>1. CodecInv' /\ UNCHANGED <<call, log, handed, pending, decoded>>
    BY CodecStutters DEF PipelineInv, FilterStep, codecVars, pollVars
  <1>2. Roles' /\ Polls'
    BY <1>1 DEF PipelineInv, Roles, Polls, At
  <1>3. Verdicts'
    <2>1. CASE Route
      BY <2>1, RouteSound DEF PipelineInv
    <2>2. CASE Start
      BY <2>2 DEF Start, PipelineInv, Verdicts
    <2> QED
      BY <2>1, <2>2 DEF FilterStep
  <1> QED
    BY <1>1, <1>2, <1>3 DEF PipelineInv

\* Steps of the registry leave subscription and filter alone.
LEMMA RegistryStepSound ==
  ASSUME PipelineInv, RegistryStep
  PROVE  PipelineInv' /\ UNCHANGED call
  <1>1. CodecInv' /\ UNCHANGED <<call, log>>
    BY RegistrySound DEF PipelineInv, RegistryStep
  <1>2. UNCHANGED <<handed, pending, decoded, polled, taken, work>>
    BY DEF RegistryStep, filterVars, pollVars
  <1>3. Roles' /\ Polls' /\ Verdicts'
    BY <1>1, <1>2 DEF PipelineInv, Roles, Polls, Verdicts, At
  <1> QED
    BY <1>1, <1>3 DEF PipelineInv

\* Steps of the calls leave them alone too, and only add to the log.
LEMMA TaskStepSound ==
  ASSUME PipelineInv, NEW t \in Callers, TaskStep(t)
  PROVE  PipelineInv' /\ Moves(t)
  <1>1. UNCHANGED <<handed, pending, decoded, polled, taken, work>>
    BY DEF TaskStep, filterVars, pollVars
  <1>2. CodecInv' /\ Roles' /\ Moves(t) /\ (log' = log \/ \E e : log' = Append(log, e))
    BY <1>1, CallStepSound DEF PipelineInv, TaskStep
  <1>3. Len(log) \in Nat /\ Len(log') \in Nat /\ Len(log') >= Len(log)
    BY <1>2, LogGrows DEF PipelineInv, CodecInv
  <1>4. Polls'
    <2>1. handed + Len(pending) <= Len(log) /\ handed \in Nat /\ Len(pending) \in Nat
      BY LenProperties DEF PipelineInv, Polls
    <2> QED
      BY <1>1, <1>3, <2>1 DEF PipelineInv, Polls
  <1>5. Verdicts'
    BY <1>1 DEF PipelineInv, Verdicts
  <1> QED
    BY <1>2, <1>4, <1>5 DEF PipelineInv

\* Every step of the pipeline keeps the invariant.
LEMMA PipelineStepSound ==
  ASSUME PipelineInv, [PipelineNext]_pipelineVars
  PROVE  PipelineInv'
  <1>1. CASE UNCHANGED pipelineVars
    <2>1. CodecInv' /\ UNCHANGED <<call, handed, pending, decoded, polled, taken, work, log>>
      BY <1>1, CodecStutters DEF PipelineInv, pipelineVars, codecVars, filterVars, pollVars
    <2> QED
      BY <2>1 DEF PipelineInv, Roles, Polls, Verdicts, At
  <1>2. CASE PipelineNext
    BY <1>2, FilterStepSound, PollSound, NextDecodeSound, DecodeDoneSound, HandOverSound, ResubscribeSound,
       RegistryStepSound, TaskStepSound DEF PipelineNext, PollStep, Callers
  <1> QED
    BY <1>1, <1>2

\* The invariant holds at the start: nothing is cached, nothing waits, and what
\* is stored already was not written through this gateway.
LEMMA PipelineStarts ==
  ASSUME PipelineInit
  PROVE  PipelineInv
  <1>1. PICK s \in Scenarios :
          /\ CodecInit(s, s.stored, [t \in Tasks \cup {poller} |->
                    IF t \in DOMAIN s.bodies THEN Encoding(s.bodies[t]) ELSE Free])
          /\ FilterInit /\ handed = 0 /\ pending = <<>> /\ decoded = <<>>
    BY DEF PipelineInit
  <1>2. /\ registry = s.registry /\ now = 0 /\ by_id = [i \in {} |-> <<>>] /\ by_subject_latest = <<>>
        /\ prepared = [entries |-> [i \in {} |-> 0], insertion_order |-> <<>>] /\ log = s.stored
        /\ call = [t \in Callers |-> IF t \in DOMAIN s.bodies THEN Encoding(s.bodies[t]) ELSE Free]
        /\ slots = [n \in 1..(PREPARED_SCHEMA_CAPACITY + Cardinality(DOMAIN call)) |-> <<>>]
    BY <1>1 DEF CodecInit, Callers
  <1>3. DOMAIN call = Callers
    BY <1>2
  <1>4. /\ DOMAIN s.registry = {"schemas", "since", "coming", "up"}
        /\ s.registry.schemas \in Seq(Schemas) /\ s.registry.coming \in Seq(Schemas)
        /\ s.registry.since = [i \in 1..Len(s.registry.schemas) |-> 0]
        /\ s.stored \in Seq(Stored)
        /\ DOMAIN s.bodies \subseteq Tasks /\ \A t \in DOMAIN s.bodies : IsDocument(s.bodies[t].doc)
    BY ScenariosAssumption
  <1>5. /\ Free.stage = "free" /\ Free.op = "none" /\ DOMAIN Free = CallFields
        /\ \A b : /\ Encoding(b).stage = "encode" /\ Encoding(b).op = "encode" /\ DOMAIN Encoding(b) = CallFields
                  /\ Encoding(b).body[1] = b
    BY DEF Free, Encoding, CallFields
  <1>6. \A t \in Callers : /\ DOMAIN call[t] = CallFields /\ call[t].stage \in {"free", "encode"}
                           /\ call[t] = IF t \in DOMAIN s.bodies THEN Encoding(s.bodies[t]) ELSE Free
    BY <1>2, <1>5
  <1>7. Len(<<>>) = 0 /\ <<>> \in Seq(Nat) /\ <<>> \in Seq(ToSet(<<>>)) /\ ToSet(<<>>) = {}
    BY EmptySeq DEF ToSet
  <1>8. Versions
    <2>1. Len(registry.schemas) \in Nat
      BY <1>2, <1>4, LenProperties
    <2>2. registry.since \in Seq(Nat) /\ Len(registry.since) = Len(registry.schemas)
      BY <1>2, <1>4, <2>1
    <2>3. \A i \in Ids : registry.since[i] <= now
      BY <1>2, <1>4 DEF Ids
    <2> QED
      BY <1>2, <1>4, <2>2, <2>3 DEF Versions
  <1>9. CallShapes
    BY <1>3, <1>6 DEF CallShapes
  <1>10. Caches
    BY <1>2, <1>7 DEF Caches
  <1>11. CallsAgree
    BY <1>6, QuietAgrees DEF CallsAgree, Carrying
  <1>12. prepared.entries = [i \in {} |-> 0] /\ prepared.insertion_order = <<>> /\ DOMAIN prepared.entries = {}
    BY <1>2
  <1>13. SlotsAgree
    <2>1. DOMAIN slots = 1..(PREPARED_SCHEMA_CAPACITY + Cardinality(Callers))
      BY <1>2, <1>3
    <2>2. \A t \in Callers : ~At(t, "prepare")
      BY <1>6 DEF At
    <2> QED
      BY <1>12, <2>1, <2>2 DEF SlotsAgree
  <1>14. Queued
    <2>1. IsFiniteSet({}) /\ Cardinality({}) = 0
      BY FS_EmptySet
    <2>2. PREPARED_SCHEMA_CAPACITY \in Nat
      BY CodecAssumption
    <2> QED
      BY <1>7, <1>12, <2>1, <2>2 DEF Queued, PreparedCacheIsBounded
  <1>15. Described
    <2>1. log \in Seq(Stored) /\ Len(log) \in Nat
      BY <1>2, <1>4, LenProperties
    <2>2. log \in [1..Len(log) -> ToSet(log)]
      BY <2>1 DEF ToSet
    <2>3. log \in Seq(ToSet(log))
      BY ONLY <2>1, <2>2
    <2>4. \A n \in 1..Len(log) : log[n] \in Stored
      BY <2>1
    <2>5. \A n \in 1..Len(log) : log[n].sent = <<>>
      BY <2>4, ScenariosAssumption
    <2> QED
      BY <2>3, <2>5 DEF Described
  <1>16. Roles
    <2>1. poller \in Callers /\ poller \notin Tasks
      BY ScenariosAssumption DEF Callers, poller
    <2>2. call[poller] = Free
      BY <1>4, <1>6, <2>1
    <2>3. \A t \in Tasks : /\ call[t].op \in {"none", "encode"}
                           /\ call[t].op = "encode" => IsDocument(call[t].body[1].doc)
      BY <1>4, <1>5, <1>6 DEF Callers
    <2> QED
      BY <1>5, <2>2, <2>3 DEF Roles, At
  <1>17. Polls
    <2>1. Len(log) \in Nat
      BY <1>2, <1>4, LenProperties
    <2> QED
      BY <1>1, <1>7, <2>1 DEF Polls
  <1>18. Verdicts
    <2>1. polled = <<>> /\ taken = 0 /\ work = Idle(NoCache)
      BY <1>1 DEF FilterInit
    <2> QED
      BY <1>7, <2>1, IdleInStep DEF Verdicts
  <1> QED
    BY <1>8, <1>9, <1>10, <1>11, <1>13, <1>14, <1>15, <1>16, <1>17, <1>18 DEF PipelineInv, CodecInv

-----------------------------------------------------------------------------
(* What the invariant says.                                                  *)

\* A stored document was written by the schema its frame names, so it reads back.
LEMMA DescribedReadsBack ==
  ASSUME CodecInv
  PROVE  FramesSelfDescribing
  <1> SUFFICES ASSUME NEW n \in 1..Len(log), log[n].sent # <<>>
               PROVE  LET frame == log[n].wire
                          schema == registry.schemas[frame.id]
                      IN  /\ View(frame) # <<>>
                          /\ \A f \in DOMAIN schema.fields :
                                SameField(schema.fields[f], Shown(schema, log[n].sent[1], f), Shown(schema, View(frame)[1], f))
    BY DEF FramesSelfDescribing
  <1>1. PICK frame, schema, doc : frame = log[n].wire /\ schema = registry.schemas[frame.id] /\ doc = log[n].sent[1]
    OBVIOUS
  <1>2. frame.id \in Ids /\ IsDocument(doc) /\ serialize(schema, doc) # <<>> /\ frame.body = serialize(schema, doc)[1]
    BY <1>1 DEF CodecInv, Described
  <1>3. schema \in Schemas
    BY <1>1, <1>2 DEF CodecInv, Versions, Ids
  <1>4. IsSchema(schema)
    BY <1>3, ScenariosAssumption DEF IsSchema, Formats, Types
  <1>5. PICK view : view = deserialize(schema, serialize(schema, doc)[1])
    OBVIOUS
  <1>6. /\ view # <<>>
        /\ \A f \in DOMAIN schema.fields :
              SameField(schema.fields[f], Shown(schema, doc, f), Shown(schema, view[1], f))
    BY <1>2, <1>4, <1>5, RoundTrip
  <1>7. View(frame) = view
    BY <1>1, <1>2, <1>5 DEF View
  <1> QED
    BY <1>1, <1>6, <1>7

\* Verdicts and the waiting group, put one after the other, are the routed part
\* of the poll.
LEMMA InStepFollows ==
  ASSUME Verdicts
  PROVE  DecisionsFollowThePoll
  <1> SUFFICES ASSUME Subscribed, work.ok
               PROVE  LET judged == [i \in 1..Len(work.decisions) |-> work.decisions[i].n]
                          waiting == work.arrow_group \o work.schema_json_group
                      IN  /\ judged \o [i \in 1..Len(waiting) |-> waiting[i].n] = [i \in 1..taken |-> polled[i].n]
                          /\ Decided => waiting = <<>>
    BY DEF DecisionsFollowThePoll
  <1>1. PICK d, a, j, g, poll, k : /\ d = work.decisions /\ a = work.arrow_group /\ j = work.schema_json_group
                                   /\ g = work.arrow_group \o work.schema_json_group /\ poll = polled /\ k = taken
    OBVIOUS
  <1>2. /\ d \in Seq(ToSet(d)) /\ \A i \in 1..Len(d) : d[i].n = poll[i].n
        /\ a \in Seq(ToSet(poll)) /\ \A i \in 1..Len(a) : a[i] = poll[Len(d) + i]
        /\ j \in Seq(ToSet(poll)) /\ \A i \in 1..Len(j) : j[i] = poll[Len(d) + i]
        /\ a = <<>> \/ j = <<>>
        /\ Len(d) + Len(a) + Len(j) = k /\ k \in Nat
    <2>1. Follows(work, polled, taken) /\ taken \in 0..Len(polled) /\ Len(polled) \in Nat
      BY LenProperties DEF Verdicts, InStep
    <2>2. taken \in Nat
      BY <2>1
    <2>3. /\ d \in Seq(ToSet(d)) /\ \A i \in 1..Len(d) : d[i].n = poll[i].n
          /\ a = <<>> \/ j = <<>>
          /\ Len(d) + Len(a) + Len(j) = k
      BY <1>1, <2>1 DEF Follows
    <2>4. Waits(work.arrow_group, work, polled) /\ Waits(work.schema_json_group, work, polled)
      BY <2>1 DEF Follows
    <2>5. a \in Seq(ToSet(poll)) /\ \A i \in 1..Len(a) : a[i] = poll[Len(d) + i]
      BY ONLY <1>1, <2>4 DEF Waits
    <2>6. j \in Seq(ToSet(poll)) /\ \A i \in 1..Len(j) : j[i] = poll[Len(d) + i]
      BY ONLY <1>1, <2>4 DEF Waits
    <2> QED
      BY ONLY <1>1, <2>2, <2>3, <2>5, <2>6
  <1>3. Len(d) \in Nat /\ Len(a) \in Nat /\ Len(j) \in Nat /\ Len(<<>>) = 0
    BY <1>2, LenProperties, EmptySeq
  <1>4. g = a \o j
    BY <1>1
  <1>5. (g = a /\ j = <<>>) \/ (g = j /\ a = <<>>)
    BY <1>2, <1>4, ConcatEmptySeq
  <1>6. /\ Len(g) \in Nat /\ Len(d) + Len(g) = k
        /\ \A i \in 1..Len(g) : g[i] = poll[Len(d) + i]
    <2>1. CASE g = a /\ j = <<>>
      BY ONLY <1>2, <1>3, <2>1
    <2>2. CASE g = j /\ a = <<>>
      BY ONLY <1>2, <1>3, <2>2
    <2> QED
      BY <1>5, <2>1, <2>2
  <1> DEFINE judged == [i \in 1..Len(d) |-> d[i].n]
             rest == [i \in 1..Len(g) |-> g[i].n]
             all == [i \in 1..k |-> poll[i].n]
             S == {poll[i].n : i \in 1..k}
  <1>7. judged \in Seq(S) /\ Len(judged) = Len(d)
    <2>1. \A i \in 1..Len(d) : i \in 1..k /\ d[i].n = poll[i].n
      BY <1>2, <1>3, <1>6
    <2>2. \A i \in 1..Len(d) : d[i].n \in S
      BY <2>1
    <2> QED
      BY <1>3, <2>2
  <1>8. rest \in Seq(S) /\ Len(rest) = Len(g)
    <2>1. \A i \in 1..Len(g) : Len(d) + i \in 1..k /\ g[i].n = poll[Len(d) + i].n
      BY <1>3, <1>6
    <2>2. \A i \in 1..Len(g) : g[i].n \in S
      BY <2>1
    <2> QED
      BY <1>6, <2>2
  <1>9. all \in Seq(S) /\ Len(all) = k
    <2>1. k \in Nat /\ \A i \in 1..k : poll[i].n \in S
      BY <1>2
    <2> QED
      BY ONLY <2>1 DEF all
  <1>10. /\ judged \o rest \in Seq(S) /\ Len(judged \o rest) = Len(d) + Len(g)
         /\ \A i \in 1..(Len(d) + Len(g)) : (judged \o rest)[i] = IF i <= Len(d) THEN judged[i] ELSE rest[i - Len(d)]
    <2>1. PICK p, q, T : p = judged /\ q = rest /\ T = S
      OBVIOUS
    <2>2. p \in Seq(T) /\ q \in Seq(T) /\ Len(p) = Len(d) /\ Len(q) = Len(g)
      BY <1>7, <1>8, <2>1
    <2>3. /\ p \o q \in Seq(T) /\ Len(p \o q) = Len(d) + Len(g)
          /\ \A i \in 1..(Len(d) + Len(g)) : (p \o q)[i] = IF i <= Len(d) THEN p[i] ELSE q[i - Len(d)]
      <3>1. /\ p \o q \in Seq(T) /\ Len(p \o q) = Len(p) + Len(q)
            /\ \A i \in 1..(Len(p) + Len(q)) : (p \o q)[i] = IF i <= Len(p) THEN p[i] ELSE q[i - Len(p)]
        BY ONLY <2>2, ConcatProperties
      <3> QED
        BY ONLY <2>2, <3>1
    <2> HIDE DEF judged, rest, S
    <2> QED
      BY ONLY <2>1, <2>3
  <1>11. ASSUME NEW i \in 1..k PROVE (judged \o rest)[i] = all[i]
    <2>1. CASE i <= Len(d)
      BY <1>2, <1>3, <1>6, <1>10, <2>1
    <2>2. CASE ~(i <= Len(d))
      <3>1. PICK m \in 1..Len(g) : i = Len(d) + m
        <4>1. i - Len(d) \in 1..Len(g) /\ i = Len(d) + (i - Len(d))
          BY <1>2, <1>3, <1>6, <2>2
        <4> QED
          BY <4>1
      <3>2. (judged \o rest)[i] = rest[m]
        BY <1>3, <1>6, <1>10, <2>2, <3>1
      <3> QED
        BY <1>6, <3>1, <3>2
    <2> QED
      BY <2>1, <2>2
  <1>12. judged \o rest = all
    <2> HIDE DEF judged, rest, all, S
    <2> QED
      BY <1>6, <1>9, <1>10, <1>11, SeqEqual
  <1>13. Decided => g = <<>>
    BY <1>1, <1>5 DEF Verdicts, Decided, Drained
  <1> QED
    BY <1>1, <1>12, <1>13

\* The invariant says what RecordsReadable does.
LEMMA InvReadable ==
  ASSUME PipelineInv
  PROVE  RecordsReadable
  <1>1. PipelineTypes
    <2>1. /\ handed + Len(pending) <= Len(log) /\ Len(decoded) <= Len(pending) /\ taken <= Len(polled)
      BY DEF PipelineInv, Polls, Verdicts
    <2>2. \A t \in Tasks : call[t].op \in {"none", "encode"}
      BY DEF PipelineInv, Roles
    <2>3. At(poller, "free") \/ (pending # <<>> /\ call[poller].op = "decode")
      <3>1. Len(decoded) \in Nat /\ Len(<<>>) = 0
        BY LenProperties, EmptySeq DEF PipelineInv, Polls
      <3>2. Len(decoded) < Len(pending) => pending # <<>>
        BY <3>1
      <3> QED
        BY <3>2 DEF PipelineInv, Roles
    <2>4. \A t \in Tasks \cup {poller} : At(t, "prepare") => call[t].slot \in DOMAIN slots
      BY DEF PipelineInv, CodecInv, SlotsAgree, KeepsOnly, Callers
    <2>5. now \in Nat
      BY DEF PipelineInv, CodecInv, Versions
    <2> QED
      BY <2>1, <2>2, <2>3, <2>4, <2>5 DEF PipelineTypes
  <1>2. FramesSelfDescribing
    BY DescribedReadsBack DEF PipelineInv
  <1>3. PreparedCacheIsBounded
    BY DEF PipelineInv, CodecInv, Queued
  <1>4. DecisionsFollowThePoll
    BY InStepFollows DEF PipelineInv
  <1> QED
    BY <1>1, <1>2, <1>3, <1>4 DEF RecordsReadable

\* Only a step of the call itself takes it past the latest version.
LEMMA LatestMoves ==
  ASSUME PipelineInv, [PipelineNext]_pipelineVars, NEW t \in Callers,
         call[t].stage \in {"latest", "got_latest"}, call'[t].stage \in {"slot", "stored"}
  PROVE  Latest(t) \/ (Receive(t) /\ At(t, "got_latest"))
  <1>1. call'[t] # call[t]
    OBVIOUS
  <1>2. t # poller
    BY DEF PipelineInv, Roles, At
  <1>3. ASSUME Moves(poller) PROVE FALSE
    BY <1>1, <1>2, <1>3 DEF Moves
  <1>4. PipelineNext
    BY <1>1 DEF pipelineVars, codecVars
  <1>5. ~FilterStep /\ ~RegistryStep /\ ~PollStep
    BY <1>1, <1>3, FilterStepSound, RegistryStepSound, PollSound, NextDecodeSound, DecodeDoneSound, HandOverSound,
       ResubscribeSound DEF PollStep
  <1>6. PICK u \in Callers : TaskStep(u)
    BY <1>4, <1>5 DEF PipelineNext, Callers
  <1>7. Moves(u)
    BY <1>6, TaskStepSound
  <1>8. u = t
    BY <1>1, <1>7 DEF Moves
  <1>9. CallStep(t)
    BY <1>6, <1>8 DEF TaskStep
  <1>10. /\ ~Encode(t) /\ ~Decode(t) /\ ~ById(t) /\ ~RegistryAnswers(t) /\ ~RegistryFails(t) /\ ~TakeSlot(t)
         /\ ~Prepare(t) /\ ~Retry(t)
    BY DEF Encode, Decode, ById, RegistryAnswers, RegistryFails, TakeSlot, Prepare, Retry, At
  <1>11. Receive(t) => At(t, "got_latest")
    BY DEF Receive, At
  <1> QED
    BY <1>9, <1>10, <1>11 DEF CallStep

\* What such a step takes is recent.
LEMMA LatestStep ==
  ASSUME PipelineInv, [PipelineNext]_pipelineVars, NEW t \in DOMAIN call,
         call[t].stage \in {"latest", "got_latest"}, call'[t].stage \in {"slot", "stored"},
         NEW at \in ToSet(Superseded(IF call'[t].stage = "slot" THEN call'[t].id ELSE Last(log').wire.id))
  PROVE  now - at < latest_cache_ttl + MaxFlight
  <1>1. t \in Callers /\ CodecInv
    BY DEF PipelineInv, CodecInv, CallShapes
  <1>2. Latest(t) \/ (Receive(t) /\ At(t, "got_latest"))
    BY <1>1, LatestMoves
  <1>3. PICK id \in Ids : Ready(t, id) /\ Recent(id)
    <2>1. CASE Latest(t)
      BY <1>1, <2>1, LatestSound
    <2>2. CASE Receive(t) /\ At(t, "got_latest")
      BY <1>1, <2>2, ReceiveSound
    <2> QED
      BY <1>2, <2>1, <2>2
  <1>4. id = IF call'[t].stage = "slot" THEN call'[t].id ELSE Last(log').wire.id
    <2>1. CASE call'[t].stage = "slot"
      BY <1>3, <2>1 DEF Ready
    <2>2. CASE call'[t].stage = "stored"
      <3>1. PICK wire : wire.id = id /\ log' = Append(log, [wire |-> wire, sent |-> <<>>])
        BY <1>3, <2>2 DEF Ready
      <3>2. PICK e : e = [wire |-> wire, sent |-> <<>>]
        OBVIOUS
      <3>3. e.wire = wire /\ log' = Append(log, e)
        BY <3>1, <3>2
      <3>4. log \in Seq(ToSet(log))
        BY <1>1 DEF CodecInv, Described
      <3>5. Len(log') = Len(log) + 1 /\ log'[Len(log) + 1] = e
        BY <3>3, <3>4, Grows
      <3>6. Last(log') = e
        BY <3>5 DEF Last
      <3> QED
        BY <2>2, <3>1, <3>3, <3>6
    <2> QED
      BY <2>1, <2>2
  <1>5. at \in ToSet(Superseded(id))
    BY <1>4
  <1>6. id \in Nat /\ Len(registry.since) = Len(registry.schemas) /\ Len(registry.since) \in Nat
    BY <1>1, <1>3, LenProperties DEF CodecInv, Versions, Recent
  <1>7. CASE id < Len(registry.since)
    <2>1. Superseded(id) = <<registry.since[id + 1]>> /\ id + 1 \in Ids
      BY <1>6, <1>7 DEF Superseded, Ids
    <2>2. at = registry.since[id + 1]
      BY <1>5, <2>1 DEF ToSet
    <2> QED
      BY <1>3, <2>1, <2>2 DEF Recent
  <1>8. CASE ~(id < Len(registry.since))
    <2>1. ToSet(Superseded(id)) = {}
      BY <1>8 DEF Superseded, ToSet
    <2> QED
      BY <1>5, <2>1
  <1> QED
    BY <1>7, <1>8

\* The invariant holds throughout.
LEMMA PipelineHolds == PipelineSpec => []PipelineInv
  <1>1. PipelineInit => PipelineInv
    BY PipelineStarts
  <1>2. PipelineInv /\ [PipelineNext]_pipelineVars => PipelineInv'
    BY PipelineStepSound
  <1> QED
    BY <1>1, <1>2, PTL DEF PipelineSpec

\* Whatever registries, producers, evictions and outages do, a stored document
\* is read back by the schema its frame names, the cache of prepared schemas
\* stays in bounds with its eviction queue, and the filter gives a poll its
\* verdicts in order (schema/codec.rs, schema/registry.rs, filter.rs).
THEOREM StoredRecordsAreReadable == PipelineSpec => []RecordsReadable
  <1>1. PipelineInv => RecordsReadable
    BY InvReadable
  <1> QED
    BY <1>1, PipelineHolds, PTL

\* An encode never takes a version superseded as long ago as the cache's
\* lifetime and a registry round trip (SchemaRegistryClient::latest).
THEOREM LatestStaysRecent == PipelineSpec => LatestIsRecent
  <1> DEFINE Fresh == \A t \in DOMAIN call :
          call[t].stage \in {"latest", "got_latest"} /\ call'[t].stage \in {"slot", "stored"} =>
              \A at \in ToSet(Superseded(IF call'[t].stage = "slot" THEN call'[t].id ELSE Last(log').wire.id)) :
                  now - at < latest_cache_ttl + MaxFlight
  <1>1. PipelineInv /\ [PipelineNext]_pipelineVars => [Fresh]_codecVars
    BY LatestStep
  <1> QED
    BY <1>1, PipelineHolds, PTL DEF PipelineSpec, LatestIsRecent

=============================================================================
