--------------------------- MODULE Outbound_proofs ---------------------------
(* Proofs about Outbound, for every number of members, partitions, records,  *)
(* attempts and faults.                                                      *)
EXTENDS Outbound, TLAPS

OInv == TypeOK /\ BatchInv

\* At the start nothing is committed.
LEMMA OInit == Init => OInv
  <1> SUFFICES ASSUME Init PROVE OInv
    OBVIOUS
  <1>1. TypeOK
    BY BoundsAssumption DEF Init, TypeOK
  <1>2. BatchInv
    BY NoneAssumption DEF Init, BatchInv, Covers, Through
  <1> QED
    BY <1>1, <1>2 DEF OInv

\* What is covered stays covered as more settles.
LEMMA CoversMore ==
  ASSUME NEW T, NEW U, T \subseteq U, NEW n, Covers(T, n)
  PROVE  Covers(U, n)
  BY DEF Covers

\* deliver_one leaves offset o of p through: one record less in the batch.
LEMMA AdvanceSound ==
  ASSUME OInv, NEW m \in Members, NEW p \in Partitions, NEW o \in batch[m][p],
         Delivering(m, p, o), Advance(m, p, o),
         settled' \in [Partitions -> SUBSET Nat], lost' \in [Partitions -> SUBSET Nat],
         \A q \in Partitions : Through(q) \subseteq Through(q)',
         o \in Through(p)',
         posted' = posted \/ posted' = [posted EXCEPT ![p] = @ \cup {o}]
  PROVE  OInv'
  <1>0. o \in Nat /\ batch[m][p] \subseteq Nat
    BY DEF OInv, TypeOK
  <1>1. TypeOK'
    <2>1. posted' \in [Partitions -> SUBSET Nat]
      <3>1. CASE posted' = posted
        BY <3>1 DEF OInv, TypeOK
      <3>2. CASE posted' = [posted EXCEPT ![p] = @ \cup {o}]
        BY <1>0, <3>2 DEF OInv, TypeOK
      <3> QED
        BY <3>1, <3>2
    <2>2. batch' \in [Members -> [Partitions -> SUBSET Nat]]
      BY DEF OInv, TypeOK, Advance
    <2>3. attempt' \in [Members -> [Partitions -> 0 .. max_attempts - 1]]
      <3>1. 0 \in 0 .. max_attempts - 1
        BY BoundsAssumption
      <3> QED
        BY <3>1 DEF OInv, TypeOK, Advance
    <2> QED
      BY <2>1, <2>2, <2>3 DEF OInv, TypeOK, Advance
  <1>2. Covers(Through(p)', o)
    BY <1>0 DEF Covers, OInv, BatchInv, Delivering, is_next
  <1>3. coord' = coord /\ position' = position /\ pc' = pc /\ committed' = committed
    BY DEF Advance
  <1>4. ASSUME NEW r \in Members, NEW q \in Partitions
        PROVE  /\ coord'[q] = r => Covers(Through(q)' \cup batch'[r][q], position'[r][q])
               /\ \A x \in batch'[r][q] : Covers(Through(q)' \cup batch'[r][q], x)
               /\ pc'[r] # "deliver" => batch'[r][q] = {}
    <2>1. CASE r = m /\ q = p
      <3>1. batch'[r][q] = batch[m][p] \ {o}
        BY <2>1 DEF Advance, OInv, TypeOK
      <3>2. Through(p) \cup batch[m][p] \subseteq Through(p)' \cup batch'[r][q]
        BY <3>1, <2>1
      <3> QED
        BY <1>3, <2>1, <3>1, <3>2 DEF OInv, BatchInv, Delivering, Covers
    <2>2. CASE r # m \/ q # p
      <3>1. batch'[r][q] = batch[r][q]
        BY <2>2 DEF Advance, OInv, TypeOK
      <3>2. Through(q) \cup batch[r][q] \subseteq Through(q)' \cup batch'[r][q]
        BY <3>1
      <3> QED
        BY <1>3, <3>1, <3>2 DEF OInv, BatchInv, Covers
    <2> QED
      BY <2>1, <2>2
  <1>5. ASSUME NEW q \in Partitions
        PROVE  Covers(Through(q)', committed'[q]) /\ \A x \in posted'[q] : Covers(Through(q)', x)
    <2>1. \A x \in posted[q] \cup {committed[q]} : Covers(Through(q)', x)
      BY CoversMore DEF OInv, BatchInv
    <2>2. \A x \in posted'[q] : x \in posted[q] \/ (q = p /\ x = o)
      BY DEF OInv, TypeOK
    <2> QED
      BY <1>2, <1>3, <2>1, <2>2
  <1>6. BatchInv'
    BY <1>4, <1>5 DEF BatchInv
  <1> QED
    BY <1>1, <1>6 DEF OInv

\* dead_letter and a delivery: what is through stays through.
LEMMA SettleSound ==
  ASSUME OInv, NEW p \in Partitions, NEW o \in Nat, dead_letter(p, o)
  PROVE  /\ settled' \in [Partitions -> SUBSET Nat] /\ lost' \in [Partitions -> SUBSET Nat]
         /\ \A q \in Partitions : Through(q) \subseteq Through(q)'
         /\ o \in Through(p)'
  <1>1. CASE Settle(p, o)
    BY <1>1 DEF Settle, OInv, TypeOK, Through
  <1>2. CASE lost' = [lost EXCEPT ![p] = @ \cup {o}] /\ UNCHANGED settled
    BY <1>2 DEF OInv, TypeOK, Through
  <1> QED
    BY <1>1, <1>2 DEF dead_letter

\* One step per action.
LEMMA OStep == OInv /\ [Next]_vars => OInv'
  <1> SUFFICES ASSUME OInv, [Next]_vars PROVE OInv'
    OBVIOUS
  <1>0. TypeOK /\ BatchInv
    BY DEF OInv
  <1>1. ASSUME NEW m \in Members, Poll(m) PROVE OInv'
    <2>1. PICK n \in [Partitions -> Offsets] :
            /\ \A p \in Partitions :
                 \/ coord[p] = m /\ position[m][p] <= n[p] /\ n[p] <= End[p]
                 \/ n[p] = position[m][p]
            /\ batch' = [batch EXCEPT ![m] = [p \in Partitions |-> position[m][p] .. n[p] - 1]]
            /\ position' = [position EXCEPT ![m] = n]
      BY <1>1 DEF Poll
    <2>2. Offsets \subseteq Nat
      BY LogAssumption DEF Offsets
    <2>3. \A p \in Partitions : n[p] \in Nat /\ position[m][p] \in Nat
      BY <1>0, <2>2 DEF TypeOK
    <2>4. n \in [Partitions -> Nat]
      BY <2>2
    <2>5. TypeOK'
      <3>1. [p \in Partitions |-> position[m][p] .. n[p] - 1] \in [Partitions -> SUBSET Nat]
        BY <2>3
      <3>2. batch' \in [Members -> [Partitions -> SUBSET Nat]]
        BY <1>0, <2>1, <3>1 DEF TypeOK
      <3>3. position' \in [Members -> [Partitions -> Nat]]
        BY <1>0, <2>1, <2>4 DEF TypeOK
      <3>4. /\ pc' \in [Members -> {"poll", "deliver", "commit", "down"}]
            /\ UNCHANGED <<committed, coord, attempt, posted, settled, lost, faults>>
        BY <1>0, <1>1 DEF TypeOK, Poll
      <3> QED
        BY <1>0, <3>2, <3>3, <3>4 DEF TypeOK
    <2>6. \A p \in Partitions : Through(p)' = Through(p)
      BY <1>1 DEF Poll, Through
    <2>7. ASSUME NEW r \in Members, NEW q \in Partitions
          PROVE  /\ coord'[q] = r => Covers(Through(q)' \cup batch'[r][q], position'[r][q])
                 /\ \A x \in batch'[r][q] : Covers(Through(q)' \cup batch'[r][q], x)
                 /\ pc'[r] # "deliver" => batch'[r][q] = {}
      <3>1. CASE r = m
        <4>1. /\ batch'[r][q] = position[m][q] .. n[q] - 1 /\ position'[r][q] = n[q]
              /\ pc'[r] = "deliver" /\ coord' = coord /\ batch[m][q] = {}
          BY <1>0, <1>1, <2>1, <3>1 DEF TypeOK, Poll, BatchInv
        <4>2. coord[q] = m => Covers(Through(q), position[m][q])
          BY <1>0, <4>1 DEF BatchInv, Covers
        <4>3. CASE coord[q] = m
          BY <2>1, <2>3, <2>6, <4>1, <4>2, <4>3 DEF Covers
        <4>4. CASE coord[q] # m
          <5>1. batch'[r][q] = {}
            BY <2>1, <2>3, <4>1, <4>4
          <5> QED
            BY <3>1, <4>1, <4>4, <5>1
        <4> QED
          BY <4>3, <4>4
      <3>2. CASE r # m
        <4>1. batch'[r][q] = batch[r][q] /\ position'[r][q] = position[r][q] /\ pc'[r] = pc[r]
          BY <1>0, <1>1, <2>1, <3>2 DEF TypeOK, Poll
        <4> QED
          BY <1>0, <1>1, <2>6, <4>1 DEF BatchInv, Poll
      <3> QED
        BY <3>1, <3>2
    <2>8. BatchInv'
      BY <1>0, <1>1, <2>6, <2>7 DEF BatchInv, Poll
    <2> QED
      BY <2>5, <2>8 DEF OInv
  <1>2. ASSUME NEW m \in Members, LoopEnds(m) PROVE OInv'
    <2>1. TypeOK'
      BY <1>0, <1>2, BoundsAssumption DEF TypeOK, LoopEnds, Fault, Leave
    <2>2. BatchInv'
      BY <1>0, <1>2, NoneAssumption DEF TypeOK, BatchInv, LoopEnds, Leave, Through
    <2> QED
      BY <2>1, <2>2 DEF OInv
  <1>3. ASSUME NEW m \in Members, BatchDone(m) PROVE OInv'
    <2>1. TypeOK'
      BY <1>0, <1>3 DEF TypeOK, BatchDone
    <2>2. BatchInv'
      BY <1>0, <1>3 DEF TypeOK, BatchInv, BatchDone, joined, Through
    <2> QED
      BY <2>1, <2>2 DEF OInv
  <1>4. ASSUME NEW m \in Members, Commit(m) PROVE OInv'
    <2>1. TypeOK'
      BY <1>0, <1>4 DEF TypeOK, Commit
    <2>2. \A p \in Partitions : Through(p)' = Through(p)
      BY <1>4 DEF Commit, Through
    <2>3. \A p \in Partitions : Covers(Through(p), committed'[p])
      BY <1>0, <1>4 DEF TypeOK, BatchInv, Commit, Covers
    <2>4. BatchInv'
      BY <1>0, <1>4, <2>2, <2>3 DEF TypeOK, BatchInv, Commit
    <2> QED
      BY <2>1, <2>4 DEF OInv
  <1>5. ASSUME NEW m \in Members, CommitFails(m) PROVE OInv'
    <2>1. TypeOK'
      BY <1>0, <1>5, BoundsAssumption DEF TypeOK, CommitFails, Fault
    <2>2. BatchInv'
      BY <1>0, <1>5 DEF TypeOK, BatchInv, CommitFails, Through
    <2> QED
      BY <2>1, <2>2 DEF OInv
  <1>6. ASSUME NEW m \in Members, Crash(m) PROVE OInv'
    <2>1. committed' \in [Partitions -> Nat]
      BY <1>0, <1>6 DEF TypeOK, Crash
    <2>2. TypeOK'
      <3>1. 0 \in 0 .. max_attempts - 1
        BY BoundsAssumption
      <3> QED
        BY <1>0, <1>6, <2>1, <3>1, BoundsAssumption DEF TypeOK, Crash, Fault, Leave
    <2>3. \A p \in Partitions : Through(p)' = Through(p)
      BY <1>6 DEF Crash, Through
    <2>4. \A p \in Partitions : Covers(Through(p), committed'[p])
      BY <1>0, <1>6 DEF TypeOK, BatchInv, Crash, Covers
    <2>5. ASSUME NEW r \in Members, NEW q \in Partitions
          PROVE  /\ coord'[q] = r => Covers(Through(q)' \cup batch'[r][q], position'[r][q])
                 /\ \A x \in batch'[r][q] : Covers(Through(q)' \cup batch'[r][q], x)
                 /\ pc'[r] # "deliver" => batch'[r][q] = {}
      <3>1. CASE r = m
        <4>1. batch'[r][q] = {} /\ coord'[q] # r
          BY <1>0, <1>6, <3>1, NoneAssumption DEF TypeOK, Crash, Leave
        <4> QED
          BY <4>1
      <3>2. CASE r # m
        <4>1. /\ batch'[r][q] = batch[r][q] /\ position' = position /\ pc'[r] = pc[r]
              /\ coord'[q] = r => coord[q] = r
          BY <1>0, <1>6, <3>2, NoneAssumption DEF TypeOK, Crash, Leave
        <4> QED
          BY <1>0, <2>3, <4>1 DEF BatchInv
      <3> QED
        BY <3>1, <3>2
    <2>6. BatchInv'
      BY <1>0, <1>6, <2>3, <2>4, <2>5 DEF BatchInv, Crash
    <2> QED
      BY <2>2, <2>6 DEF OInv
  <1>7. ASSUME NEW m \in Members, Start(m) PROVE OInv'
    <2>1. TypeOK'
      BY <1>0, <1>7 DEF TypeOK, Start
    <2>2. BatchInv'
      BY <1>0, <1>7 DEF TypeOK, BatchInv, Start, Through
    <2> QED
      BY <2>1, <2>2 DEF OInv
  <1>8. ASSUME NEW m \in Members, NEW p \in Partitions, Assign(m, p) PROVE OInv'
    <2>1. TypeOK'
      BY <1>0, <1>8 DEF TypeOK, Assign
    <2>2. \A q \in Partitions : Through(q)' = Through(q)
      BY <1>8 DEF Assign, Through
    <2>3. ASSUME NEW r \in Members, NEW q \in Partitions, coord'[q] = r
          PROVE  Covers(Through(q)' \cup batch'[r][q], position'[r][q])
      <3>1. CASE q = p
        <4>1. r = m /\ position'[r][q] = committed[p]
          BY <1>0, <1>8, <2>3, <3>1 DEF TypeOK, Assign
        <4> QED
          BY <1>0, <2>2, <3>1, <4>1 DEF BatchInv, Covers
      <3>2. CASE q # p
        <4>1. coord[q] = r /\ position'[r][q] = position[r][q] /\ batch' = batch
          BY <1>0, <1>8, <2>3, <3>2 DEF TypeOK, Assign
        <4> QED
          BY <1>0, <2>2, <4>1 DEF BatchInv
      <3> QED
        BY <3>1, <3>2
    <2>4. BatchInv'
      BY <1>0, <1>8, <2>2, <2>3 DEF BatchInv, Assign
    <2> QED
      BY <2>1, <2>4 DEF OInv
  <1>9. ASSUME NEW m \in Members, NEW p \in Partitions, NEW o \in batch[m][p],
               Skip(m, p, o) \/ RenderFails(m, p, o) \/ Delivered(m, p, o) \/ Exhausted(m, p, o)
        PROVE  OInv'
    <2>1. Delivering(m, p, o) /\ Advance(m, p, o) /\ dead_letter(p, o)
      BY <1>9 DEF Skip, RenderFails, Delivered, Exhausted, Post, dead_letter
    <2>2. posted' = posted \/ posted' = [posted EXCEPT ![p] = @ \cup {o}]
      BY <1>9 DEF Skip, RenderFails, Delivered, Exhausted, Post
    <2>3. o \in Nat
      BY <1>0 DEF TypeOK
    <2> QED
      BY <2>1, <2>2, <2>3, SettleSound, AdvanceSound
  <1>10. ASSUME NEW m \in Members, NEW p \in Partitions, NEW o \in batch[m][p], Retry(m, p, o)
         PROVE  OInv'
    <2>1. o \in Nat /\ attempt[m][p] + 1 \in 0 .. max_attempts - 1
      BY <1>0, <1>10, BoundsAssumption DEF TypeOK, Retry, next_attempt, exhausted
    <2>a. /\ posted' = [posted EXCEPT ![p] = @ \cup {o}]
          /\ attempt' = [attempt EXCEPT ![m][p] = @ + 1]
      BY <1>10 DEF Retry, Post, next_attempt
    <2>b. posted' \in [Partitions -> SUBSET Nat]
      BY <1>0, <2>1, <2>a DEF TypeOK
    <2>c. attempt' \in [Members -> [Partitions -> 0 .. max_attempts - 1]]
      BY <1>0, <2>1, <2>a DEF TypeOK
    <2>2. TypeOK'
      BY <1>0, <1>10, <2>b, <2>c DEF TypeOK, Retry
    <2>3. Covers(Through(p), o)
      <3>1. batch[m][p] \subseteq Nat /\ \A x \in batch[m][p] : o <= x
        BY <1>0, <1>10 DEF TypeOK, Retry, Post, Delivering, is_next
      <3>2. Covers(Through(p) \cup batch[m][p], o)
        BY <1>0 DEF BatchInv
      <3> QED
        BY <2>1, <3>1, <3>2 DEF Covers
    <2>4. \A q \in Partitions : \A x \in posted'[q] : x \in posted[q] \/ (q = p /\ x = o)
      BY <1>0, <2>a DEF TypeOK
    <2>5. \A q \in Partitions : Through(q)' = Through(q)
      BY <1>10 DEF Retry, Through
    <2>6. \A q \in Partitions : \A x \in posted'[q] : Covers(Through(q)', x)
      BY <1>0, <2>3, <2>4, <2>5 DEF BatchInv
    <2>7. UNCHANGED <<committed, coord, position, pc, batch>>
      BY <1>10 DEF Retry
    <2>8. ASSUME NEW r \in Members, NEW q \in Partitions
          PROVE  /\ coord'[q] = r => Covers(Through(q)' \cup batch'[r][q], position'[r][q])
                 /\ \A x \in batch'[r][q] : Covers(Through(q)' \cup batch'[r][q], x)
                 /\ pc'[r] # "deliver" => batch'[r][q] = {}
      BY <1>0, <2>5, <2>7 DEF BatchInv
    <2>9. \A q \in Partitions : Covers(Through(q)', committed'[q])
      BY <1>0, <2>5, <2>7 DEF BatchInv
    <2>10. BatchInv'
      BY <2>6, <2>8, <2>9 DEF BatchInv
    <2> QED
      BY <2>2, <2>10 DEF OInv
  <1>11. ASSUME NEW p \in Partitions, Revoke(p) PROVE OInv'
    <2>1. TypeOK'
      BY <1>0, <1>11, BoundsAssumption DEF TypeOK, Revoke, Fault
    <2>2. BatchInv'
      BY <1>0, <1>11, NoneAssumption DEF TypeOK, BatchInv, Revoke, Through
    <2> QED
      BY <2>1, <2>2 DEF OInv
  <1>12. ASSUME UNCHANGED vars PROVE OInv'
    BY <1>0, <1>12 DEF vars, OInv, TypeOK, BatchInv, Through
  <1> QED
    BY <1>1, <1>2, <1>3, <1>4, <1>5, <1>6, <1>7, <1>8, <1>9, <1>10, <1>11, <1>12
       DEF Next, PollEmpty

\* So it always holds.
LEMMA OuterInv == Spec => []OInv
  BY OInit, OStep, PTL DEF Spec

\* Crashes and rebalances in the middle of a batch never make the group commit
\* a record that is neither delivered nor given up on.
THEOREM NothingCommittedEarly == Spec => []CommitsSettledUnlessLost
  <1>1. OInv => CommitsSettledUnlessLost
    BY DEF OInv, TypeOK, BatchInv, Covers, CommitsSettledUnlessLost
  <1> QED
    BY <1>1, OuterInv, PTL

\* Whichever members have worked on a partition, its records reach the target in
\* offset order.
THEOREM OffsetOrder == Spec => []DeliveredInOrder
  <1>1. OInv => DeliveredInOrder
    BY DEF OInv, TypeOK, BatchInv, Covers, DeliveredInOrder
  <1> QED
    BY <1>1, OuterInv, PTL

=============================================================================
