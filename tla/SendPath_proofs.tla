--------------------------- MODULE SendPath_proofs ---------------------------
(* Proofs about SendPath, for every set of calls, batches, replicas, keys,   *)
(* ACLs and window capacities.                                               *)
EXTENDS SendPath, TLAPS

SInv == TypeOK /\ WindowInOrder

\* What one call looks like to the handler of another.
Same(d) ==
  /\ todo'[d] = todo[d] /\ next'[d] = next[d] /\ pc'[d] = pc[d]
  /\ pending'[d] = pending[d] /\ results'[d] = results[d]
  /\ peer'[d] = peer[d] /\ reply'[d] = reply[d]

\* Deliveries start and settle; none is forgotten.
Kept == \A x \in Records : delivery[x] # "none" => delivery'[x] # "none"

\* How an index moves.
LEMMA Count ==
  ASSUME NEW a \in Nat, NEW b \in Nat, NEW n, n = a + b + 1
  PROVE  n \in Nat /\ 1 <= n /\ n = a + (b + 1) /\ n + 1 = a + (b + 1) + 1
  OBVIOUS

\* A record passes from the window to the results.
LEMMA Shift ==
  ASSUME NEW a \in Nat, NEW b \in Nat
  PROVE  /\ a + (b + 1) = (a + 1) + b
         /\ b >= 1 => a + b + 1 = (a + 1) + (b - 1) + 1
  OBVIOUS

\* What one call holds.
LEMMA CallTyped ==
  ASSUME SInv, NEW c \in Calls
  PROVE  /\ CallInOrder(c)
         /\ todo[c] \in Seq(Records) /\ Len(todo[c]) \in Nat
         /\ pending[c] \in Seq(Records) /\ Len(pending[c]) \in Nat
         /\ results[c] \in Seq([rec: Records, result: RecordResults])
         /\ Len(results[c]) \in Nat
         /\ next[c] \in Nat /\ pc[c] \in PCs
  <1>1. CallInOrder(c)
    BY DEF SInv, WindowInOrder
  <1>2. /\ todo[c] \in Seq(Records) /\ pending[c] \in Seq(Records)
        /\ results[c] \in Seq([rec: Records, result: RecordResults])
        /\ next[c] \in Nat /\ pc[c] \in PCs
    BY DEF SInv, TypeOK, HandlerTypeOK
  <1>3. Len(todo[c]) \in Nat /\ Len(pending[c]) \in Nat
    BY <1>2
  <1>4. Len(results[c]) \in Nat
    BY <1>2
  <1> QED
    BY <1>1, <1>2, <1>3, <1>4

\* The record a handler is at.
LEMMA CurrentIsRecord ==
  ASSUME SInv, NEW c \in Calls, AtRecord(c)
  PROVE  Current(c) \in Records /\ next[c] \in 1..Len(todo[c])
  <1>1. next[c] = Len(results[c]) + Len(pending[c]) + 1
    BY CallTyped DEF CallInOrder
  <1>2. next[c] \in 1..Len(todo[c])
    <2>1. 1 <= next[c]
      BY <1>1, CallTyped, Count
    <2>2. next[c] \in Nat /\ Len(todo[c]) \in Nat
      BY CallTyped
    <2> QED
      BY <2>1, <2>2 DEF AtRecord
  <1>3. todo[c][next[c]] \in Records
    BY <1>2, CallTyped
  <1> QED
    BY <1>2, <1>3 DEF Current

\* A call that a step leaves alone stays in order.
LEMMA FrameInOrder ==
  ASSUME SInv, NEW d \in Calls, Same(d), Kept
  PROVE  CallInOrder(d)'
  <1>1. CallInOrder(d) /\ pending[d] \in Seq(Records)
    BY DEF SInv, WindowInOrder, TypeOK, HandlerTypeOK
  <1>2. \A j \in 1..Len(pending[d]) : pending[d][j] \in Records
    BY <1>1
  <1> QED
    BY <1>1, <1>2 DEF CallInOrder, Same, Kept

\* At the start nothing is taken.
LEMMA InitInv == Init => SInv
  <1> SUFFICES ASSUME Init PROVE SInv
    OBVIOUS
  <1>1. HandlerTypeOK /\ ForwardTypeOK
    BY SendAssumption DEF Init, HandlerTypeOK, ForwardTypeOK, PCs, Outcomes
  <1>2. TypeOK
    BY <1>1, SendAssumption DEF Init, TypeOK
  <1>3. WindowInOrder
    BY SendAssumption DEF Init, WindowInOrder, CallInOrder, InKeyed
  <1> QED
    BY <1>2, <1>3 DEF SInv

\* A result is one.
LEMMA ResultTyped ==
  ASSUME NEW x \in Records, NEW out \in Outcomes
  PROVE  /\ Result(x, out) \in [rec: Records, result: RecordResults]
         /\ Result(x, out).rec = x
  <1>1. error_result(out) \in RecordResults
    BY DEF error_result, RecordResults, Outcomes
  <1> QED
    BY <1>1 DEF Result

\* push keeps the window in order and within its capacity.
LEMMA PushSound ==
  ASSUME SInv, NEW c \in Calls, pc[c] = "next", AtRecord(c),
         NEW state \in Outcomes \cup {"sent"}, push(c, Current(c), state),
         UNCHANGED <<acks, todo, results, forwardVars, resends>>,
         faults' \in 0..MaxFaults, log' = log
  PROVE  SInv'
  <1> DEFINE x == Current(c)
  <1>1. x \in Records /\ next[c] \in 1..Len(todo[c])
    BY CurrentIsRecord
  <1>2. /\ pending[c] \in Seq(Records) /\ Len(pending[c]) \in Nat
        /\ Len(pending[c]) < SEND_WINDOW_CAPACITY
        /\ Len(results[c]) \in Nat /\ Len(todo[c]) \in Nat
        /\ next[c] = Len(results[c]) + Len(pending[c]) + 1
    <2>1. Len(pending[c]) < SEND_WINDOW_CAPACITY
      BY DEF SInv, TypeOK
    <2> QED
      BY <2>1, CallTyped DEF CallInOrder
  <1>3. /\ pending'[c] = Append(pending[c], x)
        /\ next'[c] = next[c] + 1
        /\ delivery'[x] = state
        /\ pc'[c] = IF Len(pending[c]) + 1 = SEND_WINDOW_CAPACITY THEN "drain" ELSE "next"
    BY <1>1 DEF SInv, TypeOK, HandlerTypeOK, push, Goto
  <1>4. pending'[c] \in Seq(Records) /\ Len(pending'[c]) = Len(pending[c]) + 1
    BY <1>1, <1>2, <1>3
  <1>5. HandlerTypeOK'
    <2>1. next' \in [Calls -> Nat]
      <3>1. next[c] + 1 \in Nat
        BY <1>1
      <3> QED
        BY <3>1 DEF push, SInv, TypeOK, HandlerTypeOK
    <2>2. pending' \in [Calls -> Seq(Records)]
      BY <1>3, <1>4 DEF push, SInv, TypeOK, HandlerTypeOK
    <2>3. pc' \in [Calls -> PCs]
      BY DEF push, Goto, SInv, TypeOK, HandlerTypeOK, PCs
    <2>4. delivery' \in [Records -> Outcomes \cup {"none", "sent"}]
      BY <1>1 DEF push, SInv, TypeOK, HandlerTypeOK
    <2> QED
      BY <2>1, <2>2, <2>3, <2>4 DEF SInv, TypeOK, HandlerTypeOK
  <1>6. Kept
    BY <1>1 DEF Kept, push, SInv, TypeOK, HandlerTypeOK, Outcomes
  <1>7. \A d \in Calls \ {c} : Same(d)
    BY DEF Same, push, Goto, SInv, TypeOK, HandlerTypeOK, ForwardTypeOK, forwardVars
  <1>8. TypeOK'
    <2>1. ASSUME NEW d \in Calls
          PROVE  /\ Len(pending'[d]) <= SEND_WINDOW_CAPACITY
                 /\ pc'[d] = "next" => Len(pending'[d]) < SEND_WINDOW_CAPACITY
      <3>1. CASE d = c
        BY <3>1, <1>2, <1>3, <1>4, SendAssumption
      <3>2. CASE d # c
        BY <3>2, <1>7 DEF Same, SInv, TypeOK
      <3> QED
        BY <3>1, <3>2
    <2> QED
      BY <1>5, <2>1 DEF TypeOK, SInv, ForwardTypeOK, forwardVars
  <1>9. CallInOrder(c)'
    <2>1. todo'[c] = todo[c] /\ results'[c] = results[c]
      OBVIOUS
    <2>2. \A j \in 1..Len(pending'[c]) :
            /\ pending'[c][j] = todo[c][Len(results[c]) + j]
            /\ delivery'[pending'[c][j]] # "none"
      <3> TAKE j \in 1..Len(pending'[c])
      <3>1. CASE j = Len(pending[c]) + 1
        <4>1. pending'[c][j] = x
          BY <3>1, <1>2, <1>3
        <4>2. next[c] = Len(results[c]) + j
          BY <3>1, <1>2, Count
        <4> QED
          BY <4>1, <4>2, <1>3 DEF Current, Outcomes
      <3>2. CASE j \in 1..Len(pending[c])
        <4>1. pending'[c][j] = pending[c][j] /\ pending[c][j] \in Records
          BY <3>2, <1>2, <1>3
        <4> QED
          BY <4>1, <3>2, <1>6, CallTyped DEF CallInOrder, Kept
      <3> QED
        BY <3>1, <3>2, <1>4, <1>2
    <2>3. pc'[c] \notin InKeyed \cup {"done"}
      BY <1>3 DEF InKeyed
    <2>4. next'[c] = Len(results[c]) + Len(pending'[c]) + 1 /\ next'[c] <= Len(todo[c]) + 1
      <3>1. next[c] + 1 = Len(results[c]) + (Len(pending[c]) + 1) + 1
        BY <1>2, Count
      <3>0. Len(todo[c]) \in Nat
        BY <1>2
      <3>2. next[c] + 1 <= Len(todo[c]) + 1
        BY <1>1, <3>0
      <3> QED
        BY <3>1, <3>2, <1>3, <1>4
    <2> QED
      BY <2>1, <2>2, <2>3, <2>4, CallTyped DEF CallInOrder, InKeyed
  <1> QED
    BY <1>6, <1>7, <1>8, <1>9, FrameInOrder DEF SInv, WindowInOrder

Entries == Seq([rec: Records, value: {"as sent", "encoded", "empty"}])

\* Append stays among sequences.
LEMMA AppendTyped ==
  ASSUME NEW S, NEW s \in Seq(S), NEW e \in S
  PROVE  Append(s, e) \in Seq(S)
  OBVIOUS

\* The log stays typed.
LEMMA StoreTyped ==
  ASSUME SInv, NEW x \in Records, NEW v \in {"as sent", "encoded", "empty"}, Store(x, v)
  PROVE  log' \in Entries
  <1>1. log \in Entries
    BY DEF SInv, TypeOK, Entries
  <1>2. [rec |-> x, value |-> v] \in [rec: Records, value: {"as sent", "encoded", "empty"}]
    OBVIOUS
  <1>3. Append(log, [rec |-> x, value |-> v]) \in Entries
    BY <1>1, <1>2, AppendTyped DEF Entries
  <1> QED
    BY <1>3 DEF Store

\* Failures stay within their bound.
LEMMA FaultTyped ==
  ASSUME SInv, Fault
  PROVE  faults' \in 0..MaxFaults
  <1>1. faults \in 0..MaxFaults /\ MaxFaults \in Nat
    BY SendAssumption DEF SInv, TypeOK
  <1>2. faults < MaxFaults /\ faults' = faults + 1
    BY DEF Fault
  <1> QED
    BY <1>1, <1>2

\* A delivery settles: the handlers do not move.
LEMMA DeliverySound ==
  ASSUME SInv, NEW x \in Records, NEW out \in Outcomes,
         delivery' = [delivery EXCEPT ![x] = out],
         UNCHANGED <<acks, todo, next, pc, pending, results, forwardVars, resends>>,
         log' \in Entries, faults' \in 0..MaxFaults
  PROVE  SInv'
  <1>1. delivery' \in [Records -> Outcomes \cup {"none", "sent"}]
    BY DEF SInv, TypeOK, HandlerTypeOK
  <1>2. TypeOK'
    BY <1>1 DEF SInv, TypeOK, HandlerTypeOK, ForwardTypeOK, forwardVars, Entries
  <1>3. Kept
    BY DEF Kept, SInv, TypeOK, HandlerTypeOK, Outcomes
  <1>4. \A d \in Calls : Same(d)
    BY DEF Same, forwardVars
  <1> QED
    BY <1>2, <1>3, <1>4, FrameInOrder DEF SInv, WindowInOrder

\* A handler moves on without touching its window or its results.
LEMMA MoveSound ==
  ASSUME SInv, NEW c \in Calls, NEW l \in PCs, Goto(c, l),
         UNCHANGED <<acks, todo, next, pending, delivery, results, resends>>,
         ForwardTypeOK', log' \in Entries, faults' \in 0..MaxFaults,
         \A d \in Calls \ {c} : peer'[d] = peer[d] /\ reply'[d] = reply[d],
         l = "next" => Len(pending[c]) < SEND_WINDOW_CAPACITY,
         l \in InKeyed \cup {"done"} => pending[c] = <<>>,
         l \in InKeyed => AtRecord(c),
         l \in {"forward", "reply"} => peer'[c] \in Replicas,
         l = "reply" => reply'[c] \in Outcomes
  PROVE  SInv'
  <1>1. pc' \in [Calls -> PCs] /\ pc'[c] = l /\ \A d \in Calls \ {c} : pc'[d] = pc[d]
    BY DEF SInv, TypeOK, HandlerTypeOK, Goto
  <1>2. TypeOK'
    <2>1. HandlerTypeOK'
      BY <1>1 DEF SInv, TypeOK, HandlerTypeOK
    <2>2. \A d \in Calls : /\ Len(pending'[d]) <= SEND_WINDOW_CAPACITY
                          /\ pc'[d] = "next" => Len(pending'[d]) < SEND_WINDOW_CAPACITY
      BY <1>1 DEF SInv, TypeOK
    <2> QED
      BY <2>1, <2>2 DEF SInv, TypeOK, Entries
  <1>3. \A d \in Calls \ {c} : Same(d)
    BY <1>1 DEF Same
  <1>4. Kept
    BY DEF Kept
  <1>5. CallInOrder(c)'
    BY <1>1, CallTyped DEF CallInOrder, AtRecord
  <1> QED
    BY <1>2, <1>3, <1>4, <1>5, FrameInOrder DEF SInv, WindowInOrder

\* drain yields the oldest record of the window.
LEMMA DrainSound ==
  ASSUME SInv, NEW c \in Calls, drain(c)
  PROVE  SInv'
  <1> DEFINE x == Head(pending[c])
             L == Len(results[c])
  <1>1. /\ pending[c] \in Seq(Records) /\ pending[c] # <<>> /\ Len(pending[c]) \in Nat
        /\ results[c] \in Seq([rec: Records, result: RecordResults]) /\ L \in Nat
        /\ next[c] = L + Len(pending[c]) + 1
    BY CallTyped DEF drain, CallInOrder
  <1>2. Len(pending[c]) >= 1 /\ x = pending[c][1] /\ x \in Records
    BY <1>1
  <1>n. 1 \in 1..Len(pending[c])
    BY <1>1, <1>2
  <1>3. delivery[x] \in Outcomes
    <2>0. delivery[pending[c][1]] # "none"
      BY <1>n, CallTyped DEF CallInOrder
    <2>1. delivery[x] # "none"
      BY <2>0, <1>2
    <2>2. delivery[x] # "sent"
      BY DEF drain
    <2> QED
      BY <1>2, <2>1, <2>2 DEF SInv, TypeOK, HandlerTypeOK
  <1>4. /\ Result(x, delivery[x]) \in [rec: Records, result: RecordResults]
        /\ Result(x, delivery[x]).rec = x
    BY <1>2, <1>3, ResultTyped
  <1>5. /\ results'[c] = Append(results[c], Result(x, delivery[x]))
        /\ pending'[c] = Tail(pending[c])
    BY DEF drain, SInv, TypeOK, HandlerTypeOK
  <1>6. /\ results'[c] \in Seq([rec: Records, result: RecordResults])
        /\ Len(results'[c]) = L + 1
        /\ \A i \in 1..L : results'[c][i] = results[c][i]
        /\ results'[c][L + 1] = Result(x, delivery[x])
    BY <1>1, <1>4, <1>5
  <1>7. /\ pending'[c] \in Seq(Records)
        /\ Len(pending'[c]) = Len(pending[c]) - 1
        /\ \A j \in 1..Len(pending'[c]) : pending'[c][j] = pending[c][j + 1]
    BY <1>1, <1>5
  <1>8. TypeOK'
    <2>1. results' \in [Calls -> Seq([rec: Records, result: RecordResults])]
      BY <1>5, <1>6 DEF drain, SInv, TypeOK, HandlerTypeOK
    <2>2. pending' \in [Calls -> Seq(Records)]
      BY <1>5, <1>7 DEF drain, SInv, TypeOK, HandlerTypeOK
    <2>3. HandlerTypeOK'
      BY <2>1, <2>2 DEF drain, SInv, TypeOK, HandlerTypeOK
    <2>4. ASSUME NEW d \in Calls
          PROVE  /\ Len(pending'[d]) <= SEND_WINDOW_CAPACITY
                 /\ pc'[d] = "next" => Len(pending'[d]) < SEND_WINDOW_CAPACITY
      <3>1. CASE d = c
        <4>1. Len(pending[c]) <= SEND_WINDOW_CAPACITY /\ pc'[c] = "drain"
          BY DEF drain, SInv, TypeOK
        <4> QED
          BY <4>1, <3>1, <1>1, <1>7, SendAssumption
      <3>2. CASE d # c
        BY <3>2 DEF drain, SInv, TypeOK, HandlerTypeOK
      <3> QED
        BY <3>1, <3>2
    <2> QED
      BY <2>3, <2>4 DEF drain, SInv, TypeOK, ForwardTypeOK, forwardVars
  <1>9. CallInOrder(c)'
    <2>1. \A i \in 1..Len(results'[c]) : results'[c][i].rec = todo[c][i]
      <3> TAKE i \in 1..Len(results'[c])
      <3>1. CASE i = L + 1
        <4>1. pending[c][1] = todo[c][L + 1]
          BY <1>n, CallTyped DEF CallInOrder
        <4> QED
          BY <4>1, <3>1, <1>2, <1>4, <1>6
      <3>2. CASE i \in 1..L
        BY <3>2, <1>6, CallTyped DEF CallInOrder
      <3> QED
        BY <3>1, <3>2, <1>1, <1>6
    <2>2. \A j \in 1..Len(pending'[c]) :
            /\ pending'[c][j] = todo[c][Len(results'[c]) + j]
            /\ delivery[pending'[c][j]] # "none"
      <3> TAKE j \in 1..Len(pending'[c])
      <3>1. j + 1 \in 1..Len(pending[c])
        BY <1>1, <1>7
      <3>2. pending[c][j + 1] = todo[c][L + (j + 1)] /\ delivery[pending[c][j + 1]] # "none"
        BY <3>1, CallTyped DEF CallInOrder
      <3>3. L + (j + 1) = Len(results'[c]) + j
        <4>1. L \in Nat /\ j \in Nat /\ Len(results'[c]) = L + 1
          BY <3>1, <1>1, <1>6, <1>7
        <4> QED
          BY <4>1, Shift
      <3> QED
        BY <3>2, <3>3, <1>7
    <2>3. next[c] = Len(results'[c]) + Len(pending'[c]) + 1
      <3>1. L \in Nat /\ Len(pending[c]) \in Nat /\ Len(pending[c]) >= 1
        BY <1>1, <1>2
      <3> QED
        BY <3>1, <1>1, <1>6, <1>7, Shift
    <2>4. pc[c] = "drain" /\ UNCHANGED <<todo, next, pc, delivery>>
      BY DEF drain
    <2> QED
      BY <2>1, <2>2, <2>3, <2>4, CallTyped DEF CallInOrder, InKeyed
  <1>10. \A d \in Calls \ {c} : Same(d)
    BY DEF Same, drain, SInv, TypeOK, HandlerTypeOK, forwardVars
  <1>11. Kept
    BY DEF Kept, drain
  <1> QED
    BY <1>8, <1>9, <1>10, <1>11, FrameInOrder DEF SInv, WindowInOrder

\* Finish appends the result of the keyed record; the window is empty.
LEMMA FinishSound ==
  ASSUME SInv, NEW c \in Calls, pc[c] \in InKeyed, NEW out \in Outcomes, Finish(c, out),
         late' \in SUBSET (Records \X Replicas), log' \in Entries, faults' \in 0..MaxFaults
  PROVE  SInv'
  <1> DEFINE x == Current(c)
             L == Len(results[c])
  <1>1. AtRecord(c) /\ pending[c] = <<>> /\ L \in Nat /\ Len(todo[c]) \in Nat
    BY CallTyped DEF CallInOrder, AtRecord
  <1>2. x \in Records /\ next[c] \in 1..Len(todo[c]) /\ next[c] = L + 1
    <2>1. Len(pending[c]) = 0
      BY <1>1
    <2>2. next[c] = L + Len(pending[c]) + 1
      BY CallTyped DEF CallInOrder
    <2> QED
      BY <1>1, <2>1, <2>2, CurrentIsRecord
  <1>3. /\ Result(x, out) \in [rec: Records, result: RecordResults]
        /\ Result(x, out).rec = x
    BY <1>2, ResultTyped
  <1>4. /\ results'[c] = Append(results[c], Result(x, out))
        /\ next'[c] = next[c] + 1 /\ pc'[c] = "next"
        /\ pending'[c] = <<>> /\ todo'[c] = todo[c]
    BY <1>1 DEF Finish, Goto, SInv, TypeOK, HandlerTypeOK
  <1>5. results[c] \in Seq([rec: Records, result: RecordResults])
    BY CallTyped
  <1>6. /\ results'[c] \in Seq([rec: Records, result: RecordResults])
        /\ Len(results'[c]) = L + 1
        /\ \A i \in 1..L : results'[c][i] = results[c][i]
        /\ results'[c][L + 1] = Result(x, out)
    BY <1>3, <1>4, <1>5
  <1>7. HandlerTypeOK'
    <2>1. results' \in [Calls -> Seq([rec: Records, result: RecordResults])]
      BY <1>4, <1>6 DEF Finish, SInv, TypeOK, HandlerTypeOK
    <2>2. next' \in [Calls -> Nat]
      <3>1. next[c] + 1 \in Nat
        BY <1>2
      <3> QED
        BY <3>1 DEF Finish, SInv, TypeOK, HandlerTypeOK
    <2>3. pc' \in [Calls -> PCs]
      BY DEF Finish, Goto, SInv, TypeOK, HandlerTypeOK, PCs
    <2> QED
      BY <2>1, <2>2, <2>3 DEF Finish, SInv, TypeOK, HandlerTypeOK
  <1>8. ForwardTypeOK'
    BY DEF Finish, SInv, TypeOK, ForwardTypeOK
  <1>9. \A d \in Calls \ {c} : Same(d)
    BY DEF Same, Finish, Goto, SInv, TypeOK, HandlerTypeOK, ForwardTypeOK
  <1>10. TypeOK'
    <2>1. ASSUME NEW d \in Calls
          PROVE  /\ Len(pending'[d]) <= SEND_WINDOW_CAPACITY
                 /\ pc'[d] = "next" => Len(pending'[d]) < SEND_WINDOW_CAPACITY
      <3>1. CASE d = c
        <4>1. Len(pending'[c]) = 0
          BY <1>4
        <4> QED
          BY <3>1, <4>1, SendAssumption
      <3>2. CASE d # c
        BY <3>2, <1>9 DEF Same, SInv, TypeOK
      <3> QED
        BY <3>1, <3>2
    <2> QED
      BY <1>7, <1>8, <2>1 DEF Finish, SInv, TypeOK, Entries
  <1>11. CallInOrder(c)'
    <2>1. \A i \in 1..Len(results'[c]) : results'[c][i].rec = todo[c][i]
      <3> TAKE i \in 1..Len(results'[c])
      <3>1. CASE i = L + 1
        BY <3>1, <1>2, <1>3, <1>6 DEF Current
      <3>2. CASE i \in 1..L
        BY <3>2, <1>6, CallTyped DEF CallInOrder
      <3> QED
        BY <3>1, <3>2, <1>1, <1>6
    <2>2. Len(pending'[c]) = 0
      BY <1>4
    <2>3. next'[c] = Len(results'[c]) + Len(pending'[c]) + 1 /\ next'[c] <= Len(todo[c]) + 1
      BY <2>2, <1>1, <1>2, <1>4, <1>6
    <2>4. \A j \in 1..Len(pending'[c]) : FALSE
      BY <2>2
    <2> QED
      BY <2>1, <2>3, <2>4, <1>4 DEF CallInOrder, InKeyed
  <1>12. Kept
    BY DEF Kept, Finish
  <1> QED
    BY <1>9, <1>10, <1>11, <1>12, FrameInOrder DEF SInv, WindowInOrder

\* What produce_local and forward_handler leave in the log.
LEMMA ProduceTyped ==
  ASSUME SInv, NEW x \in Records, NEW v \in {"as sent", "encoded", "empty"},
         NEW out, produce_local(x, v, out)
  PROVE  log' \in Entries /\ faults' \in 0..MaxFaults
  <1>1. log \in Entries /\ faults \in 0..MaxFaults
    BY DEF SInv, TypeOK, Entries
  <1> QED
    BY <1>1, StoreTyped, FaultTyped DEF produce_local, dedup_produce

\* The same at a peer.
LEMMA HandlerTyped ==
  ASSUME SInv, NEW x \in Records, NEW r, NEW out, forward_handler(x, r, out)
  PROVE  log' \in Entries /\ faults' \in 0..MaxFaults
  <1>1. log \in Entries /\ faults \in 0..MaxFaults
    BY DEF SInv, TypeOK, Entries
  <1>2. into_record(x) \in {"as sent", "encoded", "empty"}
    BY DEF into_record
  <1> QED
    BY <1>1, <1>2, ProduceTyped DEF forward_handler

\* encode has three outcomes.
LEMMA EncodeTyped ==
  ASSUME NEW x
  PROVE  encode(x) \in {"as sent", "encoded", "empty"}
  BY DEF encode

\* A function on 1..n is a sequence of length n.
LEMMA FunctionIsSeq ==
  ASSUME NEW S, NEW n \in Nat, NEW f \in [1..n -> S]
  PROVE  f \in Seq(S) /\ Len(f) = n
  OBVIOUS

\* An element of a sequence is of its set.
LEMMA ElementTyped ==
  ASSUME NEW S, NEW s \in Seq(S), NEW i \in DOMAIN s
  PROVE  s[i] \in S
  OBVIOUS

\* A client starts over with what it may retry.
LEMMA ResendSound ==
  ASSUME SInv, NEW c \in Calls, Resend(c)
  PROVE  SInv'
  <1>1. pc[c] = "done" /\ pending[c] = <<>> /\ Len(pending[c]) = 0
    <2>1. pc[c] = "done"
      BY DEF Resend
    <2>2. pending[c] = <<>>
      BY <2>1, CallTyped DEF CallInOrder
    <2> QED
      BY <2>1, <2>2
  <1>2. Retriable(c) \subseteq Records
    <2>0. results[c] \in Seq([rec: Records, result: RecordResults])
      BY CallTyped
    <2>1. ASSUME NEW i \in DOMAIN results[c] PROVE results[c][i].rec \in Records
      <3>1. results[c][i] \in [rec: Records, result: RecordResults]
        BY <2>0, ElementTyped
      <3> QED
        BY <3>1
    <2> QED
      BY <2>1 DEF Retriable
  <1>3. PICK n \in DOMAIN todo[c] : \E again \in [1..n -> Retriable(c)] :
          todo' = [todo EXCEPT ![c] = again]
    BY DEF Resend
  <1>4. PICK again \in [1..n -> Retriable(c)] : todo' = [todo EXCEPT ![c] = again]
    BY <1>3
  <1>5. n \in Nat
    BY CallTyped
  <1>6. again \in Seq(Records) /\ Len(again) = n
    <2>1. again \in [1..n -> Records]
      BY <1>2
    <2> QED
      BY <2>1, <1>5, FunctionIsSeq
  <1>7. todo'[c] = again /\ todo' \in [Calls -> Seq(Records)]
    BY <1>4, <1>6 DEF SInv, TypeOK, HandlerTypeOK
  <1>u. /\ next' = [next EXCEPT ![c] = 1] /\ results' = [results EXCEPT ![c] = <<>>]
        /\ pc' = [pc EXCEPT ![c] = "next"]
        /\ UNCHANGED <<acks, pending, delivery, forwardVars, log, faults>>
    BY DEF Resend, Goto
  <1>8. /\ next'[c] = 1 /\ results'[c] = <<>> /\ pc'[c] = "next"
        /\ pending'[c] = <<>>
    BY <1>1, <1>u DEF SInv, TypeOK, HandlerTypeOK
  <1>9. HandlerTypeOK'
    <2>1. <<>> \in Seq([rec: Records, result: RecordResults])
      OBVIOUS
    <2> QED
      BY <1>7, <1>u, <2>1 DEF SInv, TypeOK, HandlerTypeOK, PCs
  <1>10. resends' \in [Calls -> 0..MaxResends]
    <2>1. resends[c] \in 0..MaxResends /\ resends[c] < MaxResends /\ MaxResends \in Nat
      BY SendAssumption DEF Resend, SInv, TypeOK
    <2>2. resends[c] + 1 \in 0..MaxResends
      BY <2>1
    <2> QED
      BY <2>2 DEF Resend, SInv, TypeOK
  <1>11. \A d \in Calls \ {c} : Same(d)
    BY <1>4, <1>u DEF Same, SInv, TypeOK, HandlerTypeOK, forwardVars
  <1>12. TypeOK'
    <2>1. ASSUME NEW d \in Calls
          PROVE  /\ Len(pending'[d]) <= SEND_WINDOW_CAPACITY
                 /\ pc'[d] = "next" => Len(pending'[d]) < SEND_WINDOW_CAPACITY
      <3>1. CASE d = c
        <4>1. Len(pending'[c]) = 0
          BY <1>8
        <4> QED
          BY <3>1, <4>1, SendAssumption
      <3>2. CASE d # c
        BY <3>2, <1>11 DEF Same, SInv, TypeOK
      <3> QED
        BY <3>1, <3>2
    <2> QED
      BY <1>9, <1>10, <1>u, <2>1 DEF SInv, TypeOK, ForwardTypeOK, forwardVars
  <1>13. CallInOrder(c)'
    <2>1. Len(results'[c]) = 0 /\ Len(pending'[c]) = 0 /\ Len(todo'[c]) = n
      BY <1>6, <1>7, <1>8
    <2>2. \A j \in 1..0 : FALSE
      OBVIOUS
    <2>3. 1 = 0 + 0 + 1 /\ 1 <= n + 1
      BY <1>5
    <2> QED
      BY <2>1, <2>2, <2>3, <1>8 DEF CallInOrder, InKeyed
  <1>14. Kept
    BY <1>u DEF Kept
  <1> QED
    BY <1>11, <1>12, <1>13, <1>14, FrameInOrder DEF SInv, WindowInOrder

\* A forward that its origin no longer waits for: no handler moves.
LEMMA LateSound ==
  ASSUME SInv, NEW x \in Records, NEW r \in Replicas, LateHandler(x, r)
  PROVE  SInv'
  <1>1. log \in Entries /\ faults \in 0..MaxFaults
    BY DEF SInv, TypeOK, Entries
  <1>2. log' \in Entries /\ faults' \in 0..MaxFaults
    BY <1>1, HandlerTyped DEF LateHandler
  <1>3. late' \in SUBSET (Records \X Replicas)
    BY DEF LateHandler, SInv, TypeOK, ForwardTypeOK
  <1>4. UNCHANGED <<acks, todo, next, pc, pending, delivery, results, peer, reply, resends>>
    BY DEF LateHandler, handlerVars
  <1>5. TypeOK'
    BY <1>2, <1>3, <1>4 DEF SInv, TypeOK, HandlerTypeOK, ForwardTypeOK, Entries
  <1>6. Kept /\ \A d \in Calls : Same(d)
    BY <1>4 DEF Kept, Same
  <1> QED
    BY <1>5, <1>6, FrameInOrder DEF SInv, WindowInOrder

\* The record a waiting forward leaves behind.
LEMMA LateTyped ==
  ASSUME SInv, NEW c \in Calls,
         late' = IF pc[c] = "forward" THEN late \cup {<<Current(c), peer[c]>>} ELSE late
  PROVE  late' \in SUBSET (Records \X Replicas)
  <1>1. late \in SUBSET (Records \X Replicas)
    BY DEF SInv, TypeOK, ForwardTypeOK
  <1>2. CASE pc[c] = "forward"
    <2>1. AtRecord(c) /\ peer[c] \in Replicas
      BY <1>2, CallTyped DEF CallInOrder, InKeyed, AtRecord
    <2>2. Current(c) \in Records
      BY <2>1, CurrentIsRecord
    <2> QED
      BY <1>1, <1>2, <2>1, <2>2
  <1> QED
    BY <1>1, <1>2

\* produce_with_acks finishes the record or moves on with it.
LEMMA RouteSound ==
  ASSUME SInv, NEW c \in Calls, produce_with_acks(c)
  PROVE  SInv'
  <1>1. pc[c] = "route" /\ pc[c] \in InKeyed
    BY DEF produce_with_acks, InKeyed
  <1>2. AtRecord(c) /\ pending[c] = <<>>
    BY <1>1, CallTyped DEF CallInOrder, AtRecord
  <1>3. log \in Entries /\ faults \in 0..MaxFaults /\ ForwardTypeOK
    BY DEF SInv, TypeOK, Entries
  <1>4. CASE /\ Finish(c, "failed") \/ Finish(c, "unavailable")
             /\ UNCHANGED <<late, log, faults>>
    <2>1. late' \in SUBSET (Records \X Replicas) /\ log' \in Entries /\ faults' \in 0..MaxFaults
      BY <1>3, <1>4 DEF ForwardTypeOK
    <2>2. "failed" \in Outcomes /\ "unavailable" \in Outcomes
      BY DEF Outcomes
    <2> QED
      BY <1>1, <1>4, <2>1, <2>2, FinishSound
  <1>5. CASE /\ Goto(c, "local")
             /\ UNCHANGED <<acks, todo, next, pending, delivery, results, forwardVars, log, faults, resends>>
    <2>1. ForwardTypeOK' /\ log' \in Entries /\ faults' \in 0..MaxFaults
      BY <1>3, <1>5 DEF ForwardTypeOK, forwardVars
    <2>2. "local" \in PCs
      BY DEF PCs
    <2>3. \A d \in Calls \ {c} : peer'[d] = peer[d] /\ reply'[d] = reply[d]
      BY <1>5 DEF forwardVars
    <2> QED
      BY <1>2, <1>5, <2>1, <2>2, <2>3, MoveSound
  <1>6. CASE /\ \E r \in Replicas \ {origin[c]} : peer' = [peer EXCEPT ![c] = r]
             /\ Goto(c, "forward")
             /\ UNCHANGED <<acks, todo, next, pending, delivery, results, reply, late, log, faults, resends>>
    <2>1. /\ ForwardTypeOK' /\ log' \in Entries /\ faults' \in 0..MaxFaults
          /\ peer'[c] \in Replicas
          /\ \A d \in Calls \ {c} : peer'[d] = peer[d] /\ reply'[d] = reply[d]
      BY <1>3, <1>6 DEF ForwardTypeOK
    <2>2. "forward" \in PCs
      BY DEF PCs
    <2> QED
      BY <1>2, <1>6, <2>1, <2>2, MoveSound
  <1> QED
    BY <1>4, <1>5, <1>6 DEF produce_with_acks

\* The peer's handler sets the reply.
LEMMA ForwardHandledSound ==
  ASSUME SInv, NEW c \in Calls, ForwardHandled(c)
  PROVE  SInv'
  <1>1. AtRecord(c) /\ pending[c] = <<>> /\ peer[c] \in Replicas
    BY CallTyped DEF ForwardHandled, CallInOrder, AtRecord, InKeyed
  <1>2. Current(c) \in Records
    BY <1>1, CurrentIsRecord
  <1>3. PICK out \in Outcomes : /\ forward_handler(Current(c), peer[c], out)
                                /\ reply' = [reply EXCEPT ![c] = out]
    BY DEF ForwardHandled
  <1>4. log' \in Entries /\ faults' \in 0..MaxFaults
    BY <1>2, <1>3, HandlerTyped
  <1>5. /\ ForwardTypeOK'
        /\ peer'[c] \in Replicas /\ reply'[c] \in Outcomes
        /\ \A d \in Calls \ {c} : peer'[d] = peer[d] /\ reply'[d] = reply[d]
    BY <1>1, <1>3 DEF ForwardHandled, SInv, TypeOK, ForwardTypeOK
  <1>6. /\ Goto(c, "reply") /\ "reply" \in PCs
        /\ UNCHANGED <<acks, todo, next, pending, delivery, results, resends>>
    BY DEF ForwardHandled, PCs
  <1> QED
    BY <1>1, <1>4, <1>5, <1>6, MoveSound

\* A keyed record is produced here or its forward ends.
LEMMA KeyedSound ==
  ASSUME SInv, NEW c \in Calls, ProduceHere(c) \/ ForwardAnswered(c) \/ ForwardTimeout(c)
  PROVE  SInv'
  <1>1. pc[c] \in InKeyed
    BY DEF ProduceHere, ForwardAnswered, ForwardTimeout, InKeyed
  <1>2. AtRecord(c)
    BY <1>1, CallTyped DEF CallInOrder, AtRecord
  <1>3. Current(c) \in Records
    BY <1>2, CurrentIsRecord
  <1>4. log \in Entries /\ faults \in 0..MaxFaults /\ late \in SUBSET (Records \X Replicas)
    BY DEF SInv, TypeOK, ForwardTypeOK, Entries
  <1>5. CASE ProduceHere(c)
    <2>1. PICK out \in Outcomes : /\ produce_local(Current(c), encode(Current(c)), out)
                                  /\ Finish(c, out)
      BY <1>5 DEF ProduceHere
    <2>2. log' \in Entries /\ faults' \in 0..MaxFaults
      BY <1>3, <2>1, ProduceTyped, EncodeTyped
    <2>3. late' \in SUBSET (Records \X Replicas)
      BY <1>4, <1>5 DEF ProduceHere
    <2> QED
      BY <1>1, <2>1, <2>2, <2>3, FinishSound
  <1>6. CASE ForwardAnswered(c)
    <2>1. reply[c] \in Outcomes
      BY <1>6, CallTyped DEF ForwardAnswered, CallInOrder
    <2>2. forwarded(reply[c]) \in Outcomes
      BY <2>1 DEF forwarded, Outcomes
    <2>3. late' \in SUBSET (Records \X Replicas) /\ log' \in Entries /\ faults' \in 0..MaxFaults
      BY <1>4, <1>6 DEF ForwardAnswered
    <2>4. Finish(c, forwarded(reply[c]))
      BY <1>6 DEF ForwardAnswered
    <2> QED
      BY <1>1, <2>2, <2>3, <2>4, FinishSound
  <1>7. CASE ForwardTimeout(c)
    <2>1. late' \in SUBSET (Records \X Replicas)
      BY <1>7, LateTyped DEF ForwardTimeout
    <2>2. log' \in Entries /\ faults' \in 0..MaxFaults
      BY <1>4, <1>7, FaultTyped DEF ForwardTimeout
    <2>3. PICK out \in Outcomes : Finish(c, out)
      BY <1>7 DEF ForwardTimeout, Outcomes
    <2> QED
      BY <1>1, <2>1, <2>2, <2>3, FinishSound
  <1> QED
    BY <1>5, <1>6, <1>7

\* Refuse and enqueue_plain push one record.
LEMMA WindowSound ==
  ASSUME SInv, NEW c \in Calls, Refuse(c) \/ enqueue_plain(c)
  PROVE  SInv'
  <1>1. faults \in 0..MaxFaults /\ pc[c] = "next" /\ AtRecord(c) /\ log' = log
    BY DEF SInv, TypeOK, Refuse, enqueue_plain
  <1>2. UNCHANGED <<acks, todo, results, forwardVars, resends>>
    BY DEF Refuse, enqueue_plain
  <1>3. faults' \in 0..MaxFaults
    BY <1>1, FaultTyped DEF Refuse, enqueue_plain
  <1>4. \E state \in Outcomes \cup {"sent"} : push(c, Current(c), state)
    BY DEF Refuse, enqueue_plain, Outcomes
  <1> QED
    BY <1>1, <1>2, <1>3, <1>4, PushSound

\* The producer settles the oldest record of a window.
LEMMA ProducerSound ==
  ASSUME SInv, NEW c \in Calls, Acknowledge(c) \/ DeliveryFails(c)
  PROVE  SInv'
  <1>1. PICK i \in DOMAIN pending[c] :
          /\ \/ delivery' = [delivery EXCEPT ![pending[c][i]] = "ok"]
             \/ delivery' = [delivery EXCEPT ![pending[c][i]] = "failed"]
          /\ Store(pending[c][i], encode(pending[c][i])) \/ UNCHANGED log
          /\ Fault \/ UNCHANGED faults
    BY DEF Acknowledge, DeliveryFails
  <1>2. pending[c][i] \in Records
    BY <1>1, CallTyped
  <1>3. UNCHANGED <<acks, todo, next, pc, pending, results, forwardVars, resends>>
    BY DEF Acknowledge, DeliveryFails
  <1>4. log \in Entries /\ faults \in 0..MaxFaults
    BY DEF SInv, TypeOK, Entries
  <1>5. log' \in Entries
    BY <1>1, <1>2, <1>4, StoreTyped, EncodeTyped
  <1>6. faults' \in 0..MaxFaults
    BY <1>1, <1>4, FaultTyped
  <1>7. "ok" \in Outcomes /\ "failed" \in Outcomes
    BY DEF Outcomes
  <1> QED
    BY <1>1, <1>2, <1>3, <1>5, <1>6, <1>7, DeliverySound

\* Between records: the barrier starts, the window is empty, the client goes.
LEMMA BetweenSound ==
  ASSUME SInv, NEW c \in Calls, StartDrain(c) \/ Drained(c) \/ Drop(c)
  PROVE  SInv'
  <1>1. log \in Entries /\ faults \in 0..MaxFaults /\ ForwardTypeOK
    BY DEF SInv, TypeOK, Entries
  <1>2. UNCHANGED <<acks, todo, next, pending, delivery, results, peer, reply, log, resends>>
    BY DEF StartDrain, Drained, Drop, forwardVars
  <1>3. late' \in SUBSET (Records \X Replicas)
    BY <1>1, LateTyped DEF StartDrain, Drained, Drop, ForwardTypeOK, forwardVars
  <1>4. ForwardTypeOK'
    BY <1>1, <1>2, <1>3 DEF ForwardTypeOK
  <1>5. faults' \in 0..MaxFaults
    BY <1>1, FaultTyped DEF StartDrain, Drained, Drop
  <1>6. \A d \in Calls \ {c} : peer'[d] = peer[d] /\ reply'[d] = reply[d]
    BY <1>2
  <1>7. CASE StartDrain(c) \/ Drop(c)
    <2>1. PICK l \in {"drain", "dropped"} : Goto(c, l)
      BY <1>7 DEF StartDrain, Drop
    <2>2. l \in PCs /\ l \notin InKeyed \cup {"done", "next"}
      BY DEF PCs, InKeyed
    <2>3. l \notin {"forward", "reply"}
      BY DEF InKeyed
    <2> QED
      BY <2>1, <2>2, <2>3, <1>1, <1>2, <1>4, <1>5, <1>6, MoveSound
  <1>8. CASE Drained(c)
    <2>1. pending[c] = <<>> /\ Len(pending[c]) = 0
      BY <1>8 DEF Drained
    <2>2. Len(pending[c]) < SEND_WINDOW_CAPACITY
      BY <2>1, SendAssumption
    <2>3. PICK l \in {"done", "route", "next"} :
            Goto(c, l) /\ (l = "route" => AtRecord(c))
      BY <1>8 DEF Drained
    <2>4. l \in PCs /\ l \notin {"forward", "reply"} /\ (l \in InKeyed => l = "route")
      BY DEF PCs, InKeyed
    <2> QED
      BY <2>1, <2>2, <2>3, <2>4, <1>1, <1>2, <1>4, <1>5, <1>6, MoveSound
  <1> QED
    BY <1>7, <1>8

\* Every step keeps the order.
LEMMA StepInv == SInv /\ [Next]_vars => SInv'
  <1> SUFFICES ASSUME SInv, [Next]_vars PROVE SInv'
    OBVIOUS
  <1>1. ASSUME NEW c \in Calls, Handler(c) PROVE SInv'
    BY <1>1, WindowSound, BetweenSound, DrainSound, RouteSound, KeyedSound DEF Handler
  <1>2. ASSUME NEW c \in Calls, Acknowledge(c) \/ DeliveryFails(c) PROVE SInv'
    BY <1>2, ProducerSound
  <1>3. ASSUME NEW c \in Calls, ForwardHandled(c) PROVE SInv'
    BY <1>3, ForwardHandledSound
  <1>4. ASSUME NEW c \in Calls, Drop(c) PROVE SInv'
    BY <1>4, BetweenSound
  <1>5. ASSUME NEW c \in Calls, Resend(c) PROVE SInv'
    BY <1>5, ResendSound
  <1>6. ASSUME NEW x \in Records, NEW r \in Replicas, LateHandler(x, r) PROVE SInv'
    BY <1>6, LateSound
  <1>7. CASE UNCHANGED vars
    BY <1>7 DEF vars, handlerVars, forwardVars, SInv, TypeOK, HandlerTypeOK, ForwardTypeOK,
                WindowInOrder, CallInOrder
  <1> QED
    BY <1>1, <1>2, <1>3, <1>4, <1>5, <1>6, <1>7 DEF Next

\* Every reachable state is typed and the delivery window (SendWindow::push)
\* never exceeds SEND_WINDOW_CAPACITY, whatever batches, ACLs and failures.
THEOREM SendTypeCorrect == Spec => []TypeOK
  <1>1. SInv => TypeOK
    BY DEF SInv
  <1> QED
    BY <1>1, InitInv, StepInv, PTL DEF Spec

\* Results and window are always, in order, the records the handler has
\* taken, and the window is empty while a keyed record is produced: the
\* inductive form of the order SendWindow and its drains keep.
THEOREM WindowOrder == Spec => []WindowInOrder
  <1>1. SInv => WindowInOrder
    BY DEF SInv
  <1> QED
    BY <1>1, InitInv, StepInv, PTL DEF Spec

\* The i-th result of a Send is the i-th record's, for every batch and every
\* order in which deliveries, forwards and denials complete.
THEOREM ResultsInOrder == Spec => []ResultsMatchRecords
  <1>1. SInv => ResultsMatchRecords
    <2> SUFFICES ASSUME SInv, NEW c \in Calls, NEW i \in DOMAIN results[c]
                 PROVE  results[c][i].rec = todo[c][i]
      BY DEF ResultsMatchRecords
    <2>1. DOMAIN results[c] = 1..Len(results[c])
      BY CallTyped
    <2> QED
      BY <2>1, CallTyped DEF CallInOrder
  <1> QED
    BY <1>1, InitInv, StepInv, PTL DEF Spec

-----------------------------------------------------------------------------
(* The log and what the callers are told of it.                            *)

\* The records of a call, whichever of them it is sending.
Mine(c) == {batch[c][k] : k \in DOMAIN batch[c]}

\* x is stored before y.
Before(x, y) == \E a, b \in DOMAIN log : a < b /\ log[a].rec = x /\ log[b].rec = y

\* The i-th record of c has been answered "ok", or will be.
OkAt(c, i) ==
  \/ i <= Len(results[c]) /\ results[c][i].result = "ok"
  \/ Len(results[c]) < i /\ i < next[c] /\ delivery[todo[c][i]] = "ok"
  \/ i = next[c] /\ pc[c] = "reply" /\ reply[c] = "ok"

\* The records of c are its own, each once; a plain one that is still to come is
\* new, or failed in the codec.
TodoFresh(c) ==
  /\ \A i \in 1..Len(todo[c]) : todo[c][i] \in Mine(c)
  /\ \A i, j \in 1..Len(todo[c]) : todo[c][i] = todo[c][j] => i = j
  /\ \A i \in 1..Len(todo[c]) : i >= next[c] /\ ~Keyed(todo[c][i]) =>
       delivery[todo[c][i]] \in {"none", "registry"}

\* What c has been told, and what a peer has replied.
Answered(c) ==
  /\ \A i \in 1..Len(results[c]) :
       /\ ~Keyed(todo[c][i]) => results[c][i].result = error_result(delivery[todo[c][i]])
       /\ results[c][i].result = "dup" => Claimed(todo[c][i])
  /\ pc[c] \in InKeyed => Keyed(Current(c))
  /\ pc[c] = "reply" /\ reply[c] = "dup" => Claimed(Current(c))

\* With acks=all what is "ok" is stored, in order; the window settles in order.
OkInOrder(c) ==
  /\ \A i \in 1..Len(todo[c]) : OkAt(c, i) => Stored(todo[c][i])
  /\ \A i, j \in 1..Len(todo[c]) : i < j /\ OkAt(c, i) /\ OkAt(c, j) =>
       Before(todo[c][i], todo[c][j])
  /\ \A i, j \in 1..Len(todo[c]) :
       /\ Len(results[c]) < i /\ i < j /\ j < next[c]
       /\ delivery[todo[c][i]] = "sent"
       => delivery[todo[c][j]] # "ok"

CallTold(c) == TodoFresh(c) /\ Answered(c) /\ (acks[c] = "all" => OkInOrder(c))

\* A plain record is stored once its delivery is settled, by the producer or
\* not; a keyed one has no delivery, unless it is denied.
Deliveries ==
  /\ \A x \in Records : delivery[x] \in {"none", "sent", "ok", "failed", "registry", "denied"}
  /\ \A x \in Records : Keyed(x) => delivery[x] \in {"none", "denied"}
  /\ \A x \in Records : Stored(x) /\ ~Keyed(x) => delivery[x] \in {"ok", "failed"}
  /\ \A e \in late : Keyed(e[1])

\* The inductive invariant: what the answers say of the log.
LogInv == SInv /\ RetryStoresOnce /\ Deliveries /\ \A c \in Calls : CallTold(c)

\* The log only grows.
Grows ==
  \A y, z \in Records : /\ Stored(y) => Stored(y)'
                        /\ Claimed(y) => Claimed(y)'
                        /\ Before(y, z) => Before(y, z)'

Values == {"as sent", "encoded", "empty"}

\* Storing x puts it after everything stored so far.
LEMMA StoreEffect ==
  ASSUME SInv, NEW x \in Records, NEW v \in Values, Store(x, v)
  PROVE  /\ Grows /\ Stored(x)' /\ Claimed(x)'
         /\ \A y \in Records : Stored(y)' => Stored(y) \/ y = x
         /\ \A y \in Records : Stored(y) => Before(y, x)'
         /\ RetryStoresOnce /\ ~Stored(x) => RetryStoresOnce'
  <1>1. log \in Seq([rec: Records, value: Values]) /\ Len(log) \in Nat
    <2>1. log \in Seq([rec: Records, value: Values])
      BY DEF SInv, TypeOK, Values
    <2> QED
      BY <2>1
  <1>2. PICK n \in Nat : n = Len(log)
    BY <1>1
  <1>3. PICK e \in [rec: Records, value: Values] : log' = Append(log, e) /\ e.rec = x
    BY DEF Store
  <1>4. /\ DOMAIN log = 1..n /\ DOMAIN log' = 1..(n + 1)
        /\ \A i \in 1..n : log'[i] = log[i]
        /\ log'[n + 1] = e
    BY <1>1, <1>2, <1>3
  <1>5. n + 1 \in 1..(n + 1) /\ 1..n \subseteq 1..(n + 1) /\ \A i \in 1..n : i < n + 1
    OBVIOUS
  <1>6. /\ \A y \in Records : Stored(y) => Stored(y)'
        /\ \A y \in Records : Claimed(y) => Claimed(y)'
        /\ \A y \in Records : Stored(y)' => Stored(y) \/ y = x
    BY <1>3, <1>4, <1>5 DEF Stored, Claimed
  <1>7. Stored(x)' /\ Claimed(x)'
    BY <1>3, <1>4, <1>5 DEF Stored, Claimed
  <1>8. \A y, z \in Records : Before(y, z) => Before(y, z)'
    BY <1>4, <1>5 DEF Before
  <1>9. \A y \in Records : Stored(y) => Before(y, x)'
    BY <1>3, <1>4, <1>5 DEF Before, Stored
  <1>10. ASSUME RetryStoresOnce, ~Stored(x) PROVE RetryStoresOnce'
    BY <1>3, <1>4, <1>5, <1>10 DEF RetryStoresOnce, Stored
  <1> QED
    BY <1>6, <1>7, <1>8, <1>9, <1>10 DEF Grows

\* Nothing is stored.
LEMMA NoStore ==
  ASSUME UNCHANGED log
  PROVE  /\ Grows /\ (RetryStoresOnce => RetryStoresOnce')
         /\ \A y \in Records : Stored(y)' <=> Stored(y)
  BY DEF Grows, Stored, Claimed, Before, RetryStoresOnce

\* The indices of a call.
LEMMA Indices ==
  ASSUME SInv, NEW c \in Calls
  PROVE  /\ Len(results[c]) \in Nat /\ next[c] \in Nat /\ Len(todo[c]) \in Nat
         /\ 1 <= next[c] /\ Len(results[c]) < next[c] /\ next[c] <= Len(todo[c]) + 1
         /\ \A i \in 1..Len(todo[c]) : todo[c][i] \in Records
         /\ 1..Len(results[c]) \subseteq 1..Len(todo[c])
  <1>1. /\ next[c] = Len(results[c]) + Len(pending[c]) + 1 /\ next[c] <= Len(todo[c]) + 1
        /\ Len(pending[c]) \in Nat /\ Len(results[c]) \in Nat /\ Len(todo[c]) \in Nat /\ next[c] \in Nat
        /\ todo[c] \in Seq(Records)
    BY CallTyped DEF CallInOrder
  <1>2. PICK p \in Nat, l \in Nat, t \in Nat, n \in Nat :
          p = Len(pending[c]) /\ l = Len(results[c]) /\ t = Len(todo[c]) /\ n = next[c]
    BY <1>1
  <1>3. n = l + p + 1 /\ n <= t + 1
    BY <1>1, <1>2
  <1>4. 1 <= n /\ l < n /\ l <= t
    BY <1>3
  <1>5. \A i \in 1..Len(todo[c]) : todo[c][i] \in Records
    BY <1>1
  <1>6. 1..l \subseteq 1..t
    BY <1>4
  <1> QED
    BY <1>1, <1>2, <1>4, <1>5, <1>6

\* A step that leaves a call and its deliveries alone.
LEMMA FrameTold ==
  ASSUME SInv, NEW d \in Calls, CallTold(d), Same(d), acks'[d] = acks[d],
         \A x \in Mine(d) : delivery'[x] = delivery[x], Grows
  PROVE  CallTold(d)'
  <1>1. /\ \A i \in 1..Len(todo[d]) : todo[d][i] \in Records /\ todo[d][i] \in Mine(d)
        /\ 1..Len(results[d]) \subseteq 1..Len(todo[d])
        /\ todo'[d] = todo[d] /\ next'[d] = next[d] /\ pc'[d] = pc[d]
        /\ results'[d] = results[d] /\ reply'[d] = reply[d]
    BY Indices DEF CallTold, TodoFresh, Same
  <1>2. \A i \in 1..Len(todo[d]) : delivery'[todo[d][i]] = delivery[todo[d][i]]
    BY <1>1
  <1>3. pc[d] \in InKeyed => next[d] \in 1..Len(todo[d])
    <2>1. pc[d] \in InKeyed => next[d] <= Len(todo[d])
      BY CallTyped DEF CallInOrder
    <2> QED
      BY <2>1, Indices
  <1>4. \A i \in 1..Len(todo[d]) : OkAt(d, i)' <=> OkAt(d, i)
    BY <1>1, <1>2 DEF OkAt
  <1>5. TodoFresh(d)'
    BY <1>1, <1>2 DEF CallTold, TodoFresh, Mine, Keyed
  <1>6. Answered(d)'
    <2>1. pc[d] = "reply" /\ reply[d] = "dup" => Claimed(Current(d))'
      BY <1>1, <1>3 DEF CallTold, Answered, Grows, Current, InKeyed, Claimed
    <2>2. \A i \in 1..Len(results[d]) :
            /\ ~Keyed(todo[d][i]) => results[d][i].result = error_result(delivery'[todo[d][i]])
            /\ results[d][i].result = "dup" => Claimed(todo[d][i])'
      BY <1>1, <1>2 DEF CallTold, Answered, Grows, Claimed
    <2>3. pc[d] \in InKeyed => Keyed(Current(d))'
      BY <1>1 DEF CallTold, Answered, Current, Keyed
    <2> QED
      BY <1>1, <2>1, <2>2, <2>3 DEF Answered, Keyed, Claimed, error_result
  <1>7. acks[d] = "all" => OkInOrder(d)'
    <2> SUFFICES ASSUME acks[d] = "all" PROVE OkInOrder(d)'
      OBVIOUS
    <2>0. OkInOrder(d)
      BY DEF CallTold
    <2>1. \A i \in 1..Len(todo[d]) : OkAt(d, i)' => Stored(todo[d][i])'
      BY <2>0, <1>1, <1>4 DEF OkInOrder, Grows, Stored
    <2>2. \A i, j \in 1..Len(todo[d]) : i < j /\ OkAt(d, i)' /\ OkAt(d, j)' =>
            Before(todo[d][i], todo[d][j])'
      <3> SUFFICES ASSUME NEW i \in 1..Len(todo[d]), NEW j \in 1..Len(todo[d]),
                          i < j, OkAt(d, i)', OkAt(d, j)'
                   PROVE  Before(todo[d][i], todo[d][j])'
        OBVIOUS
      <3>1. PICK y \in Records, z \in Records : y = todo[d][i] /\ z = todo[d][j]
        BY <1>1
      <3>2. Before(y, z)
        BY <2>0, <1>4, <3>1 DEF OkInOrder
      <3>3. Before(y, z)'
        BY <3>2 DEF Grows
      <3> QED
        BY <1>1, <3>1, <3>3 DEF Before
    <2>3. \A i, j \in 1..Len(todo[d]) :
            /\ Len(results[d]) < i /\ i < j /\ j < next[d]
            /\ delivery'[todo[d][i]] = "sent"
            => delivery'[todo[d][j]] # "ok"
      BY <2>0, <1>2 DEF OkInOrder
    <2> QED
      BY <1>1, <2>1, <2>2, <2>3 DEF OkInOrder, Stored, Before
  <1> QED
    BY <1>5, <1>6, <1>7 DEF CallTold

\* The records of other calls are others: they stand as they did.
LEMMA OthersTold ==
  ASSUME LogInv, NEW c \in Calls, acks' = acks, \A d \in Calls \ {c} : Same(d),
         \A x \in Records \ Mine(c) : delivery'[x] = delivery[x], Grows
  PROVE  \A d \in Calls \ {c} : CallTold(d)'
  <1> SUFFICES ASSUME NEW d \in Calls \ {c} PROVE CallTold(d)'
    OBVIOUS
  <1>1. \A x \in Mine(d) : x \in Records /\ x \notin Mine(c)
    <2>1. batch[d] \in Seq(Records)
      BY SendAssumption
    <2>2. \A k \in DOMAIN batch[d] : batch[d][k] \in Records
      BY <2>1, ElementTyped
    <2> QED
      BY <2>2, SendAssumption DEF Mine
  <1>2. CallTold(d) /\ SInv
    BY DEF LogInv
  <1> QED
    BY <1>1, <1>2, FrameTold

\* The handler of c moves; its records and their deliveries stay.  A reply
\* may have come in.
LEMMA MoveTold ==
  ASSUME LogInv, NEW c \in Calls, Grows,
         UNCHANGED <<acks, todo, next, results, delivery>>,
         pc'[c] \in InKeyed => Keyed(Current(c)) /\ AtRecord(c),
         pc'[c] = "reply" /\ reply'[c] = "dup" => Claimed(Current(c))',
         pc'[c] = "reply" /\ reply'[c] = "ok" /\ acks[c] = "all" =>
           \A x \in Records : x = Current(c) =>
             Stored(x)' /\ \A y \in Records : Stored(y) => Before(y, x)'
  PROVE  CallTold(c)'
  <1>0. SInv /\ TodoFresh(c) /\ Answered(c)
    BY DEF LogInv, CallTold
  <1>1. /\ \A i \in 1..Len(todo[c]) : todo[c][i] \in Records
        /\ 1..Len(results[c]) \subseteq 1..Len(todo[c])
        /\ Len(results[c]) < next[c] /\ next[c] \in Nat /\ Len(todo[c]) \in Nat /\ 1 <= next[c]
        /\ Len(results[c]) \in Nat
    BY <1>0, Indices
  <1>2. TodoFresh(c)'
    BY <1>0 DEF TodoFresh, Mine, Keyed
  <1>3. Answered(c)'
    <2>1. \A i \in 1..Len(results[c]) : results[c][i].result = "dup" => Claimed(todo[c][i])'
      BY <1>0, <1>1 DEF Answered, Grows, Claimed
    <2>2. pc'[c] \in InKeyed => Keyed(Current(c))'
      BY DEF Keyed, Current
    <2> QED
      BY <1>0, <2>1, <2>2 DEF Answered, Keyed, error_result
  <1>4. ASSUME acks[c] = "all" PROVE OkInOrder(c)'
    <2>0. OkInOrder(c)
      BY <1>4 DEF LogInv, CallTold
    <2> DEFINE New == pc'[c] = "reply" /\ reply'[c] = "ok"
    <2>1. \A i \in 1..Len(todo[c]) : OkAt(c, i)' => OkAt(c, i) \/ (i = next[c] /\ New)
      BY DEF OkAt
    <2>2. \A i \in 1..Len(todo[c]) : i < next[c] => (OkAt(c, i)' => OkAt(c, i))
      BY <1>1, <2>1
    <2>3. \A i \in 1..Len(todo[c]) : OkAt(c, i) => i <= next[c]
      BY <1>1 DEF OkAt
    <2>4. \A i \in 1..Len(todo[c]) : OkAt(c, i)' => Stored(todo[c][i])'
      <3> SUFFICES ASSUME NEW i \in 1..Len(todo[c]), OkAt(c, i)' PROVE Stored(todo[c][i])'
        OBVIOUS
      <3>1. PICK y \in Records : y = todo[c][i]
        BY <1>1
      <3>2. CASE OkAt(c, i)
        <4>1. Stored(y)
          BY <2>0, <3>1, <3>2 DEF OkInOrder
        <4>2. Stored(y)'
          BY <4>1 DEF Grows
        <4> QED
          BY <3>1, <4>2 DEF Stored
      <3>3. CASE i = next[c] /\ New
        <4>1. Stored(y)'
          BY <1>4, <3>1, <3>3 DEF Current
        <4> QED
          BY <3>1, <4>1 DEF Stored
      <3> QED
        BY <2>1, <3>2, <3>3
    <2>5. ASSUME NEW i \in 1..Len(todo[c]), NEW j \in 1..Len(todo[c]), i < j, OkAt(c, i)', OkAt(c, j)'
          PROVE  Before(todo[c][i], todo[c][j])'
      <3>1. PICK y \in Records, z \in Records : y = todo[c][i] /\ z = todo[c][j]
        BY <1>1
      <3>2. j <= next[c] /\ i < next[c]
        BY <1>1, <2>1, <2>3, <2>5
      <3>3. OkAt(c, i) /\ Stored(y)
        BY <2>0, <2>2, <2>5, <3>1, <3>2 DEF OkInOrder
      <3>4. CASE OkAt(c, j)
        <4>1. Before(y, z)
          BY <2>0, <2>5, <3>1, <3>3, <3>4 DEF OkInOrder
        <4>2. Before(y, z)'
          BY <4>1 DEF Grows
        <4> QED
          BY <3>1, <4>2 DEF Before
      <3>5. CASE j = next[c] /\ New
        <4>1. Before(y, z)'
          BY <1>4, <3>1, <3>3, <3>5 DEF Current
        <4> QED
          BY <3>1, <4>1 DEF Before
      <3> QED
        BY <2>1, <2>5, <3>4, <3>5
    <2> QED
      BY <2>0, <2>4, <2>5 DEF OkInOrder
  <1> QED
    BY <1>2, <1>3, <1>4 DEF CallTold

\* The result of a keyed record is given.
LEMMA FinishTold ==
  ASSUME LogInv, NEW c \in Calls, pc[c] \in InKeyed, NEW out \in Outcomes, Finish(c, out), Grows,
         out = "dup" => \A x \in Records : x = Current(c) => Claimed(x)',
         out = "ok" /\ acks[c] = "all" =>
           \A x \in Records : x = Current(c) =>
             /\ Stored(x)'
             /\ \A i \in 1..Len(todo[c]) : i < next[c] /\ OkAt(c, i) =>
                  \A y \in Records : y = todo[c][i] => Before(y, x)'
  PROVE  CallTold(c)'
  <1>0. SInv /\ TodoFresh(c) /\ Answered(c)
    BY DEF LogInv, CallTold
  <1>1. /\ \A i \in 1..Len(todo[c]) : todo[c][i] \in Records
        /\ Len(results[c]) < next[c] /\ next[c] \in Nat /\ Len(todo[c]) \in Nat /\ 1 <= next[c]
        /\ Len(results[c]) \in Nat /\ 1..Len(results[c]) \subseteq 1..Len(todo[c])
    BY <1>0, Indices
  <1>2. /\ pending[c] = <<>> /\ next[c] <= Len(todo[c])
        /\ next[c] = Len(results[c]) + Len(pending[c]) + 1
        /\ results[c] \in Seq([rec: Records, result: RecordResults])
    BY <1>0, CallTyped DEF CallInOrder
  <1>3. PICK n \in Nat : n = next[c]
    BY <1>1
  <1>4. n \in 1..Len(todo[c]) /\ Len(results[c]) = n - 1 /\ Len(results[c]) + 1 = n
    <2>1. Len(pending[c]) = 0
      BY <1>2
    <2> QED
      BY <1>1, <1>2, <1>3, <2>1
  <1>5. PICK x \in Records : x = todo[c][n]
    BY <1>1, <1>4
  <1>6. Current(c) = x /\ Keyed(x)
    BY <1>0, <1>3, <1>5 DEF Current, Answered
  <1>7. /\ Result(x, out) \in [rec: Records, result: RecordResults]
        /\ Result(x, out).result = error_result(out)
    BY <1>5, ResultTyped DEF Result
  <1>8. /\ results'[c] = Append(results[c], Result(x, out))
        /\ next'[c] = n + 1 /\ pc'[c] = "next"
        /\ UNCHANGED <<acks, todo, delivery>>
    BY <1>0, <1>3, <1>6 DEF Finish, Goto, SInv, TypeOK, HandlerTypeOK
  <1>9. /\ Len(results'[c]) = n
        /\ \A i \in 1..(n - 1) : results'[c][i] = results[c][i]
        /\ results'[c][n] = Result(x, out)
    BY <1>2, <1>4, <1>7, <1>8
  <1>10. /\ error_result(out) = "ok" => out = "ok"
         /\ error_result(out) = "dup" => out = "dup"
    BY DEF error_result, Outcomes
  <1>11. TodoFresh(c)'
    BY <1>0, <1>1, <1>3, <1>8 DEF TodoFresh, Mine, Keyed
  <1>12. Answered(c)'
    <2>1. ASSUME NEW i \in 1..n
          PROVE  /\ ~Keyed(todo[c][i]) => results'[c][i].result = error_result(delivery[todo[c][i]])
                 /\ results'[c][i].result = "dup" => Claimed(todo[c][i])'
      <3>1. CASE i = n
        <4>1. results'[c][i].result = "dup" => Claimed(x)'
          BY <1>6, <1>7, <1>9, <1>10, <3>1
        <4> QED
          BY <1>5, <1>6, <1>8, <3>1, <4>1 DEF Claimed
      <3>2. CASE i # n
        <4>1. i \in 1..(n - 1) /\ i \in 1..Len(results[c])
          BY <1>4, <3>2
        <4>2. PICK y \in Records : y = todo[c][i]
          BY <1>1, <4>1
        <4>3. results[c][i].result = "dup" => Claimed(y)'
          BY <1>0, <4>1, <4>2 DEF Answered, Grows
        <4> QED
          BY <1>0, <1>8, <1>9, <4>1, <4>2, <4>3 DEF Answered, Claimed
      <3> QED
        BY <3>1, <3>2
    <2> QED
      BY <1>8, <1>9, <2>1 DEF Answered, Keyed, error_result, InKeyed
  <1>13. ASSUME acks[c] = "all" PROVE OkInOrder(c)'
    <2>0. OkInOrder(c)
      BY <1>13 DEF LogInv, CallTold
    <2>1. \A i \in 1..Len(todo[c]) : OkAt(c, i)' =>
            (i < n /\ OkAt(c, i)) \/ (i = n /\ out = "ok")
      <3> SUFFICES ASSUME NEW i \in 1..Len(todo[c]), OkAt(c, i)'
                   PROVE  (i < n /\ OkAt(c, i)) \/ (i = n /\ out = "ok")
        OBVIOUS
      <3>1. i <= n /\ results'[c][i].result = "ok"
        <4>1. ~(n < i /\ i < n + 1)
          OBVIOUS
        <4> QED
          BY <1>8, <1>9, <4>1 DEF OkAt
      <3>2. CASE i = n
        BY <1>7, <1>9, <1>10, <3>1, <3>2
      <3>3. CASE i # n
        <4>1. i \in 1..(n - 1) /\ i < n /\ i <= Len(results[c])
          BY <1>4, <3>1, <3>3
        <4> QED
          BY <1>9, <3>1, <4>1 DEF OkAt
      <3> QED
        BY <3>2, <3>3
    <2>2. \A i \in 1..Len(todo[c]) : OkAt(c, i)' => Stored(todo[c][i])'
      <3> SUFFICES ASSUME NEW i \in 1..Len(todo[c]), OkAt(c, i)' PROVE Stored(todo[c][i])'
        OBVIOUS
      <3>1. PICK y \in Records : y = todo[c][i]
        BY <1>1
      <3>2. CASE OkAt(c, i)
        <4>1. Stored(y)
          BY <2>0, <3>1, <3>2 DEF OkInOrder
        <4>2. Stored(y)'
          BY <4>1 DEF Grows
        <4> QED
          BY <1>8, <3>1, <4>2 DEF Stored
      <3>3. CASE i = n /\ out = "ok"
        <4>1. Stored(y)'
          BY <1>5, <1>6, <1>13, <3>1, <3>3
        <4> QED
          BY <1>8, <3>1, <4>1 DEF Stored
      <3> QED
        BY <2>1, <3>2, <3>3
    <2>3. ASSUME NEW i \in 1..Len(todo[c]), NEW j \in 1..Len(todo[c]), i < j, OkAt(c, i)', OkAt(c, j)'
          PROVE  Before(todo[c][i], todo[c][j])'
      <3>1. PICK y \in Records, z \in Records : y = todo[c][i] /\ z = todo[c][j]
        BY <1>1
      <3>2. OkAt(c, i) /\ i < n
        BY <2>1, <2>3
      <3>3. CASE OkAt(c, j)
        <4>1. Before(y, z)
          BY <2>0, <2>3, <3>1, <3>2, <3>3 DEF OkInOrder
        <4>2. Before(y, z)'
          BY <4>1 DEF Grows
        <4> QED
          BY <1>8, <3>1, <4>2 DEF Before
      <3>4. CASE j = n /\ out = "ok"
        <4>1. Before(y, z)'
          BY <1>3, <1>5, <1>6, <1>13, <3>1, <3>2, <3>4
        <4> QED
          BY <1>8, <3>1, <4>1 DEF Before
      <3> QED
        BY <2>1, <2>3, <3>3, <3>4
    <2>4. ASSUME NEW i \in 1..Len(todo[c]), NEW j \in 1..Len(todo[c]), n < i, i < j, j < n + 1
          PROVE  FALSE
      BY <2>4
    <2> QED
      BY <1>8, <1>9, <2>2, <2>3, <2>4 DEF OkInOrder
  <1> QED
    BY <1>8, <1>11, <1>12, <1>13 DEF CallTold

\* A record enters the window.
LEMMA PushTold ==
  ASSUME LogInv, NEW c \in Calls, pc[c] = "next", AtRecord(c),
         NEW state \in {"sent", "failed", "registry", "denied"}, push(c, Current(c), state),
         UNCHANGED <<acks, todo, results, log>>
  PROVE  CallTold(c)'
  <1>0. SInv /\ TodoFresh(c) /\ Answered(c)
    BY DEF LogInv, CallTold
  <1>1. /\ \A i \in 1..Len(todo[c]) : todo[c][i] \in Records
        /\ Len(results[c]) < next[c] /\ next[c] \in Nat /\ Len(todo[c]) \in Nat /\ 1 <= next[c]
        /\ Len(results[c]) \in Nat /\ 1..Len(results[c]) \subseteq 1..Len(todo[c])
    BY <1>0, Indices
  <1>2. PICK n \in 1..Len(todo[c]) : n = next[c]
    BY <1>1 DEF AtRecord
  <1>3. PICK x \in Records : x = todo[c][n]
    BY <1>1
  <1>4. /\ next'[c] = n + 1 /\ pc'[c] \notin InKeyed
        /\ delivery' = [delivery EXCEPT ![x] = state]
    BY <1>0, <1>2, <1>3 DEF push, Goto, Current, SInv, TypeOK, HandlerTypeOK, InKeyed
  <1>5. \A i \in 1..Len(todo[c]) :
          delivery'[todo[c][i]] = IF i = n THEN state ELSE delivery[todo[c][i]]
    BY <1>0, <1>1, <1>3, <1>4 DEF TodoFresh, SInv, TypeOK, HandlerTypeOK
  <1>6. TodoFresh(c)'
    BY <1>0, <1>2, <1>4, <1>5 DEF TodoFresh, Mine, Keyed
  <1>7. \A i \in 1..Len(results[c]) : delivery'[todo[c][i]] = delivery[todo[c][i]]
    BY <1>1, <1>2, <1>5
  <1>8. Answered(c)'
    BY <1>0, <1>4, <1>7 DEF Answered, Keyed, Claimed, error_result, InKeyed
  <1>9. ASSUME acks[c] = "all" PROVE OkInOrder(c)'
    <2>0. OkInOrder(c)
      BY <1>9 DEF LogInv, CallTold
    <2>1. \A i \in 1..Len(todo[c]) : OkAt(c, i)' => OkAt(c, i)
      BY <1>2, <1>4, <1>5, <1>1 DEF OkAt, InKeyed
    <2>2. \A i, j \in 1..Len(todo[c]) :
            /\ Len(results[c]) < i /\ i < j /\ j < n + 1
            /\ delivery'[todo[c][i]] = "sent"
            => delivery'[todo[c][j]] # "ok"
      BY <2>0, <1>2, <1>5 DEF OkInOrder
    <2> QED
      BY <2>0, <2>1, <2>2, <1>4 DEF OkInOrder, Stored, Before
  <1> QED
    BY <1>6, <1>8, <1>9 DEF CallTold

\* Where a windowed record stands in its call.
LEMMA WindowIndex ==
  ASSUME SInv, NEW c \in Calls, NEW j \in DOMAIN pending[c]
  PROVE  /\ Len(results[c]) + j \in 1..Len(todo[c])
         /\ Len(results[c]) + j < next[c]
         /\ pending[c][j] = todo[c][Len(results[c]) + j]
         /\ pending[c][j] \in Records /\ delivery[pending[c][j]] # "none"
         /\ pc[c] \notin InKeyed
  <1>1. /\ next[c] = Len(results[c]) + Len(pending[c]) + 1 /\ next[c] <= Len(todo[c]) + 1
        /\ Len(pending[c]) \in Nat /\ Len(results[c]) \in Nat /\ Len(todo[c]) \in Nat
        /\ pending[c] \in Seq(Records)
        /\ pc[c] \in InKeyed => pending[c] = <<>>
        /\ \A k \in 1..Len(pending[c]) :
             pending[c][k] = todo[c][Len(results[c]) + k] /\ delivery[pending[c][k]] # "none"
    BY CallTyped DEF CallInOrder
  <1>2. j \in 1..Len(pending[c]) /\ pending[c][j] \in Records
    BY <1>1
  <1>3. Len(results[c]) + j \in 1..Len(todo[c]) /\ Len(results[c]) + j < next[c]
    <2>1. PICK p \in Nat, l \in Nat, t \in Nat :
            p = Len(pending[c]) /\ l = Len(results[c]) /\ t = Len(todo[c])
      BY <1>1
    <2>2. next[c] = l + p + 1 /\ l + p + 1 <= t + 1 /\ j \in 1..p
      BY <1>1, <1>2, <2>1
    <2>3. l + j \in 1..t /\ l + j < l + p + 1
      BY <2>2
    <2> QED
      BY <2>1, <2>2, <2>3
  <1>4. pc[c] \notin InKeyed
    BY <1>1, <1>2
  <1> QED
    BY <1>1, <1>2, <1>3, <1>4

\* The record at m, in the window, is settled; all before it are.
LEMMA SettleTold ==
  ASSUME LogInv, NEW c \in Calls, NEW k \in DOMAIN pending[c], SentNext(c, k),
         NEW x \in Records, x = pending[c][k], NEW out \in {"ok", "failed"},
         delivery' = [delivery EXCEPT ![x] = out], Grows,
         UNCHANGED <<acks, todo, next, pc, results, reply>>,
         out = "ok" /\ acks[c] = "all" => Stored(x)' /\ \A y \in Records : Stored(y) => Before(y, x)'
  PROVE  CallTold(c)'
  <1>0. SInv /\ TodoFresh(c) /\ Answered(c)
    BY DEF LogInv, CallTold
  <1>1. /\ \A i \in 1..Len(todo[c]) : todo[c][i] \in Records
        /\ Len(results[c]) < next[c] /\ next[c] \in Nat /\ Len(todo[c]) \in Nat /\ 1 <= next[c]
        /\ Len(results[c]) \in Nat /\ 1..Len(results[c]) \subseteq 1..Len(todo[c])
    BY <1>0, Indices
  <1>2. PICK m \in 1..Len(todo[c]) : m = Len(results[c]) + k
    BY <1>0, WindowIndex
  <1>3. m < next[c] /\ Len(results[c]) < m /\ x = todo[c][m] /\ pc[c] \notin InKeyed
        /\ delivery[todo[c][m]] = "sent"
    <2>1. k \in Nat \ {0}
      BY <1>0, CallTyped
    <2> QED
      BY <1>0, <1>1, <1>2, <2>1, WindowIndex DEF SentNext
  <1>4. \A i \in 1..Len(todo[c]) :
          delivery'[todo[c][i]] = IF i = m THEN out ELSE delivery[todo[c][i]]
    BY <1>0, <1>1, <1>3 DEF TodoFresh, SInv, TypeOK, HandlerTypeOK
  <1>5. TodoFresh(c)'
    BY <1>0, <1>1, <1>3, <1>4 DEF TodoFresh, Mine, Keyed
  <1>6. Answered(c)'
    <2>1. \A i \in 1..Len(results[c]) : /\ delivery'[todo[c][i]] = delivery[todo[c][i]]
                                        /\ results[c][i].result = "dup" => Claimed(todo[c][i])'
      BY <1>0, <1>1, <1>3, <1>4 DEF Answered, Grows, Claimed
    <2> QED
      BY <1>0, <1>3, <2>1 DEF Answered, Keyed, error_result, InKeyed
  <1>7. ASSUME acks[c] = "all" PROVE OkInOrder(c)'
    <2>0. OkInOrder(c)
      BY <1>7 DEF LogInv, CallTold
    <2>1. \A i \in 1..Len(todo[c]) : OkAt(c, i)' => OkAt(c, i) \/ (i = m /\ out = "ok")
      BY <1>4 DEF OkAt
    <2>2. \A j \in 1..Len(todo[c]) : m < j => ~OkAt(c, j)
      BY <2>0, <1>1, <1>3 DEF OkAt, OkInOrder, InKeyed
    <2>3. \A i \in 1..Len(todo[c]) : i < m /\ Len(results[c]) < i => delivery[todo[c][i]] # "sent"
      <3> SUFFICES ASSUME NEW i \in 1..Len(todo[c]), i < m, Len(results[c]) < i,
                          delivery[todo[c][i]] = "sent"
                   PROVE  FALSE
        OBVIOUS
      <3>1. Len(pending[c]) \in Nat /\ DOMAIN pending[c] = 1..Len(pending[c])
        BY <1>0, CallTyped
      <3>2. PICK j \in Nat : j = i - Len(results[c])
        BY <1>1
      <3>3. j \in DOMAIN pending[c] /\ j < k /\ Len(results[c]) + j = i
        BY <1>1, <1>2, <3>1, <3>2
      <3>4. delivery[pending[c][j]] = "sent"
        BY <1>0, <3>3, WindowIndex
      <3> QED
        BY <1>7, <3>1, <3>3, <3>4 DEF SentNext
    <2>4. \A i \in 1..Len(todo[c]) : OkAt(c, i)' => Stored(todo[c][i])'
      <3> SUFFICES ASSUME NEW i \in 1..Len(todo[c]), OkAt(c, i)' PROVE Stored(todo[c][i])'
        OBVIOUS
      <3>1. PICK y \in Records : y = todo[c][i]
        BY <1>1
      <3>2. CASE OkAt(c, i)
        <4>1. Stored(y)
          BY <2>0, <3>1, <3>2 DEF OkInOrder
        <4>2. Stored(y)'
          BY <4>1 DEF Grows
        <4> QED
          BY <3>1, <4>2 DEF Stored
      <3>3. CASE i = m /\ out = "ok"
        <4>1. Stored(y)'
          BY <1>3, <1>7, <3>1, <3>3
        <4> QED
          BY <3>1, <4>1 DEF Stored
      <3> QED
        BY <2>1, <3>2, <3>3
    <2>5. ASSUME NEW i \in 1..Len(todo[c]), NEW j \in 1..Len(todo[c]), i < j, OkAt(c, i)', OkAt(c, j)'
          PROVE  Before(todo[c][i], todo[c][j])'
      <3>1. PICK y \in Records, z \in Records : y = todo[c][i] /\ z = todo[c][j]
        BY <1>1
      <3>2. j <= m
        BY <2>1, <2>2, <2>5
      <3>3. OkAt(c, i) /\ Stored(y)
        BY <2>0, <2>1, <2>5, <3>1, <3>2 DEF OkInOrder
      <3>4. CASE OkAt(c, j)
        <4>1. Before(y, z)
          BY <2>0, <2>5, <3>1, <3>3, <3>4 DEF OkInOrder
        <4>2. Before(y, z)'
          BY <4>1 DEF Grows
        <4> QED
          BY <3>1, <4>2 DEF Before
      <3>5. CASE j = m /\ out = "ok"
        <4>1. Before(y, z)'
          BY <1>3, <1>7, <3>1, <3>3, <3>5
        <4> QED
          BY <3>1, <4>1 DEF Before
      <3> QED
        BY <2>1, <2>5, <3>4, <3>5
    <2>6. \A i, j \in 1..Len(todo[c]) :
            /\ Len(results[c]) < i /\ i < j /\ j < next[c]
            /\ delivery'[todo[c][i]] = "sent"
            => delivery'[todo[c][j]] # "ok"
      BY <2>0, <1>4, <2>3 DEF OkInOrder
    <2> QED
      BY <2>4, <2>5, <2>6 DEF OkInOrder
  <1> QED
    BY <1>5, <1>6, <1>7 DEF CallTold

\* The oldest record of the window becomes a result.
LEMMA DrainTold ==
  ASSUME LogInv, NEW c \in Calls, drain(c)
  PROVE  CallTold(c)'
  <1>0. SInv /\ TodoFresh(c) /\ Answered(c) /\ Deliveries
    BY DEF LogInv, CallTold
  <1>1. /\ \A i \in 1..Len(todo[c]) : todo[c][i] \in Records
        /\ Len(results[c]) < next[c] /\ next[c] \in Nat /\ Len(todo[c]) \in Nat /\ 1 <= next[c]
        /\ Len(results[c]) \in Nat /\ 1..Len(results[c]) \subseteq 1..Len(todo[c])
    BY <1>0, Indices
  <1>2. /\ pending[c] \in Seq(Records) /\ pending[c] # <<>>
        /\ results[c] \in Seq([rec: Records, result: RecordResults])
    BY <1>0, CallTyped DEF drain
  <1>3. 1 \in DOMAIN pending[c] /\ Head(pending[c]) = pending[c][1]
    BY <1>2
  <1>4. PICK m \in 1..Len(todo[c]) : m = Len(results[c]) + 1
    BY <1>0, <1>3, WindowIndex
  <1>5. PICK x \in Records : x = todo[c][m]
    BY <1>1
  <1>6. Head(pending[c]) = x /\ m < next[c] /\ delivery[x] \notin {"none", "sent"}
    BY <1>0, <1>3, <1>4, <1>5, WindowIndex DEF drain
  <1>7. /\ Result(x, delivery[x]).result = error_result(delivery[x])
        /\ Result(x, delivery[x]) \in [rec: Records, result: RecordResults]
        /\ error_result(delivery[x]) = "ok" => delivery[x] = "ok"
        /\ error_result(delivery[x]) # "dup"
    <2>1. delivery[x] \in {"ok", "failed", "registry", "denied"} /\ delivery[x] \in Outcomes
      BY <1>0, <1>5, <1>6 DEF Deliveries, Outcomes
    <2>2. Result(x, delivery[x]) \in [rec: Records, result: RecordResults]
      BY <1>5, <2>1, ResultTyped
    <2> QED
      BY <2>1, <2>2 DEF Result, error_result
  <1>8. /\ results'[c] = Append(results[c], Result(x, delivery[x]))
        /\ UNCHANGED <<acks, todo, next, pc, delivery, reply, log>>
    BY <1>0, <1>6 DEF drain, SInv, TypeOK, HandlerTypeOK, forwardVars
  <1>9. /\ Len(results'[c]) = m /\ Len(results[c]) < m
        /\ \A i \in 1..Len(results[c]) : results'[c][i] = results[c][i]
        /\ results'[c][m] = Result(x, delivery[x])
        /\ \A i \in 1..m : i \in 1..Len(results[c]) \/ i = m
    BY <1>1, <1>2, <1>4, <1>7, <1>8
  <1>10. TodoFresh(c)'
    BY <1>0, <1>8 DEF TodoFresh, Mine, Keyed
  <1>11. Answered(c)'
    <2>1. \A i \in 1..m :
            /\ ~Keyed(todo[c][i]) => results'[c][i].result = error_result(delivery[todo[c][i]])
            /\ results'[c][i].result = "dup" => Claimed(todo[c][i])
      BY <1>0, <1>5, <1>7, <1>9 DEF Answered
    <2> QED
      BY <1>0, <1>8, <1>9, <2>1 DEF Answered, Keyed, Claimed, Current, error_result
  <1>12. ASSUME acks[c] = "all" PROVE OkInOrder(c)'
    <2>0. OkInOrder(c)
      BY <1>12 DEF LogInv, CallTold
    <2>1. ASSUME NEW i \in 1..Len(todo[c]), OkAt(c, i)' PROVE OkAt(c, i)
      <3>1. \/ i <= m /\ results'[c][i].result = "ok"
            \/ m < i /\ i < next[c] /\ delivery[todo[c][i]] = "ok"
            \/ i = next[c] /\ pc[c] = "reply" /\ reply[c] = "ok"
        BY <1>8, <1>9, <2>1 DEF OkAt
      <3>2. CASE i = m
        <4>1. delivery[x] = "ok"
          BY <1>5, <1>6, <1>7, <1>9, <3>1, <3>2
        <4> QED
          BY <1>5, <1>6, <1>9, <3>2, <4>1 DEF OkAt
      <3>3. CASE i < m
        <4>1. i \in 1..Len(results[c]) /\ i <= Len(results[c])
          BY <1>1, <1>4, <3>3
        <4>2. results'[c][i].result = "ok"
          BY <1>6, <1>1, <3>1, <3>3
        <4> QED
          BY <1>9, <4>1, <4>2 DEF OkAt
      <3>4. CASE m < i
        BY <1>1, <1>9, <3>1, <3>4 DEF OkAt
      <3> QED
        BY <3>2, <3>3, <3>4
    <2>2. \A i, j \in 1..Len(todo[c]) :
            /\ m < i /\ i < j /\ j < next[c]
            /\ delivery[todo[c][i]] = "sent"
            => delivery[todo[c][j]] # "ok"
      BY <2>0, <1>1, <1>9 DEF OkInOrder
    <2>3. \A i \in 1..Len(todo[c]) : OkAt(c, i)' => Stored(todo[c][i])'
      BY <2>0, <2>1, <1>8 DEF OkInOrder, Stored
    <2>4. \A i, j \in 1..Len(todo[c]) : i < j /\ OkAt(c, i)' /\ OkAt(c, j)' =>
            Before(todo[c][i], todo[c][j])'
      BY <2>0, <2>1, <1>8 DEF OkInOrder, Before
    <2> QED
      BY <2>2, <2>3, <2>4, <1>8, <1>9 DEF OkInOrder
  <1> QED
    BY <1>8, <1>10, <1>11, <1>12 DEF CallTold

\* A client starts over with what it may retry: of the plain records, those the
\* codec failed on, which nothing stores.
LEMMA ResendTold ==
  ASSUME LogInv, NEW c \in Calls, Resend(c)
  PROVE  CallTold(c)'
  <1>0. SInv /\ TodoFresh(c) /\ Answered(c) /\ Deliveries
    BY DEF LogInv, CallTold
  <1>1. /\ \A i \in 1..Len(todo[c]) : todo[c][i] \in Records
        /\ 1..Len(results[c]) \subseteq 1..Len(todo[c])
    BY <1>0, Indices
  <1>2. PICK n \in DOMAIN todo[c] : \E again \in [1..n -> Retriable(c)] :
          /\ \A i, j \in 1..n : again[i] = again[j] => i = j
          /\ todo' = [todo EXCEPT ![c] = again]
    BY DEF Resend
  <1>3. PICK again \in [1..n -> Retriable(c)] :
          /\ \A i, j \in 1..n : again[i] = again[j] => i = j
          /\ todo' = [todo EXCEPT ![c] = again]
    BY <1>2
  <1>4. n \in Nat
    BY <1>0, CallTyped
  <1>5. ASSUME NEW x \in Retriable(c)
        PROVE  /\ x \in Mine(c) /\ x \in Records
               /\ ~Keyed(x) => delivery[x] \in {"none", "registry"}
    <2>1. PICK i \in DOMAIN results[c] : results[c][i].result = "retriable" /\ results[c][i].rec = x
      BY <1>5 DEF Retriable
    <2>2. i \in 1..Len(results[c]) /\ results[c][i].rec = todo[c][i]
      <3>1. i \in 1..Len(results[c])
        BY <1>0, CallTyped
      <3> QED
        BY <1>0, <3>1, CallTyped DEF CallInOrder
    <2>3. i \in 1..Len(todo[c]) /\ x = todo[c][i] /\ x \in Records /\ x \in Mine(c)
      BY <1>0, <1>1, <2>1, <2>2 DEF TodoFresh
    <2>4. ASSUME ~Keyed(x) PROVE delivery[x] = "registry"
      <3>1. error_result(delivery[x]) = "retriable"
        BY <1>0, <2>1, <2>2, <2>3, <2>4 DEF Answered
      <3>2. delivery[x] \in {"none", "sent", "ok", "failed", "registry", "denied"}
        BY <1>0, <2>3 DEF Deliveries
      <3> QED
        BY <3>1, <3>2 DEF error_result
    <2> QED
      BY <2>3, <2>4
  <1>6. again \in Seq(Retriable(c)) /\ Len(again) = n
    BY <1>4, FunctionIsSeq
  <1>7. /\ todo'[c] = again /\ next'[c] = 1 /\ results'[c] = <<>> /\ pc'[c] = "next"
        /\ UNCHANGED <<acks, delivery, log>>
    BY <1>0, <1>3 DEF Resend, Goto, SInv, TypeOK, HandlerTypeOK
  <1>8. Len(results'[c]) = 0 /\ Len(todo'[c]) = n
    BY <1>6, <1>7
  <1>9. \A i \in 1..n : again[i] \in Retriable(c)
    BY <1>3
  <1>10. TodoFresh(c)'
    BY <1>3, <1>5, <1>7, <1>8, <1>9 DEF TodoFresh, Mine, Keyed
  <1>11. Answered(c)'
    BY <1>7, <1>8 DEF Answered, InKeyed
  <1>12. \A i \in 1..n : ~OkAt(c, i)'
    BY <1>7, <1>8 DEF OkAt
  <1>13. OkInOrder(c)'
    <2>1. \A i, j \in 1..n : ~(0 < i /\ i < j /\ j < 1)
      OBVIOUS
    <2> QED
      BY <1>7, <1>8, <1>12, <2>1 DEF OkInOrder
  <1> QED
    BY <1>10, <1>11, <1>13 DEF CallTold

\* produce_local, by what it does to the log: a record is stored only where
\* its key is not claimed.
LEMMA ProduceEffect ==
  ASSUME LogInv, NEW x \in Records, NEW v \in Values, NEW out, produce_local(x, v, out)
  PROVE  /\ Grows /\ RetryStoresOnce'
         /\ \A y \in Records : Stored(y)' => Stored(y) \/ y = x
         /\ out = "dup" => Claimed(x)'
         /\ out = "ok" => Stored(x)' /\ \A y \in Records : Stored(y) => Before(y, x)'
  <1>0. SInv /\ RetryStoresOnce
    BY DEF LogInv
  <1>1. CASE UNCHANGED log /\ (out = "dup" => Claimed(x)) /\ out # "ok"
    <2>1. Grows /\ RetryStoresOnce' /\ \A y \in Records : Stored(y)' <=> Stored(y)
      BY <1>0, <1>1, NoStore
    <2> QED
      BY <1>1, <2>1 DEF Grows
  <1>2. CASE ~Claimed(x) /\ Store(x, v) /\ out # "dup"
    <2>1. ~Stored(x)
      BY <1>2 DEF Stored, Claimed
    <2> QED
      BY <1>0, <1>2, <2>1, StoreEffect
  <1> QED
    BY <1>1, <1>2 DEF produce_local, dedup_produce

\* forward_handler refuses, or does what produce_local does.
LEMMA HandlerEffect ==
  ASSUME LogInv, NEW x \in Records, NEW r, NEW out, forward_handler(x, r, out)
  PROVE  /\ Grows /\ RetryStoresOnce'
         /\ \A y \in Records : Stored(y)' => Stored(y) \/ y = x
         /\ out = "dup" => Claimed(x)'
         /\ out = "ok" => Stored(x)' /\ \A y \in Records : Stored(y) => Before(y, x)'
  <1>1. CASE x \notin Denied[r] /\ produce_local(x, into_record(x), out)
    <2>1. PICK v \in Values : v = into_record(x)
      BY DEF into_record, Values
    <2> QED
      BY <1>1, <2>1, ProduceEffect
  <1>2. CASE out = "denied" /\ UNCHANGED log
    <2>1. RetryStoresOnce
      BY DEF LogInv
    <2> QED
      BY <1>2, <2>1, NoStore
  <1> QED
    BY <1>1, <1>2 DEF forward_handler

\* Only a keyed record is stored or left to a late handler.
LEMMA DeliveriesKept ==
  ASSUME LogInv, UNCHANGED delivery,
         \A y \in Records : Stored(y)' => Stored(y) \/ Keyed(y),
         \A e \in late' : e \in late \/ Keyed(e[1])
  PROVE  Deliveries'
  BY DEF LogInv, Deliveries, Keyed

\* A step of one call, put together.
LEMMA CallStep ==
  ASSUME LogInv, [Next]_vars, NEW c \in Calls, acks' = acks, \A d \in Calls \ {c} : Same(d),
         \A x \in Records \ Mine(c) : delivery'[x] = delivery[x], Grows,
         CallTold(c)', RetryStoresOnce', Deliveries'
  PROVE  LogInv'
  <1>1. \A d \in Calls \ {c} : CallTold(d)'
    BY OthersTold
  <1>2. SInv'
    BY StepInv DEF LogInv
  <1> QED
    BY <1>1, <1>2 DEF LogInv

\* Refuse and enqueue_plain: a record that nothing has stored enters the window.
LEMMA WindowTold ==
  ASSUME LogInv, [Next]_vars, NEW c \in Calls, Refuse(c) \/ enqueue_plain(c)
  PROVE  LogInv'
  <1>0. SInv /\ CallTold(c) /\ Deliveries /\ RetryStoresOnce
    BY DEF LogInv
  <1>1. /\ pc[c] = "next" /\ AtRecord(c)
        /\ UNCHANGED <<acks, todo, results, log, late, peer, reply>>
    BY DEF Refuse, enqueue_plain, forwardVars
  <1>2. PICK state \in {"sent", "failed", "registry", "denied"} :
          push(c, Current(c), state) /\ (Keyed(Current(c)) => state = "denied")
    BY DEF Refuse, enqueue_plain
  <1>3. next[c] \in 1..Len(todo[c]) /\ Current(c) \in Records
    BY <1>0, <1>1, CurrentIsRecord
  <1>4. PICK x \in Records : x = Current(c)
    BY <1>3
  <1>5. x \in Mine(c) /\ (~Keyed(x) => delivery[x] \in {"none", "registry"})
    <2>1. next[c] >= next[c]
      BY <1>3
    <2> QED
      BY <1>0, <1>3, <1>4, <2>1 DEF CallTold, TodoFresh, Current
  <1>6. delivery' = [delivery EXCEPT ![x] = state]
    BY <1>2, <1>4 DEF push
  <1>7. \A y \in Records : delivery'[y] = IF y = x THEN state ELSE delivery[y]
    BY <1>0, <1>6 DEF SInv, TypeOK, HandlerTypeOK
  <1>8. Grows /\ RetryStoresOnce' /\ \A y \in Records : Stored(y)' <=> Stored(y)
    BY <1>0, <1>1, NoStore
  <1>9. ~Keyed(x) => ~Stored(x)
    BY <1>0, <1>5 DEF Deliveries
  <1>10. Deliveries'
    <2>1. /\ \A y \in Records : delivery'[y] \in {"none", "sent", "ok", "failed", "registry", "denied"}
          /\ \A y \in Records : Keyed(y) => delivery'[y] \in {"none", "denied"}
          /\ \A y \in Records : Stored(y) /\ ~Keyed(y) => delivery'[y] \in {"ok", "failed"}
      BY <1>0, <1>2, <1>4, <1>7, <1>9 DEF Deliveries
    <2> QED
      BY <1>0, <1>1, <1>8, <2>1 DEF Deliveries, Keyed
  <1>11. CallTold(c)'
    BY <1>1, <1>2, PushTold
  <1>12. \A d \in Calls \ {c} : Same(d)
    BY <1>0, <1>1, <1>2 DEF Same, push, Goto, SInv, TypeOK, HandlerTypeOK
  <1> QED
    BY <1>1, <1>5, <1>7, <1>8, <1>10, <1>11, <1>12, CallStep

\* The producer settles a record: it is plain, and was not stored.
LEMMA ProducerTold ==
  ASSUME LogInv, [Next]_vars, NEW c \in Calls, Acknowledge(c) \/ DeliveryFails(c)
  PROVE  LogInv'
  <1>0. SInv /\ CallTold(c) /\ Deliveries /\ RetryStoresOnce
    BY DEF LogInv
  <1>1. PICK k \in DOMAIN pending[c], out \in {"ok", "failed"} :
          /\ SentNext(c, k)
          /\ delivery' = [delivery EXCEPT ![pending[c][k]] = out]
          /\ Store(pending[c][k], encode(pending[c][k])) \/ UNCHANGED log
          /\ out = "ok" /\ acks[c] = "all" => Store(pending[c][k], encode(pending[c][k]))
    BY DEF Acknowledge, DeliveryFails
  <1>2. UNCHANGED <<acks, todo, next, pc, pending, results, late, peer, reply>>
    BY DEF Acknowledge, DeliveryFails, forwardVars
  <1>3. PICK x \in Records : x = pending[c][k]
    BY <1>0, <1>1, WindowIndex
  <1>4. delivery[x] = "sent" /\ x \in Mine(c)
    BY <1>0, <1>1, <1>3, WindowIndex DEF SentNext, CallTold, TodoFresh
  <1>5. ~Stored(x) /\ ~Keyed(x)
    BY <1>0, <1>4 DEF Deliveries
  <1>6. PICK v \in Values : v = encode(x)
    BY EncodeTyped DEF Values
  <1>7. /\ Grows /\ RetryStoresOnce'
        /\ \A y \in Records : Stored(y)' => Stored(y) \/ y = x
        /\ out = "ok" /\ acks[c] = "all" =>
             Stored(x)' /\ \A y \in Records : Stored(y) => Before(y, x)'
    <2>1. CASE Store(x, v)
      BY <1>0, <1>5, <2>1, StoreEffect
    <2>2. CASE UNCHANGED log /\ ~Store(x, v)
      BY <1>0, <1>1, <1>3, <1>6, <2>2, NoStore
    <2> QED
      BY <1>1, <1>3, <1>6, <2>1, <2>2
  <1>8. \A y \in Records : delivery'[y] = IF y = x THEN out ELSE delivery[y]
    BY <1>0, <1>1, <1>3 DEF SInv, TypeOK, HandlerTypeOK
  <1>9. Deliveries'
    <2>1. /\ \A y \in Records : delivery'[y] \in {"none", "sent", "ok", "failed", "registry", "denied"}
          /\ \A y \in Records : Keyed(y) => delivery'[y] \in {"none", "denied"}
          /\ \A y \in Records : Stored(y)' /\ ~Keyed(y) => delivery'[y] \in {"ok", "failed"}
      BY <1>0, <1>5, <1>7, <1>8 DEF Deliveries
    <2> QED
      BY <1>0, <1>2, <2>1 DEF Deliveries, Keyed
  <1>10. CallTold(c)'
    BY <1>1, <1>2, <1>3, <1>7, SettleTold
  <1>11. \A d \in Calls \ {c} : Same(d)
    BY <1>2 DEF Same
  <1> QED
    BY <1>2, <1>4, <1>7, <1>8, <1>9, <1>10, <1>11, CallStep

\* drain, with what it leaves alone.
LEMMA DrainStep ==
  ASSUME LogInv, [Next]_vars, NEW c \in Calls, drain(c)
  PROVE  LogInv'
  <1>0. SInv /\ RetryStoresOnce
    BY DEF LogInv
  <1>1. UNCHANGED <<acks, delivery, log, late>>
    BY DEF drain, forwardVars
  <1>2. Grows /\ RetryStoresOnce' /\ \A y \in Records : Stored(y)' <=> Stored(y)
    BY <1>0, <1>1, NoStore
  <1>3. Deliveries'
    BY <1>1, <1>2, DeliveriesKept
  <1>4. \A d \in Calls \ {c} : Same(d)
    BY <1>0 DEF Same, drain, SInv, TypeOK, HandlerTypeOK, forwardVars
  <1> QED
    BY <1>1, <1>2, <1>3, <1>4, DrainTold, CallStep

\* Resend, with what it leaves alone.
LEMMA ResendStep ==
  ASSUME LogInv, [Next]_vars, NEW c \in Calls, Resend(c)
  PROVE  LogInv'
  <1>0. SInv /\ RetryStoresOnce
    BY DEF LogInv
  <1>1. UNCHANGED <<acks, delivery, log, late>>
    BY DEF Resend, forwardVars
  <1>2. Grows /\ RetryStoresOnce' /\ \A y \in Records : Stored(y)' <=> Stored(y)
    BY <1>0, <1>1, NoStore
  <1>3. Deliveries'
    BY <1>1, <1>2, DeliveriesKept
  <1>4. \A d \in Calls \ {c} : Same(d)
    <2>1. PICK t : todo' = [todo EXCEPT ![c] = t]
      BY DEF Resend
    <2> QED
      BY <1>0, <2>1 DEF Same, Resend, Goto, SInv, TypeOK, HandlerTypeOK, forwardVars
  <1> QED
    BY <1>1, <1>2, <1>3, <1>4, ResendTold, CallStep

\* Between records, and on the way to a peer, nothing is stored.
LEMMA BetweenTold ==
  ASSUME LogInv, [Next]_vars, NEW c \in Calls, NEW l \in PCs \ {"reply"}, Goto(c, l),
         UNCHANGED <<acks, todo, next, pending, delivery, results, reply, log>>,
         \A d \in Calls \ {c} : peer'[d] = peer[d],
         l \in InKeyed => Keyed(Current(c)) /\ AtRecord(c),
         \A e \in late' : e \in late \/ Keyed(e[1])
  PROVE  LogInv'
  <1>0. SInv /\ RetryStoresOnce
    BY DEF LogInv
  <1>1. pc'[c] = l /\ \A d \in Calls \ {c} : pc'[d] = pc[d]
    BY <1>0 DEF Goto, SInv, TypeOK, HandlerTypeOK
  <1>2. Grows /\ RetryStoresOnce' /\ \A y \in Records : Stored(y)' <=> Stored(y)
    BY <1>0, NoStore
  <1>3. Deliveries'
    BY <1>2, DeliveriesKept
  <1>4. CallTold(c)'
    BY <1>1, <1>2, MoveTold
  <1>5. \A d \in Calls \ {c} : Same(d)
    BY <1>1 DEF Same
  <1> QED
    BY <1>2, <1>3, <1>4, <1>5, CallStep

\* The keyed record a handler is at.
LEMMA AtKeyed ==
  ASSUME LogInv, NEW c \in Calls, pc[c] \in InKeyed
  PROVE  /\ AtRecord(c) /\ Keyed(Current(c)) /\ Current(c) \in Records
         /\ next[c] \in 1..Len(todo[c])
  <1>0. SInv /\ CallTold(c)
    BY DEF LogInv
  <1>1. AtRecord(c)
    BY <1>0, CallTyped DEF CallInOrder, AtRecord
  <1> QED
    BY <1>0, <1>1, CurrentIsRecord DEF CallTold, Answered

\* What is left to a late handler is keyed.
LEMMA LateKeyed ==
  ASSUME LogInv, NEW c \in Calls,
         late' = IF pc[c] = "forward" THEN late \cup {<<Current(c), peer[c]>>} ELSE late
  PROVE  \A e \in late' : e \in late \/ Keyed(e[1])
  <1>1. pc[c] = "forward" => Keyed(Current(c))
    BY AtKeyed DEF InKeyed
  <1> QED
    BY <1>1

\* The barrier starts, the window is empty, the client goes.
LEMMA MovesTold ==
  ASSUME LogInv, [Next]_vars, NEW c \in Calls, StartDrain(c) \/ Drained(c) \/ Drop(c)
  PROVE  LogInv'
  <1>1. UNCHANGED <<acks, todo, next, pending, delivery, results, peer, reply, log>>
    BY DEF StartDrain, Drained, Drop, forwardVars
  <1>2. \A e \in late' : e \in late \/ Keyed(e[1])
    BY LateKeyed DEF StartDrain, Drained, Drop, forwardVars
  <1>3. PICK l \in {"drain", "done", "route", "next", "dropped"} :
          Goto(c, l) /\ (l = "route" => Keyed(Current(c)) /\ AtRecord(c))
    BY DEF StartDrain, Drained, Drop
  <1>4. l \in PCs \ {"reply"} /\ (l \in InKeyed => l = "route")
    BY DEF PCs, InKeyed
  <1> QED
    BY <1>1, <1>2, <1>3, <1>4, BetweenTold

\* The result of a keyed record, from what its produce did.
LEMMA FinishStep ==
  ASSUME LogInv, [Next]_vars, NEW c \in Calls, pc[c] \in InKeyed, NEW out \in Outcomes,
         Finish(c, out), Grows, RetryStoresOnce',
         \A y \in Records : Stored(y)' => Stored(y) \/ Keyed(y),
         \A e \in late' : e \in late \/ Keyed(e[1]),
         out = "dup" => \A x \in Records : x = Current(c) => Claimed(x)',
         out = "ok" /\ acks[c] = "all" =>
           \A x \in Records : x = Current(c) =>
             /\ Stored(x)'
             /\ \A i \in 1..Len(todo[c]) : i < next[c] /\ OkAt(c, i) =>
                  \A y \in Records : y = todo[c][i] => Before(y, x)'
  PROVE  LogInv'
  <1>0. SInv
    BY DEF LogInv
  <1>1. UNCHANGED <<acks, delivery>>
    BY DEF Finish
  <1>2. Deliveries'
    BY <1>1, DeliveriesKept
  <1>3. CallTold(c)'
    BY FinishTold
  <1>4. \A d \in Calls \ {c} : Same(d)
    BY <1>0 DEF Same, Finish, Goto, SInv, TypeOK, HandlerTypeOK, ForwardTypeOK
  <1> QED
    BY <1>1, <1>2, <1>3, <1>4, CallStep

\* Records answered so far are stored.
LEMMA EarlierStored ==
  ASSUME LogInv, NEW c \in Calls, acks[c] = "all", NEW x \in Records,
         \A y \in Records : Stored(y) => Before(y, x)'
  PROVE  \A i \in 1..Len(todo[c]) : OkAt(c, i) => \A y \in Records : y = todo[c][i] => Before(y, x)'
  BY DEF LogInv, CallTold, OkInOrder

\* produce_with_acks: nothing is stored yet.
LEMMA RouteTold ==
  ASSUME LogInv, [Next]_vars, NEW c \in Calls, produce_with_acks(c)
  PROVE  LogInv'
  <1>0. RetryStoresOnce /\ SInv
    BY DEF LogInv
  <1>1. pc[c] \in InKeyed /\ UNCHANGED <<log, late>>
    BY DEF produce_with_acks, InKeyed, forwardVars
  <1>2. AtRecord(c) /\ Keyed(Current(c))
    BY <1>1, AtKeyed
  <1>3. Grows /\ RetryStoresOnce' /\ \A y \in Records : Stored(y)' <=> Stored(y)
    BY <1>0, <1>1, NoStore
  <1>4. CASE Finish(c, "failed") \/ Finish(c, "unavailable")
    <2>1. PICK out \in {"failed", "unavailable"} : Finish(c, out)
      BY <1>4
    <2>2. out \in Outcomes /\ out # "ok" /\ out # "dup"
      BY DEF Outcomes
    <2> QED
      BY <1>1, <1>3, <2>1, <2>2, FinishStep
  <1>5. CASE \E l \in {"local", "forward"} :
               /\ Goto(c, l)
               /\ UNCHANGED <<acks, todo, next, pending, delivery, results, reply, log>>
               /\ \A d \in Calls \ {c} : peer'[d] = peer[d]
    <2>1. {"local", "forward"} \subseteq PCs \ {"reply"}
      BY DEF PCs
    <2> QED
      BY <1>1, <1>2, <1>5, <2>1, BetweenTold
  <1>6. ASSUME peer \in [Calls -> Replicas \cup {None}], \E r \in Replicas : peer' = [peer EXCEPT ![c] = r]
        PROVE  \A d \in Calls \ {c} : peer'[d] = peer[d]
    BY <1>6
  <1>7. peer \in [Calls -> Replicas \cup {None}]
    BY <1>0 DEF SInv, TypeOK, ForwardTypeOK
  <1> QED
    BY <1>4, <1>5, <1>6, <1>7 DEF produce_with_acks, forwardVars

\* A keyed record is produced at its origin.
LEMMA HereTold ==
  ASSUME LogInv, [Next]_vars, NEW c \in Calls, ProduceHere(c)
  PROVE  LogInv'
  <1>1. pc[c] \in InKeyed /\ UNCHANGED late
    BY DEF ProduceHere, InKeyed
  <1>2. PICK x \in Records : x = Current(c) /\ Keyed(x)
    BY <1>1, AtKeyed
  <1>3. PICK v \in Values : v = encode(x)
    BY EncodeTyped DEF Values
  <1>4. PICK out \in Outcomes : produce_local(x, v, out) /\ Finish(c, out)
    BY <1>2, <1>3 DEF ProduceHere
  <1>5. /\ Grows /\ RetryStoresOnce'
        /\ \A y \in Records : Stored(y)' => Stored(y) \/ y = x
        /\ out = "dup" => Claimed(x)'
        /\ out = "ok" => Stored(x)' /\ \A y \in Records : Stored(y) => Before(y, x)'
    BY <1>4, ProduceEffect
  <1>6. out = "ok" /\ acks[c] = "all" =>
          \A i \in 1..Len(todo[c]) : OkAt(c, i) => \A y \in Records : y = todo[c][i] => Before(y, x)'
    BY <1>5, EarlierStored
  <1>7. \A y \in Records : Stored(y)' => Stored(y) \/ Keyed(y)
    BY <1>2, <1>5
  <1> QED
    BY <1>1, <1>2, <1>4, <1>5, <1>6, <1>7, FinishStep

\* The handler at the peer runs: its reply is true when it is sent.
LEMMA PeerTold ==
  ASSUME LogInv, [Next]_vars, NEW c \in Calls, ForwardHandled(c)
  PROVE  LogInv'
  <1>0. SInv /\ CallTold(c)
    BY DEF LogInv
  <1>1. pc[c] \in InKeyed /\ UNCHANGED <<acks, todo, next, pending, delivery, results, peer, late>>
    BY DEF ForwardHandled, InKeyed
  <1>2. PICK x \in Records : x = Current(c) /\ Keyed(x)
    BY <1>1, AtKeyed
  <1>3. PICK out \in Outcomes : forward_handler(x, peer[c], out) /\ reply' = [reply EXCEPT ![c] = out]
    BY <1>2 DEF ForwardHandled
  <1>4. PICK r : r = peer[c]
    OBVIOUS
  <1>5. /\ Grows /\ RetryStoresOnce'
        /\ \A y \in Records : Stored(y)' => Stored(y) \/ y = x
        /\ out = "dup" => Claimed(x)'
        /\ out = "ok" => Stored(x)' /\ \A y \in Records : Stored(y) => Before(y, x)'
    BY <1>3, <1>4, HandlerEffect
  <1>6. /\ pc'[c] = "reply" /\ reply'[c] = out
        /\ \A d \in Calls \ {c} : pc'[d] = pc[d] /\ reply'[d] = reply[d]
    BY <1>0, <1>3 DEF ForwardHandled, Goto, SInv, TypeOK, HandlerTypeOK, ForwardTypeOK
  <1>7. Deliveries'
    <2>1. \A y \in Records : Stored(y)' => Stored(y) \/ Keyed(y)
      BY <1>2, <1>5
    <2> QED
      BY <1>1, <2>1, DeliveriesKept
  <1>8. AtRecord(c) /\ Keyed(Current(c))
    BY <1>1, AtKeyed
  <1>9. out = "dup" => Claimed(Current(c))'
    BY <1>1, <1>2, <1>5 DEF Claimed, Current
  <1>10. CallTold(c)'
    BY <1>1, <1>2, <1>5, <1>6, <1>8, <1>9, MoveTold
  <1>11. \A d \in Calls \ {c} : Same(d)
    BY <1>1, <1>6 DEF Same
  <1> QED
    BY <1>1, <1>5, <1>7, <1>10, <1>11, CallStep

\* The reply arrives, later: it is still true.
LEMMA AnswerTold ==
  ASSUME LogInv, [Next]_vars, NEW c \in Calls, ForwardAnswered(c)
  PROVE  LogInv'
  <1>0. SInv /\ CallTold(c) /\ RetryStoresOnce
    BY DEF LogInv
  <1>1. pc[c] = "reply" /\ pc[c] \in InKeyed /\ UNCHANGED <<late, log>>
    BY DEF ForwardAnswered, InKeyed
  <1>2. PICK x \in Records : x = Current(c)
    BY <1>1, AtKeyed
  <1>3. Grows /\ RetryStoresOnce' /\ \A y \in Records : Stored(y)' <=> Stored(y)
    BY <1>0, <1>1, NoStore
  <1>4. reply[c] \in Outcomes
    BY <1>0, <1>1, CallTyped DEF CallInOrder
  <1>5. PICK out \in Outcomes : Finish(c, out) /\ out = forwarded(reply[c])
    BY <1>4 DEF ForwardAnswered, forwarded, Outcomes
  <1>6. (out = "ok" => reply[c] = "ok") /\ (out = "dup" => reply[c] = "dup")
    BY <1>4, <1>5 DEF forwarded
  <1>7. out = "dup" => Claimed(x)'
    <2>1. out = "dup" => Claimed(x)
      BY <1>0, <1>1, <1>2, <1>6 DEF CallTold, Answered
    <2> QED
      BY <1>3, <2>1 DEF Grows
  <1>8. ASSUME out = "ok", acks[c] = "all"
        PROVE  /\ Stored(x)'
               /\ \A i \in 1..Len(todo[c]) : i < next[c] /\ OkAt(c, i) =>
                    \A y \in Records : y = todo[c][i] => Before(y, x)'
    <2>1. PICK n \in 1..Len(todo[c]) : n = next[c]
      BY <1>1, AtKeyed
    <2>2. OkAt(c, n) /\ x = todo[c][n]
      BY <1>1, <1>2, <1>6, <1>8, <2>1 DEF OkAt, Current
    <2>3. OkInOrder(c)
      BY <1>0, <1>8 DEF CallTold
    <2>4. Stored(x)
      BY <2>2, <2>3 DEF OkInOrder
    <2>5. \A i \in 1..Len(todo[c]) : i < n /\ OkAt(c, i) =>
            \A y \in Records : y = todo[c][i] => Before(y, x)
      BY <2>2, <2>3 DEF OkInOrder
    <2>6. Stored(x)' /\ \A y \in Records : Before(y, x) => Before(y, x)'
      BY <1>3, <2>4 DEF Grows
    <2> QED
      BY <2>1, <2>5, <2>6
  <1> QED
    BY <1>1, <1>2, <1>3, <1>5, <1>7, <1>8, FinishStep

\* The forward ends without an answer.
LEMMA TimeoutTold ==
  ASSUME LogInv, [Next]_vars, NEW c \in Calls, ForwardTimeout(c)
  PROVE  LogInv'
  <1>0. RetryStoresOnce
    BY DEF LogInv
  <1>1. pc[c] \in InKeyed /\ UNCHANGED log
    BY DEF ForwardTimeout, InKeyed
  <1>2. \A e \in late' : e \in late \/ Keyed(e[1])
    BY LateKeyed DEF ForwardTimeout
  <1>3. Grows /\ RetryStoresOnce' /\ \A y \in Records : Stored(y)' <=> Stored(y)
    BY <1>0, <1>1, NoStore
  <1>4. PICK out \in {"failed", "unavailable"} : Finish(c, out)
    BY DEF ForwardTimeout
  <1>5. out \in Outcomes /\ out # "ok" /\ out # "dup"
    BY DEF Outcomes
  <1> QED
    BY <1>1, <1>2, <1>3, <1>4, <1>5, FinishStep

\* A handler nobody waits for stores its record, if the key is free.
LEMMA LateTold ==
  ASSUME LogInv, [Next]_vars, NEW x \in Records, NEW r \in Replicas, LateHandler(x, r)
  PROVE  LogInv'
  <1>0. SInv /\ RetryStoresOnce /\ Deliveries
    BY DEF LogInv
  <1>1. Keyed(x)
    <2>1. <<x, r>> \in late
      BY DEF LateHandler
    <2> QED
      BY <1>0, <2>1 DEF Deliveries
  <1>2. Grows /\ RetryStoresOnce' /\ \A y \in Records : Stored(y)' => Stored(y) \/ y = x
    BY <1>0, HandlerEffect, NoStore DEF LateHandler
  <1>3. UNCHANGED <<acks, todo, next, pc, pending, delivery, results, peer, reply>>
    BY DEF LateHandler, handlerVars
  <1>4. Deliveries'
    <2>1. \A y \in Records : Stored(y)' => Stored(y) \/ Keyed(y)
      BY <1>1, <1>2
    <2>2. \A e \in late' : e \in late
      BY DEF LateHandler
    <2> QED
      BY <1>3, <2>1, <2>2, DeliveriesKept
  <1>5. \A d \in Calls : Same(d)
    BY <1>3 DEF Same
  <1>6. ASSUME NEW d \in Calls PROVE CallTold(d)'
    <2>1. CallTold(d)
      BY DEF LogInv
    <2> QED
      BY <1>0, <1>2, <1>3, <1>5, <2>1, FrameTold
  <1>7. SInv'
    BY <1>0, StepInv
  <1> QED
    BY <1>2, <1>4, <1>6, <1>7 DEF LogInv

\* Every step, of every call, producer and peer.
LEMMA LogStep == LogInv /\ [Next]_vars => LogInv'
  <1> SUFFICES ASSUME LogInv, [Next]_vars PROVE LogInv'
    OBVIOUS
  <1>1. ASSUME NEW c \in Calls, Handler(c) PROVE LogInv'
    BY <1>1, WindowTold, MovesTold, DrainStep, RouteTold, HereTold, AnswerTold, TimeoutTold DEF Handler
  <1>2. ASSUME NEW c \in Calls, Acknowledge(c) \/ DeliveryFails(c) PROVE LogInv'
    BY <1>2, ProducerTold
  <1>3. ASSUME NEW c \in Calls, ForwardHandled(c) \/ Drop(c) \/ Resend(c) PROVE LogInv'
    BY <1>3, PeerTold, MovesTold, ResendStep
  <1>4. ASSUME NEW x \in Records, NEW r \in Replicas, LateHandler(x, r) PROVE LogInv'
    BY <1>4, LateTold
  <1>5. CASE UNCHANGED vars
    <2>0. SInv /\ RetryStoresOnce /\ SInv'
      BY StepInv DEF LogInv
    <2>1. /\ UNCHANGED <<acks, todo, next, pc, pending, delivery, results, peer, reply, late, log>>
      BY <1>5 DEF vars, handlerVars, forwardVars
    <2>2. Grows /\ RetryStoresOnce' /\ \A y \in Records : Stored(y)' <=> Stored(y)
      BY <2>0, <2>1, NoStore
    <2>3. Deliveries'
      BY <2>1, <2>2, DeliveriesKept
    <2>4. ASSUME NEW d \in Calls PROVE CallTold(d)'
      <3>1. CallTold(d) /\ Same(d)
        BY <2>1 DEF LogInv, Same
      <3> QED
        BY <2>0, <2>1, <2>2, <3>1, FrameTold
    <2> QED
      BY <2>0, <2>2, <2>3, <2>4 DEF LogInv
  <1> QED
    BY <1>1, <1>2, <1>3, <1>4, <1>5 DEF Next

\* At the start nothing is stored or answered.
LEMMA LogInit == Init => LogInv
  <1> SUFFICES ASSUME Init PROVE LogInv
    OBVIOUS
  <1>1. SInv
    BY InitInv
  <1>2. RetryStoresOnce /\ Deliveries
    BY DEF Init, RetryStoresOnce, Deliveries, Stored
  <1>3. ASSUME NEW c \in Calls PROVE CallTold(c)
    <2>1. /\ todo[c] = batch[c] /\ next[c] = 1 /\ pc[c] = "next" /\ results[c] = <<>>
          /\ \A x \in Records : delivery[x] = "none"
      BY DEF Init
    <2>0. batch[c] \in Seq(Records)
      BY SendAssumption
    <2>2. Len(results[c]) = 0 /\ DOMAIN batch[c] = 1..Len(batch[c])
          /\ \A i \in 1..Len(batch[c]) : batch[c][i] \in Records
      BY <2>0, <2>1
    <2>3. TodoFresh(c)
      <3>1. \A i, j \in DOMAIN batch[c] : batch[c][i] = batch[c][j] => i = j
        BY SendAssumption
      <3>2. \A i \in 1..Len(batch[c]) : batch[c][i] \in Mine(c) /\ delivery[batch[c][i]] = "none"
        BY <2>1, <2>2 DEF Mine
      <3> QED
        BY <2>1, <2>2, <3>1, <3>2 DEF TodoFresh
    <2>4. Answered(c)
      BY <2>1, <2>2 DEF Answered, InKeyed
    <2>5. \A i \in 1..Len(todo[c]) : ~OkAt(c, i)
      BY <2>1, <2>2 DEF OkAt
    <2>6. \A i, j \in 1..Len(todo[c]) : ~(0 < i /\ i < j /\ j < 1)
      OBVIOUS
    <2>7. OkInOrder(c)
      BY <2>1, <2>2, <2>5, <2>6 DEF OkInOrder
    <2> QED
      BY <2>3, <2>4, <2>7 DEF CallTold
  <1> QED
    BY <1>1, <1>2, <1>3 DEF LogInv

\* A client that sends again what it may retry stores nothing twice, plain
\* records included, however attempts that timed out run on.
THEOREM RetrySafe == Spec => []RetryStoresOnce
  <1>1. LogInv => RetryStoresOnce
    BY DEF LogInv
  <1> QED
    BY <1>1, LogInit, LogStep, PTL DEF Spec

\* "ok" with acks=all means stored, "dup" that the key is claimed, by the time
\* the caller reads it and for ever, on whichever gateway it was produced.
THEOREM AnswersTrue == Spec => []AnswersStand
  <1>1. LogInv => AnswersStand
    <2> SUFFICES ASSUME LogInv, NEW c \in Calls, NEW i \in DOMAIN results[c]
                 PROVE  /\ results[c][i].result = "ok" /\ acks[c] = "all" => Stored(results[c][i].rec)
                        /\ results[c][i].result = "dup" => Claimed(results[c][i].rec)
      BY DEF AnswersStand
    <2>0. SInv /\ CallTold(c)
      BY DEF LogInv
    <2>1. i \in 1..Len(results[c]) /\ i \in 1..Len(todo[c]) /\ results[c][i].rec = todo[c][i]
      <3>1. DOMAIN results[c] = 1..Len(results[c])
        BY <2>0, CallTyped
      <3> QED
        BY <2>0, <3>1, CallTyped, Indices DEF CallInOrder
    <2>2. results[c][i].result = "ok" => OkAt(c, i)
      BY <2>1 DEF OkAt
    <2> QED
      BY <2>0, <2>1, <2>2 DEF CallTold, OkInOrder, Answered
  <1> QED
    BY <1>1, LogInit, LogStep, PTL DEF Spec

\* Of one call with acks=all, what is answered "ok" is stored in the order of
\* the batch: the window is idempotent and ordered, a keyed record a barrier.
THEOREM OrderKept == Spec => []StoredInInputOrder
  <1>1. LogInv => StoredInInputOrder
    <2> SUFFICES ASSUME LogInv, NEW c \in Calls, NEW i \in DOMAIN results[c], NEW j \in DOMAIN results[c],
                        acks[c] = "all", i < j,
                        results[c][i].result = "ok", results[c][j].result = "ok"
                 PROVE  Position(results[c][i].rec) < Position(results[c][j].rec)
      BY DEF StoredInInputOrder
    <2>0. SInv /\ CallTold(c) /\ RetryStoresOnce
      BY DEF LogInv
    <2>1. DOMAIN results[c] = 1..Len(results[c])
      BY <2>0, CallTyped
    <2>2. ASSUME NEW k \in DOMAIN results[c]
          PROVE  k \in 1..Len(todo[c]) /\ results[c][k].rec = todo[c][k] /\ k <= Len(results[c])
      <3>1. Len(results[c]) \in Nat /\ 1..Len(results[c]) \subseteq 1..Len(todo[c])
        BY <2>0, Indices
      <3>2. CallInOrder(c)
        BY <2>0, CallTyped
      <3> QED
        BY <2>1, <3>1, <3>2 DEF CallInOrder
    <2>3. OkAt(c, i) /\ OkAt(c, j)
      BY <2>2 DEF OkAt
    <2>4. PICK x, y : x = results[c][i].rec /\ y = results[c][j].rec
      OBVIOUS
    <2>5. Before(x, y)
      BY <2>0, <2>2, <2>3, <2>4 DEF CallTold, OkInOrder
    <2>6. PICK a, b \in DOMAIN log : a < b /\ log[a].rec = x /\ log[b].rec = y
      BY <2>5 DEF Before
    <2>7. \A k \in DOMAIN log : (log[k].rec = x => k = a) /\ (log[k].rec = y => k = b)
      BY <2>0, <2>6 DEF RetryStoresOnce
    <2>8. Position(x) = a /\ Position(y) = b
      BY <2>6, <2>7 DEF Position
    <2> QED
      BY <2>4, <2>6, <2>8
  <1> QED
    BY <1>1, LogInit, LogStep, PTL DEF Spec

=============================================================================
