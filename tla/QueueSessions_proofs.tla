------------------------ MODULE QueueSessions_proofs ------------------------
(***************************************************************************)
(* Every record that is locked for a usable queue session is tracked by    *)
(* it, and the sessions stay within their bounds, for any number of        *)
(* sessions, RPCs, records and faults.                                     *)
(***************************************************************************)
EXTENDS QueueSessions, FiniteSetTheorems, TLAPS

\* A session id that is not in use yet has left no trace.
UnusedUnknown ==
  \A s \in Sessions : consumer[s] = "none" =>
    /\ s \notin sessions
    /\ \A r \in Records : holder[r] # s
    /\ \A q \in Requests : session[q] # s

\* An RPC that works on a consumer has a session.
WorkingHasSession ==
  \A q \in Requests : pc[q] \in Waiting \cup Working => session[q] \in Sessions

QInv == Types /\ UnusedUnknown /\ WorkingHasSession /\ LockedIsTracked

\* At the start there is no session.
LEMMA QInit == Init => QInv
  BY NamesAssumption, BoundsAssumption
  DEF Init, QInv, Types, UnusedUnknown, WorkingHasSession, LockedIsTracked, Waiting, Working

\* An RPC that returns, and touches no session, keeps types and references.
LEMMA ReturnSound ==
  ASSUME Types, WorkingHasSession, NEW q \in Requests, Return(q)
  PROVE  /\ pc' \in [Requests -> {"idle", "starting", "returned"} \cup Waiting \cup Working]
         /\ session' \in [Requests -> Sessions \cup {None}]
         /\ is_new' \in [Requests -> BOOLEAN]
         /\ entries' \in [Requests -> SUBSET Records]
         /\ WorkingHasSession'
         /\ \A x \in Requests : session'[x] \in {session[x], None}
  BY DEF Types, WorkingHasSession, Return, Waiting, Working

\* One step per action.
LEMMA QStep == QInv /\ [Next]_vars => QInv'
<1> SUFFICES ASSUME QInv, [Next]_vars PROVE QInv'
  OBVIOUS
<1> USE NamesAssumption
<1>0. Types /\ UnusedUnknown /\ WorkingHasSession /\ LockedIsTracked
  BY DEF QInv
<1>1. CASE UNCHANGED vars
  BY <1>0, <1>1 DEF QInv, Types, UnusedUnknown, WorkingHasSession, LockedIsTracked,
     vars, tableVars, rpcVars
<1>2. ASSUME NEW s \in Sessions, remove_expired(s) \/ close_removed(s) \/ IdleElapses(s)
      PROVE  QInv'
  <2>1. Types'
    BY <1>0, <1>2 DEF Types, remove_expired, close_removed, IdleElapses, remove, rpcVars
  <2>2. UnusedUnknown'
    BY <1>0, <1>2 DEF Types, UnusedUnknown, remove_expired, close_removed, IdleElapses, remove, rpcVars
  <2>3. WorkingHasSession'
    BY <1>0, <1>2 DEF WorkingHasSession, remove_expired, close_removed, IdleElapses, rpcVars
  <2>4. LockedIsTracked'
    BY <1>0, <1>2 DEF Types, LockedIsTracked, remove_expired, close_removed, IdleElapses, remove
  <2> QED
    BY <2>1, <2>2, <2>3, <2>4 DEF QInv
<1>3. ASSUME NEW r \in Records, LockExpires(r)
      PROVE  QInv'
  BY <1>0, <1>3 DEF QInv, Types, UnusedUnknown, WorkingHasSession, LockedIsTracked,
     LockExpires, tableVars, rpcVars
<1>4. ASSUME NEW q \in Requests, reserve(q)
      PROVE  QInv'
  BY <1>0, <1>4 DEF QInv, Types, UnusedUnknown, WorkingHasSession, LockedIsTracked,
     reserve, tableVars, Waiting, Working
<1>5. ASSUME NEW q \in Requests, NEW s \in Sessions, start_session(q, s)
      PROVE  QInv'
  <2>1. Types'
    BY <1>0, <1>5 DEF Types, start_session, touch, Waiting
  <2>2. UnusedUnknown'
    BY <1>0, <1>5 DEF Types, UnusedUnknown, start_session
  <2>3. WorkingHasSession'
    BY <1>0, <1>5 DEF Types, WorkingHasSession, start_session
  <2>4. LockedIsTracked'
    BY <1>0, <1>5 DEF Types, UnusedUnknown, LockedIsTracked, start_session
  <2> QED
    BY <2>1, <2>2, <2>3, <2>4 DEF QInv
<1>6. ASSUME NEW q \in Requests, NEW s \in Sessions, get(q, s)
      PROVE  QInv'
  <2>1. CASE Return(q)
    BY <1>0, <1>6, <2>1, ReturnSound
    DEF QInv, Types, UnusedUnknown, LockedIsTracked, get, touch
  <2>2. CASE /\ session' = [session EXCEPT ![q] = s]
             /\ \E l \in Waiting, E \in SUBSET Records :
                  /\ pc' = [pc EXCEPT ![q] = l]
                  /\ entries' \in {entries, [entries EXCEPT ![q] = E]}
             /\ UNCHANGED is_new
    <3>1. Types'
      BY <1>0, <1>6, <2>2 DEF Types, get, touch
    <3>2. UnusedUnknown'
      BY <1>0, <1>6, <2>2 DEF Types, UnusedUnknown, get
    <3>3. WorkingHasSession'
      BY <1>0, <1>6, <2>2 DEF Types, WorkingHasSession, get
    <3>4. LockedIsTracked'
      BY <1>0, <1>6 DEF LockedIsTracked, get
    <3> QED
      BY <3>1, <3>2, <3>3, <3>4 DEF QInv
  <2> QED
    BY <1>6, <2>1, <2>2 DEF get, Waiting
<1>7. ASSUME NEW q \in Requests, NEW s \in Sessions, GetExpired(q, s)
      PROVE  QInv'
  BY <1>0, <1>7, ReturnSound
  DEF QInv, Types, UnusedUnknown, LockedIsTracked, GetExpired, remove
<1>8. ASSUME NEW q \in Requests, StartFails(q)
      PROVE  QInv'
  BY <1>0, <1>8, ReturnSound
  DEF QInv, Types, UnusedUnknown, LockedIsTracked, StartFails, tableVars
<1>9. ASSUME NEW q \in Requests, LockToPoll(q) \/ LockToCommit(q)
      PROVE  QInv'
  <2>1. CASE Return(q) /\ UNCHANGED <<holder, consumer, tableVars, coordinates, untracked, faults>>
    BY <1>0, <2>1, ReturnSound DEF QInv, Types, UnusedUnknown, LockedIsTracked, tableVars
  <2>2. CASE /\ pc[q] \in Waiting
             /\ \E l \in Working : pc' = [pc EXCEPT ![q] = l]
             /\ UNCHANGED <<holder, consumer, tableVars, coordinates, session, is_new, entries,
                            untracked, faults>>
    BY <1>0, <2>2
    DEF QInv, Types, UnusedUnknown, WorkingHasSession, LockedIsTracked, tableVars
  <2> QED
    BY <1>9, <2>1, <2>2 DEF LockToPoll, LockToCommit, Waiting, Working
<1>10. ASSUME NEW q \in Requests, NEW B \in SUBSET Records, PollTracked(q, B) \/ LimitExceeded(q, B)
       PROVE  QInv'
  <2>1. session[q] \in Sessions /\ consumer[session[q]] = "open" /\ Acquired(session[q], B)
        /\ Return(q)
    BY <1>0, <1>10 DEF WorkingHasSession, PollTracked, LimitExceeded, Working
  <2>2. Types'
    <3>1. holder' \in [Records -> Sessions \cup {None, Done}]
      BY <1>0, <2>1 DEF Types, Acquired
    <3>2. /\ coordinates' \in [Sessions -> SUBSET Records]
          /\ expired' \in [Sessions -> BOOLEAN]
          /\ sessions' \in SUBSET Sessions /\ closing' \in SUBSET Sessions
          /\ UNCHANGED <<consumer, untracked, faults>>
      <4>1. CASE PollTracked(q, B)
        <5>1. /\ coordinates' = [coordinates EXCEPT ![session[q]] = @ \cup B]
              /\ expired' = [expired EXCEPT ![session[q]] = FALSE]
              /\ UNCHANGED <<consumer, sessions, closing, untracked, faults>>
          BY <4>1 DEF PollTracked, touch
        <5> QED
          BY <1>0, <2>1, <5>1 DEF Types
      <4>2. CASE LimitExceeded(q, B)
        BY <1>0, <2>1, <4>2 DEF Types, LimitExceeded, remove
      <4> QED
        BY <1>10, <4>1, <4>2
    <3> QED
      BY <1>0, <2>1, <3>1, <3>2, ReturnSound DEF Types
  <2>3. UnusedUnknown'
    BY <1>0, <1>10, <2>1, ReturnSound
    DEF Types, UnusedUnknown, PollTracked, LimitExceeded, Acquired, remove
  <2>4. LockedIsTracked'
    BY <1>0, <1>10, <2>1 DEF Types, LockedIsTracked, PollTracked, LimitExceeded, Acquired, remove
  <2> QED
    BY <1>0, <2>1, <2>2, <2>3, <2>4, ReturnSound DEF QInv
<1>11. ASSUME NEW q \in Requests, PollFails(q) \/ Cancel(q) \/ EntriesDone(q)
       PROVE  QInv'
  <2>1. Return(q) /\ UNCHANGED <<consumer, coordinates>> /\ faults' \in Nat
    BY <1>0, <1>11 DEF Types, PollFails, Cancel, EntriesDone, Fault
  <2>2. /\ sessions' \subseteq sessions /\ closing' \in SUBSET Sessions
        /\ expired' \in [Sessions -> BOOLEAN]
    BY <1>0, <1>11 DEF Types, PollFails, Cancel, EntriesDone, remove, touch, tableVars
  <2>3. \/ UNCHANGED <<holder, untracked>>
        \/ \E s \in Sessions :
             /\ consumer[s] = "open"
             /\ \E B \in SUBSET Records : Acquired(s, B)
             /\ untracked' = untracked \cup {s}
        \/ /\ \E r \in Records : \E h \in {Done, None} : holder' = [holder EXCEPT ![r] = h]
           /\ UNCHANGED untracked
    BY <1>0, <1>11
    DEF WorkingHasSession, Types, PollFails, Cancel, EntriesDone, PollLost, Dispose, Working
  <2>4. Types'
    BY <1>0, <2>1, <2>2, <2>3, ReturnSound DEF Types, Acquired
  <2>5. UnusedUnknown'
    BY <1>0, <2>1, <2>2, <2>3, ReturnSound DEF Types, UnusedUnknown, Acquired
  <2>6. LockedIsTracked'
    BY <1>0, <2>1, <2>2, <2>3 DEF Types, LockedIsTracked, Acquired
  <2> QED
    BY <1>0, <2>1, <2>4, <2>5, <2>6, ReturnSound DEF QInv
<1>12. ASSUME NEW q \in Requests, NEW r \in Records, acknowledge_entry(q, r)
       PROVE  QInv'
  <2> DEFINE s == session[q]
  <2>1. s \in Sessions
    BY <1>0, <1>12 DEF WorkingHasSession, acknowledge_entry, Working
  <2>2. /\ UNCHANGED <<consumer, tableVars, pc, session, is_new, untracked>>
        /\ entries' = [entries EXCEPT ![q] = @ \ {r}]
        /\ faults' \in Nat
        /\ coordinates' \in {coordinates, [coordinates EXCEPT ![s] = @ \ {r}]}
        /\ UNCHANGED holder \/ (\E h \in {Done, None} : holder' = [holder EXCEPT ![r] = h])
    BY <1>0, <1>12 DEF Types, acknowledge_entry, Dispose, Fault
  <2>3. coordinates' = coordinates \/ holder'[r] # s
    BY <1>0, <1>12, <2>1
    DEF Types, acknowledge_entry, acknowledgement_releases_tracking, Verdicts, Dispose
  <2>4. Types'
    BY <1>0, <2>1, <2>2 DEF Types, tableVars
  <2>5. UnusedUnknown' /\ WorkingHasSession'
    BY <1>0, <2>2 DEF Types, UnusedUnknown, WorkingHasSession, tableVars
  <2>6. LockedIsTracked'
    BY <1>0, <2>1, <2>2, <2>3 DEF Types, LockedIsTracked, tableVars
  <2> QED
    BY <2>4, <2>5, <2>6 DEF QInv
<1> QED
  BY <1>1, <1>2, <1>3, <1>4, <1>5, <1>6, <1>7, <1>8, <1>9, <1>10, <1>11, <1>12
  DEF Next, Rpc

\* A usable session tracks every record the broker holds locked for it, unless
\* the answer to a poll was lost (poll_tracked_batch, queue_acknowledge,
\* queue_renew and the removals of QueueSessionTable).
THEOREM LocksTracked == Spec => []LockedIsTracked
<1>1. QInv => LockedIsTracked
  BY DEF QInv
<1> QED
  BY QInit, QStep, <1>1, PTL DEF Spec

-----------------------------------------------------------------------------
(* The bounds.                                                             *)

\* The consumer mutex: one RPC works on a session at a time.
OneWorker ==
  \A a, b \in Requests : pc[a] \in Working /\ pc[b] \in Working /\ session[a] = session[b] => a = b

\* Whoever polls has found no batch, and nobody has brought one since.
PollsEmpty == \A q \in Requests : pc[q] = "polling" => coordinates[session[q]] = {}

\* A session tracks at most one batch.
Batches == \A s \in Sessions : Cardinality(coordinates[s]) <= max_messages

\* The semaphore.
Permits == IsFiniteSet(Starting) /\ PermitsTaken <= MAX_SESSIONS

\* A consumer that is open has a session that still has a permit.
OpenHeld == \A s \in Sessions : consumer[s] = "open" => s \in sessions \cup closing

BoundsInv == QInv /\ OneWorker /\ PollsEmpty /\ Batches /\ Permits /\ OpenHeld

\* A part of a finite set has no more elements than the whole.
LEMMA Fewer ==
  ASSUME NEW S, NEW T, IsFiniteSet(T), S \subseteq T
  PROVE  IsFiniteSet(S) /\ Cardinality(S) \in Nat /\ Cardinality(T) \in Nat
         /\ Cardinality(S) <= Cardinality(T)
  BY FS_Subset, FS_CardinalityType

Held == {s \in Sessions : Referenced(s)}

\* Releasing references gives permits back.
LEMMA PermitsKept ==
  ASSUME Permits, \A s \in Sessions : Referenced(s)' => Referenced(s), Starting' \subseteq Starting
  PROVE  Permits'
  <1>1. PICK A, B, C, D : A = Held' /\ B = Held /\ C = Starting' /\ D = Starting
    OBVIOUS
  <1>2. A \subseteq B /\ B \subseteq Sessions /\ C \subseteq D /\ IsFiniteSet(D)
    BY <1>1 DEF Held, Permits
  <1>3. /\ IsFiniteSet(B) /\ IsFiniteSet(C)
        /\ Cardinality(A) \in Nat /\ Cardinality(B) \in Nat /\ Cardinality(C) \in Nat /\ Cardinality(D) \in Nat
        /\ Cardinality(A) <= Cardinality(B) /\ Cardinality(C) <= Cardinality(D)
    BY <1>2, FiniteAssumption, Fewer
  <1>4. /\ PermitsTaken = Cardinality(B) + Cardinality(D)
        /\ PermitsTaken' = Cardinality(A) + Cardinality(C)
    BY <1>1 DEF PermitsTaken, Held
  <1> QED
    BY <1>1, <1>3, <1>4, BoundsAssumption DEF Permits

\* reserve takes a permit where one is left.
LEMMA PermitsReserve ==
  ASSUME Types, Permits, NEW q \in Requests, reserve(q)
  PROVE  Permits'
  <1>1. \A s \in Sessions : Referenced(s)' <=> Referenced(s)
    BY DEF reserve, Referenced, tableVars
  <1>2. CASE PermitsTaken < MAX_SESSIONS
    <2>1. PICK B, C, D : B = Held /\ C = Starting' /\ D = Starting
      OBVIOUS
    <2>2. Held' = B /\ B \subseteq Sessions
      BY <1>1, <2>1 DEF Held
    <2>3. C = D \cup {q} /\ IsFiniteSet(D)
      BY <1>2, <2>1 DEF reserve, Starting, Types, Permits
    <2>4. /\ IsFiniteSet(C) /\ Cardinality(C) \in Nat /\ Cardinality(D) \in Nat
          /\ Cardinality(C) <= Cardinality(D) + 1
      BY <2>3, FS_AddElement, FS_CardinalityType
    <2>5. Cardinality(B) \in Nat
      BY <2>2, FiniteAssumption, Fewer
    <2>6. /\ PermitsTaken = Cardinality(B) + Cardinality(D)
          /\ PermitsTaken' = Cardinality(B) + Cardinality(C)
      BY <2>1, <2>2 DEF PermitsTaken, Held
    <2> QED
      BY <1>2, <2>1, <2>4, <2>5, <2>6, BoundsAssumption DEF Permits
  <1>3. CASE ~(PermitsTaken < MAX_SESSIONS)
    <2>1. Starting' \subseteq Starting
      BY <1>3 DEF reserve, Starting, Types
    <2> QED
      BY <1>1, <2>1, PermitsKept
  <1> QED
    BY <1>2, <1>3

\* start_session hands the permit from the RPC to the session.
LEMMA PermitsStart ==
  ASSUME Types, Permits, NEW q \in Requests, NEW s \in Sessions, start_session(q, s)
  PROVE  Permits'
  <1>1. PICK A, B, C, D : A = Held' /\ B = Held /\ C = Starting' /\ D = Starting
    OBVIOUS
  <1>2. A \subseteq B \cup {s} /\ B \subseteq Sessions
    BY <1>1 DEF Held, Referenced, start_session, Types
  <1>3. C = D \ {q} /\ q \in D /\ IsFiniteSet(D)
    BY <1>1 DEF Starting, start_session, Types, Permits
  <1>4. /\ IsFiniteSet(C) /\ Cardinality(C) \in Nat /\ Cardinality(D) \in Nat
        /\ Cardinality(C) = Cardinality(D) - 1
    BY <1>3, FS_RemoveElement, FS_CardinalityType
  <1>5. /\ Cardinality(A) \in Nat /\ Cardinality(B) \in Nat
        /\ Cardinality(A) <= Cardinality(B) + 1
    <2>1. IsFiniteSet(B)
      BY <1>2, FiniteAssumption, Fewer
    <2>2. PICK E : E = B \cup {s}
      OBVIOUS
    <2>3. IsFiniteSet(E) /\ (Cardinality(E) = Cardinality(B) \/ Cardinality(E) = Cardinality(B) + 1)
      <3>1. CASE s \in B
        BY <2>1, <2>2, <3>1, FS_AddElement
      <3>2. CASE s \notin B
        BY <2>1, <2>2, <3>2, FS_AddElement
      <3> QED
        BY <3>1, <3>2
    <2>4. Cardinality(B) \in Nat
      BY <2>1, FS_CardinalityType
    <2>5. Cardinality(A) \in Nat /\ Cardinality(E) \in Nat /\ Cardinality(A) <= Cardinality(E)
      BY <1>2, <2>2, <2>3, Fewer
    <2> QED
      BY <2>3, <2>4, <2>5
  <1>6. /\ PermitsTaken = Cardinality(B) + Cardinality(D)
        /\ PermitsTaken' = Cardinality(A) + Cardinality(C)
    BY <1>1 DEF PermitsTaken, Held
  <1> QED
    BY <1>1, <1>4, <1>5, <1>6, BoundsAssumption DEF Permits

\* What the parts other than the permits say: the mutex, the batches and the
\* open consumers.
Discipline == OneWorker /\ PollsEmpty /\ Batches /\ OpenHeld

\* A tracked batch that only shrinks stays within its limit.
LEMMA BatchesShrink ==
  ASSUME Types, Batches, \A s \in Sessions : coordinates'[s] \subseteq coordinates[s]
  PROVE  Batches'
  <1> SUFFICES ASSUME NEW s \in Sessions PROVE Cardinality(coordinates'[s]) <= max_messages
    BY DEF Batches
  <1>1. PICK A, B : A = coordinates'[s] /\ B = coordinates[s]
    OBVIOUS
  <1>2. A \subseteq B /\ B \subseteq Records /\ Cardinality(B) <= max_messages
    BY <1>1 DEF Types, Batches
  <1>3. Cardinality(A) \in Nat /\ Cardinality(B) \in Nat /\ Cardinality(A) <= Cardinality(B)
    <2>1. IsFiniteSet(B)
      BY <1>2, FiniteAssumption, Fewer
    <2> QED
      BY <1>2, <2>1, Fewer
  <1> QED
    BY <1>1, <1>2, <1>3, BoundsAssumption

\* An action that gives nobody the consumer mutex, brings no batch and opens no
\* consumer.
LEMMA DisciplineKept ==
  ASSUME Types, WorkingHasSession, Discipline,
         \A x \in Requests : pc'[x] \in Working => pc'[x] = pc[x] /\ session'[x] = session[x],
         \A s \in Sessions : coordinates'[s] \subseteq coordinates[s],
         \A s \in Sessions : consumer'[s] = "open" =>
           consumer[s] = "open" /\ (s \in sessions \cup closing => s \in sessions' \cup closing')
  PROVE  Discipline'
  <1>1. OneWorker'
    BY DEF Discipline, OneWorker
  <1>2. PollsEmpty'
    BY DEF Discipline, PollsEmpty, WorkingHasSession, Working
  <1>3. Batches'
    BY BatchesShrink DEF Discipline
  <1>4. OpenHeld'
    BY DEF Discipline, OpenHeld
  <1> QED
    BY <1>1, <1>2, <1>3, <1>4 DEF Discipline

\* What an RPC that returns lets go of.
LEMMA ReturnReleases ==
  ASSUME Types, NEW q \in Requests, Return(q)
  PROVE  /\ \A x \in Requests : pc'[x] \in Working => pc'[x] = pc[x] /\ session'[x] = session[x]
         /\ \A x \in Requests : session'[x] \in {session[x], None}
         /\ Starting' \subseteq Starting
  BY DEF Types, Return, Working, Starting

\* The parts of a step that returns an RPC and leaves the sessions where they
\* are, in the table or being closed.
LEMMA ReturnKept ==
  ASSUME Types, WorkingHasSession, Discipline, Permits, NEW q \in Requests, Return(q),
         UNCHANGED consumer, sessions' \cup closing' = sessions \cup closing,
         \A s \in Sessions : coordinates'[s] \subseteq coordinates[s]
  PROVE  Discipline' /\ Permits'
  <1>1. Discipline'
    BY ReturnReleases, DisciplineKept
  <1>2. \A s \in Sessions : Referenced(s)' => Referenced(s)
    BY ReturnReleases, NamesAssumption DEF Referenced
  <1> QED
    BY <1>1, <1>2, ReturnReleases, PermitsKept

\* One step per action.
LEMMA BStep == BoundsInv /\ [Next]_vars => BoundsInv'
<1> SUFFICES ASSUME BoundsInv, [Next]_vars PROVE BoundsInv'
  OBVIOUS
<1>0. Types /\ UnusedUnknown /\ WorkingHasSession /\ Discipline /\ Permits
  BY DEF BoundsInv, QInv, Discipline
<1>q. QInv'
  BY QStep DEF BoundsInv
<1> SUFFICES Discipline' /\ Permits'
  BY <1>q DEF BoundsInv, Discipline
<1>1. CASE UNCHANGED vars
  <2>1. Discipline'
    BY <1>0, <1>1 DEF Discipline, OneWorker, PollsEmpty, Batches, OpenHeld, vars, tableVars, rpcVars
  <2>2. (\A s \in Sessions : Referenced(s)' => Referenced(s)) /\ Starting' \subseteq Starting
    BY <1>1 DEF Referenced, Starting, vars, tableVars, rpcVars
  <2> QED
    BY <1>0, <2>1, <2>2, PermitsKept
<1>2. ASSUME NEW s \in Sessions, remove_expired(s) \/ IdleElapses(s)
      PROVE  Discipline' /\ Permits'
  <2>1. sessions' \cup closing' = sessions \cup closing /\ UNCHANGED <<consumer, coordinates, rpcVars>>
    BY <1>2 DEF remove_expired, IdleElapses, remove
  <2>2. Discipline'
    BY <1>0, <2>1, DisciplineKept DEF rpcVars
  <2>3. (\A t \in Sessions : Referenced(t)' => Referenced(t)) /\ Starting' \subseteq Starting
    BY <2>1 DEF Referenced, Starting, rpcVars
  <2> QED
    BY <1>0, <2>2, <2>3, PermitsKept
<1>3. ASSUME NEW s \in Sessions, close_removed(s)
      PROVE  Discipline' /\ Permits'
  <2>1. /\ UNCHANGED <<sessions, coordinates, rpcVars>> /\ closing' = closing \ {s}
        /\ consumer' = [consumer EXCEPT ![s] = "closed"]
    BY <1>3 DEF close_removed
  <2>2. Discipline'
    BY <1>0, <2>1, DisciplineKept DEF rpcVars, Types
  <2>3. (\A t \in Sessions : Referenced(t)' => Referenced(t)) /\ Starting' \subseteq Starting
    BY <2>1 DEF Referenced, Starting, rpcVars
  <2> QED
    BY <1>0, <2>2, <2>3, PermitsKept
<1>4. ASSUME NEW r \in Records, LockExpires(r)
      PROVE  Discipline' /\ Permits'
  <2>1. UNCHANGED <<consumer, tableVars, coordinates, rpcVars>>
    BY <1>4 DEF LockExpires
  <2>2. Discipline'
    BY <1>0, <2>1, DisciplineKept DEF rpcVars, tableVars
  <2>3. (\A t \in Sessions : Referenced(t)' => Referenced(t)) /\ Starting' \subseteq Starting
    BY <2>1 DEF Referenced, Starting, rpcVars, tableVars
  <2> QED
    BY <1>0, <2>2, <2>3, PermitsKept
<1>5. ASSUME NEW q \in Requests, reserve(q)
      PROVE  Discipline' /\ Permits'
  <2>1. \A x \in Requests : pc'[x] \in Working => pc'[x] = pc[x] /\ session'[x] = session[x]
    BY <1>0, <1>5 DEF reserve, Working, Types
  <2>2. UNCHANGED <<consumer, tableVars, coordinates>>
    BY <1>5 DEF reserve
  <2>3. Discipline'
    BY <1>0, <2>1, <2>2, DisciplineKept DEF tableVars
  <2> QED
    BY <1>0, <1>5, <2>3, PermitsReserve
<1>6. ASSUME NEW q \in Requests, NEW s \in Sessions, start_session(q, s)
      PROVE  Discipline' /\ Permits'
  <2>1. /\ \A x \in Requests : pc'[x] \in Working => pc'[x] = pc[x] /\ session'[x] = session[x]
        /\ UNCHANGED coordinates
    BY <1>0, <1>6 DEF start_session, Working, Types
  <2>2. OneWorker'
    BY <1>0, <2>1 DEF Discipline, OneWorker
  <2>3. PollsEmpty' /\ Batches'
    BY <1>0, <2>1 DEF Discipline, PollsEmpty, Batches, Working
  <2>4. OpenHeld'
    BY <1>0, <1>6 DEF Discipline, OpenHeld, start_session, Types
  <2> QED
    BY <1>0, <1>6, <2>2, <2>3, <2>4, PermitsStart DEF Discipline
<1>7. ASSUME NEW q \in Requests, NEW s \in Sessions, get(q, s)
      PROVE  Discipline' /\ Permits'
  <2>1. UNCHANGED <<consumer, sessions, closing, coordinates>> /\ s \in sessions
    BY <1>7 DEF get
  <2>2. CASE Return(q)
    BY <1>0, <2>1, <2>2, ReturnKept
  <2>3. CASE /\ session' = [session EXCEPT ![q] = s]
             /\ \E l \in Waiting : pc' = [pc EXCEPT ![q] = l]
    <3>1. \A x \in Requests : pc'[x] \in Working => pc'[x] = pc[x] /\ session'[x] = session[x]
      BY <1>0, <2>3 DEF Types, Waiting, Working
    <3>2. (\A t \in Sessions : Referenced(t)' => Referenced(t)) /\ Starting' \subseteq Starting
      BY <1>0, <2>1, <2>3 DEF Types, Referenced, Starting, Waiting
    <3> QED
      BY <1>0, <2>1, <3>1, <3>2, DisciplineKept, PermitsKept
  <2> QED
    BY <1>7, <2>2, <2>3 DEF get, Waiting
<1>8. ASSUME NEW q \in Requests, NEW s \in Sessions, GetExpired(q, s)
      PROVE  Discipline' /\ Permits'
  BY <1>0, <1>8, ReturnKept DEF GetExpired, remove
<1>9. ASSUME NEW q \in Requests, StartFails(q) \/ EntriesDone(q) \/ Cancel(q)
      PROVE  Discipline' /\ Permits'
  BY <1>0, <1>9, ReturnKept DEF StartFails, EntriesDone, Cancel, tableVars
<1>10. ASSUME NEW q \in Requests, PollFails(q)
       PROVE  Discipline' /\ Permits'
  <2>1. /\ Return(q) /\ UNCHANGED <<consumer, coordinates>>
        /\ sessions' \cup closing' = sessions \cup closing
    BY <1>10 DEF PollFails, remove, tableVars
  <2> QED
    BY <1>0, <2>1, ReturnKept
<1>11. ASSUME NEW q \in Requests, NEW B \in SUBSET Records, LimitExceeded(q, B)
       PROVE  Discipline' /\ Permits'
  <2>1. /\ Return(q) /\ UNCHANGED <<consumer, coordinates>>
        /\ sessions' \cup closing' = sessions \cup closing
    BY <1>11 DEF LimitExceeded, remove
  <2> QED
    BY <1>0, <2>1, ReturnKept
<1>12. ASSUME NEW q \in Requests, NEW r \in Records, acknowledge_entry(q, r)
       PROVE  Discipline' /\ Permits'
  <2>1. UNCHANGED <<consumer, tableVars, pc, session>>
    BY <1>12 DEF acknowledge_entry
  <2>2. \A t \in Sessions : coordinates'[t] \subseteq coordinates[t]
    BY <1>0, <1>12 DEF acknowledge_entry, Types
  <2>3. Discipline'
    BY <1>0, <2>1, <2>2, DisciplineKept DEF tableVars
  <2>4. (\A t \in Sessions : Referenced(t)' => Referenced(t)) /\ Starting' \subseteq Starting
    BY <2>1 DEF Referenced, Starting, tableVars
  <2> QED
    BY <1>0, <2>3, <2>4, PermitsKept
<1>13. ASSUME NEW q \in Requests, LockToPoll(q) \/ LockToCommit(q)
       PROVE  Discipline' /\ Permits'
  <2>1. UNCHANGED <<consumer, tableVars, coordinates>> /\ ConsumerFree(session[q]) /\ pc[q] \in Waiting
    BY <1>13 DEF LockToPoll, LockToCommit, Waiting
  <2>2. CASE Return(q)
    BY <1>0, <2>1, <2>2, ReturnKept DEF tableVars
  <2>3. CASE /\ UNCHANGED session
             /\ \E l \in Working : pc' = [pc EXCEPT ![q] = l] /\ (l = "polling" => can_poll(session[q]))
    <3>1. PICK l \in Working : pc' = [pc EXCEPT ![q] = l] /\ (l = "polling" => can_poll(session[q]))
      BY <2>3
    <3>2. OneWorker'
      BY <1>0, <2>1, <2>3, <3>1 DEF Discipline, OneWorker, ConsumerFree, Types
    <3>3. PollsEmpty'
      BY <1>0, <2>1, <2>3, <3>1 DEF Discipline, PollsEmpty, can_poll, Types
    <3>4. Batches' /\ OpenHeld'
      BY <1>0, <2>1 DEF Discipline, Batches, OpenHeld, tableVars
    <3>5. (\A t \in Sessions : Referenced(t)' => Referenced(t)) /\ Starting' \subseteq Starting
      BY <1>0, <2>1, <2>3, <3>1 DEF Types, Referenced, Starting, tableVars, Working
    <3> QED
      BY <1>0, <3>2, <3>3, <3>4, <3>5, PermitsKept DEF Discipline
  <2> QED
    BY <1>13, <2>2, <2>3 DEF LockToPoll, LockToCommit, Working
<1>14. ASSUME NEW q \in Requests, NEW B \in SUBSET Records, PollTracked(q, B)
       PROVE  Discipline' /\ Permits'
  <2>1. PICK s \in Sessions : s = session[q]
    BY <1>0, <1>14 DEF WorkingHasSession, PollTracked, Working
  <2>2. /\ pc[q] = "polling" /\ Return(q) /\ UNCHANGED <<consumer, sessions, closing>>
        /\ coordinates' = [coordinates EXCEPT ![s] = @ \cup B]
        /\ ~exceeds_limit(B)
    BY <1>14, <2>1 DEF PollTracked
  <2>3. coordinates' = [coordinates EXCEPT ![s] = B]
    BY <1>0, <2>1, <2>2 DEF Discipline, PollsEmpty, Types
  <2>4. OneWorker'
    BY <1>0, <2>2, ReturnReleases DEF Discipline, OneWorker
  <2>5. PollsEmpty'
    <3> SUFFICES ASSUME NEW x \in Requests, pc'[x] = "polling"
                 PROVE  coordinates'[session'[x]] = {}
      BY DEF PollsEmpty
    <3>1. pc[x] = "polling" /\ session'[x] = session[x] /\ session[x] \in Sessions
      BY <1>0, <2>2, ReturnReleases DEF Working, WorkingHasSession
    <3>2. x # q
      BY <1>0, <2>2 DEF Return, Types
    <3>3. session[x] # s
      BY <1>0, <2>1, <2>2, <3>1, <3>2 DEF Discipline, OneWorker, Working
    <3> QED
      BY <1>0, <2>3, <3>1, <3>3 DEF Discipline, PollsEmpty, Types
  <2>6. Batches'
    <3>1. IsFiniteSet(B)
      BY FiniteAssumption, Fewer
    <3>2. Cardinality(B) <= max_messages
      BY <2>2, <3>1, FS_CardinalityType, BoundsAssumption DEF exceeds_limit
    <3> QED
      BY <1>0, <2>3, <3>2 DEF Discipline, Batches, Types
  <2>7. OpenHeld'
    BY <1>0, <2>2 DEF Discipline, OpenHeld
  <2>8. (\A t \in Sessions : Referenced(t)' => Referenced(t)) /\ Starting' \subseteq Starting
    BY <1>0, <2>2, ReturnReleases, NamesAssumption DEF Referenced
  <2> QED
    BY <1>0, <2>4, <2>5, <2>6, <2>7, <2>8, PermitsKept DEF Discipline
<1> QED
  BY <1>1, <1>2, <1>3, <1>4, <1>5, <1>6, <1>7, <1>8, <1>9, <1>10, <1>11, <1>12, <1>13, <1>14
  DEF Next, Rpc

\* At the start nothing is taken.
LEMMA BInit == Init => BoundsInv
<1> SUFFICES ASSUME Init PROVE BoundsInv
  OBVIOUS
<1>1. OneWorker /\ PollsEmpty /\ OpenHeld
  BY DEF Init, OneWorker, PollsEmpty, OpenHeld, Working
<1>2. Batches
  BY FS_EmptySet, BoundsAssumption DEF Init, Batches
<1>3. Permits
  <2>1. Held = {} /\ Starting = {}
    BY NamesAssumption DEF Init, Held, Referenced, Starting
  <2>2. PermitsTaken = Cardinality({}) + Cardinality({})
    BY <2>1 DEF PermitsTaken, Held
  <2> QED
    BY <2>1, <2>2, FS_EmptySet, BoundsAssumption DEF Permits
<1> QED
  BY <1>1, <1>2, <1>3, QInit DEF BoundsInv

\* The bounds follow from the invariant.
LEMMA BoundsImply == BoundsInv => SessionsBounded
<1> SUFFICES ASSUME BoundsInv PROVE SessionsBounded
  OBVIOUS
<1>0. Types /\ LockedIsTracked /\ Batches /\ Permits /\ OpenHeld
  BY DEF BoundsInv, QInv
<1>1. TypeOK
  BY <1>0 DEF TypeOK, Batches
<1>2. OneBatchAtATime
  <2> SUFFICES ASSUME NEW s \in sessions \ untracked
               PROVE  Cardinality({r \in Records : holder[r] = s}) <= max_messages
    BY DEF OneBatchAtATime
  <2>1. PICK A, B : A = {r \in Records : holder[r] = s} /\ B = coordinates[s]
    OBVIOUS
  <2>2. A \subseteq B /\ B \subseteq Records /\ Cardinality(B) <= max_messages
    BY <1>0, <2>1 DEF LockedIsTracked, Types, Batches
  <2>3. IsFiniteSet(B)
    BY <2>2, FiniteAssumption, Fewer
  <2>4. Cardinality(A) \in Nat /\ Cardinality(B) \in Nat /\ Cardinality(A) <= Cardinality(B)
    BY <2>2, <2>3, Fewer
  <2> QED
    BY <2>1, <2>2, <2>4, BoundsAssumption
<1>3. ConsumersBounded
  <2>1. PICK A, B, D : A = {s \in Sessions : consumer[s] = "open"} /\ B = Held /\ D = Starting
    OBVIOUS
  <2>2. A \subseteq B /\ B \subseteq Sessions
    BY <1>0, <2>1 DEF OpenHeld, Held, Referenced
  <2>3. IsFiniteSet(B)
    BY <2>2, FiniteAssumption, Fewer
  <2>4. Cardinality(A) \in Nat /\ Cardinality(B) \in Nat /\ Cardinality(A) <= Cardinality(B)
    BY <2>2, <2>3, Fewer
  <2>5. Cardinality(D) \in Nat
    BY <1>0, <2>1, FS_CardinalityType DEF Permits
  <2>6. Cardinality(B) + Cardinality(D) <= MAX_SESSIONS
    BY <1>0, <2>1 DEF Permits, PermitsTaken, Held
  <2>7. Cardinality(A) + Cardinality(D) <= MAX_SESSIONS
    BY <2>4, <2>5, <2>6, BoundsAssumption
  <2> QED
    BY <2>1, <2>7 DEF ConsumersBounded
<1> QED
  BY <1>1, <1>2, <1>3 DEF SessionsBounded

\* A session never tracks, and the broker never holds for a session that can be
\* used, more than one batch of max_messages; and the native consumers that
\* exist or are being built never exceed MAX_SESSIONS, however the removals, the
\* slow closes and the cancelled RPCs of queue.rs interleave.
THEOREM Bounded == Spec => []SessionsBounded
  BY BInit, BStep, BoundsImply, PTL DEF Spec
=============================================================================
