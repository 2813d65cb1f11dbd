---------------------------- MODULE ExactlyOnce ----------------------------
(***************************************************************************)
(* What keyed produce promises its callers: a key has at most one record;  *)
(* a call either returns that record's coordinates or is refused, and a    *)
(* refused call may or may not have written the record.                    *)
(***************************************************************************)
CONSTANTS Keys, Requests, None

VARIABLES
  key,      \* key[i]: the key call i produces
  record,   \* record[k]: the call that wrote the record of k, or None
  outcome   \* outcome[i]: "pending", "refused", or the record returned

vars == <<key, record, outcome>>

Init ==
  /\ key \in [Requests -> Keys]
  /\ record = [k \in Keys |-> None]
  /\ outcome = [i \in Requests |-> "pending"]

\* The record becomes durable, perhaps after the caller was told otherwise.
Write(i) ==
  /\ record[key[i]] = None
  /\ outcome[i] \in {"pending", "refused"}
  /\ record' = [record EXCEPT ![key[i]] = i]
  /\ UNCHANGED <<key, outcome>>

Answer(i) ==
  /\ outcome[i] = "pending"
  /\ record[key[i]] # None
  /\ outcome' = [outcome EXCEPT ![i] = record[key[i]]]
  /\ UNCHANGED <<key, record>>

\* Calls are refused one by one, or all those of a process at once.
Refuse(S) ==
  /\ \A i \in S : outcome[i] = "pending"
  /\ outcome' = [i \in Requests |-> IF i \in S THEN "refused" ELSE outcome[i]]
  /\ UNCHANGED <<key, record>>

Next ==
  \/ \E i \in Requests : Write(i) \/ Answer(i)
  \/ \E S \in SUBSET Requests : Refuse(S)

Spec == Init /\ [][Next]_vars
=============================================================================
