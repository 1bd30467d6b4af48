-------------------------- MODULE UploadLifecycle --------------------------
(***************************************************************************)
(* What the upload API promises, whatever its handlers, its lease store    *)
(* and its object store do in between: a lease is granted for one object,  *)
(* it stays completed once it is, however often it is finished, and an     *)
(* object comes into being only after a lease for it was completed.        *)
(***************************************************************************)
CONSTANTS
  Lease,      \* lease ids
  Key,        \* names of objects
  NULL

VARIABLES
  granted,    \* the object each lease is for, NULL before it is granted
  completed,  \* the leases that were completed
  stored      \* the objects there are

lvars == <<granted, completed, stored>>

Init ==
  /\ granted = [l \in Lease |-> NULL]
  /\ completed = {}
  /\ stored = {}

Grant(l, k) ==
  /\ granted[l] = NULL
  /\ granted' = [granted EXCEPT ![l] = k]
  /\ UNCHANGED <<completed, stored>>

Complete(l) ==
  /\ granted[l] # NULL
  /\ completed' = completed \cup {l}
  /\ UNCHANGED <<granted, stored>>

Store(k) ==
  /\ \E l \in completed : granted[l] = k
  /\ stored' = stored \cup {k}
  /\ UNCHANGED <<granted, completed>>

Remove(k) ==
  /\ stored' = stored \ {k}
  /\ UNCHANGED <<granted, completed>>

Next ==
  \/ \E l \in Lease : Complete(l) \/ \E k \in Key : Grant(l, k)
  \/ \E k \in Key : Store(k) \/ Remove(k)

Spec == Init /\ [][Next]_lvars
=============================================================================
