--------------------------- MODULE StaleFileLease ---------------------------
(***************************************************************************)
(* What is left of FileLease where a request is checked against a row that *)
(* may change before the request is carried out: as long as the check is   *)
(* up to date the contract holds, and a request whose check is out of date *)
(* may take a lock away from its holder, or move its end.                  *)
(***************************************************************************)
EXTENDS FileLease

VARIABLE stale   \* the requests in flight whose check is out of date

Outdated(op, f) == {r \in stale : r.op = op /\ r.file = f}

\* A lock checked while the file was free replaces the lock it has now.
Seize(f) ==
  /\ holder[f] # NULL
  /\ \E r \in Outdated("lock", f) : Grant(f, r.lock)

\* An extension checked for an earlier lock moves the end of the present one.
Stretch(f) ==
  /\ holder[f] # NULL
  /\ Outdated("extend", f) # {}
  /\ Grant(f, holder[f])

\* The holder's lock ends early: given up by a caller that held the file
\* before, or overwritten with an expiry time that has passed.
Drop(f) ==
  /\ holder[f] # NULL
  /\ \E op \in {"lock", "unlock", "extend"} : Outdated(op, f) # {}
  /\ holder' = [holder EXCEPT ![f] = NULL]
  /\ until' = [until EXCEPT ![f] = 0]
  /\ UNCHANGED now

StaleNext ==
  \/ Next
  \/ \E f \in File : Seize(f) \/ Stretch(f) \/ Drop(f)

StaleSpec == Init /\ [][StaleNext]_lvars
=============================================================================
