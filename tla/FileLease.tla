------------------------------ MODULE FileLease ------------------------------
(***************************************************************************)
(* What a store of file locks promises its callers: a lock has one holder  *)
(* until it runs out or the holder gives it up, and nobody else changes    *)
(* it in between.  DBFileStore (genbu/src/stores/files/database.rs) is     *)
(* implemented by MemStore, which keeps this contract (MemFileLocks), and  *)
(* by PgStore, which keeps the weaker one of StaleFileLease.               *)
(***************************************************************************)
EXTENDS Naturals

CONSTANTS
  File,
  Token,
  LockTTL,
  NULL

VARIABLES
  holder,   \* the token that holds each file now, NULL if none does
  until,    \* when the holder's time is up
  now,
  asked     \* the requests in flight; callers change it as they like

lvars == <<holder, until, now>>

Init ==
  /\ holder = [f \in File |-> NULL]
  /\ until = [f \in File |-> 0]
  /\ now = 0

Asked(op, f) == {r \in asked : r.op = op /\ r.file = f}
AskedBy(op, f, l) == \E r \in Asked(op, f) : r.lock = l

\* A grant never reaches further than LockTTL.
Grant(f, l) ==
  /\ holder' = [holder EXCEPT ![f] = l]
  /\ \E t \in now + 1 .. now + LockTTL : until' = [until EXCEPT ![f] = t]
  /\ UNCHANGED now

\* A file nobody holds goes to a caller that asks for it, or back to the last
\* holder when somebody asks to extend the lock that ran out.
Take(f, l) ==
  /\ holder[f] = NULL
  /\ AskedBy("lock", f, l) \/ Asked("extend", f) # {}
  /\ Grant(f, l)

\* Only the holder gets more time.
Renew(f) ==
  /\ holder[f] # NULL
  /\ AskedBy("lock", f, holder[f]) \/ AskedBy("extend", f, holder[f])
  /\ Grant(f, holder[f])

\* Only the holder gives the lock up.
Release(f) ==
  /\ holder[f] # NULL
  /\ AskedBy("unlock", f, holder[f])
  /\ holder' = [holder EXCEPT ![f] = NULL]
  /\ until' = [until EXCEPT ![f] = 0]
  /\ UNCHANGED now

\* Time passes, and locks run out with it.
Tick ==
  LET over == {f \in File : until[f] <= now + 1}
  IN  /\ now' = now + 1
      /\ holder' = [f \in File |-> IF f \in over THEN NULL ELSE holder[f]]
      /\ until' = [f \in File |-> IF f \in over THEN 0 ELSE until[f]]

Next ==
  \/ \E f \in File : \/ \E l \in Token : Take(f, l)
                     \/ Renew(f) \/ Release(f)
  \/ Tick

Spec == Init /\ [][Next]_lvars
=============================================================================
