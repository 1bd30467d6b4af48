-------------------------- MODULE PgFileLocksSeen --------------------------
(***************************************************************************)
(* PgFileLocks with a history variable: the row each call's SELECT has     *)
(* returned.  No action reads it; it serves to state what the locks still  *)
(* promise although nothing ties the row that was checked to the row that  *)
(* is written.                                                             *)
(***************************************************************************)
EXTENDS PgFileLocks

VARIABLE seen   \* what the SELECT of each call between SELECT and UPDATE read

seenVars == <<vars, seen>>

\* Between SELECT and UPDATE a call relies on the row it has read.
InSection(c) == pc[c] \in {"check", "revalidate", "update"}

SeenInit ==
  /\ Init
  /\ seen = [c \in Client |-> NULL]

\* The SELECT is remembered until the UPDATE, or until the call returns.
Remember ==
  seen' = [c \in Client |->
             IF ~InSection(c)' THEN NULL
             ELSE IF pc[c] = "read" THEN row[req[c].file]
             ELSE seen[c]]

SeenNext == Next /\ Remember

SeenSpec == SeenInit /\ [][SeenNext]_seenVars

\* The row is no longer what the call has checked.
Outrun(c) == row[req[c].file] # seen[c]

-----------------------------------------------------------------------------
(***************************************************************************)
(* Properties.                                                             *)
(***************************************************************************)

\* A live lock is lost in two ways only: to an UPDATE of a caller that names
\* it, or to an UPDATE whose row has changed since its SELECT.  Whatever fails
\* or runs out in the middle of a call, check and copy in memory are worth as
\* much as the row they were made from: lock, unlock and extend_lock take no
\* live lock away by themselves.
LiveLockLostToOwnerOrOutrunCall ==
  [][\A f \in File :
       row[f] # NULL /\ IsLocked(row[f], now) /\ row'[f].lock # row[f].lock =>
         \E c \in Client : /\ pc[c] = "update" /\ pc'[c] = "commit"
                           /\ req[c].file = f
                           /\ req[c].lock = row[f].lock \/ Outrun(c)]_seenVars

Held(f) == row[f] # NULL /\ IsLocked(row[f], now)

Lease == INSTANCE StaleFileLease WITH
  holder <- [f \in File |-> IF Held(f) THEN row[f].lock ELSE NULL],
  until <- [f \in File |-> IF Held(f) THEN row[f].expires ELSE 0],
  asked <- {req[c] : c \in {d \in Client : pc[d] # "idle"}},
  stale <- {req[c] : c \in {d \in Client : pc[d] = "update" /\ Outrun(d)}}

\* The locks of PgStore keep the contract of FileLease except where a call is
\* outrun: there, and only there, a lock is taken from its holder or its end
\* moved by somebody else, and never further than LockTTL from now.
ImplementsStaleFileLease == Lease!StaleSpec
=============================================================================
