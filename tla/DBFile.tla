------------------------------- MODULE DBFile -------------------------------
(***************************************************************************)
(* The lock fields of a DBFile (genbu/src/stores/files/database.rs): a     *)
(* WOPI lock token and the time it runs out.  The operators are the        *)
(* methods of DBFile, with the clock reading they take as the parameter t. *)
(* Paths, creators and creation times play no part in locking.             *)
(***************************************************************************)
EXTENDS Naturals

CONSTANTS
  Token,      \* lock tokens (FileLock)
  LockTTL,    \* 30 minutes
  NULL        \* Rust's None, SQL's null

ASSUME LockTTLAssumption == LockTTL \in Nat \ {0}
ASSUME NullAssumption == NULL \notin Token /\ NULL \notin Nat

LockFields == [lock: Token \cup {NULL}, expires: Nat \cup {NULL}]

\* DBFile::with_path_and_user: a new file is unlocked.
Unlocked == [lock |-> NULL, expires |-> NULL]

Live(r, t) == r.expires # NULL /\ r.expires > t

\* Deliberately wrong variant, for mutation testing: an expiry time alone
\* makes the lock.
IsLockedNoToken(r, t) == Live(r, t)

\* DBFile::is_locked
IsLocked(r, t) == r.lock # NULL /\ Live(r, t)

\* DBFile::validate_lock: anyone passes when the file is not locked.
ValidateLock(r, l, t) == IsLocked(r, t) => r.lock = l

\* Deliberately wrong variant, for mutation testing: the lock ran out when it
\* was taken.
LockedInThePast(r, l, t) == [r EXCEPT !.lock = l, !.expires = t - LockTTL]

\* DBFile::unchecked_lock and unchecked_extend_lock.
Locked(r, l, t) == [r EXCEPT !.lock = l, !.expires = t + LockTTL]
Extended(r, t) == [r EXCEPT !.expires = t + LockTTL]
=============================================================================
