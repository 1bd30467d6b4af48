---------------------------- MODULE MemFileLocks ----------------------------
(***************************************************************************)
(* The WOPI file handler (genbu/src/handler/files/wopi.rs) over the file   *)
(* locks of MemStore (genbu/src/connectors/memory.rs).                     *)
(*                                                                         *)
(* A store call is one critical section of MemStore's mutex.  lock reads   *)
(* the clock twice in it, to decide and to set the expiry time, so it is   *)
(* two steps here, with the mutex held in between.                         *)
(***************************************************************************)
EXTENDS DBFile

CONSTANTS
  File,       \* ids of files
  Client,     \* callers; each has at most one request in flight
  MaxTime     \* bound on the clock

ASSUME TimeAssumption == MaxTime \in Nat

VARIABLES
  row,    \* the map of files: NULL for an id without a file
  now,    \* the clock
  pc,     \* where each client's request stands
  req,    \* what each client last asked for, and when
  ans     \* the answer it got

vars == <<row, now, pc, req, ans>>

\* "other" is every WOPI operation that is still todo!().
Ops == {"check_file_info", "lock", "other"}
Request == [op: Ops, file: File \cup {NULL}, lock: Token, at: Nat]
Answer == [res: {"none", "ok", "notfound", "conflict", "panic"},
           lock: Token \cup {NULL}]
Stages == {"idle", "get", "lock", "write"}

ASSUME NoRecordAssumption ==
  NULL \notin LockFields /\ NULL \notin Request /\ NULL \notin File

TypeOK ==
  /\ row \in [File -> LockFields \cup {NULL}]
  /\ now \in Nat
  /\ pc \in [Client -> Stages]
  /\ req \in [Client -> Request \cup {NULL}]
  /\ ans \in [Client -> Answer]

Plain(r) == [res |-> r, lock |-> NULL]
Conflict(l) == [res |-> "conflict", lock |-> l]

Init ==
  /\ row = [f \in File |-> NULL]
  /\ now = 0
  /\ pc = [c \in Client |-> "idle"]
  /\ req = [c \in Client |-> NULL]
  /\ ans = [c \in Client |-> Plain("none")]

-----------------------------------------------------------------------------
Goto(c, stage) == pc' = [pc EXCEPT ![c] = stage]

Return(c, a) ==
  /\ Goto(c, "idle")
  /\ ans' = [ans EXCEPT ![c] = a]

\* wopi_file: an id that is no UUID has no file; what is not implemented
\* panics, and the connection is dropped.
Stage(r) == IF r.op = "lock" THEN "lock" ELSE "get"

WopiFile(c, op, f, l) ==
  /\ pc[c] = "idle"
  /\ LET r == [op |-> op, file |-> f, lock |-> l, at |-> now]
     IN  /\ req' = [req EXCEPT ![c] = r]
         /\ IF f = NULL
              THEN Return(c, Plain("notfound"))
            ELSE IF op = "other"
              THEN Return(c, Plain("panic"))
            ELSE /\ Goto(c, Stage(r))
                 /\ ans' = [ans EXCEPT ![c] = Plain("none")]
  /\ UNCHANGED <<row, now>>

\* Deliberately wrong variant, for mutation testing: the mutex is released
\* after the check.
MutexForgotten == TRUE

\* self.db_files.lock() waits while a call is between its two clock readings.
MutexFree == \A c \in Client : pc[c] # "write"

\* handle_check_file_info: get_dbfile.  A path that ends in '/' has no file
\* either; paths play no part in locking, so any file may have one.
CheckFileInfo(c) ==
  /\ pc[c] = "get"
  /\ MutexFree
  /\ \/ row[req[c].file] # NULL /\ Return(c, Plain("ok"))
     \/ Return(c, Plain("notfound"))
  /\ UNCHANGED <<row, now, req>>

\* Deliberately wrong variant, for mutation testing: a lock runs out one unit
\* of time late.
RanOutLate(r, t) == r.expires # NULL /\ r.expires + 1 < t

\* A lock may be taken over once its time is past; DBFile::is_locked gives it
\* up one instant earlier.
RanOut(r, t) == r.expires # NULL /\ r.expires < t

\* Deliberately wrong variant, for mutation testing: whoever asks is granted.
GrantableToAll(r, l, t) == TRUE

\* The three arms of lock that grant it.
Grantable(r, l, t) == r.lock = NULL \/ RanOut(r, t) \/ r.lock = l

\* MemStore::lock up to its decision.
CheckLock(c) ==
  /\ pc[c] = "lock"
  /\ MutexFree
  /\ LET r == row[req[c].file] IN
       IF r = NULL
         THEN Return(c, Plain("notfound"))
       ELSE IF Grantable(r, req[c].lock, now)
         THEN Goto(c, "write") /\ UNCHANGED ans
       ELSE Return(c, Conflict(r.lock))
  /\ UNCHANGED <<row, now, req>>

\* The rest of it: the clock is read again for the expiry time.
WriteLock(c) ==
  /\ pc[c] = "write"
  /\ row' = [row EXCEPT ![req[c].file] = Locked(@, req[c].lock, now)]
  /\ Return(c, Plain("ok"))
  /\ UNCHANGED <<now, req>>

\* add_dbfile of a new DBFile, whose id is fresh.
AddDBFile(f) ==
  /\ row[f] = NULL
  /\ MutexFree
  /\ row' = [row EXCEPT ![f] = Unlocked]
  /\ UNCHANGED <<now, pc, req, ans>>

Tick ==
  /\ now < MaxTime
  /\ now' = now + 1
  /\ UNCHANGED <<row, pc, req, ans>>

Next ==
  \/ \E c \in Client :
       \/ \E op \in Ops, f \in File \cup {NULL}, l \in Token : WopiFile(c, op, f, l)
       \/ CheckFileInfo(c) \/ CheckLock(c) \/ WriteLock(c)
  \/ \E f \in File : AddDBFile(f)
  \/ Tick

Spec == Init /\ [][Next]_vars

-----------------------------------------------------------------------------
(***************************************************************************)
(* Properties.                                                             *)
(***************************************************************************)

\* A client that was granted a lock may rely on it for LockTTL from when it
\* asked, the earliest its expiry time can count from.
Relies(c) ==
  /\ pc[c] = "idle" /\ req[c] # NULL
  /\ req[c].op = "lock" /\ ans[c].res = "ok"
  /\ now < req[c].at + LockTTL

\* No two clients rely on different locks of one file at a time, however
\* their requests overlap and whenever locks run out.
HoldersExclude ==
  \A c, d \in Client :
    Relies(c) /\ Relies(d) /\ req[c].file = req[d].file =>
      req[c].lock = req[d].lock

\* MemStore decides a lock by arms of its own and PgStore by the methods of
\* DBFile, and both come to the same: whoever one refuses the other refuses,
\* but at the very instant at which a lock runs out.  There MemStore refuses
\* what PgStore grants.
RefusesWithPgStore ==
  [][\A c \in Client :
       pc[c] = "lock" /\ pc'[c] # "lock" =>
         LET r == row[req[c].file]
         IN  r # NULL /\ r.expires # now =>
               (ans'[c].res = "conflict" <=> ~ValidateLock(r, req[c].lock, now))]_vars

Holds(f) == row[f] # NULL /\ IsLocked(row[f], now)

Lease == INSTANCE FileLease WITH
  holder <- [f \in File |-> IF Holds(f) THEN row[f].lock ELSE NULL],
  until <- [f \in File |-> IF Holds(f) THEN row[f].expires ELSE 0],
  asked <- {req[c] : c \in {d \in Client : pc[d] # "idle"}}

\* The locks of MemStore keep the contract of FileLease with any number of
\* concurrent callers: a live lock changes only by its holder.
ImplementsFileLease == Lease!Spec
=============================================================================
