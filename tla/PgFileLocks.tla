---------------------------- MODULE PgFileLocks ----------------------------
(***************************************************************************)
(* The file locks of PgStore (genbu/src/connectors/s3/database.rs,         *)
(* impl DBFileStore): concurrent lock, unlock, extend_lock and get_dbfile  *)
(* calls against the file table, one step per statement.                   *)
(*                                                                         *)
(* A locking call takes a pool connection for its transaction, but runs    *)
(* its SELECT and its UPDATE on &self.conn, that is, each on a second      *)
(* connection of the pool, where it commits by itself.  So nothing ties    *)
(* the row that was checked to the row that is written, a rollback undoes  *)
(* nothing, and a call that holds one connection waits for another.        *)
(***************************************************************************)
EXTENDS DBFile, FiniteSets

CONSTANTS
  File,                 \* ids of files
  Client,               \* callers; each has at most one call in flight
  PoolSize,             \* connections of the sqlx pool
  MaxTime,              \* bound on the clock
  LockColumnHoldsText   \* FALSE: the committed schema, where file.lock is a
                        \* uuid and a FileLock is bound as text

ASSUME PoolAssumption == PoolSize \in Nat \ {0}
ASSUME TimeAssumption == MaxTime \in Nat
ASSUME SchemaAssumption == LockColumnHoldsText \in BOOLEAN

VARIABLES
  row,    \* the file table: NULL for an id without a row
  now,    \* the clock, read by the server
  pc,     \* where each client's call stands
  req,    \* what each client last asked for
  file,   \* the call's DBFile in memory, later the values bound for the update
  ans     \* the answer of the client's last call

vars == <<row, now, pc, req, file, ans>>

Ops == {"lock", "unlock", "extend", "info"}
Request == [op: Ops, file: File, lock: Token]
Answer == [res: {"none", "ok", "notfound", "conflict", "error"},
           lock: Token \cup {NULL}]
Stages == {"idle", "begin", "read", "check", "revalidate", "update", "commit"}

\* NULL is no record.
ASSUME NoRecordAssumption == NULL \notin LockFields /\ NULL \notin Request

Plain(r) == [res |-> r, lock |-> NULL]
Conflict(l) == [res |-> "conflict", lock |-> l]

TypeOK ==
  /\ row \in [File -> LockFields \cup {NULL}]
  /\ now \in Nat
  /\ pc \in [Client -> Stages]
  /\ req \in [Client -> Request \cup {NULL}]
  /\ file \in [Client -> LockFields \cup {NULL}]
  /\ ans \in [Client -> Answer]

Init ==
  /\ row = [f \in File |-> NULL]
  /\ now = 0
  /\ pc = [c \in Client |-> "idle"]
  /\ req = [c \in Client |-> NULL]
  /\ file = [c \in Client |-> NULL]
  /\ ans = [c \in Client |-> Plain("none")]

-----------------------------------------------------------------------------
(***************************************************************************)
(* The connection pool.                                                    *)
(***************************************************************************)

\* The transaction of a locking call keeps its connection from begin() until
\* the call returns; get_dbfile on its own has none.
HoldsConnection(c) == pc[c] \notin {"idle", "begin"} /\ req[c].op # "info"
FreeConnections == PoolSize - Cardinality({c \in Client : HoldsConnection(c)})

\* begin() and every statement on &self.conn need a connection of their own.
CanRun == FreeConnections > 0

-----------------------------------------------------------------------------
(***************************************************************************)
(* The calls.                                                              *)
(***************************************************************************)
Goto(c, stage) == pc' = [pc EXCEPT ![c] = stage]

\* The call returns a; its transaction, if any, gives its connection back.
Return(c, a) ==
  /\ Goto(c, "idle")
  /\ ans' = [ans EXCEPT ![c] = a]
  /\ file' = [file EXCEPT ![c] = NULL]

Call(c, r) ==
  /\ pc[c] = "idle"
  /\ Goto(c, IF r.op = "info" THEN "read" ELSE "begin")
  /\ req' = [req EXCEPT ![c] = r]
  /\ ans' = [ans EXCEPT ![c] = Plain("none")]
  /\ UNCHANGED <<row, now, file>>

\* self.conn.begin()
Begin(c) ==
  /\ pc[c] = "begin"
  /\ CanRun
  /\ Goto(c, "read")
  /\ UNCHANGED <<row, now, req, file, ans>>

\* get_dbfile: the SELECT commits by itself and locks nothing.
GetDBFile(c) ==
  /\ pc[c] = "read"
  /\ CanRun
  /\ LET found == row[req[c].file] IN
       IF found = NULL
         THEN Return(c, Plain("notfound"))
       ELSE IF req[c].op = "info"
         THEN Return(c, Plain("ok"))
       ELSE /\ Goto(c, "check")
            /\ file' = [file EXCEPT ![c] = found]
            /\ UNCHANGED ans
  /\ UNCHANGED <<row, now, req>>

\* unlock and extend_lock: DBFile::unlock and DBFile::extend_lock on the copy
\* that was read.  `bound` is what the UPDATE will write.
Checked(c, bound) ==
  /\ IF ValidateLock(file[c], req[c].lock, now)
       THEN /\ Goto(c, "update")
            /\ file' = [file EXCEPT ![c] = bound]
            /\ UNCHANGED ans
       ELSE Return(c, Conflict(file[c].lock))
  /\ UNCHANGED <<row, now, req>>

CheckUnlock(c) ==
  /\ pc[c] = "check" /\ req[c].op = "unlock"
  /\ Checked(c, Unlocked)

\* Deliberately wrong variant, for mutation testing: anyone may extend.
ExtendUnchecked(c) ==
  /\ pc[c] = "check" /\ req[c].op = "extend"
  /\ Goto(c, "update")
  /\ file' = [file EXCEPT ![c] = Extended(@, now)]
  /\ UNCHANGED <<row, now, req, ans>>

CheckExtend(c) ==
  /\ pc[c] = "check" /\ req[c].op = "extend"
  /\ Checked(c, Extended(file[c], now))

\* Deliberately wrong variant, for mutation testing: lock overwrites whatever
\* lock the file has.
CheckLockBlindly(c) ==
  /\ pc[c] = "check" /\ req[c].op = "lock"
  /\ Goto(c, "update")
  /\ file' = [file EXCEPT ![c] = Locked(file[c], req[c].lock, now)]
  /\ UNCHANGED <<row, now, req, ans>>

\* lock: a file that is not locked is locked, expiring LockTTL from here.
CheckLock(c) ==
  /\ pc[c] = "check" /\ req[c].op = "lock"
  /\ IF IsLocked(file[c], now)
       THEN Goto(c, "revalidate") /\ UNCHANGED file
       ELSE /\ Goto(c, "update")
            /\ file' = [file EXCEPT ![c] = Locked(file[c], req[c].lock, now)]
  /\ UNCHANGED <<row, now, req, ans>>

\* lock of a locked file: the lock is extended in memory only and the caller
\* told so.  extend_lock reads the clock again.
Revalidate(c) ==
  /\ pc[c] = "revalidate"
  /\ Return(c, IF ValidateLock(file[c], req[c].lock, now)
                 THEN Plain("ok") ELSE Conflict(file[c].lock))
  /\ UNCHANGED <<row, now, req>>

\* Deliberately wrong variant, for mutation testing: lock forgets to write
\* the expiry time.
WrittenWithoutExpiry(op, old, bound) ==
  IF op = "unlock" THEN bound ELSE [old EXCEPT !.lock = bound.lock]

\* What the UPDATE of each call leaves in the row: extend_lock writes the
\* expiry time alone.
Written(op, old, bound) ==
  IF op = "extend" THEN [old EXCEPT !.expires = bound.expires] ELSE bound

\* The UPDATE, on a connection outside the transaction: visible at once.
Update(c) ==
  /\ pc[c] = "update"
  /\ CanRun
  /\ req[c].op = "lock" => LockColumnHoldsText
  /\ row' = [row EXCEPT ![req[c].file] = Written(req[c].op, @, file[c])]
  /\ Goto(c, "commit")
  /\ UNCHANGED <<now, req, file, ans>>

\* Postgres refuses to assign a text to a uuid column.
UpdateRefused(c) ==
  /\ pc[c] = "update" /\ req[c].op = "lock" /\ ~LockColumnHoldsText
  /\ CanRun
  /\ Return(c, Plain("error"))
  /\ UNCHANGED <<row, now, req>>

\* conn.commit()
Commit(c) ==
  /\ pc[c] = "commit"
  /\ Return(c, Plain("ok"))
  /\ UNCHANGED <<row, now, req>>

\* Every statement can fail, and dropping the request drops the call at the
\* statement it waits for; the transaction rolls back, and holds nothing.
Fail(c) ==
  /\ pc[c] \in {"begin", "read", "update", "commit"}
  /\ Return(c, Plain("error"))
  /\ UNCHANGED <<row, now, req>>

\* Deliberately wrong variant, for mutation testing: only begin() times out.
AcquireTimeoutOnBegin(c) ==
  /\ pc[c] = "begin" /\ ~CanRun
  /\ Return(c, Plain("error"))
  /\ UNCHANGED <<row, now, req>>

\* PoolTimedOut: no connection came free for a waiting call.
AcquireTimeout(c) ==
  /\ pc[c] \in {"begin", "read", "update"} /\ ~CanRun
  /\ Return(c, Plain("error"))
  /\ UNCHANGED <<row, now, req>>

\* add_dbfile: the insert names neither lock nor lock_expires_at.
AddDBFile(f) ==
  /\ row[f] = NULL
  /\ row' = [row EXCEPT ![f] = Unlocked]
  /\ UNCHANGED <<now, pc, req, file, ans>>

Tick ==
  /\ now < MaxTime
  /\ now' = now + 1
  /\ UNCHANGED <<row, pc, req, file, ans>>

-----------------------------------------------------------------------------
\* What a call does of its own accord once it has its connections.
Advance(c) ==
  \/ Begin(c) \/ GetDBFile(c)
  \/ CheckUnlock(c) \/ CheckExtend(c) \/ CheckLock(c) \/ Revalidate(c)
  \/ Update(c) \/ UpdateRefused(c) \/ Commit(c)

Next ==
  \/ \E c \in Client : \/ \E r \in Request : Call(c, r)
                       \/ Advance(c)
                       \/ AcquireTimeout(c)
                       \/ Fail(c)
  \/ \E f \in File : AddDBFile(f)
  \/ Tick

Spec == Init /\ [][Next]_vars

\* The runtime polls every call and Postgres answers; the pool gives up on a
\* waiting call after its acquire timeout.
FairSpec == Spec /\ \A c \in Client : WF_vars(Advance(c) \/ AcquireTimeout(c))

-----------------------------------------------------------------------------
(***************************************************************************)
(* Properties.                                                             *)
(***************************************************************************)

\* A stored lock runs out: no interleaving of lock, unlock and extend_lock
\* leaves a token without an expiry time, or one further away than LockTTL
\* (which would keep a file locked for good).
LockExpires ==
  \A f \in File : row[f] # NULL /\ row[f].lock # NULL =>
    row[f].expires # NULL /\ row[f].expires <= now + LockTTL

\* DBFileError::Locked carries the token of another holder: the unwrap() in
\* the error branch never meets a None, and nobody is refused because of
\* the lock it names itself.
ConflictNamesHolder ==
  \A c \in Client : ans[c].res = "conflict" =>
    ans[c].lock \in Token /\ ans[c].lock # req[c].lock

\* A live lock is replaced or removed only by the UPDATE of a call that names
\* it.  The code means to ensure this by checking inside a transaction.
LiveLockOnlyReleasedByOwner ==
  [][\A f \in File :
       row[f] # NULL /\ IsLocked(row[f], now) /\ row'[f].lock # row[f].lock =>
         \E c \in Client : /\ pc[c] = "update" /\ pc'[c] = "commit"
                           /\ req[c].file = f /\ req[c].lock = row[f].lock]_vars

\* extend_lock answers Ok only after the row carries the caller's token
\* ("Update lock and lock_expires_at if checks were successful").
ExtendGrantsCaller ==
  [][\A c \in Client :
       /\ pc[c] = "update" /\ pc'[c] = "commit" /\ req[c].op = "extend"
       => row'[req[c].file].lock = req[c].lock]_vars

\* With the committed schema no call is ever refused for a lock, whatever
\* expiry times extend_lock leaves in the rows: no token can be stored.
NoConflictWithoutTokens ==
  \A c \in Client : ans[c].res # "conflict"

\* Every call returns, also when the transactions of the calls in flight use
\* up the pool and wait for each other's connections.
CallsReturn == \A c \in Client : pc[c] # "idle" ~> pc[c] = "idle"
=============================================================================
