# Verification of genbu

Genbu is a self-hosted cloud backend in Rust: an axum server with a Postgres
store for users, upload leases and WOPI file locks, and an S3 store for the
files themselves. This directory holds TLA+ models of the parts with state and
concurrency, the TLC configurations that check them, and TLAPS proofs.

Every module is translated from the source at the lines `PROJECT.json` "map"
names. Paths below are relative to `genbu/src/` unless they start with a crate.

## 1. The system

| Component | State | Operations | Talks to |
|---|---|---|---|
| User handlers (`handler/users`, `server/routes/users`) | none of their own | register, login, create, get, get_all, update, delete | user store, `auth` crate |
| User store: `connectors/postgres`, `connectors/memory.rs` | table `user` / a `HashMap` under a mutex | add, get, get_by_email, update, delete | Postgres |
| Sessions (`auth/src/authn.rs`, `server/middlewares/auth.rs`) | the tokens clients hold (stateless server) | create_jwt, validate_jwt, the middleware of every route but register and login | - |
| Upload handlers (`handler/files/upload.rs`) | none of their own | post, finish_upload (`get` is not routed) | lease store, S3 |
| Lease store (`connectors/s3/database.rs`, `memory.rs`) | table `upload_lease` / a `HashMap` | add, get, mark_completed (delete, get_by_user have no caller) | Postgres |
| Object store (`connectors/s3/storage.rs`, `filesystem.rs`) | S3: multipart uploads, objects | create and complete a multipart upload, presign, delete, list, download URL | S3 |
| File locks (`DBFileStore`: `stores/files/database.rs`, `connectors/s3/database.rs`, `memory.rs`) | table `file`: lock, lock_expires_at | get_dbfile, add_dbfile, lock, unlock, extend_lock | Postgres, through the same pool |
| WOPI front end (`handler/files/wopi.rs`, `server/routes/files/wopi.rs`) | none | check_file_info (routed); lock (dispatched, its POST route is commented out); the rest is `todo!()` | DBFileStore |
| Listing, deletion, download (`handler/files/userfiles.rs`, `download.rs`) | none of their own | get_userfiles, delete_userfile, start_download | object store |
| Setup (`connectors/s3/mod.rs`, `connectors/postgres/mod.rs`) | buckets, schema | create the buckets, migrate, reset | S3, Postgres |
| Server start (`main.rs`, `server/builder.rs`) | the process and its port | set up, bind, serve | all of the above |

How they interact: a request runs as one asynchronous task; each store call is
one or several statements to Postgres or S3 and an `await`, at which any other
request may run, the call may fail, or the client may go away, which drops the
task. There is no lock across store calls and no transaction that spans them.
Stores are cloned into each handler; clones share the pool or the mutex. Several
processes may set up against one S3, old ones and new ones.

What is hard here, and what makes each part correct:

* **File locks.** The check and the write are separate statements; the
  transaction that should tie them together does not contain them. Locks expire
  with the clock, which is read several times in a call. Calls hold one pool
  connection and need a second. *Correct*: a live lock belongs to its holder
  until the holder gives it up or it runs out, or at least no call takes it away
  that found the row as it still is; every lock runs out; a refusal names
  another holder; every call returns.
* **MemStore's file locks.** One critical section, but two clock readings in it,
  and another idea than PgStore's of when a lock has run out. *Correct*: the
  same contract as PgStore's, and for concurrent callers; clients that were
  granted a lock exclude each other.
* **Uploads.** Lease row, multipart upload and object are changed by separate
  calls to two services, any of which can fail or lose its reply, and the
  client brings lease and upload together. *Correct*: an object only after a
  completed lease; nothing in S3 that no lease knows of; no lease without an
  owner; a finish that arrives after the expiry completes nothing.
* **Accounts.** Handlers work on copies of rows; MemStore releases its mutex
  between looking and writing, and writes copies back. *Correct*: emails are
  unique (on MemStore, shared only by registrations that overlap); deleted users
  stay deleted (on MemStore, once the updates that had copied them are through);
  a copy never changes a user's credentials; tokens go to the user
  whose password was given.
* **Parts.** Boundary arithmetic. *Correct*: the parts hold the file exactly.
* **Listing.** S3 has no folders: names are cut out of keys by a prefix and a
  delimiter, a listing comes in pages, and what a client is shown it sends back.
  *Correct*: every name shown is one the other endpoints take for the same file;
  nothing is missing from a listing but its end.
* **Setup and restarts.** Buckets are created one by one, by several processes,
  any of which can fail half way. *Correct*: whoever serves finds all buckets.

`PROJECT.json` "hazards" lists these one by one at their lines.

## 2. The modules

| Module | Models | Variables | Actions |
|---|---|---|---|
| `DBFile` | the lock fields of a file row and the methods of `DBFile` | none | none (operators with the clock as a parameter) |
| `FileLease` | abstract: what a store of file locks promises | `holder`, `until`, `now` (and `asked`, the callers' requests) | `Take`, `Renew`, `Release`, `Tick` |
| `PgFileLocks` | `impl DBFileStore for PgStore` | `row` (table `file`), `now`, per caller `pc`, `req`, `file` (the `DBFile` in memory, then the values bound for the update), `ans` | `Call`, `Begin`, `GetDBFile`, `CheckUnlock`, `CheckExtend`, `CheckLock`, `Revalidate`, `Update`, `UpdateRefused`, `Commit`, `AcquireTimeout`, `Fail`, `AddDBFile`, `Tick` |
| `StaleFileLease` | abstract: what is left of `FileLease` where checks can be out of date | those of `FileLease`, and `stale`, the requests whose check is | those of `FileLease`, and `Seize`, `Stretch`, `Drop` |
| `PgFileLocksSeen` | `PgFileLocks` with a history variable | its variables, and `seen`, the row each call's SELECT returned | `SeenNext`: its actions, with `Remember` |
| `MemFileLocks` | the WOPI file handler over `impl DBFileStore for MemStore` | `row` (the map of files), `now`, per client `pc`, `req`, `ans` | `WopiFile`, `CheckFileInfo`, `CheckLock`, `WriteLock`, `AddDBFile`, `Tick` |
| `UploadLifecycle` | abstract: what the upload API promises | `granted`, `completed`, `stored` | `Grant`, `Complete`, `Store`, `Remove` |
| `Uploads` | `post`, `finish_upload`, `delete_userfile` and user deletion over the lease store and S3 | `account`, `lease`, `upload`, `object`, `now`, per handler `pc`, `job`, `ans` | one per request and one per store call |
| `Accounts` | the user handlers over PgStore or MemStore, sessions | `user`, `used`, `session`, `now`, per handler `pc`, `job`, `ans` | one per request and one per store call or critical section |
| `PresignedParts` | size checks and the chunk loop | `stage`, `size`, `count`, `parts` | `TooLarge`, `AddLease`, `CreateMultipart`, `PresignPart`, `Done`, `Fail` |
| `Boot` | `main` and the bucket setup, in several processes | `server`, `next`, `bucket` | `Start`, `CreateBucket`, `CreateBucketFailed`, `Listen`, `Crash` |
| `UserFiles` | listing, deletion and download over S3 | `object`, per handler `pc`, `job`, `ans` | one per request, `ListObjects`, `DeleteObject`, `Fail`, `Drop`, `StoreObject` |
| `FileServer` | the composition of `Boot` and `UserFiles` | theirs, and `host`, the process a request runs on | `Accept`, `Progress`, `StoreObject`, `Run`, `Crash` |
| `MCPgFileLocks`, `MCPgFileLocksSeen`, `MCMemFileLocks`, `MCUploads`, `MCAccounts`, `MCFileServer` | symmetry sets and constant values for TLC | | |
| `PgFileLocksProofs`, `PgFileLocksSeenProofs`, `MemFileLocksProofs`, `UploadsProofs`, `AccountsProofs`, `PresignedPartsProofs`, `FileServerProofs`, `FileServerListingProofs` | theorems | | |

Definitions commented "Deliberately wrong variant" are plausible bugs that the
properties are tested against; no specification uses them.

### PgFileLocks

One step per statement. `Begin` is `self.conn.begin()`; from it until the call
returns the call holds a pool connection (`HoldsConnection`), and each later
statement, issued on `&self.conn`, needs a free one (`CanRun`). Since those
statements commit by themselves, `Update` changes the row at once and a failing
or dropped call (`Fail`) rolls nothing back. The Rust code between two awaits
is one step; `lock` reads the clock in `is_locked` and again in
`extend_lock`, with nothing but computation in between, yet a lock can run out
just there, so they are two steps (`CheckLock`, `Revalidate`).

`LockColumnHoldsText` stands for the type of `file.lock`. The migrations
declare a `uuid` while the code binds text: `FALSE` is the committed schema,
where the UPDATE of `lock` always fails; `TRUE` is the schema the code is
written for. Properties of the lock protocol are checked with `TRUE`, where
locks can be taken at all.

The callers are those of the store interface. At this commit the HTTP router
reaches `get_dbfile` only; `handle_lock` is ready but its route is not.

### PgFileLocksSeen and StaleFileLease

Overlapping calls do take live locks away (`locks_race`). What the code still
ensures is a matter of what each call has read, which no variable of the program
keeps once the copy in memory has been changed. `PgFileLocksSeen` therefore
adds a history variable: `seen[c]` is the row that the SELECT of call `c`
returned, until its UPDATE. No guard reads it, so the behaviours are those of
`PgFileLocks`. A call is *outrun* (`Outrun`) when the row is no longer what it
has seen. `LiveLockLostToOwnerOrOutrunCall` says that a live lock is lost only
to a call that names it or that was outrun.

`StaleFileLease` is the contract of `FileLease` with what an outrun call can do
to it: a `lock` that found the file free replaces its holder (`Seize`), an
`extend_lock` moves the end of somebody else's lock, to `LockTTL` from now at
most (`Stretch`), and any of the three ends a lock early (`Drop`; by writing an
expiry time that has passed, too). `PgFileLocks` implements it with `stale`
being the requests of the calls that are outrun, so where no call is outrun it
keeps the contract of `FileLease`. A row counts as held while `is_locked` says so
(`Held`); a row whose time is up is free whatever it still stores.

### MemFileLocks

A store call is one critical section of the mutex, with one exception for the
clock: `lock` compares the expiry time with one reading and stores another one
plus 30 minutes, so it is `CheckLock` and `WriteLock`, and the mutex is held in
between (`MutexFree`). The requests are those of `wopi_file`: `check_file_info`,
`lock`, and "other" for the operations that are `todo!()` and panic. `unlock`
and `extend_lock` of MemStore are `todo!()` too. Whether a file's path ends in
'/' plays no part in locking; `CheckFileInfo` may answer "not found" for any
file because of it. `at` in a request is when it was sent: `Relies` is what a
client can conclude from an Ok without knowing the server's clock readings.

### FileLease

What a store of file locks owes its callers, without rows, statements or
critical sections: a file has a holder until a time; only a request that is in
flight changes it, a free file goes to who asks, a held one is renewed or
released by its holder only, and time takes locks away. PgStore's `extend_lock` may revive
the last holder's lock (`Take`), which the contract allows. `MemFileLocks`
implements it. `PgFileLocks` does not, since it does not even satisfy
`LiveLockOnlyReleasedByOwner` (`locks_race`); it implements the weaker
`StaleFileLease`.

### Uploads and UploadLifecycle

A handler has one request and runs one store call per step. `Fail` covers every
way a call can end a handler without having done its work, and the client going
away; the lost reply of a call that did its work is a choice inside that call's
action. A finish may name any lease and any upload id, existing or not, and any
session may send it, as in the code. What S3 does with a multipart upload
(`UploadRow`, `Completable`) is modelled from how `storage.rs` uses it.
Uploaded parts are abstracted: they go from the client to S3 directly.
`HasSession` lets a session outlive its user, and for longer than its six
hours; their expiry is the business of `Accounts`.
`Backend = "memory"` is MemStore's `mark_completed`, without the expiry check.

`UploadLifecycle` is the contract a client sees; the refinement maps lease rows
to `granted` and `completed`, and objects to `stored`. A completed lease can be
finished again, also with another upload: it stays completed.

### Accounts

PgStore's operations are single statements guarded by the constraints of the
`user` table: a unique email under a case-insensitive collation (`Fold`).
MemStore's `add` and `update` are two critical sections each, its comparison is
exact, `update` ignores the email and answers with the previous row: it clones
the user under one lock of the mutex (`CloneUser`) and inserts the changed copy
under another (`WriteUser`), where a deletion or another update may have come
between: the other update is lost and the deleted user comes back. `GoneForGood`
is what remains: nobody but an update that had copied the user before (`Copied`)
brings it back. `Leeway` is jsonwebtoken's default of 60 seconds. Passwords match or do not.
A deletion that the leases of the user forbid is part of `Uploads`; here it is
a store call that fails.

### PresignedParts

The arithmetic of `get_presigned_upload_urls` with the limits as parameters.
`MAX_FILE_SIZE` is exactly 100 chunks, so indices fit an `i32`.

### Boot, UserFiles and FileServer

`Boot` is one process per element of `Server`. All of them use the S3 of their
own machine, which `main.rs` has fixed, and bind the same port: at most one
serves at a time, and who binds second panics. A failing `create_bucket`
panics too; the bucket may have been created all the same. Buckets and objects
outlive the processes.

In `UserFiles` paths are sequences of code points, because the properties are
about where a name is cut: `Sep` is the backslash of `build_path`, `Entries` is
what `list_objects_v2` answers for a prefix and a delimiter, `Pages` are the
pages it may answer with, and `Stripped` is what `get_userfiles` cuts off. A
page starts with the first entry and may stop after any: S3 may return fewer
than asked for, and the code reads the one page it gets. User ids stand for
UUIDs and have one length. A session is the user id it carries; `Accounts` has the tokens. `StoreObject` is
the end of an upload, which `Uploads` models.

`FileServer` puts requests on servers. A request needs a serving process to be
accepted, its S3 calls need the bucket, and when the process dies its requests
are gone while what they did at S3 stays.

## 3. The runs

| Run | Configuration | Shows |
|---|---|---|
| `locks_concurrent` | 3 callers, 2 tokens, 1 file, pool of 2, TTL 1, clock to 2 | `TypeOK`; `LockExpires`: no interleaving leaves a token that never runs out; `ConflictNamesHolder`: a refusal names somebody else's token |
| `locks_outrun` | 2 callers, 2 tokens, pool of 3, TTL 2, clock to 4 | `LiveLockLostToOwnerOrOutrunCall`: no call takes a lock away that it does not name, unless the row has changed under it; `ImplementsStaleFileLease` |
| `locks_pool` | 2 callers, pool of 2, committed schema, fairness | `CallsReturn` although the callers' transactions exhaust the pool; `NoConflictWithoutTokens` |
| `mem_locks` | 2 clients, 2 tokens, 1 file, TTL 2, clock to 5 | `TypeOK`; `HoldersExclude`: two clients never rely on different locks of one file; `RefusesWithPgStore`: a call is refused if and only if PgStore's checks would refuse it, but at the instant of expiry; `ImplementsFileLease` |
| `uploads_postgres` | 2 handlers, 2 users, 1 name each, 2 leases, 2 uploads, TTL 1, clock to 2 | `TypeOK`, `StoredOnlyUnderCompletedLease`, `UploadsBelongToLeases`, `LeaseOwnersExist`, `LateFinishRefused`, `ImplementsLifecycle` |
| `accounts_postgres` | 2 handlers, 2 ids, 2 emails differing in case, 2 passwords, clock to 1 | `TypeOK`, `EmailsUnique`, `SessionsNameUsers`, `DeletedStaysDeleted`, `UpdateAnswersUpdated`, `LoginProvesPassword` |
| `accounts_memory` | MemStore, 2 handlers, 3 ids, 2 emails, 2 names | `FewShareEmail`: an email is shared by at most as many users as requests can overlap; `CredentialsStable`: no stale copy changes an email or a password; `GoneForGood`: a deleted user comes back only by an update that had copied it |
| `presigned_parts` | sizes 0..45, limit 40, chunks of 7 | `TypeOK`, `PartsCoverFile` |
| `file_server` | 2 processes, 2 users, 3 file names, 4 listed paths, pages of 2, 1 handler | `TypeOK`; `RequestsFindBuckets`; `NamesRoundTrip`: what is listed can be deleted, downloaded and listed; `OnlyTheEndIsMissing`: wherever S3 ends a page, nothing is left out before something shown |
| `locks_race` | 2 callers, pool of 3, TTL 2, clock to 3 | counterexample to `LiveLockOnlyReleasedByOwner` |
| `locks_extend` | 1 caller, TTL 2, clock to 2 | counterexample to `ExtendGrantsCaller` |
| `uploads_delete_user` | 1 handler, 1 user | counterexample to `DeleteUserAnswersDocumented` |

Bounds, and why they are enough for what is asked:

* *Clock* (`MaxTime`): a lock or lease taken at 0 must be able to live, to run
  out and to be seen after that: TTL + 1 values. `locks_outrun` has two lock
  periods and `mem_locks` two and a half, so that locks are taken over, extended
  and taken over again. `accounts_memory` has no clock: its properties do not
  read it.
* *Callers and handlers*: two are needed for any overlap; three callers on a
  pool of two let one wait for the connections of the others while they
  proceed. Conflicts concern one file, so one file is enough. `file_server` has
  one handler because a listing is one step: what can change under it are the
  objects and the servers, which change by themselves.
* *Ids*: two leases and two uploads allow every mismatch of a finish; a third
  would repeat one of them. `accounts_memory` has one id more than handlers, or
  its bound on sharing could not be exceeded. Ids are used once, as UUIDs and
  S3's upload ids are.
* *Paths*: the names are "a", "a\a\a" and "b". "a" is a file and a folder, the
  folder comes between the two files, and another folder lies in it; the listed
  paths are the root, "a" without and with the delimiter, and the inner folder.
  Three entries at the root do not fit a page of two, and S3 may cut any page
  before that; two users have keys that differ in the prefix only.
* *Processes*: two, one of which can set up, fail or start again while the other
  does or serves.
* *Pool*: as many callers as connections is the first case in which everybody
  can wait for everybody.
* *Sizes*: 0, below, at and above one chunk, multiples and non-multiples, at
  and above the limit.

The theorems of section 4 remove the bounds for the properties they cover.

Symmetry is used for safety only, over sets whose elements the specification
treats alike. Deadlock is checked everywhere but in `presigned_parts`, where a
request ends.

### Fairness

Only `CallsReturn` needs any: weak fairness of `Advance(c) \/
AcquireTimeout(c)` for each caller `c`. The runtime polls every task, Postgres
answers each statement or fails it, and sqlx gives up on acquiring a connection
after 30 seconds by default (`PgPoolOptions::new()` in
`connectors/postgres/mod.rs`). Nothing is assumed about new calls, failures or
the clock. Without the timeout on the second connection the property fails:
that is the variant it is tested against.

### Findings

1. The SELECT and UPDATE of `lock`, `unlock` and `extend_lock` are outside the
   transaction the comments announce (`locks_race`). The same design makes a
   failing `commit` leave the lock changed although the caller sees an error.
   How far it goes is shown by `locks_outrun`, and for any number of callers by
   the theorem `LocksAreLostToOutrunCalls`: only a call whose row has changed
   since its SELECT takes a live lock that it does not name.
2. `extend_lock` writes the expiry time but not the lock (`locks_extend`).
3. `file.lock` is a `uuid` and the code binds text, so `lock` always fails with
   the committed schema (`locks_pool` shows what follows).
4. Users with leases cannot be deleted; the answer is an undocumented 500
   (`uploads_delete_user`).
5. MemStore lets overlapping registrations share an email; `accounts_memory`
   shows that it goes no further than the requests that overlap.
6. The listing endpoint promises all files of a path and reads the first page
   only; `file_server` shows that it is only the end of a listing that can be
   missing.
7. The endpoint that updates a user answers "User updated successfully" and
   MemStore's `update` ignores the email it was given; `accounts_memory`
   (`CredentialsStable`) shows that no operation of MemStore changes the email
   of a user.

Met while modelling, and not run:

* MemStore's `update` brings back a user deleted in the middle of it and answers
  with the old row, where `tests/user.rs` expects the new one; MemStore's
  `mark_completed` ignores expiry.
* PgStore's `mark_completed` compares the lease it has read with the clock and
  updates it in a second statement: a lease that runs out in between is completed
  all the same. `LateFinishRefused` is about finishes that arrive late.
* At the instant a lock runs out PgStore gives it up and MemStore does not; and
  MemStore's `lock` refreshes the expiry time of a lock one holds, where
  PgStore's `lock` leaves it as it is.
* `check_file_info` answers the extension of a file, dot included, as its base
  name (`split_at(n).1` at the last dot); the name is not modelled.
* `main` connects to Postgres lazily and never runs PgStore's `setup`, so the
  schema is expected to be there; a server without a database starts all the
  same and fails request by request.
* `start_download` panics for every bucket but the user files, which the client
  sees as a dropped connection; so do WOPI operations that are `todo!()`.
* A file that is too large is documented as 409 and answered with 403;
  `create_user` documents 201 and answers 200; `finish_upload` documents 200 and
  500 and also answers 404 and 410.
* Multipart uploads are never aborted; part URLs live 30 minutes, leases 6 hours.

## 4. The proofs

All theorems hold for every value of the constants that satisfies the named
assumptions: `LockTTL` positive, a pool of at least one connection, times and
sizes natural, a positive chunk size, `NULL` different from every value it
stands beside, user ids of one length. TLC evaluates the assumptions in every
run. Some theorems have a hypothesis of their own:

* `Backend = ...` and `~LockColumnHoldsText`: one store, the committed schema;
* `IsFiniteSet(Slot)`: finitely many handlers, where they are counted.

None of them assumes anything about how calls overlap.

`PgFileLocksProofs` - `TypeCorrect`, `LocksExpire`, `ConflictsNameHolder`,
`NobodyIsRefused`.
`LockExpires` is not inductive: the UPDATE writes values bound one or more steps
earlier. `IInv` adds what a call in flight carries (`InFlight`: past its SELECT
it has a `DBFile` and a row) and that the values bound respect the bound on
expiry times (`BoundValues`), which stays true because the clock only moves
forward. A stored token needs its expiry bounded (`TokenExpires`); an expiry
without a token needs nothing, which is why `extend_lock` on whatever the row
has become is harmless for this property.

`NobodyIsRefused` (`NoConflictWithoutTokens`, for the committed schema)
strengthens the invariant by `NoTokens`: neither a row nor a copy of one has a
token, since the one update that would store it is refused.

`PgFileLocksSeenProofs` - `LocksAreLostToOutrunCalls` and `Refinement`, for any
number of callers and without a hypothesis. The history variable constrains
nothing (`HistoryIsNoConstraint`), so the invariant of `PgFileLocks` holds.
`Carried` strengthens it by what a call has concluded from the row in `seen`:
for `unlock`, that the caller may give it up; for `extend`, that besides the
end bound is no earlier than the one it had; for `lock`, that it is free. Other
calls change the row and not what this one has seen, so they cannot take that
away (`OthersCarry`). If the row still is what the call has seen, the conclusion
is about the row: `UpdateRefines` makes the UPDATE a step of `FileLease`. If not,
`Seize`, `Stretch` or `Drop` is what it does. Locks can still run out between the
statements; that is where the proof splits cases.

`MemFileLocksProofs` - `TypeCorrect`, `GrantsExclude`, `RefusalsAgree`,
`Refinement`. `HoldersExclude` speaks of what two clients were told; the
invariant ties each of them to the row, which has one token (`Backed`), and says
that the mutex protects what the one call between its clock readings decided
(`Deciding`). A lock that was grantable at the first reading still is at the
second, because time only helps.

`UploadsProofs` - `TypeCorrect`, `StoredUnderCompletedLease`,
`UploadsHaveLeases`, `OwnersExist` and `LateFinishesAreRefused` (Postgres), and
`Refinement`. `IInv` adds what a handler between two store calls may rely on
(`JobOf`): after `AddLease` its lease exists and is for its object; before
`MarkCompleted` it was in time; before `CompleteMultipart` it is completed.
Leases are never removed and never change their object, so no other handler
can take this away. The refinement maps each step to one lifecycle step or to a
stutter.

`AccountsProofs` - on either store `TypeCorrect`, `TokensNameUsers`,
`LoginsProvePasswords`, `DeletedAreGoneForGood`, `EmailsSharedByFew`; on PgStore
`PgEmailsAreUnique`, `PgDeletedStayDeleted`, `PgUpdatesAnswerUpdated`; on MemStore `MemCredentialsAreStable`. Handlers hold
copies that go stale. The invariant keeps what of a copy cannot: its owner, the
password and, on MemStore, the email (`JobOf`); and since MemStore may write one
copy back after the row is gone, and then meet another, copies of one user agree
among themselves (`CopiesAgree`).

`EmailsSharedByFew` counts. On MemStore the users of an email can grow in
number by a registration that found it free and by a copy that is written back,
so the invariant (`Crowd`) bounds a sum: the users of the email together with
those a copy can bring back (`Ghosts`), plus the handlers about to add it
(`Adding`). Copying a user, deleting it and writing it back leave it in the first
set. A registration can join the second only while nobody has the email, when
each member of the first is a copy in a handler of its own. On PgStore emails
are unique, and one handler is enough.

`DeletedAreGoneForGood` needs the types and two facts about steps: only
`AddUser` and `WriteUser` make a row, the one for an id that was never used and
the other for the user it copied (`StepsOf`); and only `CloneUser` makes a copy,
of a user that is there (`CopiesMade`).

`PresignedPartsProofs` - `TypeCorrect`; `ChunkCountCovers`, the arithmetic of the
chunk count for every size and chunk size, and `PartsCover`.

`FileServerProofs` - `BucketsAreThere`, for any number of processes. A process
has every bucket before the one it creates next and serves after the last one
(`SetupDone`); buckets are never removed, so no crash undoes it.

`FileServerListingProofs` - `TypeCorrect`, `NamesLeadBack`,
`NothingLeftOut`, for paths of any length over any names, any page size and any
number of users, processes and handlers. The lemmas are about sequences: cutting
a prefix off undoes prepending it, the part of a key up to the delimiter is a
prefix of it, and a folder comes before everything that a key in it comes before
(`PrefixBefore`). So an entry of a page, cut and put together again, is the key
or the folder it came from; and a key that comes before an entry shown has an
entry, its own or that of its folder, which comes before it as well or is the
same, and is on the page. `FilesInv` adds to the types that a request under way
has a job and no answer yet.

Only model-checked: `CallsReturn`, since liveness under fairness is out of the
proof system's reach. The properties the code does not have
(`LiveLockOnlyReleasedByOwner`, `ExtendGrantsCaller`,
`DeleteUserAnswersDocumented`) are refuted by their runs.

## 5. Not modelled

* WOPI headers, bodies and responses (`wopi_rs`) and the unfinished operations
  behind `todo!()`, but for the panic.
* The signature and encoding of session tokens, signatures and lifetimes of
  presigned URLs, Argon2 and NFKC.
* MemStore's upload leases in a run of their own: they are in the scope of the
  theorems of `UploadsProofs` (`Backend = "memory"`), where properties that need
  the expiry check or the foreign key are stated for Postgres.
* PgStore's `setup` and `reset`, which only tests call, and S3Store's `reset`,
  which nothing calls.
* `get_all` of users, sizes and dates of listed files: read and passed on.
* The rest of the server builder, telemetry, OpenAPI, static files: no state.
* Groups and the policy file, which have no code yet.

S3 and Postgres are modelled as far as the code relies on them: statements that
are atomic and commit by themselves, constraints and foreign keys, multipart
uploads that are open, listed pages in key order, read after write.

## 6. Plan

1. A run of `Uploads` with `Backend = "memory"`: which of the properties survive
   without the expiry check and the foreign key. The theorems of `UploadsProofs`
   that do not name Postgres cover both stores already.
2. `Accounts` and `Uploads` composed, so that the session of a deleted user meets
   the leases it left behind.
