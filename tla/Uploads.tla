------------------------------ MODULE Uploads ------------------------------
(***************************************************************************)
(* Direct uploads: the handlers of genbu/src/handler/files/upload.rs and   *)
(* userfiles.rs (delete) and of handler/users (delete), their lease store  *)
(* (PgStore or MemStore) and the object store they end in.  Each handler   *)
(* runs one store call per step; any number of them run side by side.      *)
(*                                                                         *)
(* Nothing ties the lease row, the multipart upload and the object: they   *)
(* are changed by separate calls, any of which can fail, and the client    *)
(* brings the lease and the upload together when it finishes.              *)
(***************************************************************************)
EXTENDS Naturals

CONSTANTS
  User, Name,     \* user ids; file names, the same for each user
  Lease, Upload,  \* lease ids and S3's multipart upload ids, used once each
  Slot,           \* handlers that can be in flight at once
  Backend,        \* which store serves leases and users
  LeaseTTL,       \* 6 hours
  MaxTime,        \* bound on the clock
  NULL

ASSUME BackendAssumption == Backend \in {"postgres", "memory"}
ASSUME LeaseTTLAssumption == LeaseTTL \in Nat

VARIABLES
  account,  \* the user table: which users exist
  lease,    \* the lease store
  upload,   \* S3: multipart uploads
  object,   \* S3: the upload each object was put together from
  now,      \* the clock
  pc,       \* the store call each handler runs next
  job,      \* each handler's request
  ans       \* the answer of the last request of each slot

vars == <<account, lease, upload, object, now, pc, job, ans>>

\* build_path: an object belongs to one user.
Key == User \X Name

LeaseRow == [key: Key, expires: Nat, completed: BOOLEAN]
UploadRow == [key: Key, open: BOOLEAN]
Stages == {"idle", "add", "create", "presign", "get", "mark", "complete",
           "remove", "deluser"}
Job == [key: Key \cup {NULL}, lease: Lease \cup {NULL}, upload: Upload \cup {NULL},
        at: Nat]
Answers == {"none", "ok", "too_large", "not_found", "gone", "internal",
            "unavailable"}

\* NULL is no row, no upload and no key.
ASSUME NoRowAssumption ==
  NULL \notin LeaseRow /\ NULL \notin UploadRow /\ NULL \notin Job
ASSUME NoIdAssumption == NULL \notin Upload /\ NULL \notin Key

TypeOK ==
  /\ account \in [User -> {"none", "active", "deleted"}]
  /\ lease \in [Lease -> LeaseRow \cup {NULL}]
  /\ upload \in [Upload -> UploadRow \cup {NULL}]
  /\ object \in [Key -> Upload \cup {NULL}]
  /\ now \in Nat
  /\ pc \in [Slot -> Stages]
  /\ job \in [Slot -> Job \cup {NULL}]
  /\ ans \in [Slot -> Answers]

Init ==
  /\ account = [u \in User |-> "none"]
  /\ lease = [l \in Lease |-> NULL]
  /\ upload = [m \in Upload |-> NULL]
  /\ object = [k \in Key |-> NULL]
  /\ now = 0
  /\ pc = [s \in Slot |-> "idle"]
  /\ job = [s \in Slot |-> NULL]
  /\ ans = [s \in Slot |-> "none"]

stores == <<account, lease, upload, object>>

-----------------------------------------------------------------------------
Goto(s, stage) == pc' = [pc EXCEPT ![s] = stage]

Start(s, stage, k, l, m) ==
  /\ pc[s] = "idle"
  /\ Goto(s, stage)
  /\ job' = [job EXCEPT ![s] = [key |-> k, lease |-> l, upload |-> m, at |-> now]]
  /\ ans' = [ans EXCEPT ![s] = "none"]
  /\ UNCHANGED <<stores, now>>

\* The handler returns; the client sees a as a status code.
Return(s, a) ==
  /\ Goto(s, "idle")
  /\ job' = [job EXCEPT ![s] = NULL]
  /\ ans' = [ans EXCEPT ![s] = a]

\* The session's user need not exist any more: only the token is checked.
HasSession(u) == account[u] # "none"

-----------------------------------------------------------------------------
(***************************************************************************)
(* post: grant a lease and start a multipart upload for it.                *)
(***************************************************************************)

\* Deliberately wrong variant, for mutation testing: the upload is started
\* without a lease.
PostWithoutLease(s, k) == HasSession(k[1]) /\ Start(s, "create", k, NULL, NULL)

\* The lease is built, with its expiry time, before it is added.
Post(s, k) == HasSession(k[1]) /\ Start(s, "add", k, NULL, NULL)

\* size > MAX_FILE_SIZE
PostTooLarge(s, k) ==
  /\ HasSession(k[1]) /\ pc[s] = "idle"
  /\ Return(s, "too_large")
  /\ UNCHANGED <<stores, now>>

\* Deliberately wrong variant, for mutation testing: a lease that has run out
\* when it is granted.
NewLeaseExpired(j) ==
  [key |-> j.key, expires |-> j.at - LeaseTTL, completed |-> FALSE]

\* UploadLease::template
NewLease(j) ==
  [key |-> j.key, expires |-> j.at + LeaseTTL, completed |-> FALSE]

\* UploadLeaseStore::add.  Postgres checks that the owner exists (fk_user).
AddLease(s) ==
  /\ pc[s] = "add"
  /\ Backend = "postgres" => account[job[s].key[1]] = "active"
  /\ \E l \in Lease :
       /\ lease[l] = NULL
       /\ lease' = [lease EXCEPT ![l] = NewLease(job[s])]
       /\ job' = [job EXCEPT ![s].lease = l]
  /\ Goto(s, "create")
  /\ UNCHANGED <<account, upload, object, now, ans>>

AddLeaseRefused(s) ==
  /\ pc[s] = "add"
  /\ Backend = "postgres" /\ account[job[s].key[1]] # "active"
  /\ Return(s, "internal")
  /\ UNCHANGED <<stores, now>>

\* create_multipart_upload
CreateMultipart(s) ==
  /\ pc[s] = "create"
  /\ \E m \in Upload :
       /\ upload[m] = NULL
       /\ upload' = [upload EXCEPT ![m] = [key |-> job[s].key, open |-> TRUE]]
       /\ job' = [job EXCEPT ![s].upload = m]
  /\ Goto(s, "presign")
  /\ UNCHANGED <<account, lease, object, now, ans>>

\* The URLs of all parts are signed, and sent with both ids.
Presign(s) ==
  /\ pc[s] = "presign"
  /\ Return(s, "ok")
  /\ UNCHANGED <<stores, now>>

-----------------------------------------------------------------------------
(***************************************************************************)
(* finish_upload: complete the lease, then the multipart upload.           *)
(***************************************************************************)

\* Any session may finish any upload; the ids need not exist or match.  The
\* lease names the object.
Finish(s, l, m) ==
  /\ \E u \in User : HasSession(u)
  /\ Start(s, IF Backend = "postgres" THEN "get" ELSE "mark", NULL, l, m)

\* Deliberately wrong variant, for mutation testing: the expiry time is not
\* looked at.
GetLeaseUnchecked(s) ==
  /\ pc[s] = "get"
  /\ IF lease[job[s].lease] = NULL
       THEN Return(s, "not_found")
       ELSE Goto(s, "mark") /\ UNCHANGED <<job, ans>>
  /\ UNCHANGED <<stores, now>>

\* PgStore::mark_completed, first half: get, then compare with the clock.
GetLease(s) ==
  /\ pc[s] = "get"
  /\ LET row == lease[job[s].lease] IN
       IF row = NULL THEN Return(s, "not_found")
       ELSE IF now > row.expires THEN Return(s, "gone")
       ELSE Goto(s, "mark") /\ UNCHANGED <<job, ans>>
  /\ UNCHANGED <<stores, now>>

\* Deliberately wrong variant, for mutation testing: the lease is not marked.
MarkNothing(s) ==
  /\ pc[s] = "mark"
  /\ IF lease[job[s].lease] = NULL
       THEN Return(s, "not_found")
       ELSE Goto(s, "complete") /\ UNCHANGED <<job, ans>>
  /\ UNCHANGED <<stores, now>>

\* mark_completed: the UPDATE of PgStore; all of it for MemStore, which does
\* not look at the expiry time.  Completing twice changes nothing.
MarkCompleted(s) ==
  /\ pc[s] = "mark"
  /\ IF lease[job[s].lease] = NULL
       THEN Return(s, "not_found") /\ UNCHANGED lease
       ELSE /\ lease' = [lease EXCEPT ![job[s].lease].completed = TRUE]
            /\ Goto(s, "complete")
            /\ UNCHANGED <<job, ans>>
  /\ UNCHANGED <<account, upload, object, now>>

\* S3 completes only an open upload of the object named with it.
Completable(m, k) == upload[m] # NULL /\ upload[m].open /\ upload[m].key = k

\* complete_multipart_upload, whose reply may be lost.
CompleteMultipart(s) ==
  /\ pc[s] = "complete"
  /\ LET k == lease[job[s].lease].key
         m == job[s].upload
     IN  /\ Completable(m, k)
         /\ object' = [object EXCEPT ![k] = m]
         /\ upload' = [upload EXCEPT ![m].open = FALSE]
  /\ \E a \in {"ok", "unavailable"} : Return(s, a)
  /\ UNCHANGED <<account, lease, now>>

\* NoSuchUpload
CompleteRefused(s) ==
  /\ pc[s] = "complete"
  /\ ~Completable(job[s].upload, lease[job[s].lease].key)
  /\ Return(s, "internal")
  /\ UNCHANGED <<stores, now>>

-----------------------------------------------------------------------------
(***************************************************************************)
(* Deleting an object, and users coming and going.                         *)
(***************************************************************************)
DeleteFile(s, k) == HasSession(k[1]) /\ Start(s, "remove", k, NULL, NULL)

\* delete_object succeeds whether the object is there or not.
RemoveObject(s) ==
  /\ pc[s] = "remove"
  /\ object' = [object EXCEPT ![job[s].key] = NULL]
  /\ \E a \in {"ok", "unavailable"} : Return(s, a)
  /\ UNCHANGED <<account, lease, upload, now>>

\* Any session may delete any user; of k only the user matters.
DeleteUser(s, k) ==
  /\ \E u \in User : HasSession(u)
  /\ Start(s, "deluser", k, NULL, NULL)

HasLeases(u) == \E l \in Lease : lease[l] # NULL /\ lease[l].key[1] = u

\* Deliberately wrong variant, for mutation testing: leases do not keep their
\* owner from being deleted.
RemoveUserUnchecked(s) ==
  LET u == job[s].key[1] IN
  /\ pc[s] = "deluser" /\ account[u] = "active"
  /\ account' = [account EXCEPT ![u] = "deleted"]
  /\ \E a \in {"ok", "unavailable"} : Return(s, a)
  /\ UNCHANGED <<lease, upload, object, now>>

\* UserStore::delete
RemoveUser(s) ==
  LET u == job[s].key[1] IN
  /\ pc[s] = "deluser" /\ account[u] = "active"
  /\ Backend = "postgres" => ~HasLeases(u)
  /\ account' = [account EXCEPT ![u] = "deleted"]
  /\ \E a \in {"ok", "unavailable"} : Return(s, a)
  /\ UNCHANGED <<lease, upload, object, now>>

\* No such user, or (postgres) one whose leases refer to it: fk_user has no
\* ON DELETE clause, and its violation is mapped to UserError::Other.
RemoveUserRefused(s) ==
  LET u == job[s].key[1] IN
  /\ pc[s] = "deluser"
  /\ \/ account[u] # "active" /\ Return(s, "not_found")
     \/ /\ account[u] = "active" /\ Backend = "postgres" /\ HasLeases(u)
        /\ Return(s, "internal")
  /\ UNCHANGED <<stores, now>>

\* Registration draws a fresh id.
Register(u) ==
  /\ account[u] = "none"
  /\ account' = [account EXCEPT ![u] = "active"]
  /\ UNCHANGED <<lease, upload, object, now, pc, job, ans>>

-----------------------------------------------------------------------------
\* A store call fails, or the client goes away while the handler waits for it.
Fail(s) ==
  /\ pc[s] # "idle"
  /\ Return(s, "unavailable")
  /\ UNCHANGED <<stores, now>>

Tick ==
  /\ now < MaxTime
  /\ now' = now + 1
  /\ UNCHANGED <<stores, pc, job, ans>>

Request(s) ==
  \/ \E k \in Key :
       Post(s, k) \/ PostTooLarge(s, k) \/ DeleteFile(s, k) \/ DeleteUser(s, k)
  \/ \E l \in Lease, m \in Upload : Finish(s, l, m)

Progress(s) ==
  \/ AddLease(s) \/ AddLeaseRefused(s) \/ CreateMultipart(s) \/ Presign(s)
  \/ GetLease(s) \/ MarkCompleted(s) \/ CompleteMultipart(s) \/ CompleteRefused(s)
  \/ RemoveObject(s) \/ RemoveUser(s) \/ RemoveUserRefused(s)

Next ==
  \/ \E s \in Slot : Request(s) \/ Progress(s) \/ Fail(s)
  \/ \E u \in User : Register(u)
  \/ Tick

Spec == Init /\ [][Next]_vars

-----------------------------------------------------------------------------
(***************************************************************************)
(* Properties.                                                             *)
(***************************************************************************)

\* finish_upload completes the lease before the upload, and no failure or
\* overlap of finishes turns that around: an object exists only if a lease
\* for it was completed.
StoredOnlyUnderCompletedLease ==
  \A k \in Key : object[k] # NULL =>
    \E l \in Lease : lease[l] # NULL /\ lease[l].key = k /\ lease[l].completed

\* Every multipart upload, also one whose handler failed half way, has a
\* lease that names its object: what is left open can be found from the
\* lease store.
UploadsBelongToLeases ==
  \A m \in Upload : upload[m] # NULL =>
    \E l \in Lease : lease[l] # NULL /\ lease[l].key = upload[m].key

\* With Postgres a lease never outlives its owner, although sessions do:
\* post and delete_user race, and one of the two is refused.
LeaseOwnersExist ==
  \A l \in Lease : lease[l] # NULL => account[lease[l].key[1]] = "active"

\* A finish that reaches the server after its lease ran out does not complete
\* it ("lease {0:?} expired").
LateFinishRefused ==
  [][\A s \in Slot : pc[s] = "mark" /\ pc'[s] = "complete" =>
       job[s].at <= lease[job[s].lease].expires]_vars

\* Deleting a user who exists succeeds: the documented answers are 200 and
\* 404.
DeleteUserAnswersDocumented ==
  [][\A s \in Slot : pc[s] = "deluser" /\ pc'[s] = "idle" =>
       ans'[s] # "internal"]_vars

\* The handlers implement the lifecycle the API promises.
Lifecycle == INSTANCE UploadLifecycle WITH
  granted <- [l \in Lease |-> IF lease[l] = NULL THEN NULL ELSE lease[l].key],
  completed <- {l \in Lease : lease[l] # NULL /\ lease[l].completed},
  stored <- {k \in Key : object[k] # NULL}

ImplementsLifecycle == Lifecycle!Spec
=============================================================================
