--------------------------- MODULE UploadsProofs ---------------------------
(***************************************************************************)
(* Proofs about Uploads, for any number of users, names, ids and handlers  *)
(* in flight, and for both backends.                                       *)
(***************************************************************************)
EXTENDS Uploads, TLAPS

-----------------------------------------------------------------------------
(***************************************************************************)
(* The inductive invariant.  The properties speak of the stores alone;     *)
(* what makes them inductive is what a handler that is between two store   *)
(* calls may rely on: Jobs.                                                *)
(***************************************************************************)
JobOf(s) ==
  /\ pc[s] # "idle" => job[s] \in Job /\ job[s].at <= now
  /\ pc[s] \in {"add", "create", "presign", "remove", "deluser"} =>
       job[s].key \in Key
  /\ pc[s] \in {"create", "presign"} =>
       /\ job[s].lease \in Lease /\ lease[job[s].lease] # NULL
       /\ lease[job[s].lease].key = job[s].key
  /\ pc[s] \in {"get", "mark", "complete"} =>
       job[s].lease \in Lease /\ job[s].upload \in Upload
  /\ pc[s] = "mark" /\ Backend = "postgres" =>
       /\ lease[job[s].lease] # NULL
       /\ job[s].at <= lease[job[s].lease].expires
  /\ pc[s] = "complete" =>
       lease[job[s].lease] # NULL /\ lease[job[s].lease].completed

Jobs == \A s \in Slot : JobOf(s)

IInv ==
  /\ TypeOK
  /\ Jobs
  /\ StoredOnlyUnderCompletedLease
  /\ UploadsBelongToLeases
  /\ Backend = "postgres" => LeaseOwnersExist

-----------------------------------------------------------------------------
\* Empty stores with no handler in flight satisfy the invariant.
THEOREM InitIInv == Init => IInv
  BY DEF Init, IInv, TypeOK, Jobs, JobOf, StoredOnlyUnderCompletedLease,
         UploadsBelongToLeases, LeaseOwnersExist, Stages, Answers

\* A step that changes no store and moves one handler keeps the invariant if
\* it leaves that handler as Jobs demands.
LEMMA QuietKeepsIInv ==
  ASSUME IInv, NEW s \in Slot, NEW p \in Stages, NEW j \in Job \cup {NULL},
         NEW a \in Answers,
         pc' = [pc EXCEPT ![s] = p], job' = [job EXCEPT ![s] = j],
         ans' = [ans EXCEPT ![s] = a], UNCHANGED <<stores, now>>,
         JobOf(s)'
  PROVE  IInv'
  <1>1. TypeOK'
    BY DEF IInv, TypeOK, stores
  <1>2. ASSUME NEW t \in Slot, t # s PROVE JobOf(t)'
    <2>1. pc'[t] = pc[t] /\ job'[t] = job[t]
      BY <1>2 DEF IInv, TypeOK
    <2> QED BY <2>1 DEF IInv, Jobs, JobOf, stores
  <1>3. Jobs'
    BY <1>2 DEF Jobs
  <1> QED
    BY <1>1, <1>3 DEF IInv, StoredOnlyUnderCompletedLease, LeaseOwnersExist,
                      UploadsBelongToLeases, stores

\* Returning is always quiet enough.
LEMMA ReturnKeepsIInv ==
  ASSUME IInv, NEW s \in Slot, NEW a \in Answers, Return(s, a),
         UNCHANGED <<stores, now>>
  PROVE  IInv'
  <1>1. pc'[s] = "idle"
    BY DEF IInv, TypeOK, Return, Goto
  <1>2. JobOf(s)'
    BY <1>1 DEF JobOf
  <1> QED BY <1>2, QuietKeepsIInv DEF Return, Goto, Stages

\* A request that reaches its handler keeps the invariant, whatever it names.
LEMMA StartKeepsIInv ==
  ASSUME IInv, NEW s \in Slot,
         NEW p \in {"add", "get", "mark", "remove", "deluser"},
         NEW k \in Key \cup {NULL},
         NEW l \in Lease \cup {NULL}, NEW m \in Upload \cup {NULL},
         p \in {"add", "remove", "deluser"} => k \in Key,
         p \in {"get", "mark"} => l \in Lease /\ m \in Upload,
         p = "mark" => Backend # "postgres",
         Start(s, p, k, l, m)
  PROVE  IInv'
  <1> DEFINE j == [key |-> k, lease |-> l, upload |-> m, at |-> now]
  <1>1. j \in Job /\ now \in Nat
    BY DEF IInv, TypeOK, Job
  <1>2. pc' = [pc EXCEPT ![s] = p] /\ job' = [job EXCEPT ![s] = j]
    BY DEF Start, Goto
  <1>3. pc'[s] = p /\ job'[s] = j
    BY <1>2 DEF IInv, TypeOK
  <1>4. JobOf(s)'
    BY <1>1, <1>3 DEF JobOf, Start
  <1> QED BY <1>1, <1>2, <1>4, QuietKeepsIInv DEF Start, Stages, Answers

\* A handler that goes on without changing its job.
LEMMA GotoKeepsIInv ==
  ASSUME IInv, NEW s \in Slot, NEW p \in Stages, pc[s] # "idle", Goto(s, p),
         UNCHANGED <<stores, now, job, ans>>, JobOf(s)'
  PROVE  IInv'
  <1>1. job' = [job EXCEPT ![s] = job[s]] /\ ans' = [ans EXCEPT ![s] = ans[s]]
    BY DEF IInv, TypeOK
  <1>2. job[s] \in Job \cup {NULL} /\ ans[s] \in Answers
    BY DEF IInv, TypeOK
  <1> QED BY <1>1, <1>2, QuietKeepsIInv DEF Goto

-----------------------------------------------------------------------------
(***************************************************************************)
(* The steps that change a store.                                          *)
(***************************************************************************)
LEMMA AddLeaseKeepsIInv ==
  ASSUME IInv, NEW s \in Slot, AddLease(s)
  PROVE  IInv'
  <1>1. PICK l \in Lease :
          /\ lease[l] = NULL
          /\ lease' = [lease EXCEPT ![l] = NewLease(job[s])]
          /\ job' = [job EXCEPT ![s].lease = l]
    BY DEF AddLease
  <1> DEFINE row == NewLease(job[s])
  <1>2. /\ row \in LeaseRow /\ row.key = job[s].key /\ row.completed = FALSE
        /\ row # NULL /\ job[s] \in Job /\ job[s].key \in Key
    <2>1. job[s] \in Job /\ job[s].key \in Key
      BY DEF IInv, Jobs, JobOf, AddLease
    <2>2. job[s].at + LeaseTTL \in Nat
      BY <2>1, LeaseTTLAssumption DEF Job
    <2>3. row \in LeaseRow
      BY <2>1, <2>2 DEF NewLease, LeaseRow
    <2> QED BY <2>1, <2>3, NoRowAssumption DEF NewLease
  <1> HIDE DEF row
  <1>3. lease' = [lease EXCEPT ![l] = row]
    BY <1>1 DEF row
  <1>4. \A k \in Lease \ {l} : lease'[k] = lease[k]
    BY <1>3 DEF IInv, TypeOK
  <1>5. lease'[l] = row
    BY <1>3 DEF IInv, TypeOK
  <1> DEFINE j == [job[s] EXCEPT !.lease = l]
  <1>j. j \in Job /\ job' = [job EXCEPT ![s] = j]
    BY <1>1, <1>2 DEF Job
  <1>6. TypeOK'
    BY <1>j, <1>2, <1>3 DEF IInv, TypeOK, AddLease, Goto, Stages
  <1>7. Jobs'
    <2>1. JobOf(s)'
      BY <1>1, <1>2, <1>3
      DEF IInv, TypeOK, Jobs, JobOf, AddLease, Goto, Job
    <2>2. ASSUME NEW t \in Slot, t # s PROVE JobOf(t)'
      <3>1. pc'[t] = pc[t] /\ job'[t] = job[t] /\ JobOf(t) /\ now' = now
        BY <1>1, <2>2 DEF IInv, TypeOK, Jobs, AddLease, Goto
      <3> QED BY <1>1, <1>4, <3>1 DEF JobOf
    <2> QED BY <2>1, <2>2 DEF Jobs
  <1>8. StoredOnlyUnderCompletedLease'
    BY <1>1, <1>4 DEF IInv, StoredOnlyUnderCompletedLease, AddLease
  <1>9. UploadsBelongToLeases'
    BY <1>1, <1>4 DEF IInv, UploadsBelongToLeases, AddLease
  <1>10. Backend = "postgres" => LeaseOwnersExist'
    BY <1>2, <1>4, <1>5 DEF IInv, LeaseOwnersExist, AddLease
  <1> QED BY <1>6, <1>7, <1>8, <1>9, <1>10 DEF IInv

\* The upload that post starts is for the object of the lease it added.
LEMMA CreateMultipartKeepsIInv ==
  ASSUME IInv, NEW s \in Slot, CreateMultipart(s)
  PROVE  IInv'
  <1> DEFINE row == [key |-> job[s].key, open |-> TRUE]
  <1>1. PICK m \in Upload :
          /\ upload[m] = NULL
          /\ upload' = [upload EXCEPT ![m] = row]
          /\ job' = [job EXCEPT ![s].upload = m]
    BY DEF CreateMultipart
  <1> DEFINE j == [job[s] EXCEPT !.upload = m]
  <1>2. row \in UploadRow /\ job[s] \in Job
    BY DEF IInv, Jobs, JobOf, CreateMultipart, UploadRow, Job
  <1>3. j \in Job /\ job' = [job EXCEPT ![s] = j]
    BY <1>1, <1>2 DEF Job
  <1>4. TypeOK'
    BY <1>1, <1>2, <1>3 DEF IInv, TypeOK, CreateMultipart, Goto, Stages
  <1>5. Jobs'
    <2>1. JobOf(s)'
      BY <1>1, <1>2, <1>3
      DEF IInv, TypeOK, Jobs, JobOf, CreateMultipart, Goto, Job
    <2>2. ASSUME NEW t \in Slot, t # s PROVE JobOf(t)'
      <3>1. /\ pc'[t] = pc[t] /\ job'[t] = job[t] /\ JobOf(t)
            /\ now' = now /\ lease' = lease
        BY <1>1, <2>2 DEF IInv, TypeOK, Jobs, CreateMultipart, Goto
      <3> QED BY <3>1 DEF JobOf
    <2> QED BY <2>1, <2>2 DEF Jobs
  <1>6. UploadsBelongToLeases'
    <2>1. lease[job[s].lease] # NULL /\ job[s].lease \in Lease
          /\ lease[job[s].lease].key = row.key
      BY DEF IInv, Jobs, JobOf, CreateMultipart
    <2>2. \A n \in Upload \ {m} : upload'[n] = upload[n]
      BY <1>1 DEF IInv, TypeOK
    <2>3. upload'[m] = row
      BY <1>1 DEF IInv, TypeOK
    <2> HIDE DEF row
    <2> QED BY <2>1, <2>2, <2>3 DEF IInv, UploadsBelongToLeases, CreateMultipart
  <1>7. StoredOnlyUnderCompletedLease' /\ (Backend = "postgres" => LeaseOwnersExist')
    BY DEF IInv, StoredOnlyUnderCompletedLease, LeaseOwnersExist, CreateMultipart
  <1> QED BY <1>4, <1>5, <1>6, <1>7 DEF IInv

\* Completing a lease takes nothing from the leases other handlers rely on.
LEMMA MarkCompletedKeepsIInv ==
  ASSUME IInv, NEW s \in Slot, MarkCompleted(s)
  PROVE  IInv'
  <1> DEFINE l == job[s].lease
  <1>0. l \in Lease /\ pc[s] = "mark"
    BY DEF IInv, Jobs, JobOf, MarkCompleted
  <1>1. CASE lease[l] = NULL
    BY <1>1, ReturnKeepsIInv DEF MarkCompleted, Answers, stores
  <1>2. CASE lease[l] # NULL
    <2> DEFINE row == [lease[l] EXCEPT !.completed = TRUE]
    <2>1. /\ row \in LeaseRow /\ row.key = lease[l].key /\ row.completed
          /\ row.expires = lease[l].expires /\ row # NULL
      BY <1>0, <1>2, NoRowAssumption DEF IInv, TypeOK, LeaseRow
    <2> HIDE DEF row
    <2>2. /\ lease' = [lease EXCEPT ![l] = row] /\ Goto(s, "complete")
          /\ UNCHANGED <<job, ans, account, upload, object, now>>
      BY <1>2 DEF MarkCompleted, row
    <2>3. /\ lease'[l] = row /\ \A k \in Lease \ {l} : lease'[k] = lease[k]
      BY <1>0, <2>2 DEF IInv, TypeOK
    <2>4. TypeOK'
      BY <1>0, <2>1, <2>2 DEF IInv, TypeOK, Goto, Stages
    <2>5. Jobs'
      <3>1. JobOf(s)'
        BY <1>0, <2>1, <2>2, <2>3 DEF IInv, TypeOK, Jobs, JobOf, Goto
      <3>2. ASSUME NEW t \in Slot, t # s PROVE JobOf(t)'
        <4>1. pc'[t] = pc[t] /\ job'[t] = job[t] /\ JobOf(t) /\ now' = now
          BY <2>2, <3>2 DEF IInv, TypeOK, Jobs, Goto
        <4> QED BY <1>2, <2>1, <2>3, <4>1 DEF JobOf
      <3> QED BY <3>1, <3>2 DEF Jobs
    <2>6. StoredOnlyUnderCompletedLease'
      BY <1>0, <2>1, <2>2, <2>3 DEF IInv, StoredOnlyUnderCompletedLease
    <2>7. UploadsBelongToLeases'
      BY <1>0, <1>2, <2>1, <2>2, <2>3 DEF IInv, UploadsBelongToLeases
    <2>8. Backend = "postgres" => LeaseOwnersExist'
      BY <1>0, <1>2, <2>1, <2>2, <2>3 DEF IInv, LeaseOwnersExist
    <2> QED BY <2>4, <2>5, <2>6, <2>7, <2>8 DEF IInv
  <1> QED BY <1>1, <1>2

\* A step that ends a handler with one change to users or S3.
LEMMA EndKeepsJobs ==
  ASSUME IInv, NEW s \in Slot, NEW a \in Answers, Return(s, a),
         UNCHANGED <<lease, now>>
  PROVE  Jobs'
  <1>1. ASSUME NEW t \in Slot PROVE JobOf(t)'
    <2>1. CASE t = s
      BY <2>1 DEF IInv, TypeOK, Return, Goto, JobOf
    <2>2. CASE t # s
      <3>1. pc'[t] = pc[t] /\ job'[t] = job[t] /\ JobOf(t)
        BY <2>2 DEF IInv, TypeOK, Jobs, Return, Goto
      <3> QED BY <3>1 DEF JobOf
    <2> QED BY <2>1, <2>2
  <1> QED BY <1>1 DEF Jobs

\* finish_upload stores an object whose lease it has completed before.
LEMMA CompleteMultipartKeepsIInv ==
  ASSUME IInv, NEW s \in Slot, CompleteMultipart(s)
  PROVE  IInv'
  <1> DEFINE k == lease[job[s].lease].key
             m == job[s].upload
  <1>0. /\ job[s].lease \in Lease /\ m \in Upload
        /\ lease[job[s].lease] \in LeaseRow /\ lease[job[s].lease].completed
        /\ lease[job[s].lease] # NULL /\ k \in Key
        /\ upload[m] \in UploadRow /\ upload[m] # NULL
    BY DEF IInv, TypeOK, Jobs, JobOf, CompleteMultipart, Completable, LeaseRow
  <1>1. PICK a \in Answers : Return(s, a)
    BY DEF CompleteMultipart, Answers
  <1> DEFINE row == [upload[m] EXCEPT !.open = FALSE]
  <1>2. row \in UploadRow /\ row.key = upload[m].key
    BY <1>0 DEF UploadRow
  <1>3. /\ object' = [object EXCEPT ![k] = m] /\ upload' = [upload EXCEPT ![m] = row]
        /\ UNCHANGED <<account, lease, now>>
    BY DEF CompleteMultipart
  <1>4. TypeOK'
    BY <1>0, <1>1, <1>2, <1>3 DEF IInv, TypeOK, Return, Goto, Stages
  <1>5. Jobs'
    BY <1>1, <1>3, EndKeepsJobs
  <1>6. StoredOnlyUnderCompletedLease'
    <2>1. \A h \in Key \ {k} : object'[h] = object[h]
      BY <1>3 DEF IInv, TypeOK
    <2> QED BY <1>0, <1>3, <2>1 DEF IInv, StoredOnlyUnderCompletedLease
  <1>7. UploadsBelongToLeases'
    <2> HIDE DEF row
    <2>1. upload'[m] = row /\ \A n \in Upload \ {m} : upload'[n] = upload[n]
      BY <1>0, <1>3 DEF IInv, TypeOK
    <2> QED BY <1>0, <1>2, <1>3, <2>1 DEF IInv, UploadsBelongToLeases
  <1>8. Backend = "postgres" => LeaseOwnersExist'
    BY <1>3 DEF IInv, LeaseOwnersExist
  <1> QED BY <1>4, <1>5, <1>6, <1>7, <1>8 DEF IInv

\* Deleting an object leaves the leases and the uploads alone.
LEMMA RemoveObjectKeepsIInv ==
  ASSUME IInv, NEW s \in Slot, RemoveObject(s)
  PROVE  IInv'
  <1>1. PICK a \in Answers : Return(s, a)
    BY DEF RemoveObject, Answers
  <1>2. TypeOK'
    BY <1>1 DEF IInv, TypeOK, RemoveObject, Return, Goto, Stages
  <1>3. Jobs'
    BY <1>1, EndKeepsJobs DEF RemoveObject
  <1>4. StoredOnlyUnderCompletedLease'
    BY DEF IInv, TypeOK, StoredOnlyUnderCompletedLease, RemoveObject
  <1>5. UploadsBelongToLeases' /\ (Backend = "postgres" => LeaseOwnersExist')
    BY DEF IInv, UploadsBelongToLeases, LeaseOwnersExist, RemoveObject
  <1> QED BY <1>2, <1>3, <1>4, <1>5 DEF IInv

\* Postgres deletes only users without leases.
LEMMA RemoveUserKeepsIInv ==
  ASSUME IInv, NEW s \in Slot, RemoveUser(s)
  PROVE  IInv'
  <1> DEFINE u == job[s].key[1]
  <1>0. u \in User
    BY DEF IInv, Jobs, JobOf, RemoveUser, Key
  <1>1. PICK a \in Answers : Return(s, a)
    BY DEF RemoveUser, Answers
  <1>2. /\ account' = [account EXCEPT ![u] = "deleted"]
        /\ UNCHANGED <<lease, upload, object, now>>
    BY DEF RemoveUser
  <1>3. TypeOK'
    BY <1>0, <1>1, <1>2 DEF IInv, TypeOK, Return, Goto, Stages
  <1>4. Jobs'
    BY <1>1, <1>2, EndKeepsJobs
  <1>5. ASSUME Backend = "postgres" PROVE LeaseOwnersExist'
    <2>1. ~HasLeases(u)
      BY <1>5 DEF RemoveUser
    <2>2. ASSUME NEW l \in Lease, lease[l] # NULL
          PROVE  account'[lease[l].key[1]] = "active"
      <3>1. lease[l].key[1] # u /\ lease[l].key[1] \in User
        BY <2>1, <2>2 DEF HasLeases, IInv, TypeOK, LeaseRow, Key
      <3>2. account[lease[l].key[1]] = "active"
        BY <1>5, <2>2 DEF IInv, LeaseOwnersExist
      <3> QED BY <1>2, <3>1, <3>2 DEF IInv, TypeOK
    <2> QED BY <1>2, <2>2 DEF LeaseOwnersExist
  <1>6. StoredOnlyUnderCompletedLease' /\ UploadsBelongToLeases'
    BY <1>2 DEF IInv, StoredOnlyUnderCompletedLease, UploadsBelongToLeases
  <1> QED BY <1>3, <1>4, <1>5, <1>6 DEF IInv

-----------------------------------------------------------------------------
\* Every step keeps the invariant, one step of the proof per action.
THEOREM NextIInv == IInv /\ [Next]_vars => IInv'
  <1> SUFFICES ASSUME IInv, [Next]_vars PROVE IInv'
    OBVIOUS
  <1>1. ASSUME NEW s \in Slot, Request(s) PROVE IInv'
    <2>1. ASSUME NEW k \in Key, Post(s, k) PROVE IInv'
      BY <2>1, StartKeepsIInv DEF Post
    <2>2. ASSUME NEW k \in Key, PostTooLarge(s, k) PROVE IInv'
      BY <2>2, ReturnKeepsIInv DEF PostTooLarge, Answers
    <2>3. ASSUME NEW k \in Key, DeleteFile(s, k) PROVE IInv'
      BY <2>3, StartKeepsIInv DEF DeleteFile
    <2>4. ASSUME NEW k \in Key, DeleteUser(s, k) PROVE IInv'
      BY <2>4, StartKeepsIInv DEF DeleteUser
    <2>5. ASSUME NEW l \in Lease, NEW m \in Upload, Finish(s, l, m) PROVE IInv'
      <3> DEFINE p == IF Backend = "postgres" THEN "get" ELSE "mark"
      <3>1. Start(s, p, NULL, l, m)
        BY <2>5 DEF Finish
      <3> QED BY <3>1, StartKeepsIInv
    <2> QED BY <1>1, <2>1, <2>2, <2>3, <2>4, <2>5 DEF Request
  <1>2. ASSUME NEW s \in Slot, AddLeaseRefused(s) PROVE IInv'
    BY <1>2, ReturnKeepsIInv DEF AddLeaseRefused, Answers
  <1>3. ASSUME NEW s \in Slot, Presign(s) PROVE IInv'
    BY <1>3, ReturnKeepsIInv DEF Presign, Answers
  <1>4. ASSUME NEW s \in Slot, GetLease(s) PROVE IInv'
    <2> DEFINE row == lease[job[s].lease]
    <2>0. /\ job[s].lease \in Lease /\ job[s] \in Job /\ job[s].at <= now
          /\ now \in Nat /\ pc[s] = "get"
      BY <1>4 DEF IInv, TypeOK, Jobs, JobOf, GetLease
    <2>1. CASE row = NULL
      BY <1>4, <2>1, ReturnKeepsIInv DEF GetLease, Answers
    <2>2. CASE row # NULL /\ now > row.expires
      BY <1>4, <2>2, ReturnKeepsIInv DEF GetLease, Answers
    <2>3. CASE row # NULL /\ ~(now > row.expires)
      <3>1. /\ Goto(s, "mark") /\ UNCHANGED <<stores, now, job, ans>>
        BY <1>4, <2>3 DEF GetLease
      <3>2. row \in LeaseRow
        BY <2>0, <2>3 DEF IInv, TypeOK
      <3>3. job[s].at <= row.expires
        BY <2>0, <2>3, <3>2 DEF Job, LeaseRow
      <3>4. JobOf(s)
        BY DEF IInv, Jobs
      <3>5. JobOf(s)'
        BY <2>0, <2>3, <3>1, <3>3, <3>4 DEF IInv, TypeOK, JobOf, Goto, stores
      <3> QED BY <2>0, <3>1, <3>5, GotoKeepsIInv DEF Stages
    <2> QED BY <2>1, <2>2, <2>3
  <1>5. ASSUME NEW s \in Slot, CompleteRefused(s) PROVE IInv'
    BY <1>5, ReturnKeepsIInv DEF CompleteRefused, Answers
  <1>6. ASSUME NEW s \in Slot, RemoveUserRefused(s) PROVE IInv'
    BY <1>6, ReturnKeepsIInv DEF RemoveUserRefused, Answers
  <1>7. ASSUME NEW s \in Slot, Fail(s) PROVE IInv'
    BY <1>7, ReturnKeepsIInv DEF Fail, Answers
  <1>8. ASSUME NEW u \in User, Register(u) PROVE IInv'
    BY <1>8 DEF IInv, TypeOK, Jobs, JobOf, StoredOnlyUnderCompletedLease,
                UploadsBelongToLeases, LeaseOwnersExist, Register
  <1>9. ASSUME Tick PROVE IInv'
    <2>1. Jobs'
      <3>1. ASSUME NEW s \in Slot PROVE JobOf(s)'
        <4>1. JobOf(s) /\ now \in Nat
          BY DEF IInv, TypeOK, Jobs
        <4> QED BY <1>9, <4>1 DEF JobOf, Job, Tick, stores
      <3> QED BY <3>1 DEF Jobs
    <2> QED BY <1>9, <2>1 DEF IInv, TypeOK, StoredOnlyUnderCompletedLease,
                 UploadsBelongToLeases, LeaseOwnersExist, Tick, stores
  <1>10. ASSUME UNCHANGED vars PROVE IInv'
    BY <1>10 DEF IInv, TypeOK, Jobs, JobOf, StoredOnlyUnderCompletedLease,
                 UploadsBelongToLeases, LeaseOwnersExist, vars
  <1> QED
    BY <1>1, <1>2, <1>3, <1>4, <1>5, <1>6, <1>7, <1>8, <1>9, <1>10,
       AddLeaseKeepsIInv, CreateMultipartKeepsIInv, MarkCompletedKeepsIInv,
       CompleteMultipartKeepsIInv, RemoveObjectKeepsIInv, RemoveUserKeepsIInv
    DEF Next, Progress

\* Every reachable state satisfies the invariant.
LEMMA Invariance == Spec => []IInv
  BY InitIInv, NextIInv, PTL DEF Spec

-----------------------------------------------------------------------------
(***************************************************************************)
(* The results.                                                            *)
(***************************************************************************)

\* TypeOK holds for any number of users, ids and handlers.
THEOREM TypeCorrect == Spec => []TypeOK
  <1>1. IInv => TypeOK
    BY DEF IInv
  <1> QED BY <1>1, Invariance, PTL

\* Whatever fails or overlaps, finish_upload stores an object only for a lease
\* that mark_completed has marked.
THEOREM StoredUnderCompletedLease == Spec => []StoredOnlyUnderCompletedLease
  <1>1. IInv => StoredOnlyUnderCompletedLease
    BY DEF IInv
  <1> QED BY <1>1, Invariance, PTL

\* A multipart upload that post leaves open is named by a lease.
THEOREM UploadsHaveLeases == Spec => []UploadsBelongToLeases
  <1>1. IInv => UploadsBelongToLeases
    BY DEF IInv
  <1> QED BY <1>1, Invariance, PTL

\* PgStore never keeps a lease of a deleted user: fk_user holds against the
\* race of post and delete_user.
THEOREM OwnersExist == Backend = "postgres" => (Spec => []LeaseOwnersExist)
  <1> SUFFICES ASSUME Backend = "postgres" PROVE Spec => []LeaseOwnersExist
    OBVIOUS
  <1>1. IInv => LeaseOwnersExist
    BY DEF IInv
  <1> QED BY <1>1, Invariance, PTL

\* With PgStore a finish that arrives after the lease ran out completes
\* nothing, however long its two statements take.
THEOREM LateFinishesAreRefused == Backend = "postgres" => (Spec => LateFinishRefused)
  <1> SUFFICES ASSUME Backend = "postgres" PROVE Spec => LateFinishRefused
    OBVIOUS
  <1> DEFINE OnTime == \A s \in Slot : pc[s] = "mark" /\ pc'[s] = "complete" =>
                         job[s].at <= lease[job[s].lease].expires
  <1>1. IInv => OnTime
    BY DEF IInv, Jobs, JobOf
  <1>2. IInv /\ [Next]_vars => [OnTime]_vars
    BY <1>1
  <1> QED BY <1>2, Invariance, PTL DEF Spec, LateFinishRefused

-----------------------------------------------------------------------------
(***************************************************************************)
(* The handlers implement the lifecycle.                                   *)
(***************************************************************************)
LEMMA InitRefines == Init => Lifecycle!Init
  BY DEF Init, Lifecycle!Init

\* Every step of the handlers is a step of the lifecycle or a stutter.
LEMMA NextRefines == IInv /\ [Next]_vars => [Lifecycle!Next]_Lifecycle!lvars
  <1> SUFFICES ASSUME IInv, [Next]_vars PROVE [Lifecycle!Next]_Lifecycle!lvars
    OBVIOUS
  <1> USE DEF Lifecycle!lvars
  <1>1. CASE UNCHANGED <<lease, object>>
    BY <1>1
  <1>2. ASSUME NEW s \in Slot, AddLease(s) PROVE Lifecycle!Next
    <2>1. PICK l \in Lease :
            lease[l] = NULL /\ lease' = [lease EXCEPT ![l] = NewLease(job[s])]
      BY <1>2 DEF AddLease
    <2> DEFINE row == NewLease(job[s])
    <2>2. /\ job[s].key \in Key /\ row # NULL /\ row.key = job[s].key
          /\ row.completed = FALSE
      <3>1. job[s] \in Job /\ job[s].key \in Key
        BY <1>2 DEF IInv, Jobs, JobOf, AddLease
      <3>2. job[s].at + LeaseTTL \in Nat
        BY <3>1, LeaseTTLAssumption DEF Job
      <3>3. row \in LeaseRow
        BY <3>1, <3>2 DEF NewLease, LeaseRow
      <3> QED BY <3>1, <3>3, NoRowAssumption DEF NewLease
    <2>3. PICK k \in Key : k = job[s].key
      BY <2>2
    <2> HIDE DEF row
    <2>4. lease' = [lease EXCEPT ![l] = row] /\ lease \in [Lease -> LeaseRow \cup {NULL}]
      BY <2>1 DEF row, IInv, TypeOK
    <2>5. Lifecycle!Grant(l, k)
      BY <1>2, <2>1, <2>2, <2>3, <2>4 DEF Lifecycle!Grant, AddLease
    <2> QED BY <2>5 DEF Lifecycle!Next
  <1>3. ASSUME NEW s \in Slot, MarkCompleted(s), lease' # lease
        PROVE  Lifecycle!Next
    <2>0. PICK l \in Lease : l = job[s].lease
      BY <1>3 DEF MarkCompleted, IInv, Jobs, JobOf
    <2> DEFINE row == [lease[l] EXCEPT !.completed = TRUE]
    <2>1. lease[l] # NULL /\ lease \in [Lease -> LeaseRow \cup {NULL}]
          /\ lease' = [lease EXCEPT ![l].completed = TRUE] /\ object' = object
      BY <1>3, <2>0 DEF MarkCompleted, IInv, TypeOK
    <2>2. row.key = lease[l].key /\ row.completed /\ row # NULL
      BY <2>1, NoRowAssumption DEF LeaseRow
    <2>3. lease' = [lease EXCEPT ![l] = row]
      BY <2>1
    <2> HIDE DEF row
    <2>4. \A k \in Lease \ {l} : lease'[k] = lease[k]
      BY <2>1, <2>3
    <2>5. lease'[l] = row
      BY <2>1, <2>3
    <2>6. Lifecycle!Complete(l)
      <3>1. \A k \in Lease : (IF lease'[k] = NULL THEN NULL ELSE lease'[k].key)
                            = (IF lease[k] = NULL THEN NULL ELSE lease[k].key)
        BY <2>1, <2>2, <2>4, <2>5
      <3>2. \A k \in Lease : (lease'[k] # NULL /\ lease'[k].completed)
                         <=> (lease[k] # NULL /\ lease[k].completed) \/ k = l
        BY <2>1, <2>2, <2>4, <2>5
      <3>3. lease[l].key # NULL
        BY <2>1, NoIdAssumption DEF LeaseRow
      <3> QED BY <2>1, <3>1, <3>2, <3>3 DEF Lifecycle!Complete
    <2> QED BY <2>6 DEF Lifecycle!Next
  <1>4. ASSUME NEW s \in Slot, CompleteMultipart(s) PROVE Lifecycle!Next
    <2>1. /\ job[s].lease \in Lease /\ job[s].upload \in Upload
          /\ lease[job[s].lease] \in LeaseRow
          /\ lease[job[s].lease].completed /\ lease[job[s].lease] # NULL
          /\ lease[job[s].lease].key \in Key
          /\ upload[job[s].upload] # NULL
      BY <1>4 DEF CompleteMultipart, Completable, IInv, TypeOK, Jobs, JobOf, LeaseRow
    <2>2. PICK k \in Key, m \in Upload :
            k = lease[job[s].lease].key /\ m = job[s].upload
      BY <2>1
    <2>3. /\ object' = [object EXCEPT ![k] = m] /\ lease' = lease
          /\ object \in [Key -> Upload \cup {NULL}]
      BY <1>4, <2>2 DEF CompleteMultipart, IInv, TypeOK
    <2>4. Lifecycle!Store(k)
      BY <2>1, <2>2, <2>3, NoIdAssumption DEF Lifecycle!Store
    <2> QED BY <2>4 DEF Lifecycle!Next
  <1>5. ASSUME NEW s \in Slot, RemoveObject(s) PROVE Lifecycle!Next
    <2>1. PICK k \in Key : k = job[s].key
      BY <1>5 DEF RemoveObject, IInv, Jobs, JobOf
    <2>2. /\ object' = [object EXCEPT ![k] = NULL] /\ lease' = lease
          /\ object \in [Key -> Upload \cup {NULL}]
      BY <1>5, <2>1 DEF RemoveObject, IInv, TypeOK
    <2>3. Lifecycle!Remove(k)
      BY <2>2 DEF Lifecycle!Remove
    <2> QED BY <2>3 DEF Lifecycle!Next
  <1>6. \/ UNCHANGED <<lease, object>>
        \/ \E s \in Slot : \/ AddLease(s) \/ MarkCompleted(s)
                           \/ CompleteMultipart(s) \/ RemoveObject(s)
    BY DEF Next, Request, Progress, Post, PostTooLarge, DeleteFile, DeleteUser,
           Finish, Start, AddLeaseRefused, CreateMultipart, Presign, GetLease,
           CompleteRefused, RemoveUser, RemoveUserRefused, Fail, Register, Tick,
           stores, vars
  <1>7. ASSUME NEW s \in Slot, MarkCompleted(s) PROVE object' = object
    BY <1>7 DEF MarkCompleted
  <1> QED BY <1>1, <1>2, <1>3, <1>4, <1>5, <1>6, <1>7

\* Granting, completing and storing happen in the order the lifecycle
\* prescribes, for either store.
THEOREM Refinement == Spec => ImplementsLifecycle
  BY InitRefines, NextRefines, Invariance, PTL
  DEF Spec, ImplementsLifecycle, Lifecycle!Spec
=============================================================================
