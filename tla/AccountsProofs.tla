--------------------------- MODULE AccountsProofs ---------------------------
(***************************************************************************)
(* Proofs about Accounts, for every number of users, emails and requests,  *)
(* every clock and either store.                                           *)
(***************************************************************************)
EXTENDS Accounts, FiniteSetTheorems, TLAPS

-----------------------------------------------------------------------------
(***************************************************************************)
(* The inductive invariant.  Handlers work on copies of rows, which go     *)
(* stale; what the properties need of a copy is what never changes: whose  *)
(* it is, and the password (on MemStore the email as well).  Since a copy  *)
(* may be written back after the row is gone, the copies must agree with   *)
(* one another too.                                                        *)
(***************************************************************************)

\* Two rows of one user.
Same(r, q) ==
  r.password = q.password /\ (Backend = "memory" => r.email = q.email)

\* A handler at stage p with the job j holds a copy of a row.
IsCopy(p, j) == p = "write" \/ (p = "verify" /\ j.id # NULL)

\* What a handler at stage p may rely on about its job j.
JobOf(p, j) ==
  /\ p # "idle" => j \in Job
  /\ p \in {"check", "add"} => j.row \in Row
  /\ p = "lookup" => j.id = NULL
  /\ p = "session" => j.id \in used
  /\ p \in {"get", "clone", "update", "remove"} => j.id \in Id
  /\ p \in {"clone", "write"} => Backend = "memory"
  /\ p = "update" => Backend = "postgres"
  /\ IsCopy(p, j) =>
       /\ j.id \in used /\ j.row \in Row
       /\ user[j.id] # NULL => Same(user[j.id], j.row)

Jobs ==
  \A s \in Slot : JobOf(pc[s], job[s]) /\ (pc[s] # "idle" => ans[s] = Plain("none"))

CopiesAgree ==
  \A s, t \in Slot :
    IsCopy(pc[s], job[s]) /\ IsCopy(pc[t], job[t]) /\ job[s].id = job[t].id =>
      Same(job[s].row, job[t].row)

\* If the job j of s at stage p is a copy, it agrees with the other ones.
AgreesWithOthers(s, p, j) ==
  \A t \in Slot \ {s} :
    IsCopy(pc[t], job[t]) /\ IsCopy(p, j) /\ j.id = job[t].id =>
      Same(j.row, job[t].row)

RowsUsed == \A i \in Id : user[i] # NULL => i \in used

\* The constraint is Postgres'.
PgEmailsUnique == Backend = "postgres" => EmailsUnique

IInv ==
  /\ TypeOK /\ Jobs /\ CopiesAgree
  /\ RowsUsed /\ SessionsNameUsers /\ PgEmailsUnique

-----------------------------------------------------------------------------
USE DEF Ops, Stages

\* Every answer a handler gives is well formed.
LEMMA AnswerTyping ==
  /\ \A r \in {"none", "ok", "conflict", "unauthorized", "not_found", "unavailable"} :
       Plain(r) \in Answer
  /\ \A row \in Row : Found(row) \in Answer
  BY DEF Answer, Plain, Found

\* Jobs are made of what the request names.
LEMMA JobTyping ==
  /\ NoUpdate \in Update
  /\ \A op \in Ops : /\ NewJob(op) \in Job /\ NewJob(op).id = NULL
  <1>1. NoUpdate \in Update
    BY DEF NoUpdate, Update
  <1> QED BY <1>1 DEF NewJob, Job

\* No users, no tokens, no requests.
THEOREM InitIInv == Init => IInv
  BY AnswerTyping
  DEF Init, IInv, TypeOK, Jobs, JobOf, IsCopy, CopiesAgree, RowsUsed,
      SessionsNameUsers, PgEmailsUnique, EmailsUnique

\* A step of one handler keeps the invariant if it leaves the store in order,
\* leaves its own job in order, and disturbs no copy others hold.
LEMMA StepKeepsIInv ==
  ASSUME IInv, NEW s \in Slot, TypeOK', used \subseteq used',
         RowsUsed', SessionsNameUsers', PgEmailsUnique',
         \A t \in Slot \ {s} : pc'[t] = pc[t] /\ job'[t] = job[t] /\ ans'[t] = ans[t],
         JobOf(pc[s], job[s])',
         pc'[s] # "idle" => ans'[s] = Plain("none"),
         \A t \in Slot \ {s} :
           IsCopy(pc[t], job[t]) =>
             /\ user'[job[t].id] # NULL => Same(user'[job[t].id], job[t].row)
             /\ IsCopy(pc'[s], job'[s]) /\ job'[s].id = job[t].id =>
                  Same(job'[s].row, job[t].row)
  PROVE  IInv'
  <1>1. \A t \in Slot \ {s} : JobOf(pc[t], job[t])'
    <2> SUFFICES ASSUME NEW t \in Slot \ {s} PROVE JobOf(pc[t], job[t])'
      OBVIOUS
    <2>1. JobOf(pc[t], job[t]) /\ pc'[t] = pc[t] /\ job'[t] = job[t]
      BY DEF IInv, Jobs
    <2> QED BY <2>1 DEF JobOf, IsCopy
  <1>2. Jobs'
    BY <1>1 DEF IInv, Jobs
  <1>3. CopiesAgree'
    BY DEF IInv, CopiesAgree, IsCopy, Same
  <1> QED BY <1>2, <1>3 DEF IInv

\* A step that changes a handler but no store.
LEMMA ControlKeepsIInv ==
  ASSUME IInv, NEW s \in Slot,
         NEW p \in Stages, NEW j \in Job \cup {NULL}, NEW a \in Answer,
         pc' = [pc EXCEPT ![s] = p], job' = [job EXCEPT ![s] = j],
         ans' = [ans EXCEPT ![s] = a], UNCHANGED <<user, used, session, now>>,
         JobOf(p, j), p # "idle" => a = Plain("none"),
         AgreesWithOthers(s, p, j)
  PROVE  IInv'
  <1>1. /\ pc'[s] = p /\ job'[s] = j /\ ans'[s] = a
        /\ \A t \in Slot \ {s} : pc'[t] = pc[t] /\ job'[t] = job[t] /\ ans'[t] = ans[t]
    BY DEF IInv, TypeOK
  <1>2. TypeOK'
    BY DEF IInv, TypeOK
  <1>3. RowsUsed' /\ SessionsNameUsers' /\ PgEmailsUnique'
    BY DEF IInv, RowsUsed, SessionsNameUsers, PgEmailsUnique, EmailsUnique
  <1>4. JobOf(pc[s], job[s])'
    BY <1>1 DEF JobOf, IsCopy
  <1>5. \A t \in Slot \ {s} : IsCopy(pc[t], job[t]) =>
          (user'[job[t].id] # NULL => Same(user'[job[t].id], job[t].row))
    BY DEF IInv, Jobs, JobOf
  <1> QED BY <1>1, <1>2, <1>3, <1>4, <1>5, StepKeepsIInv DEF AgreesWithOthers

\* A request that starts holds no copy yet.
LEMMA StartKeepsIInv ==
  ASSUME IInv, NEW s \in Slot, NEW p \in Stages, NEW j \in Job,
         Start(s, p, j), JobOf(p, j), ~IsCopy(p, j)
  PROVE  IInv'
  <1>1. Plain("none") \in Answer
    BY AnswerTyping
  <1> QED BY <1>1, ControlKeepsIInv DEF Start, Goto, AgreesWithOthers

\* A handler that goes on to its next store call.
LEMMA ContinueKeepsIInv ==
  ASSUME IInv, NEW s \in Slot, pc[s] # "idle", NEW p \in Stages, NEW j \in Job,
         Continue(s, p, j), JobOf(p, j), UNCHANGED <<user, used, session, now>>,
         AgreesWithOthers(s, p, j)
  PROVE  IInv'
  <1>1. PICK a \in Answer : a = Plain("none") /\ a = ans[s]
    BY AnswerTyping DEF IInv, Jobs
  <1>2. ans' = [ans EXCEPT ![s] = a]
    BY <1>1 DEF IInv, TypeOK, Continue
  <1>3. pc' = [pc EXCEPT ![s] = p] /\ job' = [job EXCEPT ![s] = j]
    BY DEF Continue, Goto
  <1> QED BY <1>1, <1>2, <1>3, ControlKeepsIInv

\* A handler that answers.
LEMMA ReturnKeepsIInv ==
  ASSUME IInv, NEW s \in Slot, NEW a \in Answer, Return(s, a),
         UNCHANGED <<user, used, session, now>>
  PROVE  IInv'
  <1>1. JobOf("idle", NULL) /\ ~IsCopy("idle", NULL)
    BY DEF JobOf, IsCopy
  <1> QED BY <1>1, ControlKeepsIInv DEF Return, Goto, AgreesWithOthers

-----------------------------------------------------------------------------
\* Requests.
LEMMA RequestKeepsIInv ==
  ASSUME IInv, NEW s \in Slot, Request(s)
  PROVE  IInv'
  <1>1. ASSUME NEW op \in {"register", "create"}, NEW e \in Email, NEW n \in Name,
               NEW p \in Password, Add(s, op, e, n, p)
        PROVE  IInv'
    <2> DEFINE j == [NewJob(op) EXCEPT !.row = [email |-> e, name |-> n, password |-> p]]
    <2>1. j \in Job /\ j.row \in Row
      BY JobTyping DEF Job, NewJob, Row
    <2> HIDE DEF j
    <2>2. \A q \in {"check", "add"} : JobOf(q, j) /\ ~IsCopy(q, j)
      BY <2>1 DEF JobOf, IsCopy
    <2> QED BY <1>1, <2>1, <2>2, StartKeepsIInv DEF Add, j
  <1>2. ASSUME NEW e \in Email, NEW p \in Password, Login(s, e, p) PROVE IInv'
    <2> DEFINE j == [NewJob("login") EXCEPT !.email = e, !.password = p]
    <2>1. j \in Job /\ j.id = NULL
      BY JobTyping DEF Job, NewJob
    <2> HIDE DEF j
    <2>2. JobOf("lookup", j) /\ ~IsCopy("lookup", j)
      BY <2>1 DEF JobOf, IsCopy
    <2> QED BY <1>2, <2>1, <2>2, StartKeepsIInv DEF Login, j
  <1>3. ASSUME NEW i \in Id, GetUser(s, i) \/ DeleteUser(s, i) PROVE IInv'
    <2> DEFINE j(op) == [NewJob(op) EXCEPT !.id = i]
    <2>1. \A op \in {"get", "delete"} : j(op) \in Job /\ j(op).id = i
      BY JobTyping DEF Job, NewJob
    <2> HIDE DEF j
    <2>2. \A op \in {"get", "delete"}, q \in {"get", "remove"} :
            JobOf(q, j(op)) /\ ~IsCopy(q, j(op))
      BY <2>1 DEF JobOf, IsCopy
    <2>3. Start(s, "get", j("get")) \/ Start(s, "remove", j("delete"))
      BY <1>3 DEF GetUser, DeleteUser, j
    <2> QED BY <2>1, <2>2, <2>3, StartKeepsIInv
  <1>4. ASSUME NEW i \in Id, NEW u \in Update, UpdateUser(s, i, u) PROVE IInv'
    <2> DEFINE j == [NewJob("update") EXCEPT !.id = i, !.update = u]
    <2>1. j \in Job /\ j.id = i
      BY JobTyping DEF Job, NewJob
    <2> HIDE DEF j
    <2>2. \A q \in {"get", "clone", "update"} :
            (q = "clone" <=> Backend = "memory") \/ q = "get" => JobOf(q, j) /\ ~IsCopy(q, j)
      BY <2>1, BackendAssumption DEF JobOf, IsCopy
    <2>3. \E q \in {"get", "clone", "update"} :
            /\ (q = "clone" <=> Backend = "memory") \/ q = "get"
            /\ Start(s, q, j)
      BY <1>4 DEF UpdateUser, j
    <2> QED BY <2>1, <2>2, <2>3, StartKeepsIInv
  <1> QED BY <1>1, <1>2, <1>3, <1>4 DEF Request

-----------------------------------------------------------------------------
\* Store calls that only read, and the steps between store calls.
LEMMA ReadKeepsIInv ==
  ASSUME IInv, NEW s \in Slot,
         \/ CheckEmail(s) \/ LookupEmail(s) \/ VerifyPassword(s)
         \/ ReadUser(s) \/ CloneUser(s) \/ Fail(s)
  PROVE  IInv'
  <1>0. JobOf(pc[s], job[s]) /\ user \in [Id -> Row \cup {NULL}]
    BY DEF IInv, TypeOK, Jobs
  <1>1. CASE CheckEmail(s)
    <2>1. job[s] \in Job /\ JobOf("add", job[s]) /\ AgreesWithOthers(s, "add", job[s])
      BY <1>0, <1>1 DEF JobOf, IsCopy, AgreesWithOthers, CheckEmail
    <2> QED BY <1>1, <2>1, AnswerTyping, ReturnKeepsIInv, ContinueKeepsIInv DEF CheckEmail
  <1>2. CASE LookupEmail(s)
    <2>1. job[s] \in Job /\ pc[s] = "lookup" /\ UNCHANGED <<user, used, session, now>>
      BY <1>0, <1>2 DEF JobOf, LookupEmail
    <2>2. CASE Continue(s, "verify", job[s])
      <3>1. JobOf("verify", job[s]) /\ AgreesWithOthers(s, "verify", job[s])
        BY <1>0, <2>1 DEF JobOf, IsCopy, AgreesWithOthers
      <3> QED BY <2>1, <2>2, <3>1, ContinueKeepsIInv
    <2>3. ASSUME NEW i \in Id, user[i] # NULL,
                 Continue(s, "verify", [job[s] EXCEPT !.id = i, !.row = user[i]])
          PROVE  IInv'
      <3> DEFINE j == [job[s] EXCEPT !.id = i, !.row = user[i]]
      <3>1. j \in Job /\ j.id = i /\ j.row = user[i] /\ user[i] \in Row
        BY <1>0, <2>1, <2>3 DEF Job
      <3> HIDE DEF j
      <3>2. i \in used
        BY <2>3 DEF IInv, RowsUsed
      <3>3. JobOf("verify", j)
        BY <3>1, <3>2 DEF JobOf, IsCopy, Same
      <3>4. AgreesWithOthers(s, "verify", j)
        BY <2>3, <3>1 DEF IInv, Jobs, JobOf, AgreesWithOthers
      <3> QED BY <2>1, <2>3, <3>1, <3>3, <3>4, ContinueKeepsIInv DEF j
    <2> QED BY <1>2, <2>2, <2>3 DEF LookupEmail
  <1>3. CASE VerifyPassword(s)
    <2>1. job[s] \in Job /\ (job[s].id # NULL => JobOf("session", job[s]))
          /\ AgreesWithOthers(s, "session", job[s])
      BY <1>0, <1>3 DEF JobOf, IsCopy, AgreesWithOthers, VerifyPassword
    <2> QED BY <1>3, <2>1, AnswerTyping, ReturnKeepsIInv, ContinueKeepsIInv
            DEF VerifyPassword
  <1>4. CASE ReadUser(s)
    <2>1. job[s].id \in Id
      BY <1>0, <1>4 DEF JobOf, ReadUser
    <2>2. user[job[s].id] # NULL => Found(user[job[s].id]) \in Answer
      BY <1>0, <2>1, AnswerTyping
    <2> QED BY <1>4, <2>2, AnswerTyping, ReturnKeepsIInv DEF ReadUser
  <1>5. CASE CloneUser(s)
    <2> DEFINE i == job[s].id
               n == job[s].update.name
               row == IF n = NULL THEN user[i] ELSE [user[i] EXCEPT !.name = n]
               j == [job[s] EXCEPT !.row = row]
    <2>1. /\ job[s] \in Job /\ i \in Id /\ n \in Name \cup {NULL}
          /\ Backend = "memory" /\ pc[s] = "clone" /\ UNCHANGED <<user, used, session, now>>
      BY <1>0, <1>5 DEF JobOf, CloneUser, Job, Update
    <2>2. CASE user[i] = NULL
      BY <1>5, <2>2, AnswerTyping, ReturnKeepsIInv DEF CloneUser
    <2>3. CASE user[i] # NULL
      <3>1. row \in Row /\ Same(user[i], row) /\ i \in used
        BY <1>0, <2>1, <2>3 DEF Row, Same, IInv, RowsUsed
      <3>2. Continue(s, "write", j)
        BY <1>5, <2>3 DEF CloneUser
      <3> HIDE DEF row
      <3>3. j \in Job /\ j.id = i /\ j.row = row
        BY <2>1, <3>1 DEF Job
      <3> HIDE DEF j
      <3>4. JobOf("write", j)
        BY <2>1, <3>1, <3>3 DEF JobOf, IsCopy
      <3>5. AgreesWithOthers(s, "write", j)
        BY <2>3, <3>1, <3>3 DEF IInv, Jobs, JobOf, AgreesWithOthers, Same
      <3> QED BY <2>1, <3>2, <3>3, <3>4, <3>5, ContinueKeepsIInv
    <2> QED BY <2>2, <2>3
  <1>6. CASE Fail(s)
    BY <1>6, AnswerTyping, ReturnKeepsIInv DEF Fail
  <1> QED BY <1>1, <1>2, <1>3, <1>4, <1>5, <1>6

-----------------------------------------------------------------------------
\* Store calls that write.  Copies that others hold of the row stay good: a
\* new row has a new id, and a write changes neither password nor, on
\* MemStore, email.
LEMMA AddUserKeepsIInv ==
  ASSUME IInv, NEW s \in Slot, AddUser(s)
  PROVE  IInv'
  <1>0. /\ pc[s] = "add" /\ job[s] \in Job /\ job[s].row \in Row
        /\ UNCHANGED <<session, now>>
    BY DEF IInv, Jobs, JobOf, AddUser
  <1>1. PICK i \in FreshIds :
          IF Refused(job[s].row.email, i)
            THEN Return(s, Plain("conflict")) /\ UNCHANGED <<user, used>>
            ELSE /\ user' = [user EXCEPT ![i] = job[s].row]
                 /\ used' = used \cup {i}
                 /\ Added(s, i)
    BY DEF AddUser
  <1>2. CASE Refused(job[s].row.email, i)
    BY <1>0, <1>1, <1>2, AnswerTyping, ReturnKeepsIInv
  <1>3. CASE ~Refused(job[s].row.email, i)
    <2> DEFINE j == [job[s] EXCEPT !.id = i]
    <2>1. /\ i \in Id /\ i \notin used /\ user[i] = NULL
          /\ user' = [user EXCEPT ![i] = job[s].row] /\ used' = used \cup {i}
      BY <1>1, <1>3 DEF FreshIds, IInv, RowsUsed
    <2>2. j \in Job /\ j.id = i
      BY <1>0, <2>1 DEF Job
    <2>3. Continue(s, "session", j) \/ Return(s, Plain("ok"))
      BY <1>1, <1>3 DEF Added
    <2> HIDE DEF j
    <2>4. /\ \A t \in Slot \ {s} : pc'[t] = pc[t] /\ job'[t] = job[t] /\ ans'[t] = ans[t]
          /\ \/ pc'[s] = "session" /\ job'[s] = j /\ ans'[s] = Plain("none")
             \/ pc'[s] = "idle"
      BY <1>0, <2>3 DEF IInv, TypeOK, Jobs, Continue, Return, Goto
    <2>5. TypeOK'
      <3>1. user' \in [Id -> Row \cup {NULL}] /\ used' \in SUBSET Id
        BY <1>0, <2>1 DEF IInv, TypeOK
      <3>2. pc' \in [Slot -> Stages] /\ job' \in [Slot -> Job \cup {NULL}]
            /\ ans' \in [Slot -> Answer]
        BY <2>2, <2>3, AnswerTyping DEF IInv, TypeOK, Continue, Return, Goto
      <3> QED BY <1>0, <3>1, <3>2 DEF IInv, TypeOK
    <2>6. RowsUsed' /\ SessionsNameUsers'
      BY <1>0, <2>1 DEF IInv, TypeOK, RowsUsed, SessionsNameUsers
    <2>7. PgEmailsUnique'
      <3> SUFFICES ASSUME Backend = "postgres", NEW k \in Id, NEW m \in Id,
                          user'[k] # NULL, user'[m] # NULL, k # m
                   PROVE  Fold[user'[k].email] # Fold[user'[m].email]
        BY DEF PgEmailsUnique, EmailsUnique
      <3>1. \A n \in Id \ {i} : user'[n] = user[n]
        BY <2>1 DEF IInv, TypeOK
      <3>2. user'[i] = job[s].row
        BY <2>1 DEF IInv, TypeOK
      <3>3. \A n \in Id \ {i} : user[n] # NULL => Fold[user[n].email] # Fold[job[s].row.email]
        BY <1>3 DEF Refused, Taken
      <3> QED BY <3>1, <3>2, <3>3 DEF IInv, PgEmailsUnique, EmailsUnique
    <2>8. JobOf(pc[s], job[s])'
      BY <2>1, <2>2, <2>4 DEF JobOf, IsCopy
    <2>9. \A t \in Slot \ {s} : IsCopy(pc[t], job[t]) =>
            /\ user'[job[t].id] # NULL => Same(user'[job[t].id], job[t].row)
            /\ ~IsCopy(pc'[s], job'[s])
      BY <2>1, <2>4 DEF IInv, TypeOK, Jobs, JobOf, IsCopy
    <2> QED BY <2>1, <2>4, <2>5, <2>6, <2>7, <2>8, <2>9, StepKeepsIInv
  <1> QED BY <1>2, <1>3

\* A handler that answers and leaves the store in order.
LEMMA WriteAndReturnKeepsIInv ==
  ASSUME IInv, NEW s \in Slot, NEW a \in Answer, Return(s, a),
         user' \in [Id -> Row \cup {NULL}], UNCHANGED <<used, now>>,
         session' \in SUBSET Token, SessionsNameUsers',
         RowsUsed', PgEmailsUnique',
         \A t \in Slot : IsCopy(pc[t], job[t]) /\ user'[job[t].id] # NULL =>
                           Same(user'[job[t].id], job[t].row)
  PROVE  IInv'
  <1>1. /\ \A t \in Slot \ {s} : pc'[t] = pc[t] /\ job'[t] = job[t] /\ ans'[t] = ans[t]
        /\ pc'[s] = "idle" /\ ~IsCopy(pc'[s], job'[s])
    BY DEF IInv, TypeOK, Return, Goto, IsCopy
  <1>2. TypeOK'
    BY DEF IInv, TypeOK, Return, Goto
  <1>3. JobOf(pc[s], job[s])'
    BY <1>1 DEF JobOf, IsCopy
  <1> QED BY <1>1, <1>2, <1>3, StepKeepsIInv

\* The steps that write a row or a session keep the invariant.
LEMMA WriteKeepsIInv ==
  ASSUME IInv, NEW s \in Slot,
         StartSession(s) \/ WriteUser(s) \/ PgUpdate(s) \/ RemoveUser(s)
  PROVE  IInv'
  <1>0. JobOf(pc[s], job[s]) /\ user \in [Id -> Row \cup {NULL}]
    BY DEF IInv, TypeOK, Jobs
  <1>1. CASE StartSession(s)
    <2>1. job[s].id \in used /\ now + SessionTTL \in Nat
      BY <1>0, <1>1, ClockAssumption DEF JobOf, StartSession, IInv, TypeOK
    <2>2. session' \in SUBSET Token /\ SessionsNameUsers'
      BY <1>1, <2>1 DEF StartSession, IInv, TypeOK, SessionsNameUsers, Token
    <2>3. RowsUsed' /\ PgEmailsUnique' /\ user' \in [Id -> Row \cup {NULL}]
          /\ Return(s, Plain("ok")) /\ UNCHANGED <<user, used, now>>
      BY <1>0, <1>1 DEF StartSession, IInv, RowsUsed, PgEmailsUnique, EmailsUnique
    <2>4. \A t \in Slot : IsCopy(pc[t], job[t]) /\ user'[job[t].id] # NULL =>
                            Same(user'[job[t].id], job[t].row)
      BY <2>3 DEF IInv, Jobs, JobOf
    <2> QED BY <2>2, <2>3, <2>4, AnswerTyping, WriteAndReturnKeepsIInv
  <1>2. ASSUME NEW i \in used, NEW row \in Row \cup {NULL}, NEW a \in Answer,
               Return(s, a), user' = [user EXCEPT ![i] = row],
               UNCHANGED <<used, session, now>>,
               PgEmailsUnique',
               \A t \in Slot :
                 IsCopy(pc[t], job[t]) /\ job[t].id = i /\ row # NULL =>
                   Same(row, job[t].row)
        PROVE  IInv'
    <2>1. i \in Id /\ user'[i] = row /\ \A k \in Id \ {i} : user'[k] = user[k]
      BY <1>2 DEF IInv, TypeOK
    <2>2. user' \in [Id -> Row \cup {NULL}] /\ session' \in SUBSET Token
      BY <1>2 DEF IInv, TypeOK
    <2>3. RowsUsed' /\ SessionsNameUsers'
      BY <1>2, <2>1 DEF IInv, RowsUsed, SessionsNameUsers
    <2>4. \A t \in Slot : IsCopy(pc[t], job[t]) /\ user'[job[t].id] # NULL =>
                            Same(user'[job[t].id], job[t].row)
      <3> SUFFICES ASSUME NEW t \in Slot, IsCopy(pc[t], job[t]), user'[job[t].id] # NULL
                   PROVE  Same(user'[job[t].id], job[t].row)
        OBVIOUS
      <3>1. job[t].id \in Id /\ (user[job[t].id] # NULL => Same(user[job[t].id], job[t].row))
        BY DEF IInv, TypeOK, Jobs, JobOf
      <3> QED BY <1>2, <2>1, <3>1
    <2> QED BY <1>2, <2>2, <2>3, <2>4, WriteAndReturnKeepsIInv
  <1>3. CASE WriteUser(s)
    <2> DEFINE i == job[s].id
    <2>1. /\ pc[s] = "write" /\ i \in used /\ i \in Id /\ job[s].row \in Row
          /\ IsCopy(pc[s], job[s]) /\ Backend = "memory"
      BY <1>0, <1>3 DEF JobOf, IsCopy, WriteUser, IInv, TypeOK
    <2>2. PICK a \in Answer : Return(s, a)
      BY <1>0, <1>3, <2>1, AnswerTyping DEF WriteUser
    <2>3. PgEmailsUnique'
      BY <2>1 DEF PgEmailsUnique
    <2>4. \A t \in Slot : IsCopy(pc[t], job[t]) /\ job[t].id = i =>
                            Same(job[s].row, job[t].row)
      BY <2>1 DEF IInv, CopiesAgree
    <2> QED BY <1>2, <1>3, <2>1, <2>2, <2>3, <2>4 DEF WriteUser
  <1>4. CASE RemoveUser(s)
    <2> DEFINE i == job[s].id
    <2>1. i \in Id
      BY <1>0, <1>4 DEF JobOf, RemoveUser
    <2>2. PICK a \in Answer : Return(s, a)
      BY <1>0, <1>4, <2>1, AnswerTyping DEF RemoveUser
    <2>3. /\ user' = [user EXCEPT ![i] = NULL] /\ UNCHANGED <<used, session, now>>
          /\ \A k \in Id : user'[k] = user[k] \/ user'[k] = NULL
      BY <1>0, <1>4 DEF RemoveUser
    <2>4. PgEmailsUnique'
      BY <2>3 DEF IInv, PgEmailsUnique, EmailsUnique
    <2>5. CASE i \in used
      BY <1>2, <2>2, <2>3, <2>4, <2>5
    <2>6. CASE i \notin used
      <3>1. user[i] = NULL
        BY <2>1, <2>6 DEF IInv, RowsUsed
      <3>2. user' = user
        BY <1>0, <2>3, <3>1
      <3> QED BY <2>2, <2>3, <3>2, ReturnKeepsIInv
    <2> QED BY <2>5, <2>6
  <1>5. CASE PgUpdate(s)
    <2> DEFINE i == job[s].id
               u == job[s].update
               row == [user[i] EXCEPT !.email = Coalesce(u.email, @),
                                      !.name = Coalesce(u.name, @)]
    <2>1. i \in Id /\ u \in Update /\ UNCHANGED <<used, session, now>>
      BY <1>0, <1>5 DEF JobOf, PgUpdate, Job
    <2>2. CASE user[i] = NULL \/ Taken(row.email, i)
      BY <1>5, <2>1, <2>2, AnswerTyping, ReturnKeepsIInv DEF PgUpdate
    <2>3. CASE user[i] # NULL /\ ~Taken(row.email, i)
      <3>1. row \in Row /\ row.password = user[i].password /\ i \in used
        BY <1>0, <2>1, <2>3 DEF Row, Update, Coalesce, IInv, RowsUsed
      <3>2. user' = [user EXCEPT ![i] = row] /\ Return(s, Found(row))
        BY <1>5, <2>3 DEF PgUpdate, AnswerNew
      <3> HIDE DEF row
      <3>3. user'[i] = row /\ \A k \in Id \ {i} : user'[k] = user[k]
        BY <1>0, <2>1, <3>2
      <3>4. \A k \in Id \ {i} : user[k] # NULL => Fold[user[k].email] # Fold[row.email]
        BY <2>3 DEF Taken
      <3>5. PgEmailsUnique'
        BY <3>3, <3>4 DEF IInv, PgEmailsUnique, EmailsUnique
      <3>6. Backend = "postgres"
        BY <1>0, <1>5 DEF PgUpdate, JobOf
      <3>7. \A t \in Slot : IsCopy(pc[t], job[t]) /\ job[t].id = i =>
                              Same(row, job[t].row)
        BY <2>3, <3>1, <3>6 DEF IInv, Jobs, JobOf, Same
      <3> QED BY <1>2, <2>1, <3>1, <3>2, <3>5, <3>7, AnswerTyping
    <2> QED BY <2>2, <2>3
  <1> QED BY <1>1, <1>3, <1>4, <1>5

\* Every step keeps the invariant.
THEOREM NextIInv == IInv /\ [Next]_vars => IInv'
  <1> SUFFICES ASSUME IInv, [Next]_vars PROVE IInv'
    OBVIOUS
  <1> USE DEF IInv, TypeOK, Jobs, JobOf, IsCopy, CopiesAgree, RowsUsed,
              SessionsNameUsers, PgEmailsUnique, EmailsUnique
  <1>1. CASE Tick
    BY <1>1 DEF Tick
  <1>2. CASE UNCHANGED vars
    BY <1>2 DEF vars
  <1> QED
    BY <1>1, <1>2, RequestKeepsIInv, ReadKeepsIInv, AddUserKeepsIInv, WriteKeepsIInv
    DEF Next, Progress

-----------------------------------------------------------------------------
\* Every reachable state satisfies the invariant.
LEMMA Invariance == Spec => []IInv
  BY InitIInv, NextIInv, PTL DEF Spec

\* TypeOK holds for either store.
THEOREM TypeCorrect == Spec => []TypeOK
  <1>1. IInv => TypeOK
    BY DEF IInv
  <1> QED BY <1>1, Invariance, PTL

\* Tokens name users that were stored, for either store.
THEOREM TokensNameUsers == Spec => []SessionsNameUsers
  <1>1. IInv => SessionsNameUsers
    BY DEF IInv
  <1> QED BY <1>1, Invariance, PTL

\* On PgStore no two users share an email, whatever overlaps.
THEOREM PgEmailsAreUnique == Backend = "postgres" => (Spec => []EmailsUnique)
  <1> SUFFICES ASSUME Backend = "postgres" PROVE Spec => []EmailsUnique
    OBVIOUS
  <1>1. IInv => EmailsUnique
    BY DEF IInv, PgEmailsUnique
  <1> QED BY <1>1, Invariance, PTL

\* Four store calls change users.
LEMMA Writers ==
  Next => \/ user' = user
          \/ \E s \in Slot : AddUser(s) \/ WriteUser(s) \/ PgUpdate(s) \/ RemoveUser(s)
  BY DEF Next, Request, Progress, Add, Login, GetUser, UpdateUser, DeleteUser, Start,
         CheckEmail, StartSession, LookupEmail, VerifyPassword, ReadUser, CloneUser,
         Fail, Tick

\* A handler is changed by its own steps only.
LEMMA StepsOf ==
  ASSUME IInv, Next, NEW s \in Slot
  PROVE  \/ Request(s) \/ Progress(s) \/ Fail(s)
         \/ pc'[s] = pc[s] /\ job'[s] = job[s] /\ ans'[s] = ans[s]
  <1> DEFINE Kept == pc'[s] = pc[s] /\ job'[s] = job[s] /\ ans'[s] = ans[s]
  <1>0. /\ pc \in [Slot -> Stages] /\ ans \in [Slot -> Answer]
        /\ job \in [Slot -> Job \cup {NULL}]
    BY DEF IInv, TypeOK
  <1>1. ASSUME NEW t \in Slot \ {s}, Request(t) PROVE Kept
    BY <1>0, <1>1 DEF Request, Add, Login, GetUser, UpdateUser, DeleteUser, Start, Goto
  <1>2. ASSUME NEW t \in Slot \ {s}, Progress(t) \/ Fail(t) PROVE Kept
    <2>1. ASSUME NEW a, Return(t, a) PROVE Kept
      BY <1>0, <2>1 DEF Return, Goto
    <2>2. ASSUME NEW p, NEW j, Continue(t, p, j) PROVE Kept
      BY <1>0, <2>2 DEF Continue, Goto
    <2>3. \/ \E a : Return(t, a)
          \/ \E p, j : Continue(t, p, j)
      BY <1>2, Zenon DEF Progress, CheckEmail, AddUser, Added, StartSession,
         LookupEmail, VerifyPassword, ReadUser, CloneUser, WriteUser, PgUpdate,
         RemoveUser, Fail
    <2> QED BY <2>1, <2>2, <2>3
  <1>3. ASSUME Tick PROVE Kept
    BY <1>3 DEF Tick
  <1> QED BY <1>1, <1>2, <1>3 DEF Next

\* Requests start where none is under way.
LEMMA StartsIdle ==
  ASSUME NEW s \in Slot, Request(s)
  PROVE  pc[s] = "idle"
  BY DEF Request, Add, Login, GetUser, UpdateUser, DeleteUser, Start

\* On MemStore no stale copy that is written back changes whose login a row
\* is.
THEOREM MemCredentialsAreStable == Backend = "memory" => (Spec => CredentialsStable)
  <1> SUFFICES ASSUME Backend = "memory" PROVE Spec => CredentialsStable
    OBVIOUS
  <1> DEFINE Stable == \A i \in Id : user[i] # NULL /\ user'[i] # NULL =>
                         /\ user'[i].email = user[i].email
                         /\ user'[i].password = user[i].password
  <1>1. ASSUME IInv, Next PROVE user' = user \/ Stable
    <2>1. user \in [Id -> Row \cup {NULL}]
      BY <1>1 DEF IInv, TypeOK
    <2>2. ASSUME NEW s \in Slot, AddUser(s) PROVE user' = user \/ Stable
      BY <1>1, <2>1, <2>2 DEF AddUser, FreshIds, IInv, RowsUsed
    <2>3. ASSUME NEW s \in Slot, WriteUser(s) PROVE Stable
      <3>1. Same(user[job[s].id], job[s].row) \/ user[job[s].id] = NULL
        BY <1>1, <2>3 DEF IInv, Jobs, JobOf, IsCopy, WriteUser
      <3> QED BY <2>1, <2>3, <3>1 DEF WriteUser, Same
    <2>4. ASSUME NEW s \in Slot, RemoveUser(s) PROVE Stable
      BY <2>1, <2>4 DEF RemoveUser
    <2>5. \A s \in Slot : ~PgUpdate(s)
      BY <1>1 DEF IInv, Jobs, JobOf, PgUpdate
    <2>6. \/ user' = user
          \/ \E s \in Slot : AddUser(s) \/ WriteUser(s) \/ PgUpdate(s) \/ RemoveUser(s)
      BY <1>1, Writers
    <2> QED BY <2>2, <2>3, <2>4, <2>5, <2>6
  <1>2. IInv /\ [Next]_vars => [Stable]_vars
    BY <1>1
  <1> QED BY <1>2, Invariance, PTL DEF Spec, CredentialsStable

\* On PgStore no user comes back that was deleted.
THEOREM PgDeletedStayDeleted == Backend = "postgres" => (Spec => DeletedStaysDeleted)
  <1> SUFFICES ASSUME Backend = "postgres" PROVE Spec => DeletedStaysDeleted
    OBVIOUS
  <1> DEFINE Gone == \A i \in used : user[i] = NULL => user'[i] = NULL
  <1>1. ASSUME IInv, Next PROVE Gone
    <2>1. user \in [Id -> Row \cup {NULL}] /\ used \subseteq Id
      BY <1>1 DEF IInv, TypeOK
    <2>2. ASSUME NEW s \in Slot, AddUser(s) PROVE Gone
      BY <2>1, <2>2 DEF AddUser, FreshIds
    <2>3. ASSUME NEW s \in Slot, PgUpdate(s) \/ RemoveUser(s) PROVE Gone
      BY <2>1, <2>3 DEF PgUpdate, RemoveUser
    <2>4. \A s \in Slot : ~WriteUser(s)
      BY <1>1 DEF IInv, Jobs, JobOf, WriteUser
    <2>5. \/ user' = user
          \/ \E s \in Slot : AddUser(s) \/ WriteUser(s) \/ PgUpdate(s) \/ RemoveUser(s)
      BY <1>1, Writers
    <2> QED BY <2>2, <2>3, <2>4, <2>5
  <1>2. IInv /\ [Next]_vars => [Gone]_vars
    BY <1>1
  <1> QED BY <1>2, Invariance, PTL DEF Spec, DeletedStaysDeleted

\* Copies to write back are made of users that are there.
LEMMA CopiesMade ==
  ASSUME IInv, Next, NEW i \in Id, Copied(i)', ~Copied(i)
  PROVE  user[i] # NULL
  <1>1. PICK s \in Slot : pc'[s] = "write" /\ job'[s].id = i
    BY DEF Copied
  <1>2. ~(pc'[s] = pc[s] /\ job'[s] = job[s])
    BY <1>1 DEF Copied
  <1>3. /\ pc \in [Slot -> Stages] /\ job \in [Slot -> Job \cup {NULL}]
        /\ pc[s] # "idle" => job[s] \in Job
    BY DEF IInv, TypeOK, Jobs, JobOf
  <1>4. ~Request(s)
    BY <1>1, <1>3 DEF Request, Add, Login, GetUser, UpdateUser, DeleteUser, Start, Goto
  <1>5. ASSUME Progress(s) \/ Fail(s) PROVE CloneUser(s)
    BY <1>1, <1>3, <1>5
    DEF Progress, CheckEmail, AddUser, Added, StartSession, LookupEmail,
        VerifyPassword, ReadUser, WriteUser, PgUpdate, RemoveUser, Fail, Return,
        Continue, Goto
  <1>6. CloneUser(s)
    BY <1>2, <1>4, <1>5, StepsOf
  <1>7. user[job[s].id] # NULL /\ \E row : job'[s] = [job[s] EXCEPT !.row = row]
    BY <1>1, <1>3, <1>6 DEF CloneUser, Return, Continue, Goto
  <1>8. job'[s].id = job[s].id
    BY <1>3, <1>6, <1>7 DEF CloneUser, Job
  <1> QED BY <1>1, <1>7, <1>8

\* On either store a deleted user of whom no copy waits to be written back is
\* gone for good.
THEOREM DeletedAreGoneForGood == Spec => GoneForGood
  <1> DEFINE Gone == \A i \in used : user[i] = NULL /\ ~Copied(i) =>
                       user'[i] = NULL /\ ~Copied(i)'
  <1>1. ASSUME IInv, Next, NEW i \in used, user[i] = NULL, ~Copied(i)
        PROVE  user'[i] = NULL /\ ~Copied(i)'
    <2>1. user \in [Id -> Row \cup {NULL}] /\ i \in Id
      BY <1>1 DEF IInv, TypeOK
    <2>2. ~Copied(i)'
      BY <1>1, <2>1, CopiesMade
    <2>3. ASSUME NEW s \in Slot, AddUser(s) PROVE user'[i] = NULL
      BY <1>1, <2>1, <2>3 DEF AddUser, FreshIds
    <2>4. ASSUME NEW s \in Slot, WriteUser(s) PROVE user'[i] = NULL
      BY <1>1, <2>1, <2>4 DEF WriteUser, Copied
    <2>5. ASSUME NEW s \in Slot, PgUpdate(s) \/ RemoveUser(s) PROVE user'[i] = NULL
      BY <1>1, <2>1, <2>5 DEF PgUpdate, RemoveUser
    <2>6. \/ user' = user
          \/ \E s \in Slot : AddUser(s) \/ WriteUser(s) \/ PgUpdate(s) \/ RemoveUser(s)
      BY <1>1, Writers
    <2> QED BY <1>1, <2>2, <2>3, <2>4, <2>5, <2>6
  <1>2. IInv /\ [Next]_vars => [Gone]_vars
    BY <1>1
  <1> QED BY <1>2, Invariance, PTL DEF Spec, GoneForGood

\* On PgStore an update answers with the row it stored.
THEOREM PgUpdatesAnswerUpdated == Backend = "postgres" => (Spec => UpdateAnswersUpdated)
  <1> SUFFICES ASSUME Backend = "postgres" PROVE Spec => UpdateAnswersUpdated
    OBVIOUS
  <1> DEFINE Answered(s) ==
        pc[s] \in {"update", "write"} /\ ans'[s].res = "ok" =>
          ans'[s].user = user'[job[s].id]
  <1>1. ASSUME IInv, Next, NEW s \in Slot PROVE Answered(s)
    <2> SUFFICES ASSUME pc[s] \in {"update", "write"}, ans'[s].res = "ok"
                 PROVE  ans'[s].user = user'[job[s].id]
      OBVIOUS
    <2>1. /\ pc[s] = "update" /\ job[s].id \in Id /\ ans[s].res = "none"
          /\ user \in [Id -> Row \cup {NULL}] /\ ans \in [Slot -> Answer]
      BY <1>1 DEF IInv, TypeOK, Jobs, JobOf, Plain
    <2>2. PgUpdate(s)
      <3>1. PgUpdate(s) \/ Fail(s) \/ ans'[s] = ans[s]
        BY <1>1, <2>1, StepsOf, StartsIdle
        DEF Progress, CheckEmail, AddUser, StartSession, LookupEmail, VerifyPassword,
            ReadUser, CloneUser, WriteUser, RemoveUser
      <3>2. ~Fail(s)
        BY <2>1 DEF Fail, Return, Plain
      <3> QED BY <2>1, <3>1, <3>2
    <2> QED BY <2>1, <2>2 DEF PgUpdate, Return, AnswerNew, Plain, Found
  <1>2. IInv /\ [Next]_vars => [\A s \in Slot : Answered(s)]_vars
    BY <1>1
  <1> QED BY <1>2, Invariance, PTL DEF Spec, UpdateAnswersUpdated

\* A login hands out a token only for the user whose password was given, on
\* either store, and whatever happens to the user while the password is
\* verified.
THEOREM LoginsProvePasswords == Spec => LoginProvesPassword
  <1> DEFINE Proved(s) ==
        pc[s] = "verify" /\ pc'[s] = "session" =>
          /\ job'[s].id \in used /\ job'[s].row.password = job[s].password
          /\ user[job'[s].id] # NULL =>
               user[job'[s].id].password = job[s].password
  <1>1. ASSUME IInv, Next, NEW s \in Slot PROVE Proved(s)
    <2> SUFFICES ASSUME pc[s] = "verify", pc'[s] = "session" PROVE Proved(s)
      OBVIOUS
    <2>1. pc \in [Slot -> Stages] /\ job \in [Slot -> Job \cup {NULL}]
      BY <1>1 DEF IInv, TypeOK
    <2>2. VerifyPassword(s)
      <3>1. ~Fail(s)
        BY <2>1 DEF Fail, Return, Goto
      <3> QED BY <1>1, <3>1, StepsOf, StartsIdle
              DEF Progress, CheckEmail, AddUser, StartSession, LookupEmail, ReadUser,
                  CloneUser, WriteUser, PgUpdate, RemoveUser
    <2>3. job'[s] = job[s] /\ job[s].id # NULL /\ job[s].row.password = job[s].password
      BY <2>1, <2>2 DEF VerifyPassword, Return, Continue, Goto
    <2>4. JobOf(pc[s], job[s])
      BY <1>1 DEF IInv, Jobs
    <2> QED BY <2>3, <2>4 DEF JobOf, IsCopy, Same
  <1>2. IInv /\ [Next]_vars => [\A s \in Slot : Proved(s)]_vars
    BY <1>1 DEF vars
  <1> QED BY <1>2, Invariance, PTL DEF Spec, LoginProvesPassword

-----------------------------------------------------------------------------
(***************************************************************************)
(* How many users share an email on MemStore.  A copy that is about to be  *)
(* written counts as a user: the one it brings back.  So does a handler    *)
(* that has found the email free and not added its user yet.  A handler    *)
(* comes to that point only while nobody has the email: all that count are *)
(* then copies, one per handler, and handlers are what limits them.        *)
(***************************************************************************)
Writing(s, e) == pc[s] = "write" /\ job[s].row.email = e
Holders(e) == {i \in Id : user[i] # NULL /\ user[i].email = e}
Ghosts(e) == Holders(e) \cup {i \in Id : \E s \in Slot : Writing(s, e) /\ job[s].id = i}
Adding(e) == {s \in Slot : pc[s] = "add" /\ job[s].row.email = e}

Crowd(e) ==
  /\ IsFiniteSet(Ghosts(e))
  /\ Cardinality(Ghosts(e)) + Cardinality(Adding(e)) <= Cardinality(Slot)

\* A crowd that loses members.
LEMMA CrowdShrinks ==
  ASSUME IsFiniteSet(Slot), NEW e, Crowd(e),
         Ghosts(e)' \subseteq Ghosts(e), Adding(e)' \subseteq Adding(e)
  PROVE  Crowd(e)'
  <1> DEFINE G == Ghosts(e)  H == Ghosts(e)'  A == Adding(e)  B == Adding(e)'
  <1>1. /\ IsFiniteSet(G) /\ H \subseteq G /\ B \subseteq A /\ A \subseteq Slot
        /\ Cardinality(G) + Cardinality(A) <= Cardinality(Slot)
    BY DEF Crowd, Adding
  <1>2. Crowd(e)' <=> IsFiniteSet(H) /\ Cardinality(H) + Cardinality(B) <= Cardinality(Slot)
    BY DEF Crowd
  <1> HIDE DEF G, H, A, B
  <1>3. IsFiniteSet(H) /\ Cardinality(H) <= Cardinality(G)
    BY <1>1, FS_Subset
  <1>4. IsFiniteSet(A) /\ IsFiniteSet(B) /\ Cardinality(B) <= Cardinality(A)
    BY <1>1, FS_Subset
  <1>5. /\ Cardinality(G) \in Nat /\ Cardinality(H) \in Nat /\ Cardinality(A) \in Nat
        /\ Cardinality(B) \in Nat /\ Cardinality(Slot) \in Nat
    BY <1>1, <1>3, <1>4, FS_CardinalityType
  <1> QED BY <1>1, <1>2, <1>3, <1>4, <1>5

\* A handler that neither adds nor writes next, and takes users away at most.
LEMMA QuietStep ==
  ASSUME NEW e, NEW s \in Slot,
         \A t \in Slot \ {s} : pc'[t] = pc[t] /\ job'[t] = job[t],
         pc'[s] \notin {"add", "write"},
         \A i \in Id : user'[i] # NULL => user'[i] = user[i]
  PROVE  Ghosts(e)' \subseteq Ghosts(e) /\ Adding(e)' \subseteq Adding(e)
  BY DEF Ghosts, Holders, Writing, Adding

\* Nobody has the email: a handler may go on to add it.
LEMMA EmailFree ==
  ASSUME IsFiniteSet(Slot), IInv, NEW e \in Email, Crowd(e), NEW s \in Slot,
         pc[s] = "check", Holders(e) = {}, UNCHANGED user,
         \A t \in Slot \ {s} : pc'[t] = pc[t] /\ job'[t] = job[t],
         pc'[s] = "add"
  PROVE  Crowd(e)'
  <1> DEFINE W == {t \in Slot : Writing(t, e)}
             G == Ghosts(e)'
             A == Adding(e)'
             f == [t \in W |-> job[t].id]
  <1>1. W \subseteq Slot /\ A \subseteq Slot
    BY DEF Adding
  <1>2. G = {i \in Id : \E t \in W : job[t].id = i}
    BY DEF Ghosts, Holders, Writing
  <1>3. W \cap A = {}
    BY DEF Writing, Adding
  <1>4. \A t \in W : job[t].id \in Id
    BY DEF IInv, TypeOK, Jobs, JobOf, IsCopy, Writing
  <1>5. Crowd(e)' <=> IsFiniteSet(G) /\ Cardinality(G) + Cardinality(A) <= Cardinality(Slot)
    BY DEF Crowd
  <1>6. f \in [W -> G] /\ \A i \in G : \E t \in W : f[t] = i
    BY <1>2, <1>4
  <1> HIDE DEF W, G, A, f
  <1>7. f \in Surjection(W, G)
    BY <1>6 DEF Surjection
  <1>8. IsFiniteSet(W) /\ IsFiniteSet(A)
    BY <1>1, FS_Subset
  <1>9. IsFiniteSet(G) /\ Cardinality(G) <= Cardinality(W)
    BY <1>7, <1>8, FS_Surjection
  <1>10. Cardinality(W \cup A) = Cardinality(W) + Cardinality(A) - Cardinality({})
    BY <1>3, <1>8, FS_Union
  <1>11. Cardinality(W \cup A) <= Cardinality(Slot)
    BY <1>1, FS_Subset
  <1>12. /\ Cardinality(G) \in Nat /\ Cardinality(W) \in Nat /\ Cardinality(A) \in Nat
         /\ Cardinality(Slot) \in Nat /\ Cardinality({}) = 0
    BY <1>8, <1>9, FS_CardinalityType, FS_EmptySet
  <1> QED BY <1>5, <1>9, <1>10, <1>11, <1>12

\* A handler that adds a user: one that was about to does no longer.
LEMMA UserAdded ==
  ASSUME IsFiniteSet(Slot), NEW e \in Email, Crowd(e), NEW s \in Adding(e), NEW i,
         Ghosts(e)' \subseteq Ghosts(e) \cup {i}, Adding(e)' \subseteq Adding(e) \ {s}
  PROVE  Crowd(e)'
  <1> DEFINE G == Ghosts(e)  H == Ghosts(e)'  A == Adding(e)  B == Adding(e)'
  <1>1. /\ IsFiniteSet(G) /\ H \subseteq G \cup {i} /\ B \subseteq A \ {s}
        /\ A \subseteq Slot /\ s \in A
        /\ Cardinality(G) + Cardinality(A) <= Cardinality(Slot)
    BY DEF Crowd, Adding
  <1>2. Crowd(e)' <=> IsFiniteSet(H) /\ Cardinality(H) + Cardinality(B) <= Cardinality(Slot)
    BY DEF Crowd
  <1> HIDE DEF G, H, A, B
  <1>3. /\ IsFiniteSet(G \cup {i})
        /\ Cardinality(G \cup {i}) = IF i \in G THEN Cardinality(G) ELSE Cardinality(G) + 1
    BY <1>1, FS_AddElement
  <1>4. IsFiniteSet(H) /\ Cardinality(H) <= Cardinality(G \cup {i})
    BY <1>1, <1>3, FS_Subset
  <1>5. IsFiniteSet(A)
    BY <1>1, FS_Subset
  <1>6. IsFiniteSet(A \ {s}) /\ Cardinality(A \ {s}) = Cardinality(A) - 1
    BY <1>1, <1>5, FS_RemoveElement
  <1>7. IsFiniteSet(B) /\ Cardinality(B) <= Cardinality(A \ {s})
    BY <1>1, <1>6, FS_Subset
  <1>8. /\ Cardinality(G) \in Nat /\ Cardinality(H) \in Nat /\ Cardinality(A) \in Nat
        /\ Cardinality(B) \in Nat /\ Cardinality(Slot) \in Nat
    BY <1>1, <1>4, <1>5, <1>7, FS_CardinalityType
  <1> QED BY <1>1, <1>2, <1>3, <1>4, <1>6, <1>7, <1>8

\* Every step of MemStore's handlers keeps the crowds small.
LEMMA NextCrowd ==
  ASSUME IsFiniteSet(Slot), Backend = "memory", IInv, [Next]_vars,
         NEW e \in Email, Crowd(e)
  PROVE  Crowd(e)'
  <1>0. /\ user \in [Id -> Row \cup {NULL}] /\ pc \in [Slot -> Stages]
        /\ job \in [Slot -> Job \cup {NULL}]
        /\ \A s \in Slot : JobOf(pc[s], job[s])
    BY DEF IInv, TypeOK, Jobs
  <1>1. ASSUME UNCHANGED <<user, pc, job>> PROVE Crowd(e)'
    BY <1>1, CrowdShrinks DEF Ghosts, Holders, Writing, Adding
  <1>2. ASSUME NEW s \in Slot, NEW p \in Stages \ {"add", "write"}, NEW j,
               pc' = [pc EXCEPT ![s] = p], job' = [job EXCEPT ![s] = j],
               \A i \in Id : user'[i] # NULL => user'[i] = user[i]
        PROVE  Crowd(e)'
    <2>1. /\ \A t \in Slot \ {s} : pc'[t] = pc[t] /\ job'[t] = job[t]
          /\ pc'[s] \notin {"add", "write"}
      BY <1>0, <1>2
    <2> QED BY <1>2, <2>1, QuietStep, CrowdShrinks
  <1>3. ASSUME NEW s \in Slot, Request(s) PROVE Crowd(e)'
    <2>1. \E p \in Stages \ {"add", "write"} : \E j : Start(s, p, j)
      BY <1>3, Zenon DEF Request, Add, Login, GetUser, DeleteUser, UpdateUser
    <2> QED BY <1>2, <2>1 DEF Start, Goto
  <1>4. ASSUME NEW s \in Slot, CheckEmail(s) PROVE Crowd(e)'
    <2>1. UNCHANGED user /\ pc[s] = "check"
      BY <1>4 DEF CheckEmail
    <2>2. CASE Return(s, Plain("conflict"))
      BY <1>2, <2>1, <2>2 DEF Return, Goto
    <2>3. CASE /\ Continue(s, "add", job[s])
               /\ ~\E i \in Id : user[i] # NULL /\ user[i].email = job[s].row.email
      <3>1. /\ pc' = [pc EXCEPT ![s] = "add"] /\ job' = job
        BY <1>0, <2>3 DEF Continue, Goto
      <3>2. /\ \A t \in Slot \ {s} : pc'[t] = pc[t] /\ job'[t] = job[t]
            /\ pc'[s] = "add"
        BY <1>0, <3>1
      <3>3. CASE job[s].row.email = e
        BY <2>1, <2>3, <3>2, <3>3, EmailFree DEF Holders
      <3>4. CASE job[s].row.email # e
        <4>1. Ghosts(e)' \subseteq Ghosts(e) /\ Adding(e)' \subseteq Adding(e)
          BY <2>1, <3>1, <3>2, <3>4 DEF Ghosts, Holders, Writing, Adding
        <4> QED BY <4>1, CrowdShrinks
      <3> QED BY <3>3, <3>4
    <2> QED BY <1>4, <2>2, <2>3 DEF CheckEmail
  <1>5. ASSUME NEW s \in Slot, AddUser(s) PROVE Crowd(e)'
    <2>1. PICK i \in Id : user' = [user EXCEPT ![i] = job[s].row] /\ Added(s, i)
      BY <1>5 DEF AddUser, FreshIds, Refused
    <2>2. PICK p \in {"session", "idle"} : \E j :
            pc' = [pc EXCEPT ![s] = p] /\ job' = [job EXCEPT ![s] = j]
      BY <2>1 DEF Added, Continue, Return, Goto
    <2>3. /\ \A t \in Slot \ {s} : pc'[t] = pc[t] /\ job'[t] = job[t]
          /\ pc'[s] \notin {"add", "write"} /\ pc[s] = "add"
          /\ \A k \in Id \ {i} : user'[k] = user[k]
          /\ user'[i] = job[s].row
      BY <1>0, <1>5, <2>1, <2>2 DEF AddUser
    <2>4. CASE job[s].row.email = e
      <3>1. s \in Adding(e)
        BY <2>3, <2>4 DEF Adding
      <3>2. Ghosts(e)' \subseteq Ghosts(e) \cup {i} /\ Adding(e)' \subseteq Adding(e) \ {s}
        BY <2>3 DEF Ghosts, Holders, Writing, Adding
      <3> QED BY <3>1, <3>2, UserAdded
    <2>5. CASE job[s].row.email # e
      <3>1. Ghosts(e)' \subseteq Ghosts(e) /\ Adding(e)' \subseteq Adding(e)
        BY <2>3, <2>5 DEF Ghosts, Holders, Writing, Adding
      <3> QED BY <3>1, CrowdShrinks
    <2> QED BY <2>4, <2>5
  <1>6. ASSUME NEW s \in Slot,
               StartSession(s) \/ LookupEmail(s) \/ VerifyPassword(s)
                 \/ ReadUser(s) \/ RemoveUser(s) \/ Fail(s)
        PROVE  Crowd(e)'
    <2>1. \A i \in Id : user'[i] # NULL => user'[i] = user[i]
      BY <1>0, <1>6 DEF StartSession, LookupEmail, VerifyPassword, ReadUser,
                        RemoveUser, Fail
    <2>2. \/ \E a : Return(s, a)
          \/ \E p \in {"verify", "session"} : \E j : Continue(s, p, j)
      BY <1>6, Zenon DEF StartSession, LookupEmail, VerifyPassword, ReadUser,
                         RemoveUser, Fail
    <2> QED BY <1>2, <2>1, <2>2 DEF Return, Continue, Goto
  <1>7. ASSUME NEW s \in Slot, CloneUser(s) PROVE Crowd(e)'
    <2> DEFINE i == job[s].id
               n == job[s].update.name
               row == IF n = NULL THEN user[i] ELSE [user[i] EXCEPT !.name = n]
               j == [job[s] EXCEPT !.row = row]
    <2>1. /\ job[s] \in Job /\ i \in Id /\ UNCHANGED user
      BY <1>0, <1>7 DEF JobOf, CloneUser
    <2>2. CASE user[i] = NULL
      BY <1>2, <1>7, <2>1, <2>2 DEF CloneUser, Return, Goto
    <2>3. CASE user[i] # NULL
      <3>1. user[i] \in Row
        BY <1>0, <2>1, <2>3
      <3>2. row.email = user[i].email
        BY <3>1 DEF Row
      <3>3. pc' = [pc EXCEPT ![s] = "write"] /\ job' = [job EXCEPT ![s] = j]
        BY <1>7, <2>3 DEF CloneUser, Continue, Goto
      <3> HIDE DEF row
      <3>4. j.id = i /\ j.row = row
        BY <2>1 DEF Job
      <3> HIDE DEF j
      <3>5. /\ \A t \in Slot \ {s} : pc'[t] = pc[t] /\ job'[t] = job[t]
            /\ pc'[s] = "write" /\ job'[s] = j
        BY <1>0, <3>3
      <3>6. Ghosts(e)' \subseteq Ghosts(e) /\ Adding(e)' \subseteq Adding(e)
        BY <2>1, <2>3, <3>2, <3>4, <3>5 DEF Ghosts, Holders, Writing, Adding
      <3> QED BY <3>6, CrowdShrinks
    <2> QED BY <2>2, <2>3
  <1>8. ASSUME NEW s \in Slot, WriteUser(s) PROVE Crowd(e)'
    <2>1. /\ pc[s] = "write" /\ job[s].id \in Id
          /\ user' = [user EXCEPT ![job[s].id] = job[s].row]
          /\ \E a : Return(s, a)
      BY <1>0, <1>8 DEF WriteUser, JobOf, IsCopy, IInv, TypeOK
    <2>2. /\ \A t \in Slot \ {s} : pc'[t] = pc[t] /\ job'[t] = job[t]
          /\ pc'[s] = "idle"
          /\ \A k \in Id \ {job[s].id} : user'[k] = user[k]
          /\ user'[job[s].id] = job[s].row
      BY <1>0, <2>1 DEF Return, Goto
    <2>3. Ghosts(e)' \subseteq Ghosts(e) /\ Adding(e)' \subseteq Adding(e)
      BY <2>1, <2>2 DEF Ghosts, Holders, Writing, Adding
    <2> QED BY <2>3, CrowdShrinks
  <1>9. \A s \in Slot : ~PgUpdate(s)
    BY <1>0 DEF JobOf, PgUpdate
  <1>10. CASE Tick
    BY <1>1, <1>10 DEF Tick
  <1>11. CASE UNCHANGED vars
    BY <1>1, <1>11 DEF vars
  <1> QED BY <1>3, <1>4, <1>5, <1>6, <1>7, <1>8, <1>9, <1>10, <1>11 DEF Next, Progress

\* Where there is a user, there is a handler that added it.
SomeSlot == Slot # {} \/ \A i \in Id : user[i] = NULL

\* What FewShareEmail rests on: on MemStore, the crowds; on PgStore, that
\* emails are unique.
CrowdInv == SomeSlot /\ (Backend = "memory" => \A e \in Email : Crowd(e))

\* On either store, no email has more users than there are handlers.
THEOREM EmailsSharedByFew == IsFiniteSet(Slot) => (Spec => []FewShareEmail)
  <1> SUFFICES ASSUME IsFiniteSet(Slot) PROVE Spec => []FewShareEmail
    OBVIOUS
  <1>1. Init => CrowdInv
    <2>0. Init => SomeSlot
      BY DEF Init, SomeSlot
    <2> SUFFICES ASSUME Init, NEW e \in Email PROVE Crowd(e)
      BY <2>0 DEF CrowdInv
    <2>1. Ghosts(e) = {} /\ Adding(e) = {}
      BY DEF Init, Ghosts, Holders, Writing, Adding
    <2>2. Cardinality(Slot) \in Nat /\ IsFiniteSet({}) /\ Cardinality({}) = 0
      BY FS_CardinalityType, FS_EmptySet
    <2> QED BY <2>1, <2>2 DEF Crowd
  <1>2. IInv /\ CrowdInv /\ [Next]_vars => CrowdInv'
    <2> SUFFICES ASSUME IInv, CrowdInv, [Next]_vars PROVE CrowdInv'
      OBVIOUS
    <2>1. SomeSlot'
      BY DEF CrowdInv, SomeSlot, Next, Tick, vars
    <2>2. Backend = "memory" => \A e \in Email : Crowd(e)'
      BY NextCrowd DEF CrowdInv
    <2> QED BY <2>1, <2>2 DEF CrowdInv
  <1>3. IInv /\ CrowdInv => FewShareEmail
    <2> SUFFICES ASSUME IInv, CrowdInv, NEW e \in Email
                 PROVE  Cardinality(Holders(e)) <= Cardinality(Slot)
      BY DEF FewShareEmail, Holders
    <2>0. Cardinality(Slot) \in Nat
      BY FS_CardinalityType
    <2>1. CASE Backend = "memory"
      <3> DEFINE H == Holders(e)  G == Ghosts(e)  A == Adding(e)
      <3>1. /\ IsFiniteSet(G) /\ H \subseteq G /\ A \subseteq Slot
            /\ Cardinality(G) + Cardinality(A) <= Cardinality(Slot)
        BY <2>1 DEF CrowdInv, Crowd, Ghosts, Adding
      <3> HIDE DEF H, G, A
      <3>2. /\ IsFiniteSet(H) /\ Cardinality(H) <= Cardinality(G)
            /\ IsFiniteSet(A)
        BY <3>1, FS_Subset
      <3>3. Cardinality(H) \in Nat /\ Cardinality(G) \in Nat /\ Cardinality(A) \in Nat
        BY <3>1, <3>2, FS_CardinalityType
      <3>4. Cardinality(H) <= Cardinality(Slot)
        BY <2>0, <3>1, <3>2, <3>3
      <3> QED BY <3>4 DEF H
    <2>2. CASE Backend = "postgres"
      <3>1. \A i, k \in Holders(e) : i = k
        BY <2>2 DEF IInv, PgEmailsUnique, EmailsUnique, Holders
      <3>2. CASE Holders(e) = {}
        BY <2>0, <3>2, FS_EmptySet
      <3>3. ASSUME NEW i \in Holders(e) PROVE Cardinality(Holders(e)) <= Cardinality(Slot)
        <4>1. Holders(e) = {i}
          BY <3>1
        <4>2. Slot # {}
          BY DEF CrowdInv, SomeSlot, Holders
        <4>3. Cardinality(Slot) # 0 /\ Cardinality({i}) = 1
          BY <4>2, FS_EmptySet, FS_Singleton
        <4> QED BY <2>0, <4>1, <4>3
      <3> QED BY <3>2, <3>3
    <2> QED BY <2>1, <2>2, BackendAssumption
  <1> QED BY <1>1, <1>2, <1>3, Invariance, PTL DEF Spec

=============================================================================
