------------------------------ MODULE Accounts ------------------------------
(***************************************************************************)
(* Users and their sessions: the handlers of genbu/src/handler/users, the  *)
(* two user stores behind them and the tokens of auth/src/authn.rs.  One   *)
(* store call, or one critical section of MemStore's mutex, per step.      *)
(*                                                                         *)
(* PgStore does each operation in one statement under the constraints of   *)
(* the user table.  MemStore's add and update release the mutex between    *)
(* looking and writing.                                                    *)
(***************************************************************************)
EXTENDS Naturals, FiniteSets

CONSTANTS
  Id,           \* user ids, drawn once each
  Email, Name, Password,
  Fold,         \* the letters of an email, whatever their case
  Slot,         \* handlers that can be in flight at once
  Backend,
  SessionTTL,   \* 6 hours
  Leeway,       \* the 60 seconds of jsonwebtoken's Validation::default()
  MaxTime,      \* bound on the clock
  NULL

ASSUME BackendAssumption == Backend \in {"postgres", "memory"}
ASSUME ClockAssumption == SessionTTL \in Nat /\ Leeway \in Nat

VARIABLES
  user,     \* the store: NULL for an id without a row
  used,     \* ids that were ever drawn
  session,  \* the tokens handed out
  now,
  pc, job, ans

vars == <<user, used, session, now, pc, job, ans>>

\* Avatars are kept like names.
Row == [email: Email, name: Name, password: Password]
Update == [email: Email \cup {NULL}, name: Name \cup {NULL}]
NoUpdate == [email |-> NULL, name |-> NULL]
Token == [sub: Id, exp: Nat]

Ops == {"register", "create", "login", "update", "delete", "get"}
Stages == {"idle", "check", "add", "session", "lookup", "verify", "get",
           "clone", "write", "update", "remove"}
\* id and row are what the handler works on: the user to create, the copy it
\* read, or the user it addresses.
Job == [op: Ops, id: Id \cup {NULL}, row: Row \cup {NULL},
        email: Email \cup {NULL}, password: Password \cup {NULL},
        update: Update]
Answer == [res: {"none", "ok", "conflict", "unauthorized", "not_found",
                 "unavailable"},
           user: Row \cup {NULL}]

ASSUME NoRowAssumption == NULL \notin Row /\ NULL \notin Job /\ NULL \notin Id

TypeOK ==
  /\ user \in [Id -> Row \cup {NULL}]
  /\ used \in SUBSET Id
  /\ session \in SUBSET Token
  /\ now \in Nat
  /\ pc \in [Slot -> Stages]
  /\ job \in [Slot -> Job \cup {NULL}]
  /\ ans \in [Slot -> Answer]

Plain(r) == [res |-> r, user |-> NULL]
Found(row) == [res |-> "ok", user |-> row]

Init ==
  /\ user = [i \in Id |-> NULL]
  /\ used = {}
  /\ session = {}
  /\ now = 0
  /\ pc = [s \in Slot |-> "idle"]
  /\ job = [s \in Slot |-> NULL]
  /\ ans = [s \in Slot |-> Plain("none")]

-----------------------------------------------------------------------------
Goto(s, stage) == pc' = [pc EXCEPT ![s] = stage]

NewJob(op) == [op |-> op, id |-> NULL, row |-> NULL, email |-> NULL,
               password |-> NULL, update |-> NoUpdate]

Start(s, stage, j) ==
  /\ pc[s] = "idle"
  /\ Goto(s, stage)
  /\ job' = [job EXCEPT ![s] = j]
  /\ ans' = [ans EXCEPT ![s] = Plain("none")]
  /\ UNCHANGED <<user, used, session, now>>

Return(s, a) ==
  /\ Goto(s, "idle")
  /\ job' = [job EXCEPT ![s] = NULL]
  /\ ans' = [ans EXCEPT ![s] = a]

Continue(s, stage, j) ==
  /\ Goto(s, stage)
  /\ job' = [job EXCEPT ![s] = j]
  /\ UNCHANGED ans

\* validate_jwt: a token is good until Leeway after it ran out, whether its
\* user still exists or not.
Authorized == \E t \in session : t.exp + Leeway >= now

-----------------------------------------------------------------------------
(***************************************************************************)
(* register_password and create: the same but for the session.             *)
(***************************************************************************)
Add(s, op, e, n, p) ==
  /\ op = "create" => Authorized
  /\ Start(s, IF Backend = "memory" THEN "check" ELSE "add",
           [NewJob(op) EXCEPT !.row = [email |-> e, name |-> n, password |-> p]])

\* Deliberately wrong variant, for mutation testing: MemStore adds at once.
CheckNothing(s) ==
  /\ pc[s] = "check"
  /\ Continue(s, "add", job[s])
  /\ UNCHANGED <<user, used, session, now>>

\* MemStore::add, first half: get_by_email takes and releases the mutex.
CheckEmail(s) ==
  /\ pc[s] = "check"
  /\ IF \E i \in Id : user[i] # NULL /\ user[i].email = job[s].row.email
       THEN Return(s, Plain("conflict"))
       ELSE Continue(s, "add", job[s])
  /\ UNCHANGED <<user, used, session, now>>

\* Deliberately wrong variant, for mutation testing: the unique constraint
\* distinguishes upper and lower case.
TakenExactly(e, i) ==
  \E k \in Id \ {i} : user[k] # NULL /\ user[k].email = e

\* user.email is unique under a case-insensitive collation; i is the row that
\* is written.
Taken(e, i) ==
  \E k \in Id \ {i} : user[k] # NULL /\ Fold[user[k].email] = Fold[e]

Refused(e, i) == Backend = "postgres" /\ Taken(e, i)

\* Deliberately wrong variant, for mutation testing: the session names
\* another id than the one stored.
AddedOtherId(s, i) ==
  IF job[s].op = "register"
    THEN Continue(s, "session", [job[s] EXCEPT !.id = CHOOSE k \in Id : k # i])
    ELSE Return(s, Plain("ok"))

\* After the row is there: register starts a session, create answers.
Added(s, i) ==
  IF job[s].op = "register"
    THEN Continue(s, "session", [job[s] EXCEPT !.id = i])
    ELSE Return(s, Plain("ok"))

\* Deliberately wrong variant, for mutation testing: ids that are free again
\* are drawn again.
FreeIds == {i \in Id : user[i] = NULL}

\* Uuid::new_v4 draws an id that never was.
FreshIds == Id \ used

\* PgStore::add; the second half of MemStore::add.
AddUser(s) ==
  /\ pc[s] = "add"
  /\ \E i \in FreshIds :
       IF Refused(job[s].row.email, i)
         THEN Return(s, Plain("conflict")) /\ UNCHANGED <<user, used>>
         ELSE /\ user' = [user EXCEPT ![i] = job[s].row]
              /\ used' = used \cup {i}
              /\ Added(s, i)
  /\ UNCHANGED <<session, now>>

\* start_session_response and Claims::new
StartSession(s) ==
  /\ pc[s] = "session"
  /\ session' = session \cup {[sub |-> job[s].id, exp |-> now + SessionTTL]}
  /\ Return(s, Plain("ok"))
  /\ UNCHANGED <<user, used, now>>

-----------------------------------------------------------------------------
(***************************************************************************)
(* login_password                                                          *)
(***************************************************************************)
Login(s, e, p) ==
  Start(s, "lookup", [NewJob("login") EXCEPT !.email = e, !.password = p])

\* get_by_email: Postgres compares without case, MemStore exactly, and takes
\* any one that matches.
LookupEmail(s) ==
  /\ pc[s] = "lookup"
  /\ LET matches == {i \in Id : /\ user[i] # NULL
                                /\ IF Backend = "postgres"
                                     THEN Fold[user[i].email] = Fold[job[s].email]
                                     ELSE user[i].email = job[s].email}
     IN  \/ \E i \in matches :
              Continue(s, "verify", [job[s] EXCEPT !.id = i, !.row = user[i]])
         \/ matches = {} /\ Continue(s, "verify", job[s])
  /\ UNCHANGED <<user, used, session, now>>

\* Deliberately wrong variant, for mutation testing: any known email will do.
VerifyKnown(s) ==
  /\ pc[s] = "verify"
  /\ IF job[s].id # NULL
       THEN Continue(s, "session", job[s])
       ELSE Return(s, Plain("unauthorized"))
  /\ UNCHANGED <<user, used, session, now>>

\* verify_password on a blocking thread, against a dummy hash if nobody has
\* that email.
VerifyPassword(s) ==
  /\ pc[s] = "verify"
  /\ IF job[s].id # NULL /\ job[s].row.password = job[s].password
       THEN Continue(s, "session", job[s])
       ELSE Return(s, Plain("unauthorized"))
  /\ UNCHANGED <<user, used, session, now>>

-----------------------------------------------------------------------------
(***************************************************************************)
(* get, update and delete: any session may address any user.               *)
(***************************************************************************)
GetUser(s, i) ==
  /\ Authorized
  /\ Start(s, "get", [NewJob("get") EXCEPT !.id = i])

\* An empty update only reads.
UpdateUser(s, i, u) ==
  /\ Authorized
  /\ Start(s, IF u = NoUpdate THEN "get"
              ELSE IF Backend = "memory" THEN "clone" ELSE "update",
           [NewJob("update") EXCEPT !.id = i, !.update = u])

DeleteUser(s, i) ==
  /\ Authorized
  /\ Start(s, "remove", [NewJob("delete") EXCEPT !.id = i])

ReadUser(s) ==
  /\ pc[s] = "get"
  /\ Return(s, IF user[job[s].id] = NULL THEN Plain("not_found")
               ELSE Found(user[job[s].id]))
  /\ UNCHANGED <<user, used, session, now>>

\* Deliberately wrong variant, for mutation testing: MemStore's update makes
\* a row for a user that is not there.
CloneOrCreate(s) ==
  /\ pc[s] = "clone"
  /\ LET row == user[job[s].id]
     IN  \E r \in IF row = NULL THEN Row ELSE {row} :
           Continue(s, "write", [job[s] EXCEPT !.row = r])
  /\ UNCHANGED <<user, used, session, now>>

\* MemStore::update, first half: a copy is changed outside the mutex.  The
\* email of the update is ignored.
CloneUser(s) ==
  /\ pc[s] = "clone"
  /\ LET row == user[job[s].id]
         n == job[s].update.name
     IN  IF row = NULL
           THEN Return(s, Plain("not_found"))
           ELSE Continue(s, "write",
                  [job[s] EXCEPT !.row = IF n = NULL THEN row
                                         ELSE [row EXCEPT !.name = n]])
  /\ UNCHANGED <<user, used, session, now>>

\* Second half: HashMap::insert returns what was there before, and update
\* returns that.
WriteUser(s) ==
  /\ pc[s] = "write"
  /\ user' = [user EXCEPT ![job[s].id] = job[s].row]
  /\ Return(s, IF user[job[s].id] = NULL THEN Plain("not_found")
               ELSE Found(user[job[s].id]))
  /\ UNCHANGED <<used, session, now>>

\* Deliberately wrong variant, for mutation testing: what the update leaves
\* out is written as null.
CoalesceDropped(new, old) == new

Coalesce(new, old) == IF new = NULL THEN old ELSE new

\* Deliberately wrong variant, for mutation testing: the row as it was.
AnswerOld(old, new) == Found(old)

\* RETURNING gives the row as it is after the update.
AnswerNew(old, new) == Found(new)

\* PgStore::update is one statement.
PgUpdate(s) ==
  /\ pc[s] = "update"
  /\ LET i == job[s].id
         u == job[s].update
         row == [user[i] EXCEPT !.email = Coalesce(u.email, @),
                                !.name = Coalesce(u.name, @)]
     IN  IF user[i] = NULL
           THEN Return(s, Plain("not_found")) /\ UNCHANGED user
         ELSE IF Taken(row.email, i)
           THEN Return(s, Plain("conflict")) /\ UNCHANGED user
         ELSE /\ user' = [user EXCEPT ![i] = row]
              /\ Return(s, AnswerNew(user[i], row))
  /\ UNCHANGED <<used, session, now>>

\* UserStore::delete; a user whose leases Postgres protects is the case of a
\* failing call here (see Uploads).
RemoveUser(s) ==
  /\ pc[s] = "remove"
  /\ user' = [user EXCEPT ![job[s].id] = NULL]
  /\ Return(s, IF user[job[s].id] = NULL THEN Plain("not_found")
               ELSE Found(user[job[s].id]))
  /\ UNCHANGED <<used, session, now>>

-----------------------------------------------------------------------------
\* A store call fails, or the client goes away.
Fail(s) ==
  /\ pc[s] # "idle"
  /\ Return(s, Plain("unavailable"))
  /\ UNCHANGED <<user, used, session, now>>

Tick ==
  /\ now < MaxTime
  /\ now' = now + 1
  /\ UNCHANGED <<user, used, session, pc, job, ans>>

Request(s) ==
  \/ \E op \in {"register", "create"}, e \in Email, n \in Name, p \in Password :
       Add(s, op, e, n, p)
  \/ \E e \in Email, p \in Password : Login(s, e, p)
  \/ \E i \in Id : \/ GetUser(s, i) \/ DeleteUser(s, i)
                   \/ \E u \in Update : UpdateUser(s, i, u)

Progress(s) ==
  \/ CheckEmail(s) \/ AddUser(s) \/ StartSession(s)
  \/ LookupEmail(s) \/ VerifyPassword(s)
  \/ ReadUser(s) \/ CloneUser(s) \/ WriteUser(s) \/ PgUpdate(s) \/ RemoveUser(s)

Next ==
  \/ \E s \in Slot : Request(s) \/ Progress(s) \/ Fail(s)
  \/ Tick

Spec == Init /\ [][Next]_vars

-----------------------------------------------------------------------------
(***************************************************************************)
(* Properties.                                                             *)
(***************************************************************************)

\* No two users share an email ("a user with the email `{0}` already exists
\* in the store"), in whatever case it is written, and however registrations
\* and updates overlap.
EmailsUnique ==
  \A i, k \in Id : user[i] # NULL /\ user[k] # NULL /\ i # k =>
    Fold[user[i].email] # Fold[user[k].email]

\* Overlapping requests can make MemStore give one email to several users, but
\* never to more than there are requests at once: those that come later see
\* the email, and users who are deleted and written back count as well.
FewShareEmail ==
  \A e \in Email :
    Cardinality({i \in Id : user[i] # NULL /\ user[i].email = e}) <= Cardinality(Slot)

\* A copy of a user that is written back after the user was deleted, renamed or
\* copied by others never changes whose login the row is: email and password
\* stay those of the registration.
CredentialsStable ==
  [][\A i \in Id : user[i] # NULL /\ user'[i] # NULL =>
       /\ user'[i].email = user[i].email
       /\ user'[i].password = user[i].password]_vars

\* A deleted user does not come back ("User deleted successfully"): only a
\* registration brings a row for an id, and it draws a fresh one.
DeletedStaysDeleted ==
  [][\A i \in used : user[i] = NULL => user'[i] = NULL]_vars

\* Some update is about to write a copy of user i.
Copied(i) == \E s \in Slot : pc[s] = "write" /\ job[s].id = i

\* On MemStore a deleted user may come back, but only by the hand of an update
\* that had copied it before: once those are through it is gone for good, and
\* no later request, whatever it addresses, makes a copy or a row of it again.
GoneForGood ==
  [][\A i \in used : user[i] = NULL /\ ~Copied(i) =>
       user'[i] = NULL /\ ~Copied(i)']_vars

\* Tokens are handed out only for users that were stored: a login or a
\* registration that fails half way leaves no token for a user that never
\* was.
SessionsNameUsers == \A t \in session : t.sub \in used

\* A token is handed out at a login only for the user who has the password,
\* as it was stored then.
LoginProvesPassword ==
  [][\A s \in Slot :
       pc[s] = "verify" /\ pc'[s] = "session" =>
         /\ job'[s].id \in used /\ job'[s].row.password = job[s].password
         /\ user[job'[s].id] # NULL =>
              user[job'[s].id].password = job[s].password]_vars

\* A successful update answers with the user as it is now stored ("Response
\* should contain the updated user").
UpdateAnswersUpdated ==
  [][\A s \in Slot :
       pc[s] \in {"update", "write"} /\ ans'[s].res = "ok" =>
         ans'[s].user = user'[job[s].id]]_vars
=============================================================================
