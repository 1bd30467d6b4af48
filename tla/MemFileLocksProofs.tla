------------------------- MODULE MemFileLocksProofs -------------------------
(***************************************************************************)
(* Proofs about MemFileLocks, for every number of files, clients, tokens   *)
(* and clock readings.                                                     *)
(***************************************************************************)
EXTENDS MemFileLocks, TLAPS

-----------------------------------------------------------------------------
(***************************************************************************)
(* The inductive invariant.  HoldersExclude is about what two clients were *)
(* told; it holds because each of them is backed by the row, and the row   *)
(* has one token.  The backing survives because the one call that may be   *)
(* about to write was granted the row as it still is.                      *)
(***************************************************************************)

\* A token in a row has an expiry time.
TokenExpires ==
  \A f \in File : row[f] # NULL /\ row[f].lock # NULL => row[f].expires \in Nat

\* What a call under way may rely on.
InFlight ==
  \A c \in Client :
    /\ req[c] # NULL => req[c] \in Request /\ req[c].at <= now
    /\ pc[c] # "idle" =>
         /\ req[c] # NULL /\ req[c].file \in File
         /\ ans[c] = Plain("none")
         /\ pc[c] \in {"lock", "write"} <=> req[c].op = "lock"

\* The mutex: one call at a time has decided and not yet written, and what it
\* decided on is still true.
Deciding ==
  \A c \in Client : pc[c] = "write" =>
    /\ \A d \in Client : pc[d] = "write" => c = d
    /\ row[req[c].file] # NULL
    /\ Grantable(row[req[c].file], req[c].lock, now)

\* The row carries the lock of whoever relies on one.
Backed ==
  \A c \in Client : Relies(c) =>
    LET r == row[req[c].file]
    IN  /\ req[c].file \in File /\ r # NULL /\ r.lock = req[c].lock
        /\ r.expires \in Nat /\ r.expires >= req[c].at + LockTTL

IInv == TypeOK /\ TokenExpires /\ InFlight /\ Deciding /\ Backed

-----------------------------------------------------------------------------
USE DEF Request, Answer, Ops, Stages, Plain, Conflict

\* An unlocked row and a row just locked are lock fields, and no NULL.
LEMMA RowTyping ==
  /\ Unlocked \in LockFields /\ Unlocked # NULL /\ Unlocked.lock = NULL
  /\ \A r \in LockFields, l \in Token, t \in Nat :
       /\ Locked(r, l, t) \in LockFields /\ Locked(r, l, t) # NULL
       /\ Locked(r, l, t).lock = l /\ Locked(r, l, t).expires = t + LockTTL
       /\ t + LockTTL \in Nat
  <1>1. Unlocked \in LockFields /\ Unlocked # NULL /\ Unlocked.lock = NULL
    BY NoRecordAssumption DEF LockFields, Unlocked
  <1>2. ASSUME NEW r \in LockFields, NEW l \in Token, NEW t \in Nat
        PROVE  /\ Locked(r, l, t) \in LockFields /\ Locked(r, l, t) # NULL
               /\ Locked(r, l, t).lock = l /\ Locked(r, l, t).expires = t + LockTTL
               /\ t + LockTTL \in Nat
    <2>1. t + LockTTL \in Nat
      BY LockTTLAssumption
    <2>2. Locked(r, l, t) \in LockFields
      BY <2>1 DEF LockFields, Locked
    <2> QED BY <2>1, <2>2, NoRecordAssumption DEF LockFields, Locked
  <1> QED BY <1>1, <1>2

\* Every answer a call returns is well formed.
LEMMA AnswerTyping ==
  /\ \A r \in {"none", "ok", "notfound", "panic"} : Plain(r) \in Answer
  /\ \A l \in Token : Conflict(l) \in Answer
  BY DEF Answer

\* An empty store with no call in flight satisfies the invariant.
THEOREM InitIInv == Init => IInv
  BY AnswerTyping, NullAssumption
  DEF Init, IInv, TypeOK, TokenExpires, InFlight, Deciding, Backed, Relies

\* A call that returns anything but a granted lock keeps the invariant.
LEMMA ReturnKeepsIInv ==
  ASSUME IInv, NEW c \in Client, pc[c] # "idle",
         NEW a \in Answer, a.res = "ok" => req[c].op # "lock",
         Return(c, a), UNCHANGED <<row, now, req>>
  PROVE  IInv'
  <1>1. /\ \A d \in Client \ {c} : pc'[d] = pc[d] /\ ans'[d] = ans[d]
        /\ pc'[c] = "idle" /\ ans'[c] = a
        /\ pc' \in [Client -> Stages] /\ ans' \in [Client -> Answer]
    BY DEF IInv, TypeOK, Return, Goto
  <1>2. TypeOK' /\ TokenExpires'
    BY <1>1 DEF IInv, TypeOK, TokenExpires
  <1>3. InFlight'
    BY <1>1 DEF IInv, InFlight
  <1>4. Deciding'
    BY <1>1 DEF IInv, Deciding
  <1>5. \A d \in Client : Relies(d)' => Relies(d)
    BY <1>1 DEF Relies
  <1>6. Backed'
    BY <1>5 DEF IInv, Backed
  <1> QED BY <1>2, <1>3, <1>4, <1>6 DEF IInv

\* Every step keeps the invariant, one step of the proof per action.
THEOREM NextIInv == IInv /\ [Next]_vars => IInv'
  <1> SUFFICES ASSUME IInv, [Next]_vars PROVE IInv'
    OBVIOUS
  <1>1. ASSUME NEW c \in Client, NEW op \in Ops, NEW f \in File \cup {NULL},
               NEW l \in Token, WopiFile(c, op, f, l)
        PROVE  IInv'
    <2> DEFINE r == [op |-> op, file |-> f, lock |-> l, at |-> now]
    <2>1. r \in Request /\ r # NULL
      BY NoRecordAssumption DEF IInv, TypeOK
    <2>2. /\ \A d \in Client \ {c} : pc'[d] = pc[d] /\ ans'[d] = ans[d] /\ req'[d] = req[d]
          /\ req'[c] = r /\ pc[c] = "idle"
          /\ ans'[c] \in Answer /\ ans'[c].res # "ok"
          /\ \/ pc'[c] = "idle"
             \/ /\ f # NULL /\ ans'[c] = Plain("none")
                /\ pc'[c] = IF op = "lock" THEN "lock" ELSE "get"
      BY <1>1, AnswerTyping DEF IInv, TypeOK, WopiFile, Return, Goto, Stage
    <2>3. TypeOK'
      BY <1>1, <2>1, AnswerTyping DEF IInv, TypeOK, WopiFile, Return, Goto, Stage
    <2>4. TokenExpires' /\ row' = row /\ now' = now
      BY <1>1 DEF IInv, TokenExpires, WopiFile
    <2>5. InFlight'
      BY <2>1, <2>2, <2>4 DEF IInv, TypeOK, InFlight
    <2>6. Deciding'
      BY <2>2, <2>4 DEF IInv, Deciding
    <2>7. Backed'
      <3>1. ~Relies(c)' /\ \A d \in Client \ {c} : Relies(d)' => Relies(d)
        BY <2>2, <2>4 DEF Relies
      <3> QED BY <2>2, <2>4, <3>1 DEF IInv, Backed
    <2> QED BY <2>3, <2>4, <2>5, <2>6, <2>7 DEF IInv
  <1>2. ASSUME NEW c \in Client, CheckFileInfo(c) PROVE IInv'
    <2>1. req[c].op # "lock"
      BY <1>2 DEF IInv, InFlight, CheckFileInfo
    <2> QED BY <1>2, <2>1, AnswerTyping, ReturnKeepsIInv DEF CheckFileInfo
  <1>3. ASSUME NEW c \in Client, CheckLock(c) PROVE IInv'
    <2> DEFINE r == row[req[c].file]
    <2>0. /\ req[c].file \in File /\ req[c].lock \in Token
          /\ r \in LockFields \cup {NULL}
      BY <1>3 DEF IInv, TypeOK, InFlight, CheckLock
    <2>1. CASE r = NULL
      BY <1>3, <2>1, AnswerTyping, ReturnKeepsIInv DEF CheckLock
    <2>2. CASE r # NULL /\ ~Grantable(r, req[c].lock, now)
      <3>1. r.lock \in Token
        BY <2>0, <2>2 DEF LockFields, Grantable
      <3>2. Conflict(r.lock) \in Answer /\ Conflict(r.lock).res = "conflict"
        BY <3>1, AnswerTyping
      <3>3. Return(c, Conflict(r.lock)) /\ pc[c] # "idle" /\ UNCHANGED <<row, now, req>>
        BY <1>3, <2>2 DEF CheckLock
      <3> QED BY <3>2, <3>3, ReturnKeepsIInv
    <2>3. CASE r # NULL /\ Grantable(r, req[c].lock, now)
      <3>1. /\ \A d \in Client \ {c} : pc'[d] = pc[d] /\ pc'[d] # "write"
            /\ pc[c] = "lock" /\ pc'[c] = "write" /\ pc' \in [Client -> Stages]
            /\ UNCHANGED <<row, now, req, ans>>
        BY <1>3, <2>3 DEF IInv, TypeOK, CheckLock, MutexFree, Goto
      <3>2. TypeOK' /\ TokenExpires'
        BY <3>1 DEF IInv, TypeOK, TokenExpires
      <3>3. InFlight'
        BY <3>1 DEF IInv, InFlight
      <3>4. Deciding'
        BY <3>1, <2>3 DEF Deciding
      <3>5. Backed'
        BY <3>1 DEF IInv, Backed, Relies
      <3> QED BY <3>2, <3>3, <3>4, <3>5 DEF IInv
    <2> QED BY <2>1, <2>2, <2>3
  <1>4. ASSUME NEW c \in Client, WriteLock(c) PROVE IInv'
    <2> DEFINE f == req[c].file
               l == req[c].lock
               r == row[f]
    <2>1. /\ req[c] \in Request /\ f \in File /\ l \in Token /\ r \in LockFields
          /\ r # NULL /\ Grantable(r, l, now) /\ now \in Nat /\ req[c].at <= now
          /\ req[c].op = "lock"
      BY <1>4 DEF IInv, TypeOK, InFlight, Deciding, WriteLock
    <2>2. /\ row' = [row EXCEPT ![f] = Locked(r, l, now)]
          /\ UNCHANGED <<now, req>>
          /\ \A d \in Client \ {c} : /\ pc'[d] = pc[d] /\ ans'[d] = ans[d]
                                     /\ pc[d] # "write"
          /\ pc'[c] = "idle" /\ ans'[c] = Plain("ok")
      BY <1>4 DEF IInv, TypeOK, Deciding, WriteLock, Return, Goto
    <2>3. /\ row'[f] \in LockFields /\ row'[f] # NULL /\ row'[f].lock = l
          /\ row'[f].expires = now + LockTTL /\ now + LockTTL \in Nat
          /\ \A g \in File \ {f} : row'[g] = row[g]
      <3>1. row'[f] = Locked(r, l, now) /\ \A g \in File \ {f} : row'[g] = row[g]
        BY <2>1, <2>2 DEF IInv, TypeOK
      <3> HIDE DEF r, l
      <3> QED BY <2>1, <3>1, RowTyping
    <2>4. TypeOK'
      BY <1>4, <2>1, <2>2, <2>3, RowTyping, AnswerTyping
      DEF IInv, TypeOK, WriteLock, Return, Goto
    <2>5. TokenExpires'
      BY <2>3 DEF IInv, TokenExpires
    <2>6. InFlight' /\ Deciding'
      BY <2>2 DEF IInv, InFlight, Deciding
    <2>7. Backed'
      <3> SUFFICES ASSUME NEW d \in Client, Relies(d)'
                   PROVE  /\ req[d].file \in File /\ row'[req[d].file] # NULL
                          /\ row'[req[d].file].lock = req[d].lock
                          /\ row'[req[d].file].expires \in Nat
                          /\ row'[req[d].file].expires >= req[d].at + LockTTL
        BY <2>2 DEF Backed
      <3>1. CASE d = c
        BY <2>1, <2>2, <2>3, <3>1, LockTTLAssumption
      <3>2. CASE d # c
        <4>1. Relies(d)
          BY <2>2, <3>2 DEF Relies
        <4>2. /\ req[d].file \in File /\ row[req[d].file].lock = req[d].lock
              /\ row[req[d].file] # NULL
              /\ row[req[d].file].expires \in Nat
              /\ row[req[d].file].expires >= req[d].at + LockTTL
              /\ now < req[d].at + LockTTL
              /\ req[d].at \in Nat /\ req[d].at <= now /\ req[d].lock \in Token
          BY <4>1 DEF IInv, Backed, Relies, InFlight
        <4>3. CASE req[d].file # f
          BY <4>2, <4>3, <2>3
        <4>4. CASE req[d].file = f
          <5>1. r.lock # NULL /\ ~RanOut(r, now)
            BY <4>2, <4>4, <2>1, NullAssumption, LockTTLAssumption DEF RanOut
          <5>2. r.lock = l
            BY <5>1, <2>1 DEF Grantable
          <5> QED BY <4>2, <4>4, <5>2, <2>1, <2>3, LockTTLAssumption
        <4> QED BY <4>3, <4>4
      <3> QED BY <3>1, <3>2
    <2> QED BY <2>4, <2>5, <2>6, <2>7 DEF IInv
  <1>5. ASSUME NEW f \in File, AddDBFile(f) PROVE IInv'
    <2>1. /\ row' = [row EXCEPT ![f] = Unlocked] /\ row[f] = NULL
          /\ UNCHANGED <<now, pc, req, ans>>
          /\ \A c \in Client : pc[c] # "write"
      BY <1>5 DEF AddDBFile, MutexFree
    <2>2. TypeOK' /\ TokenExpires'
      BY <2>1, RowTyping DEF IInv, TypeOK, TokenExpires
    <2>3. InFlight' /\ Deciding'
      BY <2>1 DEF IInv, InFlight, Deciding
    <2>4. Backed'
      BY <2>1 DEF IInv, TypeOK, Backed, Relies
    <2> QED BY <2>2, <2>3, <2>4 DEF IInv
  <1>6. ASSUME Tick PROVE IInv'
    <2>1. now' = now + 1 /\ now \in Nat /\ UNCHANGED <<row, pc, req, ans>>
      BY <1>6 DEF Tick, IInv, TypeOK
    <2>2. TypeOK' /\ TokenExpires' /\ InFlight'
      BY <2>1 DEF IInv, TypeOK, TokenExpires, InFlight
    <2>3. Deciding'
      <3> SUFFICES ASSUME NEW c \in Client, pc[c] = "write"
                   PROVE  Grantable(row[req[c].file], req[c].lock, now')
        BY <2>1 DEF IInv, Deciding, Grantable, RanOut
      <3>1. row[req[c].file] \in LockFields
            /\ Grantable(row[req[c].file], req[c].lock, now)
        BY DEF IInv, TypeOK, InFlight, Deciding
      <3> QED BY <2>1, <3>1 DEF Grantable, RanOut, LockFields
    <2>4. Backed'
      <3>1. \A c \in Client : req[c] # NULL => req[c].at + LockTTL \in Nat
        BY LockTTLAssumption DEF IInv, InFlight
      <3>2. \A c \in Client : Relies(c)' => Relies(c)
        BY <2>1, <3>1 DEF Relies
      <3> QED BY <2>1, <3>2 DEF IInv, Backed
    <2> QED BY <2>2, <2>3, <2>4 DEF IInv
  <1>7. CASE UNCHANGED vars
    BY <1>7 DEF IInv, TypeOK, TokenExpires, InFlight, Deciding, Backed, Relies, vars
  <1> QED BY <1>1, <1>2, <1>3, <1>4, <1>5, <1>6, <1>7 DEF Next

-----------------------------------------------------------------------------
\* Every reachable state satisfies the invariant.
LEMMA Invariance == Spec => []IInv
  BY InitIInv, NextIInv, PTL DEF Spec

\* TypeOK holds for any number of files, clients and tokens.
THEOREM TypeCorrect == Spec => []TypeOK
  <1>1. IInv => TypeOK
    BY DEF IInv
  <1> QED BY <1>1, Invariance, PTL

\* Two clients that were granted a lock of one file, and whose time is not up,
\* were granted the same token.
THEOREM GrantsExclude == Spec => []HoldersExclude
  <1>1. IInv => HoldersExclude
    BY DEF IInv, Backed, HoldersExclude
  <1> QED BY <1>1, Invariance, PTL

\* MemStore's refusals are PgStore's, but at the instant a lock runs out.
THEOREM RefusalsAgree == Spec => RefusesWithPgStore
  <1> DEFINE Agrees(c) ==
        pc[c] = "lock" /\ pc'[c] # "lock" =>
          LET r == row[req[c].file]
          IN  r # NULL /\ r.expires # now =>
                (ans'[c].res = "conflict" <=> ~ValidateLock(r, req[c].lock, now))
  <1>1. ASSUME IInv, Next, NEW c \in Client PROVE Agrees(c)
    <2> DEFINE r == row[req[c].file]
               l == req[c].lock
    <2> SUFFICES ASSUME pc[c] = "lock", pc'[c] # "lock", r # NULL, r.expires # now
                 PROVE  ans'[c].res = "conflict" <=> ~ValidateLock(r, l, now)
      OBVIOUS
    <2>1. /\ ans[c].res = "none" /\ req[c].file \in File
          /\ ans \in [Client -> Answer] /\ now \in Nat
          /\ pc \in [Client -> Stages] /\ r \in LockFields
      BY <1>1 DEF IInv, TypeOK, InFlight
    <2>2. CheckLock(c)
      BY <1>1, <2>1 DEF Next, WopiFile, CheckFileInfo, CheckLock, WriteLock,
                        AddDBFile, Tick, Return, Goto
    <2>3. ans'[c].res = "conflict" <=> ~Grantable(r, l, now)
      BY <2>1, <2>2 DEF CheckLock, Return, Goto, Conflict
    <2>4. r.lock # NULL => r.expires \in Nat
      BY <1>1, <2>1 DEF IInv, TokenExpires
    <2>5. Grantable(r, l, now) <=> ValidateLock(r, l, now)
      <3>1. CASE r.lock = NULL
        BY <3>1 DEF Grantable, ValidateLock, IsLocked
      <3>2. CASE r.lock # NULL
        <4>1. r.expires \in Nat /\ r.expires # NULL
          BY <2>4, <3>2, NullAssumption
        <4>2. r.expires > now <=> ~(r.expires < now)
          <5>1. \A e, n \in Nat : e # n => (e > n <=> ~(e < n))
            OBVIOUS
          <5> QED BY <2>1, <4>1, <5>1
        <4> QED BY <3>2, <4>1, <4>2 DEF Grantable, RanOut, ValidateLock, IsLocked, Live
      <3> QED BY <3>1, <3>2
    <2> QED BY <2>3, <2>5
  <1>2. IInv /\ [Next]_vars => [\A c \in Client : Agrees(c)]_vars
    BY <1>1
  <1> QED BY <1>2, Invariance, PTL DEF Spec, RefusesWithPgStore

-----------------------------------------------------------------------------
(***************************************************************************)
(* MemStore keeps the contract of FileLease.                               *)
(***************************************************************************)
LEMMA InitRefines == Init => Lease!Init
  BY DEF Init, Lease!Init, Holds

\* Writing a lock takes the file or renews the caller's own lock; time ends
\* locks; no other step changes who holds what.
LEMMA NextRefines == IInv /\ [Next]_vars => [Lease!Next]_Lease!lvars
  <1> SUFFICES ASSUME IInv, [Next]_vars PROVE [Lease!Next]_Lease!lvars
    OBVIOUS
  <1> USE DEF Lease!lvars
  <1>1. CASE UNCHANGED <<row, now>>
    BY <1>1 DEF Holds
  <1>2. ASSUME NEW c \in Client, WriteLock(c) PROVE Lease!Next
    <2>0. PICK f \in File, l \in Token : f = req[c].file /\ l = req[c].lock
      BY <1>2 DEF IInv, TypeOK, InFlight, WriteLock
    <2>1. PICK r \in LockFields :
            /\ r = row[f] /\ r # NULL /\ Grantable(r, l, now) /\ now \in Nat
            /\ req[c] \in Request /\ req[c].op = "lock" /\ pc[c] # "idle"
      BY <1>2, <2>0 DEF IInv, TypeOK, InFlight, Deciding, WriteLock
    <2>2. /\ now' = now /\ row'[f] = Locked(r, l, now)
          /\ \A g \in File \ {f} : row'[g] = row[g]
      BY <1>2, <2>0, <2>1 DEF IInv, TypeOK, WriteLock
    <2>3. /\ row'[f] # NULL /\ row'[f].lock = l /\ row'[f].expires = now + LockTTL
          /\ now + LockTTL \in now + 1 .. now + LockTTL
      <3>1. now + LockTTL \in now + 1 .. now + LockTTL
        BY <2>1, LockTTLAssumption
      <3>2. /\ Locked(r, l, now) # NULL /\ Locked(r, l, now).lock = l
            /\ Locked(r, l, now).expires = now + LockTTL
        <4>1. r \in LockFields /\ l \in Token /\ now \in Nat
          BY <2>1
        <4> QED BY <4>1, RowTyping
      <3> QED BY <2>2, <3>1, <3>2
    <2>4. Holds(f)' /\ \A g \in File \ {f} : Holds(g)' = Holds(g)
      BY <2>1, <2>2, <2>3, NullAssumption, LockTTLAssumption DEF Holds, IsLocked, Live
    <2>5. Lease!AskedBy("lock", f, l)
      BY <2>0, <2>1 DEF Lease!AskedBy, Lease!Asked
    <2>6. Lease!Grant(f, l)
      BY <2>1, <2>2, <2>3, <2>4 DEF Lease!Grant
    <2>7. CASE Holds(f)
      <3>1. r.lock = l
        BY <2>1, <2>7, NullAssumption DEF Holds, IsLocked, Live, Grantable, RanOut, LockFields
      <3>2. l # NULL /\ (IF Holds(f) THEN row[f].lock ELSE NULL) = l
        BY <2>1, <2>7, <3>1, NullAssumption
      <3>3. [g \in File |-> IF Holds(g) THEN row[g].lock ELSE NULL][f] = l
        BY <3>2
      <3>4. Lease!Renew(f)
        BY <2>5, <2>6, <3>2, <3>3 DEF Lease!Renew, Lease!Grant
      <3> QED BY <3>4 DEF Lease!Next
    <2>8. CASE ~Holds(f)
      <3>1. Lease!Take(f, l)
        BY <2>1, <2>5, <2>6, <2>8 DEF Lease!Take
      <3> QED BY <2>1, <3>1 DEF Lease!Next
    <2> QED BY <2>7, <2>8
  <1>3. ASSUME NEW f \in File, AddDBFile(f) PROVE UNCHANGED Lease!lvars
    <2>1. /\ row[f] = NULL /\ row'[f].lock = NULL /\ now' = now
          /\ \A g \in File \ {f} : row'[g] = row[g]
      BY <1>3, RowTyping DEF AddDBFile, IInv, TypeOK
    <2>2. \A g \in File : Holds(g)' = Holds(g)
      BY <2>1 DEF Holds, IsLocked
    <2>3. \A g \in File : Holds(g) => row'[g] = row[g]
      BY <2>1 DEF Holds
    <2> QED BY <2>1, <2>2, <2>3
  <1>4. ASSUME Tick PROVE Lease!Next
    <2>1. now' = now + 1 /\ row' = row /\ now \in Nat
      BY <1>4 DEF Tick, IInv, TypeOK
    <2>2. \A f \in File : Holds(f) => row[f].expires \in Nat
      BY DEF IInv, TokenExpires, Holds, IsLocked
    <2>3. \A f \in File :
            Holds(f)' <=> Holds(f) /\ ~(row[f].expires <= now + 1)
      BY <2>1, <2>2 DEF IInv, TokenExpires, Holds, IsLocked, Live
    <2>4. \A f \in File :
            (IF Holds(f) THEN row[f].expires ELSE 0) <= now + 1
              <=> ~Holds(f) \/ row[f].expires <= now + 1
      BY <2>1
    <2>5. Lease!Tick
      BY <2>1, <2>3, <2>4 DEF Lease!Tick
    <2> QED BY <2>5 DEF Lease!Next
  <1>5. \/ UNCHANGED <<row, now>>
        \/ \E c \in Client : WriteLock(c)
        \/ \E f \in File : AddDBFile(f)
        \/ Tick
    BY DEF Next, WopiFile, CheckFileInfo, CheckLock, vars
  <1> QED BY <1>1, <1>2, <1>3, <1>4, <1>5

\* The locks of MemStore keep the contract of FileLease, however many clients
\* call at once.
THEOREM Refinement == Spec => ImplementsFileLease
  BY InitRefines, NextRefines, Invariance, PTL
  DEF Spec, ImplementsFileLease, Lease!Spec
=============================================================================
