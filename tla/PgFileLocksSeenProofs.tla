------------------------ MODULE PgFileLocksSeenProofs ------------------------
(***************************************************************************)
(* What the locks of PgStore promise although calls come between the       *)
(* SELECT and the UPDATE of each other, for every number of files,         *)
(* callers, tokens, connections and clock readings.                        *)
(***************************************************************************)
EXTENDS PgFileLocksProofs, PgFileLocksSeen

USE DEF Request, Answer, Ops, Stages, Plain, Conflict

-----------------------------------------------------------------------------
(***************************************************************************)
(* The history variable constrains nothing.                                *)
(***************************************************************************)

\* Every behaviour with the history variable is one of PgFileLocks.
LEMMA HistoryIsNoConstraint == SeenSpec => Spec
  <1>1. SeenInit => Init
    BY DEF SeenInit
  <1>2. [SeenNext]_seenVars => [Next]_vars
    BY DEF SeenNext, seenVars
  <1> QED BY <1>1, <1>2, PTL DEF SeenSpec, Spec

-----------------------------------------------------------------------------
(***************************************************************************)
(* What a call carries from its SELECT to its UPDATE is true of the row it *)
(* has read, and stays true: the history keeps that row, and time can only *)
(* end a lock.  Nothing is said of the row as it is, which any other call  *)
(* may change.                                                             *)
(***************************************************************************)

\* What a call that was checked has bound, against the row r it has read.
StillChecked(c, r) ==
  /\ req[c].op = "unlock" => ValidateLock(r, req[c].lock, now)
  /\ req[c].op = "extend" =>
       /\ ValidateLock(r, req[c].lock, now)
       /\ IsLocked(r, now) => r.expires <= file[c].expires
  /\ req[c].op = "lock" => ~IsLocked(r, now) /\ file[c].lock = req[c].lock

CarriedBy(c) ==
  /\ InSection(c) => /\ seen[c] \in LockFields
                     /\ seen[c].lock # NULL => Bounded(seen[c].expires)
  /\ pc[c] \in {"check", "revalidate"} => file[c] = seen[c]
  /\ pc[c] = "update" => StillChecked(c, seen[c])

Carried == \A c \in Client : CarriedBy(c)

\* A call that stays where it is keeps what it carries, whatever happens to
\* its row.
LEMMA OthersCarry ==
  ASSUME Remember, NEW d \in Client, CarriedBy(d), pc[d] \in Stages,
         pc'[d] = pc[d], req'[d] = req[d], file'[d] = file[d], now' = now
  PROVE  CarriedBy(d)'
  BY DEF CarriedBy, StillChecked, Bounded, Remember, InSection

\* Every step keeps what calls carry.
LEMMA CarriedKept ==
  ASSUME IInv, Carried, Next, Remember
  PROVE  Carried'
  <1> USE DEF Goto
  <1>0. ASSUME NEW c \in Client,
               \A d \in Client \ {c} : /\ pc'[d] = pc[d] /\ req'[d] = req[d]
                                       /\ file'[d] = file[d],
               now' = now, CarriedBy(c)'
        PROVE  Carried'
    BY <1>0, OthersCarry DEF Carried, IInv, TypeOK
  <1>1. ASSUME NEW c \in Client,
               pc'[c] \notin {"check", "revalidate", "update"}
        PROVE  CarriedBy(c)'
    BY <1>1 DEF CarriedBy, InSection
  <1>2. ASSUME NEW c \in Client,
               \/ \E r \in Request : Call(c, r)
               \/ Begin(c) \/ Revalidate(c) \/ Update(c) \/ UpdateRefused(c)
               \/ Commit(c) \/ AcquireTimeout(c) \/ Fail(c)
        PROVE  Carried'
    <2>1. pc'[c] \notin {"check", "revalidate", "update"}
      BY <1>2 DEF Call, Begin, Revalidate, Update, UpdateRefused, Commit, AcquireTimeout,
                  Fail, Return, IInv, TypeOK
    <2>2. /\ now' = now
          /\ \A d \in Client \ {c} : /\ pc'[d] = pc[d] /\ req'[d] = req[d]
                                     /\ file'[d] = file[d]
      BY <1>2 DEF Call, Begin, Revalidate, Update, UpdateRefused, Commit, AcquireTimeout,
                  Fail, Return, IInv, TypeOK
    <2> QED BY <1>0, <1>1, <2>1, <2>2
  <1>3. ASSUME NEW c \in Client, GetDBFile(c) PROVE Carried'
    <2>1. /\ now' = now /\ row' = row /\ req' = req
          /\ \A d \in Client \ {c} : /\ pc'[d] = pc[d] /\ req'[d] = req[d]
                                     /\ file'[d] = file[d]
      BY <1>3 DEF GetDBFile, Return, IInv, TypeOK
    <2>2. CASE pc'[c] = "check"
      <3>1. /\ pc[c] = "read" /\ req[c].file \in File
            /\ row[req[c].file] # NULL /\ file'[c] = row[req[c].file]
        BY <1>3, <2>2 DEF GetDBFile, Return, IInv, TypeOK, InFlight
      <3>2. seen'[c] = row[req[c].file]
        BY <2>2, <3>1 DEF Remember, InSection
      <3>3. seen'[c] \in LockFields
        BY <3>1, <3>2 DEF IInv, TypeOK
      <3>4. (seen[c].lock # NULL => Bounded(seen[c].expires))'
        BY <2>1, <3>1, <3>2 DEF IInv, TokenExpires, Bounded
      <3>5. CarriedBy(c)'
        BY <2>2, <3>1, <3>2, <3>3, <3>4 DEF CarriedBy
      <3> QED BY <1>0, <2>1, <3>5
    <2>3. CASE pc'[c] # "check"
      <3>1. pc'[c] = "idle"
        BY <1>3, <2>3 DEF GetDBFile, Return, IInv, TypeOK
      <3> QED BY <1>0, <1>1, <2>1, <3>1
    <2> QED BY <2>2, <2>3
  <1>4. ASSUME NEW c \in Client, CheckUnlock(c) \/ CheckExtend(c) \/ CheckLock(c)
        PROVE  Carried'
    <2> DEFINE r == seen[c]
    <2>0. \A d \in Client \ {c} : /\ pc'[d] = pc[d] /\ req'[d] = req[d]
                                  /\ file'[d] = file[d]
      BY <1>4 DEF CheckUnlock, CheckExtend, CheckLock, Checked, Return, IInv, TypeOK
    <2>1. /\ pc[c] = "check" /\ UNCHANGED <<row, now, req>>
          /\ pc \in [Client -> Stages] /\ file \in [Client -> LockFields \cup {NULL}]
          /\ now \in Nat /\ req[c] \in Request
      BY <1>4 DEF CheckUnlock, CheckExtend, CheckLock, Checked, IInv, TypeOK, InFlight
    <2>2. /\ r \in LockFields /\ file[c] = r
          /\ IsLocked(r, now) => r.expires \in Nat /\ r.expires <= now + LockTTL
      BY <2>1 DEF Carried, CarriedBy, InSection, Bounded, IsLocked
    <2>a. ASSUME InSection(c)'
          PROVE  /\ seen'[c] = r
                 /\ (seen[c].lock # NULL => Bounded(seen[c].expires))'
      BY <2>1, <2>a DEF Remember, Carried, CarriedBy, InSection, Bounded
    <2>3. CASE pc'[c] = "revalidate"
      <3>1. CarriedBy(c)'
        BY <1>4, <2>1, <2>2, <2>3, <2>a
        DEF CarriedBy, CheckLock, CheckUnlock, CheckExtend, Checked, Return, InSection
      <3> QED BY <1>0, <2>0, <2>1, <3>1
    <2>4. CASE pc'[c] = "update"
      <3>0. seen'[c] = r
        BY <2>4, <2>a DEF InSection
      <3>1. StillChecked(c, seen[c])'
        <4>1. CASE CheckUnlock(c)
          BY <2>1, <2>2, <2>4, <3>0, <4>1 DEF StillChecked, CheckUnlock, Checked, Return
        <4>2. CASE CheckExtend(c)
          <5>1. ValidateLock(r, req[c].lock, now) /\ file'[c] = Extended(r, now)
                /\ req[c].op = "extend"
            BY <2>1, <2>2, <2>4, <4>2 DEF CheckExtend, Checked, Return
          <5>2. file'[c].expires = now + LockTTL
            BY <2>1, <2>2, <5>1 DEF Extended, LockFields
          <5> QED BY <2>1, <2>2, <3>0, <5>1, <5>2 DEF StillChecked
        <4>3. CASE CheckLock(c)
          <5>1. ~IsLocked(r, now) /\ file'[c] = Locked(r, req[c].lock, now)
                /\ req[c].op = "lock"
            BY <2>1, <2>2, <2>4, <4>3 DEF CheckLock
          <5>2. file'[c].lock = req[c].lock
            BY <2>1, <2>2, <5>1 DEF Locked, LockFields
          <5> QED BY <2>1, <3>0, <5>1, <5>2 DEF StillChecked
        <4> QED BY <1>4, <4>1, <4>2, <4>3
      <3>2. CarriedBy(c)'
        BY <2>2, <2>4, <2>a, <3>1 DEF CarriedBy, InSection
      <3> QED BY <1>0, <2>0, <2>1, <3>2
    <2>5. CASE pc'[c] = "idle"
      BY <1>0, <1>1, <2>0, <2>1, <2>5
    <2>6. pc'[c] \in {"idle", "update", "revalidate"}
      BY <1>4, <2>1 DEF CheckUnlock, CheckExtend, CheckLock, Checked, Return
    <2> QED BY <2>3, <2>4, <2>5, <2>6
  <1>5. ASSUME NEW f \in File, AddDBFile(f) PROVE Carried'
    BY <1>5, OthersCarry DEF AddDBFile, Carried, IInv, TypeOK
  <1>6. ASSUME Tick PROVE Carried'
    <2>1. now' = now + 1 /\ now \in Nat /\ UNCHANGED <<row, pc, req, file, ans>>
      BY <1>6 DEF Tick, IInv, TypeOK
    <2>2. \A r \in LockFields : IsLocked(r, now') => IsLocked(r, now)
      BY <2>1 DEF IsLocked, Live, LockFields
    <2>3. \A e : Bounded(e) => Bounded(e)'
      BY <2>1, LockTTLAssumption DEF Bounded
    <2>4. \A c \in Client : InSection(c) => seen'[c] = seen[c]
      BY <2>1 DEF Remember, InSection
    <2> SUFFICES ASSUME NEW c \in Client PROVE CarriedBy(c)'
      BY DEF Carried
    <2>5. CASE InSection(c)
      <3>1. CarriedBy(c) /\ seen'[c] = seen[c] /\ seen[c] \in LockFields
        BY <2>4, <2>5 DEF Carried, CarriedBy
      <3>2. pc[c] = "update" => StillChecked(c, seen[c])'
        BY <2>1, <2>2, <3>1 DEF CarriedBy, StillChecked, ValidateLock
      <3> QED BY <2>1, <2>3, <3>1, <3>2 DEF CarriedBy, InSection
    <2>6. CASE ~InSection(c)
      BY <2>1, <2>6 DEF CarriedBy, InSection
    <2> QED BY <2>5, <2>6
  <1> QED BY <1>2, <1>3, <1>4, <1>5, <1>6 DEF Next, Advance

\* Every reachable state has them.
LEMMA CarriedInvariance == SeenSpec => [](IInv /\ Carried)
  <1>1. SeenInit => Carried
    BY DEF SeenInit, Init, Carried, CarriedBy, InSection
  <1>2. IInv /\ Carried /\ [SeenNext]_seenVars => Carried'
    <2> SUFFICES ASSUME IInv, Carried, UNCHANGED seenVars PROVE Carried'
      BY CarriedKept DEF SeenNext
    <2> QED BY DEF seenVars, vars, Carried, CarriedBy, StillChecked, InSection, Bounded
  <1>3. SeenSpec => []IInv
    BY HistoryIsNoConstraint, Invariance, PTL
  <1> QED BY <1>1, <1>2, <1>3, PTL DEF SeenSpec

-----------------------------------------------------------------------------
\* What an UPDATE leaves in the row, whatever the row has become.
LEMMA UpdateLeaves ==
  ASSUME IInv, Carried, NEW c \in Client, Update(c)
  PROVE  LET f == req[c].file
         IN  /\ req[c] \in Request /\ f \in File /\ req[c].op # "info"
             /\ row[f] \in LockFields /\ row'[f] \in LockFields /\ row'[f] # NULL
             /\ pc[c] = "update" /\ pc'[c] = "commit" /\ now' = now
             /\ \A g \in File \ {f} : row'[g] = row[g]
             /\ StillChecked(c, seen[c])
             /\ req[c].op = "unlock" => row'[f] = Unlocked
             /\ req[c].op = "extend" => /\ row'[f].lock = row[f].lock
                                        /\ row'[f].expires = file[c].expires
             /\ req[c].op = "lock" => row'[f].lock = req[c].lock
             /\ req[c].op # "unlock" => Bounded(row'[f].expires)
  <1> DEFINE f == req[c].file
  <1>1. /\ req[c] \in Request /\ f \in File /\ req[c].op # "info"
        /\ pc[c] = "update" /\ pc'[c] = "commit" /\ now' = now
        /\ row[f] \in LockFields /\ file[c] \in LockFields
        /\ StillChecked(c, seen[c])
        /\ req[c].op = "unlock" => file[c] = Unlocked
        /\ req[c].op # "unlock" => Bounded(file[c].expires)
    BY DEF Update, Goto, IInv, TypeOK, InFlight, BoundValues, Carried, CarriedBy
  <1>2. /\ row'[f] = Written(req[c].op, row[f], file[c])
        /\ \A g \in File \ {f} : row'[g] = row[g]
    BY <1>1 DEF Update, IInv, TypeOK
  <1>3. /\ row'[f] \in LockFields
        /\ req[c].op = "extend" => /\ row'[f].lock = row[f].lock
                                   /\ row'[f].expires = file[c].expires
        /\ req[c].op # "extend" => row'[f] = file[c]
    BY <1>1, <1>2 DEF Written, LockFields
  <1>4. row'[f] # NULL
    BY <1>3, NoRecordAssumption
  <1>5. req[c].op = "lock" => row'[f].lock = req[c].lock
    BY <1>1, <1>3 DEF StillChecked
  <1> QED BY <1>1, <1>2, <1>3, <1>4, <1>5

\* What an UPDATE does to the row its call has checked, by operation.
LEMMA UpdateStep ==
  ASSUME IInv, Carried, NEW c \in Client, Update(c), ~Outrun(c)
  PROVE  \E f \in File, l \in Token, r \in LockFields :
           /\ f = req[c].file /\ l = req[c].lock /\ r = row[f] /\ r # NULL
           /\ req[c] \in Request /\ pc[c] = "update" /\ pc'[c] = "commit"
           /\ now' = now /\ \A g \in File \ {f} : row'[g] = row[g]
           /\ row'[f] # NULL /\ row'[f] \in LockFields
           /\ \/ /\ req[c].op = "unlock" /\ ValidateLock(r, l, now)
                 /\ row'[f] = Unlocked
              \/ /\ req[c].op = "extend" /\ ValidateLock(r, l, now)
                 /\ IsLocked(r, now) => r.expires <= row'[f].expires
                 /\ row'[f].lock = r.lock /\ Bounded(row'[f].expires)
              \/ /\ req[c].op = "lock" /\ ~IsLocked(r, now)
                 /\ row'[f].lock = l /\ Bounded(row'[f].expires)
  <1>1. PICK f \in File, l \in Token, r \in LockFields :
          /\ f = req[c].file /\ l = req[c].lock /\ r = row[f] /\ r # NULL
          /\ StillChecked(c, r)
    BY UpdateLeaves, NoRecordAssumption DEF Outrun
  <1>2. req[c].op \in {"unlock", "extend", "lock"}
    BY UpdateLeaves
  <1> QED BY <1>1, <1>2, UpdateLeaves DEF StillChecked

\* For any number of callers: a live lock is replaced or removed only by a
\* call that names it or by one whose row has changed since its SELECT, even
\* if the lock or the call runs out of time in between.
THEOREM LocksAreLostToOutrunCalls == SeenSpec => LiveLockLostToOwnerOrOutrunCall
  <1> DEFINE Owned ==
        \A f \in File :
          row[f] # NULL /\ IsLocked(row[f], now) /\ row'[f].lock # row[f].lock =>
            \E c \in Client : /\ pc[c] = "update" /\ pc'[c] = "commit"
                              /\ req[c].file = f
                              /\ req[c].lock = row[f].lock \/ Outrun(c)
  <1>1. ASSUME IInv, Carried, Next PROVE Owned
    <2>1. ASSUME NEW c \in Client, Update(c) PROVE Owned
      <3> SUFFICES ASSUME NEW f \in File, row[f] # NULL, IsLocked(row[f], now),
                          row'[f].lock # row[f].lock
                   PROVE  /\ pc[c] = "update" /\ pc'[c] = "commit"
                          /\ req[c].file = f
                          /\ req[c].lock = row[f].lock \/ Outrun(c)
        OBVIOUS
      <3>1. CASE Outrun(c)
        BY <1>1, <2>1, <3>1, UpdateLeaves
      <3>2. CASE ~Outrun(c)
        BY <1>1, <2>1, <3>2, UpdateStep DEF ValidateLock
      <3> QED BY <3>1, <3>2
    <2>2. ASSUME NEW f \in File, AddDBFile(f) PROVE Owned
      BY <1>1, <2>2 DEF AddDBFile, IInv, TypeOK
    <2>3. CASE row' = row
      BY <2>3
    <2>4. \/ row' = row
          \/ \E c \in Client : Update(c)
          \/ \E f \in File : AddDBFile(f)
      BY <1>1 DEF Next, Advance, Call, Begin, GetDBFile, CheckUnlock, CheckExtend, CheckLock,
                  Checked, Revalidate, UpdateRefused, Commit, AcquireTimeout, Fail, Tick
    <2> QED BY <2>1, <2>2, <2>3, <2>4
  <1>2. IInv /\ Carried /\ [SeenNext]_seenVars => [Owned]_seenVars
    BY <1>1 DEF SeenNext
  <1> QED BY <1>2, CarriedInvariance, PTL DEF SeenSpec, LiveLockLostToOwnerOrOutrunCall

-----------------------------------------------------------------------------
(***************************************************************************)
(* Calls that are not outrun keep the contract of FileLease.               *)
(***************************************************************************)
LEMMA InitRefines == SeenInit => Lease!Init
  BY DEF SeenInit, Init, Lease!Init, Held

\* A step that leaves who holds what, and until when, as it was.
LEMMA SameHolders ==
  ASSUME now' = now,
         \A f \in File : /\ Held(f)' <=> Held(f)
                         /\ Held(f) => row'[f] = row[f]
  PROVE  UNCHANGED Lease!lvars
  BY DEF Lease!lvars

\* The UPDATE of a call that is not outrun releases, takes or renews the lock
\* of its file, or has run out of time itself and changes nothing that counts.
LEMMA UpdateRefines ==
  ASSUME IInv, Carried, NEW c \in Client, Update(c), ~Outrun(c)
  PROVE  [Lease!Next]_Lease!lvars
  <1>1. PICK f \in File, l \in Token, r \in LockFields :
           /\ f = req[c].file /\ l = req[c].lock /\ r = row[f] /\ r # NULL
           /\ req[c] \in Request /\ pc[c] = "update" /\ pc'[c] = "commit"
           /\ now' = now /\ \A g \in File \ {f} : row'[g] = row[g]
           /\ row'[f] # NULL /\ row'[f] \in LockFields
           /\ \/ /\ req[c].op = "unlock" /\ ValidateLock(r, l, now)
                 /\ row'[f] = Unlocked
              \/ /\ req[c].op = "extend" /\ ValidateLock(r, l, now)
                 /\ IsLocked(r, now) => r.expires <= row'[f].expires
                 /\ row'[f].lock = r.lock /\ Bounded(row'[f].expires)
              \/ /\ req[c].op = "lock" /\ ~IsLocked(r, now)
                 /\ row'[f].lock = l /\ Bounded(row'[f].expires)
    BY UpdateStep
  <1>2. \A g \in File \ {f} : (Held(g)' <=> Held(g)) /\ row'[g] = row[g]
    BY <1>1 DEF Held
  <1>3. now \in Nat /\ l # NULL
    BY NullAssumption DEF IInv, TypeOK
  <1> DEFINE e == row'[f].expires
  <1>4. Held(f) => IsLocked(r, now) /\ r.lock \in Token /\ r.expires \in Nat
    BY <1>1 DEF Held, IsLocked, Live, LockFields
  <1>5. /\ Lease!AskedBy(req[c].op, f, l)
        /\ Lease!Asked(req[c].op, f) # {}
    BY <1>1 DEF Lease!AskedBy, Lease!Asked
  <1>6. CASE row'[f] = Unlocked /\ req[c].op = "unlock"
    <2>1. ~Held(f)'
      BY <1>6 DEF Held, Unlocked, IsLocked
    <2>2. CASE Held(f)
      <3>1. r.lock = l
        BY <1>1, <1>4, <1>6, <2>2 DEF ValidateLock
      <3>2. Lease!Release(f)
        BY <1>1, <1>2, <1>3, <1>5, <1>6, <2>1, <2>2, <3>1 DEF Lease!Release
      <3> QED BY <3>2 DEF Lease!Next
    <2>3. CASE ~Held(f)
      BY <1>1, <1>2, <2>1, <2>3, SameHolders
    <2> QED BY <2>2, <2>3
  <1>7. ASSUME NEW k \in Token, row'[f].lock = k, Bounded(e), e > now
        PROVE  Lease!Grant(f, k) /\ k # NULL
    <2>1. Held(f)' /\ e \in now + 1 .. now + LockTTL
      BY <1>1, <1>3, <1>7, NullAssumption, LockTTLAssumption
      DEF Held, IsLocked, Live, Bounded
    <2>2. \A g \in File \ {f} : /\ Held(g)' <=> Held(g)
                               /\ row'[g] = row[g]
      BY <1>2
    <2>3. PICK t \in now + 1 .. now + LockTTL : t = e
      BY <2>1
    <2>4. [g \in File |-> IF Held(g)' THEN row'[g].lock ELSE NULL]
            = [[g \in File |-> IF Held(g) THEN row[g].lock ELSE NULL] EXCEPT ![f] = k]
      BY <1>7, <2>1, <2>2
    <2>5. [g \in File |-> IF Held(g)' THEN row'[g].expires ELSE 0]
            = [[g \in File |-> IF Held(g) THEN row[g].expires ELSE 0] EXCEPT ![f] = t]
      BY <2>1, <2>2, <2>3
    <2> QED BY <1>1, <2>3, <2>4, <2>5, NullAssumption DEF Lease!Grant
  <1>8. CASE req[c].op = "extend" /\ row'[f].lock = r.lock
    <2>0. Bounded(e) /\ ValidateLock(r, l, now) /\ (IsLocked(r, now) => r.expires <= e)
      BY <1>1, <1>8
    <2>1. CASE Held(f)
      <3>1. r.lock = l /\ e > now
        BY <1>3, <1>4, <2>0, <2>1 DEF ValidateLock, IsLocked, Live, Bounded
      <3>2. [g \in File |-> IF Held(g) THEN row[g].lock ELSE NULL][f] = l
        BY <1>1, <2>1, <3>1
      <3>3. Lease!Renew(f)
        BY <1>3, <1>5, <1>7, <1>8, <2>0, <3>1, <3>2 DEF Lease!Renew, Lease!Grant
      <3> QED BY <3>3 DEF Lease!Next
    <2>2. CASE ~Held(f) /\ r.lock # NULL /\ e > now
      <3>1. PICK k \in Token : k = r.lock
        BY <2>2 DEF LockFields
      <3>2. Lease!Take(f, k)
        BY <1>5, <1>7, <1>8, <2>0, <2>2, <3>1 DEF Lease!Take
      <3> QED BY <3>2 DEF Lease!Next
    <2>3. CASE ~Held(f) /\ ~(r.lock # NULL /\ e > now)
      <3>1. ~Held(f)'
        BY <1>1, <1>8, <2>3 DEF Held, IsLocked, Live
      <3> QED BY <1>1, <1>2, <2>3, <3>1, SameHolders
    <2> QED BY <2>1, <2>2, <2>3
  <1>9. CASE req[c].op = "lock"
    <2>0. Bounded(e) /\ row'[f].lock = l /\ ~Held(f)
      BY <1>1, <1>9 DEF Held
    <2>1. CASE e > now
      <3>1. Lease!Take(f, l)
        BY <1>5, <1>7, <1>9, <2>0, <2>1 DEF Lease!Take
      <3> QED BY <3>1 DEF Lease!Next
    <2>2. CASE ~(e > now)
      <3>1. ~Held(f)'
        BY <1>1, <2>2 DEF Held, IsLocked, Live
      <3> QED BY <1>1, <1>2, <2>0, <3>1, SameHolders
    <2> QED BY <2>1, <2>2
  <1> QED BY <1>1, <1>6, <1>8, <1>9

\* The UPDATE of a call that is outrun takes the lock from its holder, ends it
\* or moves its end; where nobody holds the file it is like any other.
LEMMA OutrunRefines ==
  ASSUME IInv, Carried, NEW c \in Client, Update(c), Outrun(c)
  PROVE  [Lease!StaleNext]_Lease!lvars
  <1> DEFINE holders == [g \in File |-> IF Held(g) THEN row[g].lock ELSE NULL]
             ends == [g \in File |-> IF Held(g) THEN row[g].expires ELSE 0]
  <1>1. PICK f \in File :
        /\ f = req[c].file
        /\ req[c] \in Request /\ req[c].op \in {"lock", "unlock", "extend"}
        /\ row[f] \in LockFields /\ row'[f] \in LockFields /\ row'[f] # NULL
        /\ now' = now /\ now \in Nat /\ pc[c] = "update"
        /\ req[c].op = "unlock" => row'[f] = Unlocked
        /\ req[c].op = "extend" => row'[f].lock = row[f].lock
        /\ req[c].op = "lock" => row'[f].lock = req[c].lock
        /\ req[c].op # "unlock" => Bounded(row'[f].expires)
        /\ \A g \in File \ {f} : row'[g] = row[g]
    BY UpdateLeaves DEF IInv, TypeOK
  <1>2. \A g \in File \ {f} : (Held(g)' <=> Held(g)) /\ row'[g] = row[g]
    BY <1>1 DEF Held
  <1>3. /\ req[c] \in Lease!Outdated(req[c].op, f)
        /\ req[c] \in Lease!Asked(req[c].op, f)
    BY <1>1 DEF Lease!Outdated, Lease!Asked
  <1>4. holders[f] = IF Held(f) THEN row[f].lock ELSE NULL
    BY <1>1
  <1>5. Held(f) => row[f].lock \in Token /\ row[f].lock # NULL
    BY <1>1 DEF Held, IsLocked, LockFields
  <1>6. CASE Held(f)'
    <2> DEFINE k == row'[f].lock
               t == row'[f].expires
    <2>1. /\ k \in Token /\ k # NULL /\ req[c].op # "unlock"
          /\ t \in now + 1 .. now + LockTTL
      BY <1>1, <1>6, LockTTLAssumption
      DEF Held, IsLocked, Live, Bounded, LockFields, Unlocked
    <2>2. holders' = [holders EXCEPT ![f] = k]
      BY <1>1, <1>2, <1>6
    <2>3. ends' = [ends EXCEPT ![f] = t]
      BY <1>1, <1>2, <1>6
    <2>4. Lease!Grant(f, k)
      BY <1>1, <2>1, <2>2, <2>3 DEF Lease!Grant
    <2> HIDE DEF k, t
    <2>5. CASE ~Held(f)
      <3>1. Lease!AskedBy("lock", f, k) \/ Lease!Asked("extend", f) # {}
        BY <1>1, <1>3, <2>1 DEF Lease!AskedBy, k
      <3>2. Lease!Take(f, k)
        BY <1>4, <2>4, <2>5, <3>1 DEF Lease!Take
      <3> QED BY <1>1, <2>1, <3>2 DEF Lease!StaleNext, Lease!Next
    <2>6. CASE Held(f) /\ req[c].op = "lock"
      <3>1. Lease!Seize(f)
        BY <1>1, <1>3, <1>4, <1>5, <2>4, <2>6 DEF Lease!Seize, Lease!Grant, k
      <3> QED BY <1>1, <3>1 DEF Lease!StaleNext
    <2>7. CASE Held(f) /\ req[c].op = "extend"
      <3>1. holders[f] # NULL /\ holders[f] = k
        BY <1>1, <1>4, <1>5, <2>7 DEF k
      <3>2. Lease!Stretch(f)
        BY <1>3, <2>4, <2>7, <3>1 DEF Lease!Stretch, Lease!Grant
      <3> QED BY <1>1, <3>2 DEF Lease!StaleNext
    <2> QED BY <1>1, <2>1, <2>5, <2>6, <2>7
  <1>7. CASE Held(f) /\ ~Held(f)'
    <2>1. holders' = [holders EXCEPT ![f] = NULL] /\ ends' = [ends EXCEPT ![f] = 0]
      BY <1>1, <1>2, <1>7
    <2>2. Lease!Drop(f)
      BY <1>1, <1>3, <1>4, <1>5, <1>7, <2>1 DEF Lease!Drop
    <2> QED BY <1>1, <2>2 DEF Lease!StaleNext
  <1>8. CASE ~Held(f) /\ ~Held(f)'
    BY <1>1, <1>2, <1>8, SameHolders
  <1> QED BY <1>6, <1>7, <1>8

\* Every step is a step of the contract or a stutter.
LEMMA NextRefines ==
  IInv /\ Carried /\ [SeenNext]_seenVars => [Lease!StaleNext]_Lease!lvars
  <1> SUFFICES ASSUME IInv, Carried, [Next]_vars PROVE [Lease!StaleNext]_Lease!lvars
    BY DEF SeenNext, seenVars
  <1>1. CASE UNCHANGED <<row, now>>
    BY <1>1, SameHolders DEF Held
  <1>2. ASSUME NEW f \in File, AddDBFile(f) PROVE UNCHANGED Lease!lvars
    <2>1. /\ row[f] = NULL /\ row'[f].lock = NULL /\ now' = now
          /\ \A g \in File \ {f} : row'[g] = row[g]
      BY <1>2 DEF AddDBFile, Unlocked, IInv, TypeOK
    <2>2. \A g \in File : /\ Held(g)' <=> Held(g)
                          /\ Held(g) => row'[g] = row[g]
      BY <2>1 DEF Held, IsLocked
    <2> QED BY <2>1, <2>2, SameHolders
  <1>3. ASSUME Tick PROVE Lease!StaleNext
    <2>1. now' = now + 1 /\ row' = row /\ now \in Nat
      BY <1>3 DEF Tick, IInv, TypeOK
    <2>2. \A f \in File : Held(f) => row[f].expires \in Nat
      BY DEF IInv, TokenExpires, Bounded, Held, IsLocked
    <2>3. \A f \in File :
            Held(f)' <=> Held(f) /\ ~(row[f].expires <= now + 1)
      BY <2>1, <2>2 DEF IInv, TokenExpires, Bounded, Held, IsLocked, Live
    <2>4. \A f \in File :
            (IF Held(f) THEN row[f].expires ELSE 0) <= now + 1
              <=> ~Held(f) \/ row[f].expires <= now + 1
      BY <2>1
    <2>5. Lease!Tick
      BY <2>1, <2>3, <2>4 DEF Lease!Tick
    <2> QED BY <2>5 DEF Lease!StaleNext, Lease!Next
  <1>4. \/ UNCHANGED <<row, now>>
        \/ \E c \in Client : Update(c)
        \/ \E f \in File : AddDBFile(f)
        \/ Tick
    BY DEF Next, Advance, Call, Begin, GetDBFile, CheckUnlock, CheckExtend, CheckLock,
           Checked, Revalidate, UpdateRefused, Commit, AcquireTimeout, Fail, vars
  <1>5. ASSUME NEW c \in Client, Update(c) PROVE [Lease!StaleNext]_Lease!lvars
    <2>1. CASE Outrun(c)
      BY <1>5, <2>1, OutrunRefines
    <2>2. CASE ~Outrun(c)
      BY <1>5, <2>2, UpdateRefines DEF Lease!StaleNext
    <2> QED BY <2>1, <2>2
  <1> QED BY <1>1, <1>2, <1>3, <1>4, <1>5

\* For any number of callers the locks of PgStore keep the contract of
\* FileLease, except that a call whose row has changed since its SELECT may
\* take a lock from its holder, end it or move its end.
THEOREM Refinement == SeenSpec => ImplementsStaleFileLease
  BY InitRefines, NextRefines, CarriedInvariance, PTL
  DEF SeenSpec, ImplementsStaleFileLease, Lease!StaleSpec
=============================================================================
