------------------------- MODULE PgFileLocksProofs -------------------------
(***************************************************************************)
(* Proofs about PgFileLocks, for every number of files, callers, tokens,   *)
(* connections and clock readings.                                         *)
(***************************************************************************)
EXTENDS PgFileLocks, TLAPS

-----------------------------------------------------------------------------
\* The methods of DBFile map lock fields to lock fields.
LEMMA LockFieldsTyping ==
  ASSUME NEW r \in LockFields, NEW l \in Token, NEW t \in Nat
  PROVE  /\ Unlocked \in LockFields
         /\ Locked(r, l, t) \in LockFields
         /\ Extended(r, t) \in LockFields
  <1>1. t + LockTTL \in Nat
    BY LockTTLAssumption
  <1>2. Unlocked \in LockFields
    BY DEF LockFields, Unlocked
  <1>3. Locked(r, l, t) \in LockFields
    BY <1>1 DEF LockFields, Locked
  <1>4. Extended(r, t) \in LockFields
    BY <1>1 DEF LockFields, Extended
  <1> QED BY <1>2, <1>3, <1>4

\* A failed check names a stored token, and not the caller's: the unwrap() of
\* the error branches cannot panic.
LEMMA ConflictHasToken ==
  ASSUME NEW r \in LockFields, NEW l \in Token, NEW t \in Nat,
         ~ValidateLock(r, l, t)
  PROVE  r.lock \in Token /\ r.lock # l
  BY DEF LockFields, ValidateLock, IsLocked

-----------------------------------------------------------------------------
(***************************************************************************)
(* The inductive invariant.  LockExpires alone is not inductive: an UPDATE *)
(* writes what its call bound earlier, so the values bound must already    *)
(* respect the bound on expiry times, and the clock only moves forward.    *)
(***************************************************************************)
Bounded(e) == e \in Nat /\ e <= now + LockTTL

BoundValues ==
  \A c \in Client : pc[c] = "update" =>
    /\ req[c].op = "unlock" => file[c] = Unlocked
    /\ req[c].op # "unlock" => Bounded(file[c].expires)

\* A call that is past its SELECT holds a DBFile, and one that runs has a
\* request.
InFlight ==
  \A c \in Client :
    /\ pc[c] # "idle" => req[c] \in Request
    /\ pc[c] \in {"check", "revalidate", "update", "commit"} =>
         file[c] \in LockFields /\ row[req[c].file] # NULL
    /\ pc[c] \in {"begin", "check", "revalidate", "update", "commit"} =>
         req[c].op # "info"
    /\ ans[c].res = "conflict" => req[c] \in Request

TokenExpires ==
  \A f \in File : row[f] # NULL /\ row[f].lock # NULL => Bounded(row[f].expires)

IInv == TypeOK /\ InFlight /\ BoundValues /\ TokenExpires /\ ConflictNamesHolder

-----------------------------------------------------------------------------
USE DEF Request, Answer, Ops, Stages, Plain, Conflict

\* Every answer a call returns is well formed.
LEMMA AnswerTyping ==
  /\ \A r \in {"none", "ok", "notfound", "error"} : Plain(r) \in Answer
  /\ \A l \in Token : Conflict(l) \in Answer
  BY DEF Answer

\* An empty file table with no call in flight satisfies the invariant.
THEOREM InitIInv == Init => IInv
  BY NullAssumption, AnswerTyping
  DEF Init, IInv, TypeOK, InFlight, BoundValues, TokenExpires, ConflictNamesHolder

\* A call that returns an answer other than a conflict keeps the invariant.
LEMMA ReturnKeepsIInv ==
  ASSUME IInv, NEW c \in Client, pc[c] # "idle",
         NEW a \in Answer,
         a.res = "conflict" => a.lock \in Token /\ a.lock # req[c].lock,
         Return(c, a), UNCHANGED <<row, now, req>>
  PROVE  IInv'
  <1>1. TypeOK'
    BY DEF IInv, TypeOK, Return, Goto
  <1>2. InFlight'
    BY DEF IInv, TypeOK, InFlight, Return, Goto
  <1>3. BoundValues'
    BY DEF IInv, TypeOK, BoundValues, Bounded, Return, Goto
  <1>4. TokenExpires'
    BY DEF IInv, TokenExpires, Bounded
  <1>5. ConflictNamesHolder'
    BY DEF IInv, TypeOK, ConflictNamesHolder, Return, Goto
  <1> QED BY <1>1, <1>2, <1>3, <1>4, <1>5 DEF IInv

\* Every step keeps the invariant, one step of the proof per action.
THEOREM NextIInv == IInv /\ [Next]_vars => IInv'
  <1> SUFFICES ASSUME IInv, [Next]_vars PROVE IInv'
    OBVIOUS
  <1>1. ASSUME NEW c \in Client, NEW r \in Request, Call(c, r) PROVE IInv'
    <2>1. TypeOK'
      BY <1>1, AnswerTyping DEF IInv, TypeOK, Call, Goto
    <2>2. InFlight'
      BY <1>1 DEF IInv, TypeOK, InFlight, Call, Goto
    <2>3. BoundValues'
      BY <1>1 DEF IInv, TypeOK, BoundValues, Bounded, Call, Goto
    <2>4. TokenExpires' /\ ConflictNamesHolder'
      BY <1>1 DEF IInv, TypeOK, TokenExpires, ConflictNamesHolder, Bounded, Call
    <2> QED BY <2>1, <2>2, <2>3, <2>4 DEF IInv
  <1>2. ASSUME NEW c \in Client, Begin(c) PROVE IInv'
    BY <1>2 DEF IInv, TypeOK, InFlight, BoundValues, TokenExpires, Bounded,
                ConflictNamesHolder, Begin, Goto
  <1>3. ASSUME NEW c \in Client, GetDBFile(c) PROVE IInv'
    <2> DEFINE found == row[req[c].file]
    <2>0. req[c] \in Request /\ found \in LockFields \cup {NULL}
      BY <1>3 DEF IInv, TypeOK, InFlight, GetDBFile
    <2>1. CASE found = NULL
      BY <1>3, <2>1, AnswerTyping, ReturnKeepsIInv DEF GetDBFile
    <2>2. CASE found # NULL /\ req[c].op = "info"
      BY <1>3, <2>2, AnswerTyping, ReturnKeepsIInv DEF GetDBFile
    <2>3. CASE found # NULL /\ req[c].op # "info"
      <3>1. TypeOK'
        BY <1>3, <2>0, <2>3 DEF IInv, TypeOK, GetDBFile, Goto
      <3>2. InFlight'
        BY <1>3, <2>0, <2>3 DEF IInv, TypeOK, InFlight, GetDBFile, Goto
      <3>3. BoundValues'
        BY <1>3, <2>3 DEF IInv, TypeOK, BoundValues, Bounded, GetDBFile, Goto
      <3>4. TokenExpires' /\ ConflictNamesHolder'
        BY <1>3, <2>3 DEF IInv, TypeOK, TokenExpires, ConflictNamesHolder, Bounded, GetDBFile
      <3> QED BY <3>1, <3>2, <3>3, <3>4 DEF IInv
    <2> QED BY <2>1, <2>2, <2>3
  <1>4. ASSUME NEW c \in Client, NEW bound \in LockFields,
               pc[c] = "check", req[c].op # "info", Checked(c, bound),
               req[c].op = "unlock" => bound = Unlocked,
               req[c].op # "unlock" => Bounded(bound.expires)
        PROVE  IInv'
    <2>0. req[c] \in Request /\ file[c] \in LockFields /\ now \in Nat
      BY <1>4 DEF IInv, TypeOK, InFlight
    <2>1. CASE ValidateLock(file[c], req[c].lock, now)
      <3>1. TypeOK'
        BY <1>4, <2>1 DEF IInv, TypeOK, Checked, Goto
      <3>2. InFlight'
        BY <1>4, <2>1 DEF IInv, TypeOK, InFlight, Checked, Goto
      <3>3. BoundValues'
        BY <1>4, <2>1 DEF IInv, TypeOK, BoundValues, Bounded, Checked, Goto
      <3>4. TokenExpires' /\ ConflictNamesHolder'
        BY <1>4, <2>1 DEF IInv, TypeOK, TokenExpires, ConflictNamesHolder, Bounded, Checked
      <3> QED BY <3>1, <3>2, <3>3, <3>4 DEF IInv
    <2>2. CASE ~ValidateLock(file[c], req[c].lock, now)
      BY <1>4, <2>0, <2>2, ConflictHasToken, AnswerTyping, ReturnKeepsIInv
      DEF Checked
    <2> QED BY <2>1, <2>2
  <1>5. ASSUME NEW c \in Client, CheckUnlock(c) PROVE IInv'
    <2>1. req[c] \in Request /\ Unlocked \in LockFields
      BY <1>5, NullAssumption DEF IInv, InFlight, CheckUnlock, LockFields, Unlocked
    <2> QED BY <1>4, <1>5, <2>1 DEF CheckUnlock
  <1>6. ASSUME NEW c \in Client, CheckExtend(c) PROVE IInv'
    <2>1. req[c] \in Request /\ file[c] \in LockFields /\ now \in Nat
      BY <1>6 DEF IInv, TypeOK, InFlight, CheckExtend
    <2>2. Extended(file[c], now) \in LockFields
      BY <2>1, LockFieldsTyping
    <2>3. Bounded(Extended(file[c], now).expires)
      BY <2>1, LockTTLAssumption DEF Bounded, Extended, LockFields
    <2> QED BY <1>4, <1>6, <2>2, <2>3 DEF CheckExtend
  <1>7. ASSUME NEW c \in Client, CheckLock(c) PROVE IInv'
    <2> DEFINE bound == Locked(file[c], req[c].lock, now)
    <2>1. req[c] \in Request /\ file[c] \in LockFields /\ now \in Nat
      BY <1>7 DEF IInv, TypeOK, InFlight, CheckLock
    <2>2. bound \in LockFields
      BY <2>1, LockFieldsTyping
    <2>3. Bounded(bound.expires)
      BY <2>1, LockTTLAssumption DEF Bounded, Locked, LockFields
    <2> HIDE DEF bound
    <2>4. CASE IsLocked(file[c], now)
      BY <1>7, <2>4 DEF IInv, TypeOK, InFlight, BoundValues, TokenExpires,
                        Bounded, ConflictNamesHolder, CheckLock, Goto
    <2>5. CASE ~IsLocked(file[c], now)
      <3>0. /\ Goto(c, "update") /\ file' = [file EXCEPT ![c] = bound]
            /\ UNCHANGED <<row, now, req, ans>>
            /\ pc[c] = "check" /\ req[c].op = "lock"
        BY <1>7, <2>5 DEF CheckLock, bound
      <3>1. TypeOK'
        BY <2>2, <3>0 DEF IInv, TypeOK, Goto
      <3>2. InFlight'
        BY <2>2, <3>0 DEF IInv, TypeOK, InFlight, Goto
      <3>3. BoundValues'
        BY <2>3, <3>0 DEF IInv, TypeOK, BoundValues, Bounded, Goto
      <3>4. TokenExpires' /\ ConflictNamesHolder'
        BY <3>0 DEF IInv, TypeOK, TokenExpires, ConflictNamesHolder, Bounded
      <3> QED BY <3>1, <3>2, <3>3, <3>4 DEF IInv
    <2> QED BY <2>4, <2>5
  <1>8. ASSUME NEW c \in Client, Revalidate(c) PROVE IInv'
    <2>1. req[c] \in Request /\ file[c] \in LockFields /\ now \in Nat
      BY <1>8 DEF IInv, TypeOK, InFlight, Revalidate
    <2>2. CASE ValidateLock(file[c], req[c].lock, now)
      BY <1>8, <2>2, AnswerTyping, ReturnKeepsIInv DEF Revalidate
    <2>3. CASE ~ValidateLock(file[c], req[c].lock, now)
      <3>1. file[c].lock \in Token /\ file[c].lock # req[c].lock
        BY <2>1, <2>3, ConflictHasToken
      <3> QED BY <1>8, <2>3, <3>1, AnswerTyping, ReturnKeepsIInv DEF Revalidate
    <2> QED BY <2>2, <2>3
  <1>9. ASSUME NEW c \in Client, Update(c) PROVE IInv'
    <2> DEFINE f == req[c].file
               new == Written(req[c].op, row[f], file[c])
    <2>1. /\ req[c] \in Request /\ f \in File /\ row[f] \in LockFields
          /\ file[c] \in LockFields
      BY <1>9 DEF IInv, TypeOK, InFlight, Update
    <2>2. new \in LockFields
      BY <2>1 DEF Written, LockFields
    <2>3. new.lock # NULL => Bounded(new.expires)
      BY <1>9, <2>1 DEF IInv, BoundValues, Written, LockFields, Unlocked, Update
    <2> HIDE DEF new
    <2>4. /\ row' = [row EXCEPT ![f] = new] /\ Goto(c, "commit")
          /\ UNCHANGED <<now, req, file, ans>> /\ pc[c] = "update"
      BY <1>9 DEF Update, new
    <2>5. TypeOK'
      BY <2>1, <2>2, <2>4 DEF IInv, TypeOK, Goto
    <2>6. InFlight'
      BY <2>1, <2>2, <2>4, NoRecordAssumption DEF IInv, TypeOK, InFlight, Goto
    <2>7. BoundValues'
      BY <2>4 DEF IInv, TypeOK, BoundValues, Bounded, Goto
    <2>8. TokenExpires'
      BY <2>1, <2>3, <2>4 DEF IInv, TypeOK, TokenExpires, Bounded
    <2>9. ConflictNamesHolder'
      BY <2>4 DEF IInv, TypeOK, ConflictNamesHolder
    <2> QED BY <2>5, <2>6, <2>7, <2>8, <2>9 DEF IInv
  <1>10. ASSUME NEW c \in Client, UpdateRefused(c) PROVE IInv'
    BY <1>10, AnswerTyping, ReturnKeepsIInv DEF UpdateRefused
  <1>11. ASSUME NEW c \in Client, Commit(c) PROVE IInv'
    BY <1>11, AnswerTyping, ReturnKeepsIInv DEF Commit
  <1>12. ASSUME NEW c \in Client, Fail(c) PROVE IInv'
    BY <1>12, AnswerTyping, ReturnKeepsIInv DEF Fail
  <1>13. ASSUME NEW c \in Client, AcquireTimeout(c) PROVE IInv'
    BY <1>13, AnswerTyping, ReturnKeepsIInv DEF AcquireTimeout
  <1>14. ASSUME NEW f \in File, AddDBFile(f) PROVE IInv'
    <2>1. Unlocked \in LockFields /\ Unlocked # NULL /\ Unlocked.lock = NULL
      BY NullAssumption, NoRecordAssumption DEF LockFields, Unlocked
    <2> QED BY <1>14, <2>1 DEF IInv, TypeOK, InFlight, BoundValues, TokenExpires,
                               Bounded, ConflictNamesHolder, AddDBFile
  <1>15. ASSUME Tick PROVE IInv'
    BY <1>15, LockTTLAssumption
    DEF IInv, TypeOK, InFlight, BoundValues, TokenExpires, Bounded,
        ConflictNamesHolder, Tick
  <1>16. ASSUME UNCHANGED vars PROVE IInv'
    BY <1>16 DEF IInv, TypeOK, InFlight, BoundValues, TokenExpires, Bounded,
                 ConflictNamesHolder, vars
  <1> QED
    BY <1>1, <1>2, <1>3, <1>5, <1>6, <1>7, <1>8, <1>9, <1>10, <1>11, <1>12,
       <1>13, <1>14, <1>15, <1>16 DEF Next, Advance

-----------------------------------------------------------------------------
\* Every reachable state satisfies the invariant.
LEMMA Invariance == Spec => []IInv
  BY InitIInv, NextIInv, PTL DEF Spec

\* TypeOK holds for any number of files, callers and tokens.
THEOREM TypeCorrect == Spec => []TypeOK
  <1>1. IInv => TypeOK
    BY DEF IInv
  <1> QED BY <1>1, Invariance, PTL

\* No interleaving of the calls leaves a token without an expiry time or with
\* one more than LockTTL away.
THEOREM LocksExpire == Spec => []LockExpires
  <1>1. IInv => LockExpires
    BY NullAssumption DEF IInv, LockExpires, TokenExpires, Bounded
  <1> QED BY <1>1, Invariance, PTL

\* A refused caller is always told the token of another holder.
THEOREM ConflictsNameHolder == Spec => []ConflictNamesHolder
  <1>1. IInv => ConflictNamesHolder
    BY DEF IInv
  <1> QED BY <1>1, Invariance, PTL

-----------------------------------------------------------------------------
(***************************************************************************)
(* With the committed schema no token is ever stored: neither rows nor     *)
(* copies of them have one, and the one value bound that has one is        *)
(* refused.                                                                *)
(***************************************************************************)
NoTokens ==
  /\ \A f \in File : row[f] # NULL => row[f].lock = NULL
  /\ \A c \in Client : /\ pc[c] = "check" => file[c].lock = NULL
                       /\ pc[c] # "revalidate"
  /\ NoConflictWithoutTokens

\* Every step keeps it.
LEMMA NoTokensKept ==
  ASSUME ~LockColumnHoldsText, IInv, NoTokens, [Next]_vars
  PROVE  NoTokens'
  <1> USE DEF NoTokens, NoConflictWithoutTokens, IInv, TypeOK, Goto
  <1>1. ASSUME NEW c \in Client, Update(c) PROVE NoTokens'
    <2>1. /\ req[c].op \in {"unlock", "extend"} /\ req[c].file \in File
          /\ row[req[c].file] # NULL /\ row[req[c].file] \in LockFields
          /\ file[c] \in LockFields /\ (req[c].op = "unlock" => file[c].lock = NULL)
      BY <1>1 DEF Update, InFlight, BoundValues, Unlocked
    <2>2. Written(req[c].op, row[req[c].file], file[c]).lock = NULL
      BY <2>1 DEF Written, LockFields
    <2>3. /\ row' = [row EXCEPT ![req[c].file] =
                       Written(req[c].op, row[req[c].file], file[c])]
          /\ \A d \in Client : pc'[d] = pc[d] \/ pc'[d] = "commit"
          /\ UNCHANGED <<req, file, ans>>
      BY <1>1 DEF Update
    <2> QED BY <2>1, <2>2, <2>3
  <1>2. ASSUME NEW c \in Client, GetDBFile(c) PROVE NoTokens'
    <2>1. req[c].file \in File
      BY <1>2 DEF GetDBFile, InFlight
    <2> QED BY <1>2, <2>1 DEF GetDBFile, Return
  <1>3. ASSUME NEW c \in Client, CheckUnlock(c) \/ CheckExtend(c) \/ CheckLock(c)
        PROVE  NoTokens'
    <2>1. file[c].lock = NULL /\ ~IsLocked(file[c], now)
      BY <1>3 DEF CheckUnlock, CheckExtend, CheckLock, IsLocked
    <2> QED BY <1>3, <2>1 DEF CheckUnlock, CheckExtend, CheckLock, Checked, ValidateLock
  <1>4. ASSUME NEW c \in Client,
               \/ \E r \in Request : Call(c, r)
               \/ Begin(c) \/ UpdateRefused(c) \/ Commit(c) \/ AcquireTimeout(c)
               \/ Fail(c)
        PROVE  NoTokens'
    BY <1>4 DEF Call, Begin, UpdateRefused, Commit, AcquireTimeout, Fail, Return
  <1>5. ASSUME NEW f \in File, AddDBFile(f) PROVE NoTokens'
    BY <1>5 DEF AddDBFile, Unlocked
  <1>6. ASSUME Tick \/ UNCHANGED vars PROVE NoTokens'
    BY <1>6 DEF Tick, vars
  <1>7. \A c \in Client : ~Revalidate(c)
    BY DEF Revalidate
  <1> QED BY <1>1, <1>2, <1>3, <1>4, <1>5, <1>6, <1>7 DEF Next, Advance

\* With the committed schema no caller is ever refused for a lock.
THEOREM NobodyIsRefused == ~LockColumnHoldsText => (Spec => []NoConflictWithoutTokens)
  <1> SUFFICES ASSUME ~LockColumnHoldsText PROVE Spec => []NoConflictWithoutTokens
    OBVIOUS
  <1>1. Init => NoTokens
    BY DEF Init, NoTokens, NoConflictWithoutTokens
  <1>2. NoTokens => NoConflictWithoutTokens
    BY DEF NoTokens
  <1>3. IInv /\ NoTokens /\ [Next]_vars => NoTokens'
    BY NoTokensKept
  <1> QED BY <1>1, <1>2, <1>3, Invariance, PTL DEF Spec
=============================================================================
