-------------------------- MODULE FileServerProofs --------------------------
(***************************************************************************)
(* Proofs about FileServer, for any number of servers, users, paths and    *)
(* requests, and any size of a page.                                       *)
(***************************************************************************)
EXTENDS FileServer, TLAPS

-----------------------------------------------------------------------------
(***************************************************************************)
(* The inductive invariant: a server has created the buckets before the    *)
(* one it creates next, or found them; one that serves has got past the    *)
(* last; and a request was accepted by a server that served.  Buckets are  *)
(* never removed, so no crash takes any of this away.                      *)
(***************************************************************************)
SetupDone ==
  \A s \in Server :
    /\ \A i \in 1 .. 4 : i < next[s] => B!BUCKETS[i] \in bucket
    /\ server[s] = "serving" => next[s] > 4

\* Requests are at a stage of UserFiles.
StagesOK == pc \in [Slot -> {"idle", "list", "delete"}]

IInv == B!TypeOK /\ StagesOK /\ SetupDone /\ RequestsFindBuckets

\* There are four buckets.
LEMMA FourBuckets ==
  /\ Len(B!BUCKETS) = 4
  /\ B!Buckets = {B!BUCKETS[i] : i \in 1 .. 4}
  /\ \A i \in 1 .. 4 : B!BUCKETS[i] \in B!Buckets
  BY DEF B!BUCKETS, B!Buckets

\* No server is up and no request is under way.
THEOREM InitIInv == Init => IInv
  <1> SUFFICES ASSUME Init PROVE IInv
    OBVIOUS
  <1>1. /\ server = [s \in Server |-> "down"] /\ next = [s \in Server |-> 1]
        /\ bucket = {} /\ pc = [c \in Slot |-> "idle"]
    BY DEF Init, B!Init, F!Init
  <1>2. B!TypeOK
    BY <1>1, FourBuckets DEF B!TypeOK
  <1>3. StagesOK /\ SetupDone /\ RequestsFindBuckets
    BY <1>1 DEF StagesOK, SetupDone, RequestsFindBuckets
  <1> QED BY <1>2, <1>3 DEF IInv

\* A step that creates no bucket and starts no request keeps what requests
\* rely on.
LEMMA RequestsKeepBuckets ==
  ASSUME RequestsFindBuckets, bucket \subseteq bucket',
         \A c \in Slot : pc'[c] # "idle" => pc[c] # "idle"
  PROVE  RequestsFindBuckets'
  BY DEF RequestsFindBuckets, B!Buckets, B!BUCKETS

\* Every step keeps the invariant, one step of the proof per action.
THEOREM NextIInv == IInv /\ [Next]_vars => IInv'
  <1> SUFFICES ASSUME IInv, [Next]_vars PROVE IInv'
    OBVIOUS
  <1> USE FourBuckets
  <1>1. ASSUME NEW s \in Server, B!Start(s), pc' = pc PROVE IInv'
    <2>1. /\ server' = [server EXCEPT ![s] = "setup"]
          /\ next' = [next EXCEPT ![s] = 1] /\ bucket' = bucket
      BY <1>1 DEF B!Start
    <2>2. B!TypeOK'
      BY <2>1 DEF IInv, B!TypeOK
    <2>3. StagesOK' /\ SetupDone'
      BY <1>1, <2>1 DEF IInv, StagesOK, B!TypeOK, SetupDone
    <2>4. RequestsFindBuckets'
      BY <1>1, <2>1, RequestsKeepBuckets DEF IInv
    <2> QED BY <2>2, <2>3, <2>4 DEF IInv
  <1>2. ASSUME NEW s \in Server, B!CreateBucket(s), pc' = pc PROVE IInv'
    <2>1. /\ next[s] \in 1 .. 4 /\ server[s] = "setup" /\ server' = server
          /\ next' = [next EXCEPT ![s] = @ + 1]
          /\ bucket' = bucket \cup {B!BUCKETS[next[s]]}
      BY <1>2 DEF IInv, B!TypeOK, B!CreateBucket, B!Creating
    <2>2. B!TypeOK'
      BY <2>1 DEF IInv, B!TypeOK
    <2>3. StagesOK' /\ SetupDone'
      BY <1>2, <2>1 DEF IInv, StagesOK, B!TypeOK, SetupDone
    <2>4. RequestsFindBuckets'
      BY <1>2, <2>1, RequestsKeepBuckets DEF IInv
    <2> QED BY <2>2, <2>3, <2>4 DEF IInv
  <1>3. ASSUME NEW s \in Server, B!CreateBucketFailed(s), pc' = pc PROVE IInv'
    <2>1. /\ next[s] \in 1 .. 4 /\ next' = next
          /\ server' = [server EXCEPT ![s] = "down"]
          /\ bucket' = bucket \/ bucket' = bucket \cup {B!BUCKETS[next[s]]}
      BY <1>3 DEF IInv, B!TypeOK, B!CreateBucketFailed, B!Creating
    <2>2. B!TypeOK'
      BY <2>1 DEF IInv, B!TypeOK
    <2>3. StagesOK' /\ SetupDone'
      BY <1>3, <2>1 DEF IInv, StagesOK, B!TypeOK, SetupDone
    <2>4. RequestsFindBuckets'
      BY <1>3, <2>1, RequestsKeepBuckets DEF IInv
    <2> QED BY <2>2, <2>3, <2>4 DEF IInv
  <1>4. ASSUME NEW s \in Server, B!Listen(s), pc' = pc PROVE IInv'
    <2>1. /\ next[s] > 4 /\ next' = next /\ bucket' = bucket
          /\ \E to \in {"down", "serving"} : server' = [server EXCEPT ![s] = to]
      BY <1>4 DEF B!Listen
    <2>2. B!TypeOK'
      BY <2>1 DEF IInv, B!TypeOK
    <2>3. StagesOK' /\ SetupDone'
      BY <1>4, <2>1 DEF IInv, StagesOK, B!TypeOK, SetupDone
    <2>4. RequestsFindBuckets'
      BY <1>4, <2>1, RequestsKeepBuckets DEF IInv
    <2> QED BY <2>2, <2>3, <2>4 DEF IInv
  <1>5. ASSUME NEW s \in Server, Crash(s) PROVE IInv'
    <2>1. /\ next' = next /\ bucket' = bucket
          /\ server' = [server EXCEPT ![s] = "down"]
          /\ StagesOK' /\ \A c \in Slot : pc'[c] # "idle" => pc[c] # "idle"
      BY <1>5 DEF IInv, StagesOK, Crash, B!Crash, F!Drop
    <2>2. B!TypeOK'
      BY <2>1 DEF IInv, B!TypeOK
    <2>3. StagesOK' /\ SetupDone'
      BY <2>1 DEF IInv, StagesOK, B!TypeOK, SetupDone
    <2>4. RequestsFindBuckets'
      BY <2>1, RequestsKeepBuckets DEF IInv
    <2> QED BY <2>1, <2>2, <2>3, <2>4 DEF IInv
  <1>6. ASSUME NEW c \in Slot, NEW s \in Server, Accept(c, s) PROVE IInv'
    <2>1. server[s] = "serving" /\ UNCHANGED <<server, next, bucket>>
      BY <1>6 DEF Accept, bootVars
    <2>2. next[s] > 4 /\ next[s] \in Nat
      BY <2>1 DEF IInv, SetupDone, B!TypeOK
    <2>3. B!Buckets \subseteq bucket
      BY <2>2 DEF IInv, SetupDone
    <2>4. B!TypeOK' /\ SetupDone'
      BY <2>1 DEF IInv, B!TypeOK, SetupDone
    <2>6. StagesOK'
      BY <1>6 DEF IInv, StagesOK, Accept, F!GetUserfiles, F!DeleteUserfile,
                  F!StartDownload, F!Start
    <2>5. RequestsFindBuckets'
      BY <2>1, <2>3 DEF RequestsFindBuckets, B!Buckets, B!BUCKETS
    <2> QED BY <2>4, <2>5, <2>6 DEF IInv
  <1>7. ASSUME UNCHANGED bootVars, StagesOK',
               \A c \in Slot : pc'[c] # "idle" => pc[c] # "idle"
        PROVE  IInv'
    <2>1. B!TypeOK' /\ SetupDone'
      BY <1>7 DEF IInv, B!TypeOK, SetupDone, bootVars
    <2> QED BY <1>7, <2>1, RequestsKeepBuckets DEF IInv, bootVars
  <1>8. ASSUME NEW c \in Slot, Progress(c)
        PROVE  StagesOK' /\ \A d \in Slot : pc'[d] # "idle" => pc[d] # "idle"
    BY <1>8 DEF IInv, StagesOK, Progress, F!ListObjects, F!DeleteObject, F!Fail, F!Return
  <1>9. CASE \E c \in Slot : Progress(c)
    BY <1>7, <1>8, <1>9 DEF Progress
  <1>10. CASE \E k \in F!Key : StoreObject(k)
    BY <1>7, <1>10 DEF IInv, StagesOK, StoreObject, F!StoreObject
  <1>11. CASE UNCHANGED vars
    BY <1>7, <1>11 DEF IInv, StagesOK, vars, bootVars, fileVars
  <1>12. ASSUME NEW s \in Server, Run(s) PROVE IInv'
    BY <1>1, <1>2, <1>3, <1>4, <1>12 DEF Run, B!Run, fileVars
  <1> QED BY <1>5, <1>6, <1>9, <1>10, <1>11, <1>12 DEF Next

\* Every reachable state satisfies the invariant.
LEMMA Invariance == Spec => []IInv
  BY InitIInv, NextIInv, PTL DEF Spec

\* However many servers set up, fail and start again: a request that runs
\* finds every bucket.
THEOREM BucketsAreThere == Spec => []RequestsFindBuckets
  <1>1. IInv => RequestsFindBuckets
    BY DEF IInv
  <1> QED BY <1>1, Invariance, PTL
=============================================================================
