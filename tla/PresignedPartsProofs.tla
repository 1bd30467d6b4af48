------------------------ MODULE PresignedPartsProofs ------------------------
(***************************************************************************)
(* Proofs about PresignedParts, for any file size, chunk size and limit.   *)
(***************************************************************************)
EXTENDS PresignedParts, TLAPS

\* Integer division by the chunk size, in the form the proofs use it.
LEMMA Division ==
  ASSUME NEW n \in Nat
  PROVE  /\ n \div ChunkSize \in Nat /\ n % ChunkSize \in 0..(ChunkSize - 1)
         /\ n = ChunkSize * (n \div ChunkSize) + (n % ChunkSize)
  <1>1. n \div ChunkSize \in Nat
    BY ChunkAssumption
  <1>2. n % ChunkSize \in 0..(ChunkSize - 1)
    BY ChunkAssumption
  <1>3. n = ChunkSize * (n \div ChunkSize) + (n % ChunkSize)
    BY ChunkAssumption
  <1> QED BY <1>1, <1>2, <1>3

\* One chunk more holds ChunkSize bytes more.
LEMMA Distribution ==
  ASSUME NEW q \in Nat
  PROVE  (q + 1) * ChunkSize = ChunkSize * q + ChunkSize
  BY ChunkAssumption

\* chunk_count is positive, and that many chunks hold the file with none to
\* spare.
THEOREM ChunkCountCovers ==
  ASSUME NEW n \in Nat
  PROVE  ChunkCount(n) \in Nat \ {0} /\ Covers(ChunkCount(n), n)
  <1> DEFINE q == n \div ChunkSize
             r == n % ChunkSize
  <1>1. q \in Nat /\ r \in 0..(ChunkSize - 1) /\ n = ChunkSize * q + r
    BY Division
  <1>a. ChunkCount(n) = WithoutEmptyChunk(q + 1, r)
    BY DEF ChunkCount
  <1> HIDE DEF q, r
  <1>2. ChunkCount(n) = IF q > 0 /\ r = 0 THEN q ELSE q + 1
    BY <1>1, <1>a DEF WithoutEmptyChunk
  <1>3. CASE q > 0 /\ r = 0
    <2>1. PICK p \in Nat : q = p + 1
      BY <1>1, <1>3
    <2>2. q * ChunkSize = ChunkSize * p + ChunkSize
      BY <2>1, Distribution
    <2>3. ChunkSize * q = q * ChunkSize /\ p * ChunkSize = ChunkSize * p
      BY <1>1, <2>1, ChunkAssumption
    <2>4. ChunkSize * p \in Nat
      BY <2>1, ChunkAssumption
    <2>5. n = q * ChunkSize /\ n > p * ChunkSize
      BY <1>1, <1>3, <2>2, <2>3, <2>4, ChunkAssumption
    <2> QED BY <1>1, <1>2, <1>3, <2>1, <2>5 DEF Covers
  <1>4. CASE ~(q > 0 /\ r = 0)
    <2>1. (q + 1) * ChunkSize = ChunkSize * q + ChunkSize
      BY <1>1, Distribution
    <2>2. ChunkSize * q = q * ChunkSize /\ ChunkSize * q \in Nat
      BY <1>1, ChunkAssumption
    <2>3. n <= (q + 1) * ChunkSize
      BY <1>1, <2>1, <2>2, ChunkAssumption
    <2>4. q > 0 => n > q * ChunkSize
      BY <1>1, <1>4, <2>2, ChunkAssumption
    <2> QED BY <1>1, <1>2, <1>4, <2>3, <2>4 DEF Covers
  <1> QED BY <1>3, <1>4

-----------------------------------------------------------------------------
(***************************************************************************)
(* The inductive invariant: while the URLs are signed, the numbers so far  *)
(* are consecutive, and no more than the count the size calls for.         *)
(***************************************************************************)
Consecutive == \A k \in 1..Len(parts) : parts[k] = k

IInv ==
  /\ TypeOK
  /\ Consecutive
  /\ stage \in {"check", "create"} => parts = << >>
  /\ stage \in {"presign", "done"} =>
       count = ChunkCount(size) /\ Len(parts) <= count
  /\ stage = "done" => Len(parts) = count

\* A request whose size was not checked yet satisfies the invariant.
THEOREM InitIInv == Init => IInv
  BY SizeAssumption DEF Init, IInv, TypeOK, Consecutive

\* Every step of post and of its loop over the chunks keeps the invariant.
THEOREM NextIInv == IInv /\ [Next]_vars => IInv'
  <1> SUFFICES ASSUME IInv, [Next]_vars PROVE IInv'
    OBVIOUS
  <1> USE DEF IInv, TypeOK, Consecutive
  <1>1. CASE TooLarge
    BY <1>1 DEF TooLarge
  <1>2. CASE AddLease
    BY <1>2 DEF AddLease
  <1>3. CASE CreateMultipart
    <2>1. ChunkCount(size) \in Nat \ {0}
      BY ChunkCountCovers
    <2> QED BY <1>3, <2>1 DEF CreateMultipart
  <1>4. CASE PresignPart
    <2>1. parts' \in Seq(Nat) /\ Len(parts') = Len(parts) + 1
      BY <1>4 DEF PresignPart, PartNumber
    <2>2. \A k \in 1..Len(parts') : parts'[k] = k
      BY <1>4, <2>1 DEF PresignPart, PartNumber
    <2> QED BY <1>4, <2>1, <2>2 DEF PresignPart
  <1>5. CASE Done
    BY <1>5 DEF Done
  <1>6. CASE Fail
    BY <1>6 DEF Fail
  <1>7. CASE UNCHANGED vars
    BY <1>7 DEF vars
  <1> QED BY <1>1, <1>2, <1>3, <1>4, <1>5, <1>6, <1>7 DEF Next

\* Every reachable state satisfies the invariant.
LEMMA Invariance == Spec => []IInv
  BY InitIInv, NextIInv, PTL DEF Spec

\* TypeOK holds for any sizes.
THEOREM TypeCorrect == Spec => []TypeOK
  <1>1. IInv => TypeOK
    BY DEF IInv
  <1> QED BY <1>1, Invariance, PTL

\* A client that gets its URLs can upload the whole file with them, and needs
\* them all, whatever the sizes.
THEOREM PartsCover == Spec => []PartsCoverFile
  <1>1. IInv => PartsCoverFile
    BY ChunkCountCovers DEF IInv, TypeOK, Consecutive, PartsCoverFile
  <1> QED BY <1>1, Invariance, PTL
=============================================================================
