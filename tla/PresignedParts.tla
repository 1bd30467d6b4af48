--------------------------- MODULE PresignedParts ---------------------------
(***************************************************************************)
(* The parts of a multipart upload: the size checks of post                *)
(* (genbu/src/handler/files/upload.rs) and get_presigned_upload_urls       *)
(* (genbu/src/connectors/s3/storage.rs), which signs one URL for each      *)
(* chunk of the file.                                                      *)
(***************************************************************************)
EXTENDS Integers, Sequences

CONSTANTS
  MaxFileSize,   \* MAX_FILE_SIZE
  ChunkSize,     \* CHUNK_SIZE
  MaxRequest     \* bound on the sizes asked for

ASSUME SizeAssumption == MaxFileSize \in Nat /\ MaxRequest \in Nat
ASSUME ChunkAssumption == ChunkSize \in Nat \ {0}

VARIABLES
  stage,   \* what post does next
  size,    \* the size asked for, which the lease keeps
  count,   \* chunk_count
  parts    \* the part numbers for which a URL was signed, in order

vars == <<stage, size, count, parts>>

TypeOK ==
  /\ stage \in {"check", "create", "presign", "done", "rejected", "failed"}
  /\ size \in Nat
  /\ count \in Nat
  /\ parts \in Seq(Nat)

Init ==
  /\ stage = "check"
  /\ size \in 0..MaxRequest
  /\ count = 0
  /\ parts = << >>

\* Deliberately wrong variant, for mutation testing: the empty chunk after the
\* last full one is kept.
KeepEmptyChunk(chunks, last) == chunks

\* The chunk after the full ones is dropped when it is empty, unless it is
\* the only one: an empty file has one empty chunk.
WithoutEmptyChunk(chunks, last) ==
  IF chunks > 1 /\ last = 0 THEN chunks - 1 ELSE chunks

\* chunk_count
ChunkCount(n) == WithoutEmptyChunk(n \div ChunkSize + 1, n % ChunkSize)

\* size > MAX_FILE_SIZE
TooLarge ==
  /\ stage = "check" /\ size > MaxFileSize
  /\ stage' = "rejected"
  /\ UNCHANGED <<size, count, parts>>

\* The size is added to the lease, and read back from it.
AddLease ==
  /\ stage = "check" /\ size <= MaxFileSize
  /\ stage' = "create"
  /\ UNCHANGED <<size, count, parts>>

\* chunk_count, then create_multipart_upload
CreateMultipart ==
  /\ stage = "create"
  /\ count' = ChunkCount(size)
  /\ stage' = "presign"
  /\ UNCHANGED <<size, parts>>

\* Deliberately wrong variant, for mutation testing.
PartNumberBackwards(index) == index - 1

\* S3 numbers parts from 1.
PartNumber(index) == index + 1

\* for chunk_index in 0..chunk_count.  MAX_FILE_SIZE is 100 chunks, so the
\* index fits an i32.
PresignPart ==
  /\ stage = "presign" /\ Len(parts) < count
  /\ parts' = Append(parts, PartNumber(Len(parts)))
  /\ UNCHANGED <<stage, size, count>>

\* The loop is through: the URLs are sent to the client.
Done ==
  /\ stage = "presign" /\ Len(parts) >= count
  /\ stage' = "done"
  /\ UNCHANGED <<size, count, parts>>

\* A store call or a signature fails; the multipart upload, if there is one,
\* stays open.
Fail ==
  /\ stage \in {"check", "create", "presign"}
  /\ stage = "check" => size <= MaxFileSize
  /\ stage' = "failed"
  /\ UNCHANGED <<size, count, parts>>

Next ==
  TooLarge \/ AddLease \/ CreateMultipart \/ PresignPart \/ Done \/ Fail

Spec == Init /\ [][Next]_vars

-----------------------------------------------------------------------------
\* n chunks hold a file of s bytes, with no chunk to spare.
Covers(n, s) == s <= n * ChunkSize /\ (n > 1 => s > (n - 1) * ChunkSize)

\* The URLs a client gets are numbered from 1 without gaps, hold the whole
\* file at ChunkSize bytes each, and none is left over.
PartsCoverFile ==
  stage = "done" =>
    /\ Len(parts) > 0 /\ \A k \in 1..Len(parts) : parts[k] = k
    /\ Covers(Len(parts), size)
=============================================================================
