------------------------------ MODULE UserFiles ------------------------------
(***************************************************************************)
(* Listing, deleting and downloading a user's files:                       *)
(* genbu/src/handler/files/userfiles.rs and download.rs over the           *)
(* Filesystem of S3Store (genbu/src/connectors/s3/filesystem.rs).          *)
(*                                                                         *)
(* There are no folders in S3: keys are sequences of characters, a listing *)
(* selects those with a prefix and folds what follows a delimiter, and it  *)
(* comes in pages of which the code reads the first.                       *)
(***************************************************************************)
EXTENDS Naturals, FiniteSets, SequencesExt

CONSTANTS
  User,       \* user ids as they are written: sequences of one length
  Name,       \* paths of files as clients know them
  Base,       \* paths clients list
  PageSize,   \* entries of one page of a listing, 1000 in S3
  Slot,       \* handlers that can be in flight at once
  NULL

VARIABLES
  object,   \* the keys in the bucket of user files
  pc, job,  \* the S3 call each handler runs next, and its request
  ans       \* the answer of the last request of each slot

\* Characters are their code points.
Sep == 92

BuildPath(u, path) == u \o <<Sep>> \o path
Key == {BuildPath(u, n) : u \in User, n \in Name}

Userfile == [name : Seq(Nat), is_folder : BOOLEAN]
Job == [user : User, path : Name \cup Base]
Answer == [res : {"none", "ok", "redirect", "panic", "error"},
           files : SUBSET Userfile, key : Key \cup {NULL}]

TypeOK ==
  /\ object \in SUBSET Key
  /\ pc \in [Slot -> {"idle", "list", "delete"}]
  /\ job \in [Slot -> Job \cup {NULL}]
  /\ ans \in [Slot -> Answer]

Init ==
  /\ object = {}
  /\ pc = [c \in Slot |-> "idle"]
  /\ job = [c \in Slot |-> NULL]
  /\ ans = [c \in Slot |-> [res |-> "none", files |-> {}, key |-> NULL]]

-----------------------------------------------------------------------------
(***************************************************************************)
(* ListObjectsV2.                                                          *)
(***************************************************************************)
After(k, prefix) == SubSeq(k, Len(prefix) + 1, Len(k))

\* The key up to the first delimiter after the prefix.
CommonPrefix(k, prefix) ==
  LET n == SelectInSeq(After(k, prefix), LAMBDA x : x = Sep)
  IN  SubSeq(k, 1, Len(prefix) + n)

Entries(keys, prefix) ==
  LET found == {k \in keys : IsPrefix(prefix, k)}
      inside == {k \in found : Contains(After(k, prefix), Sep)}
  IN  {[name |-> k, is_folder |-> FALSE] : k \in found \ inside}
        \cup {[name |-> CommonPrefix(k, prefix), is_folder |-> TRUE] : k \in inside}

\* Keys are listed in the order of their bytes.
Before(k, l) ==
  \E n \in 0 .. Len(k) :
    /\ n < Len(l) /\ SubSeq(k, 1, n) = SubSeq(l, 1, n)
    /\ n = Len(k) \/ k[n + 1] < l[n + 1]

\* A page starts with the first entry and stops after any: S3 fills it or
\* cuts it short as it likes.
Pages(entries) ==
  {page \in SUBSET entries :
     /\ Cardinality(page) <= PageSize
     /\ \A e \in page, d \in entries : Before(d.name, e.name) => d \in page}

-----------------------------------------------------------------------------
(***************************************************************************)
(* The handlers.                                                           *)
(***************************************************************************)
Answered(c, res, files, key) ==
  ans' = [ans EXCEPT ![c] = [res |-> res, files |-> files, key |-> key]]

Start(c, stage, u, path) ==
  /\ pc[c] = "idle"
  /\ pc' = [pc EXCEPT ![c] = stage]
  /\ job' = [job EXCEPT ![c] = [user |-> u, path |-> path]]
  /\ Answered(c, "none", {}, NULL)
  /\ UNCHANGED object

Return(c, res, files) ==
  /\ pc' = [pc EXCEPT ![c] = "idle"]
  /\ Answered(c, res, files, NULL)
  /\ UNCHANGED job

GetUserfiles(c, u, base) == Start(c, "list", u, base)
DeleteUserfile(c, u, path) == Start(c, "delete", u, path)

\* start_download signs a URL without asking S3; other buckets are not
\* implemented and panic.
StartDownload(c, u, path, bucket) ==
  /\ pc[c] = "idle"
  /\ IF bucket = "UserFiles"
       THEN Answered(c, "redirect", {}, BuildPath(u, path))
       ELSE Answered(c, "panic", {}, NULL)
  /\ job' = [job EXCEPT ![c] = [user |-> u, path |-> path]]
  /\ UNCHANGED <<object, pc>>

\* Deliberately wrong variant, for mutation testing: names are relative to
\* the path that was listed.
StrippedOfBase(u, base, k) == After(k, BuildPath(u, base))

\* What get_userfiles cuts off: the user's own prefix, whatever was listed.
Stripped(u, base, k) == After(k, BuildPath(u, <<>>))

\* Deliberately wrong variant, for mutation testing: folders are forgotten.
ListedFiles(u, base) ==
  {{e \in page : ~e.is_folder} : page \in Pages(Entries(object, BuildPath(u, base)))}

\* list reads one page: is_truncated is ignored.
Listed(u, base) == Pages(Entries(object, BuildPath(u, base)))

ListObjects(c) ==
  /\ pc[c] = "list"
  /\ LET u == job[c].user
         base == job[c].path
     IN  \E page \in Listed(u, base) :
           Return(c, "ok", {[e EXCEPT !.name = Stripped(u, base, @)] : e \in page})
  /\ UNCHANGED object

\* delete_object succeeds whether there is such a key or not; the reply can
\* be lost.
DeleteObject(c) ==
  /\ pc[c] = "delete"
  /\ object' = object \ {BuildPath(job[c].user, job[c].path)}
  /\ \E res \in {"ok", "error"} : Return(c, res, {})

\* An S3 call fails.
Fail(c) ==
  /\ pc[c] # "idle"
  /\ Return(c, "error", {})
  /\ UNCHANGED object

\* The requests in D are dropped with the server that ran them.
Drop(D) ==
  /\ pc' = [c \in Slot |-> IF c \in D THEN "idle" ELSE pc[c]]
  /\ ans' = [c \in Slot |-> IF c \in D /\ pc[c] # "idle"
                              THEN [ans[c] EXCEPT !.res = "error"] ELSE ans[c]]
  /\ UNCHANGED <<object, job>>

\* A multipart upload completes (see Uploads); S3 does that by itself once it
\* is asked to.
StoreObject(k) ==
  /\ object' = object \cup {k}
  /\ UNCHANGED <<pc, job, ans>>
=============================================================================
