------------------------------ MODULE FileServer ------------------------------
(***************************************************************************)
(* Requests for files on servers that come and go: UserFiles behind the    *)
(* servers of Boot.  A request runs on the server that accepted it and     *)
(* dies with it; buckets and objects stay.                                 *)
(***************************************************************************)
EXTENDS Naturals, FiniteSets, SequencesExt

CONSTANTS Server, User, Name, Base, PageSize, Slot, NULL

ASSUME PageAssumption == PageSize \in Nat \ {0}
\* User ids are UUIDs: all of one length.
ASSUME UserAssumption ==
  /\ \A u \in User : u \in Seq(Nat)
  /\ \A u, v \in User : Len(u) = Len(v)
ASSUME PathAssumption == \A p \in Name \cup Base : p \in Seq(Nat)

VARIABLES
  server, next, bucket,   \* Boot
  object, pc, job, ans,   \* UserFiles
  host                    \* the server that runs each slot's request

B == INSTANCE Boot
F == INSTANCE UserFiles

bootVars == <<server, next, bucket>>
fileVars == <<object, pc, job, ans>>
vars == <<bootVars, fileVars, host>>

TypeOK ==
  /\ B!TypeOK
  /\ F!TypeOK
  /\ host \in [Slot -> Server \cup {NULL}]

Init == B!Init /\ F!Init /\ host = [c \in Slot |-> NULL]

-----------------------------------------------------------------------------
\* A server that listens takes a request.
Accept(c, s) ==
  /\ server[s] = "serving"
  /\ \E u \in User :
       \/ \E b \in Base : F!GetUserfiles(c, u, b)
       \/ \E n \in Name : \/ F!DeleteUserfile(c, u, n)
                          \/ \E b \in B!Buckets : F!StartDownload(c, u, n, b)
  /\ host' = [host EXCEPT ![c] = s]
  /\ UNCHANGED bootVars

\* S3 finds the bucket, or answers NoSuchBucket, which is a failure.
Progress(c) ==
  /\ \/ "UserFiles" \in bucket /\ (F!ListObjects(c) \/ F!DeleteObject(c))
     \/ F!Fail(c)
  /\ UNCHANGED <<bootVars, host>>

StoreObject(k) ==
  /\ "UserFiles" \in bucket
  /\ F!StoreObject(k)
  /\ UNCHANGED <<bootVars, host>>

Run(s) ==
  /\ B!Run(s)
  /\ UNCHANGED <<fileVars, host>>

Crash(s) ==
  /\ B!Crash(s)
  /\ F!Drop({c \in Slot : host[c] = s})
  /\ UNCHANGED host

Next ==
  \/ \E s \in Server : \/ Run(s) \/ Crash(s)
                       \/ \E c \in Slot : Accept(c, s)
  \/ \E c \in Slot : Progress(c)
  \/ \E k \in F!Key : StoreObject(k)

Spec == Init /\ [][Next]_vars

-----------------------------------------------------------------------------
(***************************************************************************)
(* Properties.                                                             *)
(***************************************************************************)

\* Wherever a request runs every bucket is there, however many servers set
\* up at once and wherever an earlier one stopped half way.
RequestsFindBuckets ==
  \A c \in Slot : pc[c] # "idle" => B!Buckets \subseteq bucket

\* What a step of slot c lists: the entries it answers with, as keys.
Lists(c) == pc[c] = "list" /\ ans'[c].res = "ok"
ListedKey(c, f) == F!BuildPath(job[c].user, f.name)

\* The names a listing answers with are names the user can delete, download
\* and list with: each names the file or the folder that was found, whatever
\* path was listed.
NamesRoundTrip ==
  [][\A c \in Slot : Lists(c) =>
       \A f \in ans'[c].files :
         IF f.is_folder
           THEN \E k \in object : IsStrictPrefix(ListedKey(c, f), k)
                                  \/ ListedKey(c, f) = k
           ELSE ListedKey(c, f) \in object]_vars

\* What an answer of slot c shows: the file itself, or a folder it is in that
\* is longer than the path that was listed.
Shows(c, f, k) ==
  IF f.is_folder
    THEN IsPrefix(ListedKey(c, f), k) /\ IsStrictPrefix(job[c].path, f.name)
    ELSE ListedKey(c, f) = k

\* Listings do not say that they are cut short, but they are cut at the end
\* only: of what is under the path, files and folders together, nothing is
\* left out that comes before something that is shown.
OnlyTheEndIsMissing ==
  [][\A c \in Slot : Lists(c) =>
       \A f \in ans'[c].files, k \in object :
         /\ IsPrefix(F!BuildPath(job[c].user, job[c].path), k)
         /\ F!Before(k, ListedKey(c, f))
         => \E g \in ans'[c].files : Shows(c, g, k)]_vars
=============================================================================
