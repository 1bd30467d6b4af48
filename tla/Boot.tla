-------------------------------- MODULE Boot --------------------------------
(***************************************************************************)
(* Servers starting, stopping and starting again: main (genbu/src/main.rs) *)
(* and the bucket setup of S3Store (genbu/src/connectors/s3/mod.rs).       *)
(*                                                                         *)
(* Each server creates the buckets one by one before it listens; any       *)
(* number of them may be at it, and each can fail or die half way.  All of *)
(* them use the S3 of their own machine and one port.                      *)
(***************************************************************************)
EXTENDS Naturals, Sequences

CONSTANT Server   \* processes, old ones and new ones

VARIABLES
  server,   \* how far each process has got
  next,     \* the bucket each process creates next
  bucket    \* the buckets there are

\* const BUCKETS
BUCKETS == <<"UserFiles", "VideoFiles", "NotebookFiles", "ProfileImages">>
Buckets == {BUCKETS[i] : i \in DOMAIN BUCKETS}

TypeOK ==
  /\ server \in [Server -> {"down", "setup", "serving"}]
  /\ next \in [Server -> 1 .. Len(BUCKETS) + 1]
  /\ bucket \in SUBSET Buckets

Init ==
  /\ server = [s \in Server |-> "down"]
  /\ next = [s \in Server |-> 1]
  /\ bucket = {}

\* main up to s3_store.setup()
Start(s) ==
  /\ server[s] = "down"
  /\ server' = [server EXCEPT ![s] = "setup"]
  /\ next' = [next EXCEPT ![s] = 1]
  /\ UNCHANGED bucket

Creating(s) == server[s] = "setup" /\ next[s] <= Len(BUCKETS)

\* Deliberately wrong variant, for mutation testing: setup is over at the
\* first bucket that is there already.
CreateUnlessSetUp(s) ==
  /\ Creating(s)
  /\ bucket' = bucket \cup {BUCKETS[next[s]]}
  /\ next' = [next EXCEPT ![s] = IF BUCKETS[@] \in bucket
                                   THEN Len(BUCKETS) + 1 ELSE @ + 1]
  /\ UNCHANGED server

\* create_bucket: a bucket that is there already is as good as a new one.
CreateBucket(s) ==
  /\ Creating(s)
  /\ bucket' = bucket \cup {BUCKETS[next[s]]}
  /\ next' = [next EXCEPT ![s] = @ + 1]
  /\ UNCHANGED server

\* Deliberately wrong variant, for mutation testing: a call that fails is
\* skipped, one too many included.
SkipBucket(s) ==
  /\ server[s] = "setup"
  /\ next' = [next EXCEPT ![s] = @ + 1]
  /\ UNCHANGED <<server, bucket>>

\* setup().expect() panics.  The bucket may have been created all the same.
CreateBucketFailed(s) ==
  /\ Creating(s)
  /\ \/ UNCHANGED bucket
     \/ bucket' = bucket \cup {BUCKETS[next[s]]}
  /\ server' = [server EXCEPT ![s] = "down"]
  /\ UNCHANGED next

\* GenbuServer::start: Server::bind panics when the port is in use.
Listen(s) ==
  /\ server[s] = "setup" /\ next[s] > Len(BUCKETS)
  /\ server' = [server EXCEPT ![s] =
                  IF \E t \in Server : server[t] = "serving"
                    THEN "down" ELSE "serving"]
  /\ UNCHANGED <<next, bucket>>

\* The process dies, or cannot go on for another reason.
Crash(s) ==
  /\ server[s] # "down"
  /\ server' = [server EXCEPT ![s] = "down"]
  /\ UNCHANGED <<next, bucket>>

Run(s) == Start(s) \/ CreateBucket(s) \/ CreateBucketFailed(s) \/ Listen(s)
=============================================================================
