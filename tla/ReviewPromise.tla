---------------------------- MODULE ReviewPromise ----------------------------
(***************************************************************************)
(* What a pull_request webhook promises, without workers, queue or rows:   *)
(* a head is reviewed because an event asked for it, its review is posted  *)
(* once unless an attempt failed, and what the database records as a       *)
(* review was posted.                                                      *)
(***************************************************************************)
EXTENDS Naturals

CONSTANT Heads

VARIABLES
  requested,  \* heads some event asked a review of
  posts,      \* posts[h]: postings to GitHub
  reviews,    \* reviews[h]: reviews recorded
  failed      \* heads with a failed attempt

vars == <<requested, posts, reviews, failed>>

Init ==
  /\ requested = {}
  /\ posts   = [h \in Heads |-> 0]
  /\ reviews = [h \in Heads |-> 0]
  /\ failed  = {}

Request(h) ==
  /\ requested' = requested \cup {h}
  /\ UNCHANGED <<posts, reviews, failed>>

\* A second posting needs an attempt that failed.
Post(h) ==
  /\ h \in requested
  /\ posts[h] = 0 \/ h \in failed
  /\ posts' = [posts EXCEPT ![h] = @ + 1]
  /\ UNCHANGED <<requested, reviews, failed>>

Record(h) ==
  /\ reviews[h] < posts[h]
  /\ reviews' = [reviews EXCEPT ![h] = @ + 1]
  /\ UNCHANGED <<requested, posts, failed>>

Fail(h) ==
  /\ h \in requested
  /\ failed' = failed \cup {h}
  /\ UNCHANGED <<requested, posts, reviews>>

Next == \E h \in Heads : Request(h) \/ Post(h) \/ Record(h) \/ Fail(h)

Spec == Init /\ [][Next]_vars
=============================================================================
