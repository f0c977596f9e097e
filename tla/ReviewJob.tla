------------------------------ MODULE ReviewJob ------------------------------
(***************************************************************************)
(* The Celery job process_pr_review (backend/app/tasks/review_job.py) and  *)
(* what it shares with its copies on other workers: the pull_requests row  *)
(* of a head (repository, PR number, commit), the broker's queue, the      *)
(* reviews posted to GitHub and the reviews saved in the database.         *)
(*                                                                         *)
(* A worker's local state is its delivery, its program counter and the row *)
(* status its open transaction has read.  Transactions run READ COMMITTED: *)
(* the SELECT and the COMMIT of update_pr_status and of                    *)
(* save_review_and_findings are two steps, and rows are neither versioned  *)
(* nor locked.  What the pipeline finds is the subject of ReviewGraph; the *)
(* debt rows of the save are the subject of DebtLedger.                    *)
(***************************************************************************)
EXTENDS Naturals, FiniteSets

CONSTANTS
  Heads,       \* (repository, PR number, commit) triples
  Workers,     \* Celery worker processes
  MaxRetries,  \* max_retries of the task, 3 in the code
  MaxEvents,   \* bound: pull_request events per head
  MaxCrashes   \* bound: worker crashes

ASSUME WorkersAssumption == IsFiniteSet(Workers)

ASSUME BoundsAssumption ==
  /\ MaxRetries \in Nat
  /\ MaxEvents \in Nat
  /\ MaxCrashes \in Nat

VARIABLES
  registered,  \* heads whose repository has a repos row
  events,      \* events[h]: pull_request events accepted for h
  crashes,     \* worker crashes so far
  queue,       \* queue[h][n]: ready messages for h that were retried n times
  row,         \* row[h]: the status of the pull_requests row
  posts,       \* posts[h]: post_findings_to_github calls that returned
  reviews,     \* reviews[h]: reviews rows of h
  pc,          \* pc[w]: the next step of the task that w runs
  job,         \* job[w]: the delivery w holds unacknowledged
  seen,        \* seen[w]: the row status w's transaction has read
  failedOnce,  \* history: heads some attempt has marked failed
  orphaned,    \* history: heads whose claim a crash has left
  unmarked,    \* history: heads with a failed attempt that was not marked failed
  exhausted,   \* history: heads with a message out of retries
  dropped      \* history: heads with a job ended because the repository was unknown

brokerVars  == <<registered, events, crashes, queue>>
dbVars      == <<row, posts, reviews>>
workerVars  == <<pc, job, seen>>
historyVars == <<failedOnce, orphaned, unmarked, exhausted, dropped>>
vars == <<brokerVars, dbVars, workerVars, historyVars>>

-----------------------------------------------------------------------------
(* Types.  No code path writes the status "queued" that the table's CHECK *)
(* allows; "absent" is the missing row.                                   *)

Status   == {"absent", "processing", "completed", "failed"}
Attempt  == 0 .. MaxRetries
NoJob    == [head |-> "none", retries |-> 0]
Delivery == [head : Heads, retries : Attempt]

\* Steps before the claim, steps that hold the claim, and steps after the body.
Unclaimed == {"check", "claimRead", "claimWrite"}
Body      == {"run", "post", "saveRead", "saveWrite", "doneRead", "doneWrite"}
Failing   == {"failRead", "failWrite"}
Owning    == Body \cup Failing
Ending    == {"retry", "ack"}
Busy      == Unclaimed \cup Owning \cup Ending

TypeOK ==
  /\ registered \subseteq Heads
  /\ events  \in [Heads -> 0 .. MaxEvents]
  /\ crashes \in 0 .. MaxCrashes
  /\ queue   \in [Heads -> [Attempt -> Nat]]
  /\ row     \in [Heads -> Status]
  /\ posts   \in [Heads -> Nat]
  /\ reviews \in [Heads -> Nat]
  /\ pc      \in [Workers -> Busy \cup {"idle"}]
  /\ job     \in [Workers -> Delivery \cup {NoJob}]
  /\ seen    \in [Workers -> Status]
  /\ failedOnce \subseteq Heads
  /\ orphaned   \subseteq Heads
  /\ unmarked   \subseteq Heads
  /\ exhausted  \subseteq Heads
  /\ dropped    \subseteq Heads

Init ==
  /\ registered \in SUBSET Heads
  /\ events  = [h \in Heads |-> 0]
  /\ crashes = 0
  /\ queue   = [h \in Heads |-> [n \in Attempt |-> 0]]
  /\ row     = [h \in Heads |-> "absent"]
  /\ posts   = [h \in Heads |-> 0]
  /\ reviews = [h \in Heads |-> 0]
  /\ pc      = [w \in Workers |-> "idle"]
  /\ job     = [w \in Workers |-> NoJob]
  /\ seen    = [w \in Workers |-> "absent"]
  /\ failedOnce = {}
  /\ orphaned   = {}
  /\ unmarked   = {}
  /\ exhausted  = {}
  /\ dropped    = {}

-----------------------------------------------------------------------------
(* Helpers                                                                 *)

HeadOf(w)   == job[w].head
Owners(h) == {w \in Workers : pc[w] \in Owning /\ HeadOf(w) = h}

Goto(w, step)       == pc' = [pc EXCEPT ![w] = step]
Enqueue(h, n)       == queue' = [queue EXCEPT ![h][n] = @ + 1]

Write(w, status) == row' = [row EXCEPT ![HeadOf(w)] = status]

\* The worker is free again; nothing of the task is left in it.
Leave(w) ==
  /\ Goto(w, "idle")
  /\ job'  = [job EXCEPT ![w] = NoJob]
  /\ seen' = [seen EXCEPT ![w] = "absent"]

\* The SELECT of a transaction: the status of the head's row is kept in the session.
Load(w) == seen' = [seen EXCEPT ![w] = row[HeadOf(w)]]

\* SQLAlchemy emits an UPDATE of status only when the assigned value differs
\* from the one it loaded.
Flush(w, status) == IF seen[w] = status THEN UNCHANGED row ELSE Write(w, status)

-----------------------------------------------------------------------------
(* Mutated actions, which the properties are tested against.               *)

\* acks_early: the message of a lost worker is gone.
CrashLosesMessage(w) ==
  /\ crashes < MaxCrashes
  /\ pc[w] # "idle"
  /\ crashes' = crashes + 1
  /\ orphaned' = IF pc[w] \in Owning THEN orphaned \cup {HeadOf(w)} ELSE orphaned
  /\ Leave(w)
  /\ UNCHANGED <<registered, events, queue, dbVars, failedOnce, unmarked, exhausted, dropped>>

\* The claim looks out for running reviews only.
ClaimReadProcessingOnly(w) ==
  /\ pc[w] = "claimRead"
  /\ Load(w)
  /\ Goto(w, IF HeadOf(w) \notin registered \/ row[HeadOf(w)] = "processing"
             THEN "ack" ELSE "claimWrite")
  /\ dropped' = IF HeadOf(w) \in registered THEN dropped ELSE dropped \cup {HeadOf(w)}
  /\ UNCHANGED <<brokerVars, dbVars, job, failedOnce, orphaned, unmarked, exhausted>>

\* The table lacks the constraint uq_pr_identity.
ClaimWriteNotUnique(w) ==
  /\ pc[w] = "claimWrite"
  /\ Goto(w, "run")
  /\ Write(w, "processing")
  /\ UNCHANGED <<brokerVars, posts, reviews, job, seen, historyVars>>

\* An error of the save is logged and not raised again.
RaiseClaimedSwallowsSave(w) ==
  /\ pc[w] \in Body
  /\ Goto(w, IF pc[w] \in {"saveRead", "saveWrite"} THEN "doneRead" ELSE "failRead")
  /\ UNCHANGED <<brokerVars, dbVars, job, seen, historyVars>>

\* The except clause lets the exception out without marking the row.
RaiseClaimedUnmarked(w) ==
  /\ pc[w] \in Body
  /\ Goto(w, "retry")
  /\ UNCHANGED <<brokerVars, dbVars, job, seen, historyVars>>

-----------------------------------------------------------------------------
(* The environment: GitHub's events, the installation handler, the broker. *)

\* The installation handlers insert the repository; it is never deleted.
Register(h) ==
  /\ h \notin registered
  /\ registered' = registered \cup {h}
  /\ UNCHANGED <<events, crashes, queue, dbVars, workerVars, historyVars>>

\* github_webhook publishes one message per pull_request event.  A redelivered
\* event is another message: a repeated task_id does not stop Celery.
PullRequestEvent(h) ==
  /\ events[h] < MaxEvents
  /\ events' = [events EXCEPT ![h] = @ + 1]
  /\ Enqueue(h, 0)
  /\ UNCHANGED <<registered, crashes, dbVars, workerVars, historyVars>>

\* A worker is delivered a message; acks_late keeps it unacknowledged.
Take(w, h, n) ==
  /\ pc[w] = "idle"
  /\ queue[h][n] > 0
  /\ queue' = [queue EXCEPT ![h][n] = @ - 1]
  /\ job' = [job EXCEPT ![w] = [head |-> h, retries |-> n]]
  /\ Goto(w, "check")
  /\ UNCHANGED <<registered, events, crashes, dbVars, seen, historyVars>>

\* The worker process dies: reject_on_worker_lost puts the message back, and
\* nothing touches the row.
Crash(w) ==
  /\ crashes < MaxCrashes
  /\ pc[w] # "idle"
  /\ crashes' = crashes + 1
  /\ Enqueue(HeadOf(w), job[w].retries)
  /\ orphaned' = IF pc[w] \in Owning THEN orphaned \cup {HeadOf(w)} ELSE orphaned
  /\ Leave(w)
  /\ UNCHANGED <<registered, events, dbVars, failedOnce, unmarked, exhausted, dropped>>

-----------------------------------------------------------------------------
(* process_pr_review                                                       *)

\* check_idempotency: a head completed or processing is skipped as a duplicate.
CheckIdempotency(w) ==
  /\ pc[w] = "check"
  /\ Goto(w, IF HeadOf(w) \in registered /\ row[HeadOf(w)] \in {"completed", "processing"}
             THEN "ack" ELSE "claimRead")
  /\ UNCHANGED <<brokerVars, dbVars, job, seen, historyVars>>

\* update_pr_status("processing") up to its decision: FALSE when the repository
\* is unknown or the row it read is taken.
ClaimRead(w) ==
  /\ pc[w] = "claimRead"
  /\ Load(w)
  /\ Goto(w, IF HeadOf(w) \notin registered \/ row[HeadOf(w)] \in {"processing", "completed"}
             THEN "ack" ELSE "claimWrite")
  /\ dropped' = IF HeadOf(w) \in registered THEN dropped ELSE dropped \cup {HeadOf(w)}
  /\ UNCHANGED <<brokerVars, dbVars, job, failedOnce, orphaned, unmarked, exhausted>>

\* Its commit.  An INSERT loses to a row that appeared since (IntegrityError on
\* uq_pr_identity); an UPDATE overwrites whatever the row holds by now.
ClaimWrite(w) ==
  /\ pc[w] = "claimWrite"
  /\ IF seen[w] = "absent" /\ row[HeadOf(w)] # "absent"
     THEN /\ Goto(w, "ack")
          /\ UNCHANGED row
     ELSE /\ Goto(w, "run")
          /\ Write(w, "processing")
  /\ UNCHANGED <<brokerVars, posts, reviews, job, seen, historyVars>>

\* ingest_pr, then graph.invoke.
RunPipeline(w) ==
  /\ pc[w] = "run"
  /\ Goto(w, "post")
  /\ UNCHANGED <<brokerVars, dbVars, job, seen, historyVars>>

\* post_findings_to_github returns: the review is posted, or GitHub's refusal of
\* it was logged and swallowed.
PostFindings(w) ==
  /\ pc[w] = "post"
  /\ posts' = [posts EXCEPT ![HeadOf(w)] = @ + 1]
  /\ Goto(w, "saveRead")
  /\ UNCHANGED <<brokerVars, row, reviews, job, seen, historyVars>>

\* save_review_and_findings: the transaction's reads (the repository and the row
\* are there since the claim) ...
SaveRead(w) ==
  /\ pc[w] = "saveRead"
  /\ Load(w)
  /\ Goto(w, "saveWrite")
  /\ UNCHANGED <<brokerVars, dbVars, job, historyVars>>

\* ... and its commit, which inserts the review and completes the row.
SaveWrite(w) ==
  /\ pc[w] = "saveWrite"
  /\ Flush(w, "completed")
  /\ reviews' = [reviews EXCEPT ![HeadOf(w)] = @ + 1]
  /\ Goto(w, "doneRead")
  /\ UNCHANGED <<brokerVars, posts, job, seen, historyVars>>

\* update_pr_status("completed").
DoneRead(w) ==
  /\ pc[w] = "doneRead"
  /\ Load(w)
  /\ Goto(w, "doneWrite")
  /\ UNCHANGED <<brokerVars, dbVars, job, historyVars>>

DoneWrite(w) ==
  /\ pc[w] = "doneWrite"
  /\ Flush(w, "completed")
  /\ Goto(w, "ack")
  /\ UNCHANGED <<brokerVars, posts, reviews, job, seen, historyVars>>

\* An exception before the claim is re-raised as it is ...
RaiseUnclaimed(w) ==
  /\ pc[w] \in Unclaimed
  /\ Goto(w, "retry")
  /\ UNCHANGED <<brokerVars, dbVars, job, seen, historyVars>>

\* ... also when the claim was committed and the connection lost before its answer ...
ClaimInDoubt(w) ==
  /\ pc[w] = "claimWrite"
  /\ seen[w] = "absent" => row[HeadOf(w)] = "absent"
  /\ Write(w, "processing")
  /\ unmarked' = unmarked \cup {HeadOf(w)}
  /\ Goto(w, "retry")
  /\ UNCHANGED <<brokerVars, posts, reviews, job, seen, failedOnce, orphaned, exhausted, dropped>>

\* ... and one in the body reaches the except clause.
RaiseClaimed(w) ==
  /\ pc[w] \in Body
  /\ Goto(w, "failRead")
  /\ UNCHANGED <<brokerVars, dbVars, job, seen, historyVars>>

\* The except clause: update_pr_status("failed") ...
FailRead(w) ==
  /\ pc[w] = "failRead"
  /\ Load(w)
  /\ Goto(w, "failWrite")
  /\ UNCHANGED <<brokerVars, dbVars, job, historyVars>>

FailWrite(w) ==
  /\ pc[w] = "failWrite"
  /\ Flush(w, "failed")
  /\ failedOnce' = failedOnce \cup {HeadOf(w)}
  /\ Goto(w, "retry")
  /\ UNCHANGED <<brokerVars, posts, reviews, job, seen,
                 orphaned, unmarked, exhausted, dropped>>

\* ... whose own exception is logged and swallowed.
LoseFailedMark(w) ==
  /\ pc[w] \in Failing
  /\ unmarked' = unmarked \cup {HeadOf(w)}
  /\ Goto(w, "retry")
  /\ UNCHANGED <<brokerVars, dbVars, job, seen, failedOnce, orphaned, exhausted, dropped>>

\* autoretry_for: publish the message again, with one more retry on it, unless
\* max_retries is reached.
Retry(w) ==
  /\ pc[w] = "retry"
  /\ IF job[w].retries < MaxRetries
     THEN /\ Enqueue(HeadOf(w), job[w].retries + 1)
          /\ UNCHANGED exhausted
     ELSE /\ exhausted' = exhausted \cup {HeadOf(w)}
          /\ UNCHANGED queue
  /\ Goto(w, "ack")
  /\ UNCHANGED <<registered, events, crashes, dbVars, job, seen,
                 failedOnce, orphaned, unmarked, dropped>>

\* The task has returned or failed for good: the message is acknowledged.
Ack(w) ==
  /\ pc[w] = "ack"
  /\ Leave(w)
  /\ UNCHANGED <<brokerVars, dbVars, historyVars>>

-----------------------------------------------------------------------------
(* Specification                                                           *)

TaskStep(w) ==
  \/ CheckIdempotency(w) \/ ClaimRead(w) \/ ClaimWrite(w)
  \/ RunPipeline(w) \/ PostFindings(w)
  \/ SaveRead(w) \/ SaveWrite(w) \/ DoneRead(w) \/ DoneWrite(w)
  \/ RaiseUnclaimed(w) \/ ClaimInDoubt(w) \/ RaiseClaimed(w)
  \/ FailRead(w) \/ FailWrite(w) \/ LoseFailedMark(w)
  \/ Retry(w) \/ Ack(w)

Deliver == \E w \in Workers, h \in Heads, n \in Attempt : Take(w, h, n)

Next ==
  \/ \E h \in Heads : Register(h) \/ PullRequestEvent(h)
  \/ Deliver
  \/ \E w \in Workers : Crash(w) \/ TaskStep(w)

\* A running task goes on to its end, and the broker goes on delivering: Celery
\* workers block on the queue, and a crashed process is replaced by the pool.
\* Events, crashes and exceptions are never forced.
Fairness ==
  /\ WF_vars(Deliver)
  /\ \A w \in Workers : WF_vars(TaskStep(w))

Spec     == Init /\ [][Next]_vars
FairSpec == Spec /\ Fairness

-----------------------------------------------------------------------------
(* Properties                                                              *)

\* A head counts as completed, and later events for it are skipped as
\* duplicates, only when a review of it is in the database
\* (check_idempotency against save_review_and_findings).
CompletedMeansSaved ==
  \A h \in Heads : row[h] = "completed" => reviews[h] > 0

\* A row left at "processing", which every later delivery takes for a running
\* review, has a worker behind it that is still going to change it: only a crash
\* of a claim's owner, the swallowed failure of the failed-mark, or a claim whose
\* commit was not answered, leaves one without (process_pr_review).
StillToWrite(w) == pc[w] \in {"doneWrite", "failWrite"} => seen[w] = "processing"

ProcessingHasOwner ==
  \A h \in Heads :
    row[h] = "processing" /\ h \notin orphaned \cup unmarked =>
       \E w \in Owners(h) : StillToWrite(w)

\* Until some attempt has marked the head failed, duplicate events, retries before
\* the claim and crashes never lead to two workers reviewing it or to a second
\* posting: the claim by INSERT is exclusive.
SingleFlightUntilFailure ==
  \A h \in Heads \ failedOnce :
    /\ \A v, w \in Owners(h) : v = w
    /\ posts[h] <= 1

\* Every review in the database was posted to GitHub first: the saved reviews and
\* those a worker is about to save never outnumber the postings.
Saving(h) == {w \in Workers : pc[w] \in {"saveRead", "saveWrite"} /\ HeadOf(w) = h}

SavedOnlyAfterPosting ==
  \A h \in Heads : reviews[h] + Cardinality(Saving(h)) <= posts[h]

\* The job implements the promise of a review made to GitHub's user.
Promise == INSTANCE ReviewPromise WITH
             requested <- {h \in Heads : events[h] > 0},
             failed    <- failedOnce

PromiseKept == Promise!Spec

\* Every requested review is eventually completed, unless it was dropped because
\* the repository was unknown, orphaned, left unmarked, or out of retries.
Settled(h) == row[h] = "completed" \/ h \in orphaned \cup unmarked \cup exhausted \cup dropped

EveryRequestSettles == \A h \in Heads : events[h] > 0 ~> Settled(h)

\* What acks_late and reject_on_worker_lost are set for: a review whose worker was
\* lost is done again by the redelivered message.
LostWorkerIsRetried ==
  \A h \in Heads : events[h] > 0 ~> 
    (row[h] = "completed" \/ h \in unmarked \cup exhausted \cup dropped)
=============================================================================
