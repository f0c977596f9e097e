--------------------------- MODULE ReviewJob_proofs ---------------------------
(***************************************************************************)
(* Theorems about ReviewJob, for every set of heads and workers and every  *)
(* bound: its type invariant, its safety invariants and the promise it     *)
(* implements; and about DebtLedger, the scores that its saves add to, for *)
(* any files, saves and deltas.                                            *)
(***************************************************************************)
EXTENDS ReviewJob, DebtLedger, FoldFacts, TLAPS

-----------------------------------------------------------------------------
(* The type invariant                                                      *)

\* A worker that is not idle holds a delivery.
JobOK == \A w \in Workers : pc[w] # "idle" => job[w] \in Delivery

TypeInv == TypeOK /\ JobOK

\* The steps of a running task, apart from the environment and the broker.
LEMMA TaskStepTypeInv ==
  ASSUME TypeInv, NEW w \in Workers, TaskStep(w)
  PROVE  TypeInv'
<1>a. HeadOf(w) \in Heads /\ job[w].retries \in Attempt
  BY DEF TypeInv, JobOK, TaskStep, CheckIdempotency, ClaimRead, ClaimWrite, RunPipeline,
         PostFindings, SaveRead, SaveWrite, DoneRead, DoneWrite, RaiseUnclaimed, ClaimInDoubt, RaiseClaimed,
         FailRead, FailWrite, LoseFailedMark, Retry, Ack, HeadOf, Delivery, Unclaimed, Body,
         Failing
<1> USE DEF TypeInv, TypeOK, JobOK, Status, Busy, Unclaimed, Owning, Body, Failing, Ending,
           Goto, Load, Write, brokerVars, dbVars, historyVars
<1>1. CASE CheckIdempotency(w)
  BY <1>a, <1>1 DEF CheckIdempotency
<1>2. CASE ClaimRead(w)
  BY <1>a, <1>2 DEF ClaimRead
<1>3. CASE ClaimWrite(w)
  BY <1>a, <1>3 DEF ClaimWrite
<1>4. CASE RunPipeline(w)
  BY <1>a, <1>4 DEF RunPipeline
<1>5. CASE PostFindings(w)
  BY <1>a, <1>5 DEF PostFindings
<1>6. CASE SaveRead(w)
  BY <1>a, <1>6 DEF SaveRead
<1>7. CASE SaveWrite(w)
  BY <1>a, <1>7 DEF SaveWrite, Flush
<1>8. CASE DoneRead(w)
  BY <1>a, <1>8 DEF DoneRead
<1>9. CASE DoneWrite(w)
  BY <1>a, <1>9 DEF DoneWrite, Flush
<1>10. CASE RaiseUnclaimed(w)
  BY <1>a, <1>10 DEF RaiseUnclaimed
<1>11. CASE RaiseClaimed(w)
  BY <1>a, <1>11 DEF RaiseClaimed
<1>12. CASE FailRead(w)
  BY <1>a, <1>12 DEF FailRead
<1>13. CASE FailWrite(w)
  BY <1>a, <1>13 DEF FailWrite, Flush
<1>14. CASE LoseFailedMark(w)
  BY <1>a, <1>14 DEF LoseFailedMark
<1>15. CASE Retry(w)
  <2>1. ASSUME job[w].retries < MaxRetries PROVE job[w].retries + 1 \in Attempt
    BY <1>a, <2>1, BoundsAssumption DEF Attempt
  <2> QED
    BY <1>a, <1>15, <2>1 DEF Retry, Enqueue
<1>16. CASE Ack(w)
  BY <1>a, <1>16 DEF Ack, Leave, NoJob
<1>17. CASE ClaimInDoubt(w)
  BY <1>a, <1>17 DEF ClaimInDoubt
<1> QED
  BY <1>1, <1>2, <1>3, <1>4, <1>5, <1>6, <1>7, <1>8, <1>9, <1>10, <1>11, <1>12, <1>13, <1>14, <1>15, <1>16, <1>17 DEF TaskStep

LEMMA NextTypeInv == TypeInv /\ [Next]_vars => TypeInv'
<1> SUFFICES ASSUME TypeInv, [Next]_vars PROVE TypeInv'
  OBVIOUS
<1> USE BoundsAssumption
<1>1. ASSUME NEW h \in Heads, Register(h) PROVE TypeInv'
  BY <1>1 DEF Register, TypeInv, TypeOK, JobOK, dbVars, workerVars, historyVars
<1>2. ASSUME NEW h \in Heads, PullRequestEvent(h) PROVE TypeInv'
  BY <1>2, SMTT(30) DEF PullRequestEvent, Enqueue, TypeInv, TypeOK, JobOK, Attempt,
              dbVars, workerVars, historyVars
<1>3. ASSUME NEW w \in Workers, NEW h \in Heads, NEW n \in Attempt, Take(w, h, n)
      PROVE TypeInv'
  BY <1>3, SMTT(30) DEF Take, Goto, TypeInv, TypeOK, JobOK, Delivery, Attempt, Busy, Unclaimed,
              dbVars, historyVars
<1>4. ASSUME NEW w \in Workers, Crash(w) PROVE TypeInv'
  BY <1>4, SMTT(30) DEF Crash, Enqueue, Leave, Goto, HeadOf, TypeInv, TypeOK, JobOK, Delivery, Attempt,
              Status, dbVars
<1>5. ASSUME NEW w \in Workers, TaskStep(w) PROVE TypeInv'
  BY <1>5, TaskStepTypeInv
<1>6. CASE UNCHANGED vars
  BY <1>6 DEF TypeInv, TypeOK, JobOK, vars, brokerVars, dbVars, workerVars, historyVars
<1> QED
  BY <1>1, <1>2, <1>3, <1>4, <1>5, <1>6 DEF Next, Deliver

-----------------------------------------------------------------------------
(* A completed row has a saved review                                      *)

\* Rows are never deleted, and the save comes before the completion.
OwnerHasRow == \A w \in Workers : pc[w] \in Owning => row[HeadOf(w)] # "absent"

SavedBeforeDone ==
  \A w \in Workers : pc[w] \in {"doneRead", "doneWrite"} => reviews[HeadOf(w)] > 0

RowInv == OwnerHasRow /\ SavedBeforeDone /\ CompletedMeansSaved

LEMMA NextRowInv ==
  ASSUME TypeInv, RowInv, [Next]_vars
  PROVE  RowInv'
<1> USE DEF TypeInv, TypeOK, JobOK, Delivery, RowInv, OwnerHasRow, SavedBeforeDone,
           CompletedMeansSaved, Busy, Unclaimed, Owning, Body, Failing, Ending, Status,
           HeadOf, Goto, Load, Write, brokerVars, dbVars, workerVars, historyVars
<1>1. ASSUME NEW h \in Heads, Register(h) PROVE RowInv'
  BY <1>1 DEF Register
<1>2. ASSUME NEW h \in Heads, PullRequestEvent(h) PROVE RowInv'
  BY <1>2 DEF PullRequestEvent
<1>3. ASSUME NEW w \in Workers, NEW h \in Heads, NEW n \in Attempt, Take(w, h, n)
      PROVE RowInv'
  BY <1>3 DEF Take
<1>4. ASSUME NEW w \in Workers, Crash(w) PROVE RowInv'
  BY <1>4 DEF Crash, Leave
<1>5. ASSUME NEW w \in Workers, TaskStep(w) PROVE RowInv'
  <2>1. CASE CheckIdempotency(w)
    BY <2>1 DEF CheckIdempotency
  <2>2. CASE ClaimRead(w)
    BY <2>2 DEF ClaimRead
  <2>3. CASE ClaimWrite(w)
    BY <2>3 DEF ClaimWrite
  <2>4. CASE RunPipeline(w)
    BY <2>4 DEF RunPipeline
  <2>5. CASE PostFindings(w)
    BY <2>5 DEF PostFindings
  <2>6. CASE SaveRead(w)
    BY <2>6 DEF SaveRead
  <2>7. CASE SaveWrite(w)
    BY <2>7 DEF SaveWrite, Flush
  <2>8. CASE DoneRead(w)
    BY <2>8 DEF DoneRead
  <2>9. CASE DoneWrite(w)
    BY <2>9 DEF DoneWrite, Flush
  <2>10. CASE RaiseUnclaimed(w)
    BY <2>10 DEF RaiseUnclaimed
  <2>11. CASE RaiseClaimed(w)
    BY <2>11 DEF RaiseClaimed
  <2>12. CASE FailRead(w)
    BY <2>12 DEF FailRead
  <2>13. CASE FailWrite(w)
    BY <2>13 DEF FailWrite, Flush
  <2>14. CASE LoseFailedMark(w)
    BY <2>14 DEF LoseFailedMark
  <2>15. CASE Retry(w)
    BY <2>15 DEF Retry
  <2>16. CASE Ack(w)
    BY <2>16 DEF Ack, Leave
  <2>17. CASE ClaimInDoubt(w)
    BY <2>17 DEF ClaimInDoubt
  <2> QED
    BY <1>5, <2>1, <2>2, <2>3, <2>4, <2>5, <2>6, <2>7, <2>8, <2>9, <2>10, <2>11, <2>12, <2>13, <2>14, <2>15, <2>16, <2>17 DEF TaskStep
<1>6. CASE UNCHANGED vars
  BY <1>6 DEF vars
<1> QED
  BY <1>1, <1>2, <1>3, <1>4, <1>5, <1>6 DEF Next, Deliver

-----------------------------------------------------------------------------
(* A processing row has an owner that will still write it                  *)

LEMMA NextProcessingHasOwner ==
  ASSUME TypeInv, ProcessingHasOwner, [Next]_vars
  PROVE  ProcessingHasOwner'
<1> USE DEF TypeInv, TypeOK, JobOK, Delivery, Busy, Unclaimed, Owning, Body, Failing, Ending, Status,
           HeadOf, Goto, Load, Write, brokerVars, dbVars, workerVars, historyVars,
           ProcessingHasOwner, Owners, StillToWrite
<1>1. ASSUME NEW h \in Heads, Register(h) PROVE ProcessingHasOwner'
  BY <1>1 DEF Register
<1>2. ASSUME NEW h \in Heads, PullRequestEvent(h) PROVE ProcessingHasOwner'
  BY <1>2 DEF PullRequestEvent
<1>3. ASSUME NEW w \in Workers, NEW h \in Heads, NEW n \in Attempt, Take(w, h, n)
      PROVE ProcessingHasOwner'
  <2> SUFFICES ASSUME NEW g \in Heads, (row[g] = "processing")', g \notin (orphaned \cup unmarked)'
               PROVE  (\E v \in Owners(g) : StillToWrite(v))'
    BY DEF ProcessingHasOwner
  <2>1. PICK v \in Owners(g) : StillToWrite(v)
    BY <1>3 DEF Take
  <2>2. v \in Workers /\ v # w
    BY <2>1, <1>3 DEF Take
  <2> QED
    BY <2>1, <2>2, <1>3 DEF Take
<1>4. ASSUME NEW w \in Workers, Crash(w) PROVE ProcessingHasOwner'
  BY <1>4 DEF Crash, Leave
<1>5. ASSUME NEW w \in Workers, TaskStep(w) PROVE ProcessingHasOwner'
  <2>1. CASE CheckIdempotency(w)
    <3> SUFFICES ASSUME NEW h \in Heads, (row[h] = "processing")', h \notin (orphaned \cup unmarked)'
                 PROVE  (\E v \in Owners(h) : StillToWrite(v))'
      BY DEF ProcessingHasOwner
    <3>1. PICK v \in Owners(h) : StillToWrite(v)
      BY <2>1 DEF CheckIdempotency
    <3>2. v \in Workers /\ v # w
      BY <3>1, <2>1 DEF CheckIdempotency
    <3> QED
      BY <3>1, <3>2, <2>1 DEF CheckIdempotency
  <2>2. CASE ClaimRead(w)
    BY <2>2 DEF ClaimRead
  <2>3. CASE ClaimWrite(w)
    BY <2>3 DEF ClaimWrite
  <2>4. CASE RunPipeline(w)
    BY <2>4 DEF RunPipeline
  <2>5. CASE PostFindings(w)
    BY <2>5 DEF PostFindings
  <2>6. CASE SaveRead(w)
    BY <2>6 DEF SaveRead
  <2>7. CASE SaveWrite(w)
    BY <2>7, SMTT(30) DEF SaveWrite, Flush
  <2>8. CASE DoneRead(w)
    BY <2>8 DEF DoneRead
  <2>9. CASE DoneWrite(w)
    BY <2>9 DEF DoneWrite, Flush
  <2>10. CASE RaiseUnclaimed(w)
    BY <2>10, SMTT(30) DEF RaiseUnclaimed
  <2>11. CASE RaiseClaimed(w)
    BY <2>11 DEF RaiseClaimed
  <2>12. CASE FailRead(w)
    BY <2>12 DEF FailRead
  <2>13. CASE FailWrite(w)
    BY <2>13 DEF FailWrite, Flush
  <2>14. CASE LoseFailedMark(w)
    BY <2>14 DEF LoseFailedMark
  <2>15. CASE Retry(w)
    BY <2>15 DEF Retry
  <2>16. CASE Ack(w)
    <3> SUFFICES ASSUME NEW h \in Heads, (row[h] = "processing")', h \notin (orphaned \cup unmarked)'
                 PROVE  (\E v \in Owners(h) : StillToWrite(v))'
      BY DEF ProcessingHasOwner
    <3>1. PICK v \in Owners(h) : StillToWrite(v)
      BY <2>16 DEF Ack
    <3>2. v \in Workers /\ v # w
      BY <3>1, <2>16 DEF Ack
    <3> QED
      BY <3>1, <3>2, <2>16 DEF Ack, Leave
  <2>17. CASE ClaimInDoubt(w)
    BY <2>17 DEF ClaimInDoubt
  <2> QED
    BY <1>5, <2>1, <2>2, <2>3, <2>4, <2>5, <2>6, <2>7, <2>8, <2>9, <2>10, <2>11, <2>12, <2>13, <2>14, <2>15, <2>16, <2>17 DEF TaskStep
<1>6. CASE UNCHANGED vars
  BY <1>6 DEF vars
<1> QED
  BY <1>1, <1>2, <1>3, <1>4, <1>5, <1>6 DEF Next, Deliver

-----------------------------------------------------------------------------
(* Until a failure, one owner and one posting                              *)

\* What holds of a head no attempt has marked failed: its row is never at
\* "failed", so a claim can only be an INSERT; as long as there is no row nothing
\* was posted; and the one owner posts at most once.
FirstFlight(h) ==
  /\ row[h] # "failed"
  /\ row[h] = "absent" => posts[h] = 0
  /\ posts[h] <= 1
  /\ \A w \in Workers :
       /\ pc[w] = "claimWrite" /\ HeadOf(w) = h => seen[w] = "absent"
       /\ pc[w] \in {"run", "post"} /\ HeadOf(w) = h => posts[h] = 0
  /\ \A v, w \in Owners(h) : v = w

FlightInv == \A h \in Heads \ failedOnce : FirstFlight(h)

LEMMA NextFlightInv ==
  ASSUME TypeInv, OwnerHasRow, FlightInv, [Next]_vars
  PROVE  FlightInv'
<1> USE DEF TypeInv, TypeOK, JobOK, Delivery, Busy, Unclaimed, Owning, Body, Failing, Ending, Status,
           HeadOf, Goto, Load, Write, brokerVars, dbVars, workerVars, historyVars,
           OwnerHasRow, FlightInv, FirstFlight, Owners
<1>1. ASSUME NEW h \in Heads, Register(h) PROVE FlightInv'
  BY <1>1 DEF Register
<1>2. ASSUME NEW h \in Heads, PullRequestEvent(h) PROVE FlightInv'
  BY <1>2 DEF PullRequestEvent
<1>3. ASSUME NEW w \in Workers, NEW h \in Heads, NEW n \in Attempt, Take(w, h, n)
      PROVE FlightInv'
  BY <1>3 DEF Take
<1>4. ASSUME NEW w \in Workers, Crash(w) PROVE FlightInv'
  BY <1>4 DEF Crash, Leave
<1>5. ASSUME NEW w \in Workers, TaskStep(w) PROVE FlightInv'
  <2>1. CASE CheckIdempotency(w)
    BY <2>1 DEF CheckIdempotency
  <2>2. CASE ClaimRead(w)
    BY <2>2 DEF ClaimRead
  <2>3. CASE ClaimWrite(w)
    <3> SUFFICES ASSUME NEW h \in Heads \ failedOnce PROVE FirstFlight(h)'
      BY <2>3 DEF ClaimWrite
    <3>1. FirstFlight(h)
      OBVIOUS
    <3>2. CASE seen[w] = "absent" /\ row[HeadOf(w)] # "absent"
      BY <2>3, <3>1, <3>2 DEF ClaimWrite
    <3>3. CASE HeadOf(w) # h /\ ~(seen[w] = "absent" /\ row[HeadOf(w)] # "absent")
      BY <2>3, <3>1, <3>3 DEF ClaimWrite
    <3>4. CASE HeadOf(w) = h /\ ~(seen[w] = "absent" /\ row[HeadOf(w)] # "absent")
      <4>1. row[h] = "absent" /\ posts[h] = 0
        BY <2>3, <3>1, <3>4 DEF ClaimWrite
      <4>2. \A v \in Workers : v # w => v \notin Owners(h)'
        BY <2>3, <4>1 DEF ClaimWrite
      <4> QED
        BY <2>3, <3>1, <3>4, <4>1, <4>2 DEF ClaimWrite
    <3> QED
      BY <3>2, <3>3, <3>4
  <2>4. CASE RunPipeline(w)
    BY <2>4 DEF RunPipeline
  <2>5. CASE PostFindings(w)
    BY <2>5 DEF PostFindings
  <2>6. CASE SaveRead(w)
    BY <2>6 DEF SaveRead
  <2>7. CASE SaveWrite(w)
    BY <2>7 DEF SaveWrite, Flush
  <2>8. CASE DoneRead(w)
    BY <2>8 DEF DoneRead
  <2>9. CASE DoneWrite(w)
    BY <2>9 DEF DoneWrite, Flush
  <2>10. CASE RaiseUnclaimed(w)
    BY <2>10 DEF RaiseUnclaimed
  <2>11. CASE RaiseClaimed(w)
    BY <2>11 DEF RaiseClaimed
  <2>12. CASE FailRead(w)
    BY <2>12 DEF FailRead
  <2>13. CASE FailWrite(w)
    BY <2>13 DEF FailWrite, Flush
  <2>14. CASE LoseFailedMark(w)
    BY <2>14 DEF LoseFailedMark
  <2>15. CASE Retry(w)
    BY <2>15 DEF Retry
  <2>16. CASE Ack(w)
    BY <2>16 DEF Ack, Leave
  <2>17. CASE ClaimInDoubt(w)
    BY <2>17 DEF ClaimInDoubt
  <2> QED
    BY <1>5, <2>1, <2>2, <2>3, <2>4, <2>5, <2>6, <2>7, <2>8, <2>9, <2>10, <2>11, <2>12, <2>13, <2>14, <2>15, <2>16, <2>17 DEF TaskStep
<1>6. CASE UNCHANGED vars
  BY <1>6 DEF vars
<1> QED
  BY <1>1, <1>2, <1>3, <1>4, <1>5, <1>6 DEF Next, Deliver

-----------------------------------------------------------------------------
(* Saved reviews were posted                                               *)

LEMMA SavingFinite == \A h \in Heads : IsFiniteSet(Saving(h)) /\ Cardinality(Saving(h)) \in Nat
BY WorkersAssumption, FS_Subset, FS_CardinalityType DEF Saving

\* A step that adds no worker about to save keeps the balance of a head whose
\* postings and reviews it leaves alone.
LEMMA FewerSaving ==
  ASSUME TypeOK, TypeOK', NEW h \in Heads, reviews[h] + Cardinality(Saving(h)) <= posts[h],
         Saving(h)' \subseteq Saving(h), reviews'[h] = reviews[h], posts'[h] = posts[h]
  PROVE  (reviews[h] + Cardinality(Saving(h)) <= posts[h])'
<1>1. Cardinality(Saving(h)') \in Nat /\ Cardinality(Saving(h)') <= Cardinality(Saving(h))
  BY SavingFinite, FS_Subset, FS_CardinalityType
<1> QED
  BY <1>1, SavingFinite DEF TypeOK

LEMMA NextSavedOnlyAfterPosting ==
  ASSUME TypeInv, TypeInv', SavedOnlyAfterPosting, [Next]_vars
  PROVE  SavedOnlyAfterPosting'
<1> SUFFICES ASSUME NEW h \in Heads
             PROVE  (reviews[h] + Cardinality(Saving(h)) <= posts[h])'
  BY DEF SavedOnlyAfterPosting
<1>a. reviews[h] + Cardinality(Saving(h)) <= posts[h]
  BY DEF SavedOnlyAfterPosting
<1>b. reviews[h] \in Nat /\ posts[h] \in Nat /\ TypeOK /\ TypeOK'
  BY DEF TypeInv, TypeOK
<1>1. ASSUME NEW w \in Workers, PostFindings(w), HeadOf(w) = h
      PROVE  (reviews[h] + Cardinality(Saving(h)) <= posts[h])'
  <2>1. Saving(h)' = Saving(h) \cup {w} /\ w \notin Saving(h)
    BY <1>1 DEF PostFindings, Saving, HeadOf, Goto, TypeInv, TypeOK, historyVars
  <2>2. Cardinality(Saving(h)') = Cardinality(Saving(h)) + 1
    BY <2>1, SavingFinite, FS_AddElement
  <2>3. posts'[h] = posts[h] + 1 /\ reviews'[h] = reviews[h]
    BY <1>1 DEF PostFindings, TypeInv, TypeOK
  <2> QED
    BY <1>a, <1>b, <2>2, <2>3, SavingFinite
<1>2. ASSUME NEW w \in Workers, SaveWrite(w), HeadOf(w) = h
      PROVE  (reviews[h] + Cardinality(Saving(h)) <= posts[h])'
  <2>1. Saving(h)' = Saving(h) \ {w} /\ w \in Saving(h)
    BY <1>2 DEF SaveWrite, Saving, HeadOf, Goto, TypeInv, TypeOK, historyVars
  <2>2. Cardinality(Saving(h)') = Cardinality(Saving(h)) - 1
    BY <2>1, SavingFinite, FS_RemoveElement
  <2>3. posts'[h] = posts[h] /\ reviews'[h] = reviews[h] + 1
    BY <1>2 DEF SaveWrite, TypeInv, TypeOK
  <2> QED
    BY <1>a, <1>b, <2>2, <2>3, SavingFinite
<1>3. ASSUME NEW w \in Workers, TaskStep(w),
             ~(PostFindings(w) /\ HeadOf(w) = h), ~(SaveWrite(w) /\ HeadOf(w) = h)
      PROVE  Saving(h)' \subseteq Saving(h) /\ reviews'[h] = reviews[h] /\ posts'[h] = posts[h]
  <2> USE DEF Saving, HeadOf, Goto, TypeInv, TypeOK, dbVars
  <2>1. CASE CheckIdempotency(w)
    BY <2>1 DEF CheckIdempotency
  <2>2. CASE ClaimRead(w)
    BY <2>2 DEF ClaimRead
  <2>3. CASE ClaimWrite(w)
    BY <2>3 DEF ClaimWrite
  <2>4. CASE RunPipeline(w)
    BY <2>4 DEF RunPipeline
  <2>5. CASE PostFindings(w)
    BY <2>5, <1>3 DEF PostFindings
  <2>6. CASE SaveRead(w)
    BY <2>6 DEF SaveRead
  <2>7. CASE SaveWrite(w)
    BY <2>7, <1>3 DEF SaveWrite
  <2>8. CASE DoneRead(w)
    BY <2>8 DEF DoneRead
  <2>9. CASE DoneWrite(w)
    BY <2>9 DEF DoneWrite
  <2>10. CASE RaiseUnclaimed(w)
    BY <2>10 DEF RaiseUnclaimed
  <2>11. CASE RaiseClaimed(w)
    BY <2>11 DEF RaiseClaimed
  <2>12. CASE FailRead(w)
    BY <2>12 DEF FailRead
  <2>13. CASE FailWrite(w)
    BY <2>13 DEF FailWrite
  <2>14. CASE LoseFailedMark(w)
    BY <2>14 DEF LoseFailedMark
  <2>15. CASE Retry(w)
    BY <2>15 DEF Retry
  <2>16. CASE Ack(w)
    BY <2>16 DEF Ack, Leave
  <2>17. CASE ClaimInDoubt(w)
    BY <2>17 DEF ClaimInDoubt
  <2> QED
    BY <1>3, <2>1, <2>2, <2>3, <2>4, <2>5, <2>6, <2>7, <2>8, <2>9, <2>10, <2>11, <2>12, <2>13, <2>14, <2>15, <2>16, <2>17 DEF TaskStep
<1>4. ASSUME NEW w \in Workers, NEW g \in Heads, NEW n \in Attempt,
             Take(w, g, n) \/ Crash(w)
      PROVE  Saving(h)' \subseteq Saving(h) /\ reviews'[h] = reviews[h] /\ posts'[h] = posts[h]
  BY <1>4, SMTT(30) DEF Take, Crash, Leave, Saving, HeadOf, Goto, TypeInv, TypeOK, dbVars
<1>5. ASSUME NEW g \in Heads, Register(g) \/ PullRequestEvent(g) \/ UNCHANGED vars
      PROVE  Saving(h)' \subseteq Saving(h) /\ reviews'[h] = reviews[h] /\ posts'[h] = posts[h]
  BY <1>5 DEF Register, PullRequestEvent, vars, dbVars, workerVars, Saving, HeadOf
<1>6. 0 \in Attempt
  BY BoundsAssumption DEF Attempt
<1> QED
  BY <1>a, <1>b, <1>1, <1>2, <1>3, <1>4, <1>5, <1>6, FewerSaving DEF Next, Deliver

-----------------------------------------------------------------------------
(* Every message and every job comes from an event                         *)

RequestedInv ==
  /\ \A h \in Heads, n \in Attempt : queue[h][n] > 0 => events[h] > 0
  /\ \A w \in Workers : pc[w] # "idle" => events[HeadOf(w)] > 0

LEMMA NextRequestedInv ==
  ASSUME TypeInv, RequestedInv, [Next]_vars
  PROVE  RequestedInv'
<1> USE DEF TypeInv, TypeOK, JobOK, Delivery, Busy, Unclaimed, Owning, Body, Failing, Ending,
           HeadOf, Goto, Load, Write, brokerVars, dbVars, workerVars, historyVars,
           RequestedInv, Enqueue, Attempt
<1>1. ASSUME NEW h \in Heads, Register(h) PROVE RequestedInv'
  BY <1>1, BoundsAssumption DEF Register
<1>2. ASSUME NEW h \in Heads, PullRequestEvent(h) PROVE RequestedInv'
  BY <1>2, BoundsAssumption, SMTT(30) DEF PullRequestEvent
<1>3. ASSUME NEW w \in Workers, NEW h \in Heads, NEW n \in Attempt, Take(w, h, n)
      PROVE RequestedInv'
  BY <1>3, BoundsAssumption DEF Take
<1>4. ASSUME NEW w \in Workers, Crash(w) PROVE RequestedInv'
  BY <1>4, BoundsAssumption DEF Crash, Leave
<1>5. ASSUME NEW w \in Workers, TaskStep(w) PROVE RequestedInv'
  <2>1. CASE CheckIdempotency(w)
    BY <2>1, BoundsAssumption DEF CheckIdempotency
  <2>2. CASE ClaimRead(w)
    BY <2>2, BoundsAssumption DEF ClaimRead
  <2>3. CASE ClaimWrite(w)
    BY <2>3, BoundsAssumption DEF ClaimWrite
  <2>4. CASE RunPipeline(w)
    BY <2>4, BoundsAssumption DEF RunPipeline
  <2>5. CASE PostFindings(w)
    BY <2>5, BoundsAssumption DEF PostFindings
  <2>6. CASE SaveRead(w)
    BY <2>6, BoundsAssumption DEF SaveRead
  <2>7. CASE SaveWrite(w)
    BY <2>7, BoundsAssumption DEF SaveWrite, Flush
  <2>8. CASE DoneRead(w)
    BY <2>8, BoundsAssumption DEF DoneRead
  <2>9. CASE DoneWrite(w)
    BY <2>9, BoundsAssumption DEF DoneWrite, Flush
  <2>10. CASE RaiseUnclaimed(w)
    BY <2>10, BoundsAssumption DEF RaiseUnclaimed
  <2>11. CASE RaiseClaimed(w)
    BY <2>11, BoundsAssumption DEF RaiseClaimed
  <2>12. CASE FailRead(w)
    BY <2>12, BoundsAssumption DEF FailRead
  <2>13. CASE FailWrite(w)
    BY <2>13, BoundsAssumption DEF FailWrite, Flush
  <2>14. CASE LoseFailedMark(w)
    BY <2>14, BoundsAssumption DEF LoseFailedMark
  <2>15. CASE Retry(w)
    BY <2>15, BoundsAssumption DEF Retry
  <2>16. CASE Ack(w)
    BY <2>16, BoundsAssumption DEF Ack, Leave
  <2>17. CASE ClaimInDoubt(w)
    BY <2>17, BoundsAssumption DEF ClaimInDoubt
  <2> QED
    BY <1>5, <2>1, <2>2, <2>3, <2>4, <2>5, <2>6, <2>7, <2>8, <2>9, <2>10, <2>11, <2>12, <2>13, <2>14, <2>15, <2>16, <2>17 DEF TaskStep
<1>6. CASE UNCHANGED vars
  BY <1>6 DEF vars
<1> QED
  BY <1>1, <1>2, <1>3, <1>4, <1>5, <1>6 DEF Next, Deliver

-----------------------------------------------------------------------------
(* The inductive invariant and the theorems                                *)

IInv == TypeInv /\ RowInv /\ ProcessingHasOwner /\ FlightInv /\ SavedOnlyAfterPosting
        /\ RequestedInv

LEMMA InitIInv == Init => IInv
<1> SUFFICES ASSUME Init PROVE IInv
  OBVIOUS
<1>1. TypeInv
  BY BoundsAssumption DEF Init, TypeInv, TypeOK, JobOK, Attempt, Status
<1>2. RowInv /\ ProcessingHasOwner /\ FlightInv /\ RequestedInv
  BY DEF Init, RowInv, OwnerHasRow, SavedBeforeDone, CompletedMeansSaved, ProcessingHasOwner,
         FlightInv, FirstFlight, Owners, RequestedInv, Owning, Body, Failing
<1>3. SavedOnlyAfterPosting
  <2>1. \A h \in Heads : Saving(h) = {}
    BY DEF Init, Saving
  <2> QED
    BY <2>1, FS_EmptySet, SMTT(30) DEF Init, SavedOnlyAfterPosting
<1> QED
  BY <1>1, <1>2, <1>3 DEF IInv

LEMMA NextIInv == IInv /\ [Next]_vars => IInv'
<1> SUFFICES ASSUME IInv, [Next]_vars PROVE IInv'
  OBVIOUS
<1>1. TypeInv'
  BY NextTypeInv DEF IInv
<1> QED
  BY <1>1, NextRowInv, NextProcessingHasOwner, NextFlightInv, NextSavedOnlyAfterPosting,
     NextRequestedInv DEF IInv, RowInv

THEOREM Invariance == Spec => []IInv
BY InitIInv, NextIInv, PTL DEF Spec

\* Every variable keeps its type, however tasks, crashes and redeliveries interleave.
THEOREM TypeCorrect == Spec => []TypeOK
<1>1. IInv => TypeOK
  BY DEF IInv, TypeInv
<1> QED
  BY <1>1, Invariance, PTL

\* check_idempotency never skips a completed head that has no saved review.
THEOREM CompletedIsSaved == Spec => []CompletedMeansSaved
<1>1. IInv => CompletedMeansSaved
  BY DEF IInv, RowInv
<1> QED
  BY <1>1, Invariance, PTL

\* Without a crash or a lost failed-mark, a processing row has a worker behind it.
THEOREM ProcessingIsOwned == Spec => []ProcessingHasOwner
<1>1. IInv => ProcessingHasOwner
  BY DEF IInv
<1> QED
  BY <1>1, Invariance, PTL

\* Before the first failed attempt a head has one owner and one posting.
THEOREM SingleFlight == Spec => []SingleFlightUntilFailure
<1>1. IInv => SingleFlightUntilFailure
  BY DEF IInv, FlightInv, FirstFlight, SingleFlightUntilFailure
<1> QED
  BY <1>1, Invariance, PTL

\* No review is in the database that was not posted first.
THEOREM SavedArePosted == Spec => []SavedOnlyAfterPosting
<1>1. IInv => SavedOnlyAfterPosting
  BY DEF IInv
<1> QED
  BY <1>1, Invariance, PTL

-----------------------------------------------------------------------------
(* Refinement of ReviewPromise                                             *)

LEMMA TaskStepRefines ==
  ASSUME IInv, NEW w \in Workers, TaskStep(w)
  PROVE  Promise!Next \/ UNCHANGED Promise!vars
<1> USE DEF IInv, TypeInv, TypeOK, JobOK, Delivery, HeadOf, Promise!vars, brokerVars, dbVars,
           historyVars
<1>a. pc[w] # "idle"
  BY DEF TaskStep, CheckIdempotency, ClaimRead, ClaimWrite, RunPipeline, PostFindings, SaveRead,
         SaveWrite, DoneRead, DoneWrite, RaiseUnclaimed, ClaimInDoubt, RaiseClaimed, FailRead, FailWrite,
         LoseFailedMark, Retry, Ack, Unclaimed, Body, Failing
<1>b. HeadOf(w) \in Heads /\ events[HeadOf(w)] > 0
  BY <1>a DEF RequestedInv
<1>1. CASE PostFindings(w)
  <2>1. posts[HeadOf(w)] = 0 \/ HeadOf(w) \in failedOnce
    BY <1>1, <1>b DEF PostFindings, FlightInv, FirstFlight
  <2>2. Promise!Post(HeadOf(w))
    BY <1>1, <1>b, <2>1 DEF PostFindings, Promise!Post
  <2> QED
    BY <1>b, <2>2 DEF Promise!Next
<1>2. CASE SaveWrite(w)
  <2>1. w \in Saving(HeadOf(w))
    BY <1>2 DEF SaveWrite, Saving
  <2>2. Cardinality(Saving(HeadOf(w))) > 0
    BY <1>b, <2>1, SavingFinite, FS_EmptySet
  <2>3. reviews[HeadOf(w)] < posts[HeadOf(w)]
    BY <1>b, <2>2, SavingFinite DEF SavedOnlyAfterPosting
  <2>4. Promise!Record(HeadOf(w))
    BY <1>2, <2>3 DEF SaveWrite, Promise!Record
  <2> QED
    BY <1>b, <2>4 DEF Promise!Next
<1>3. CASE FailWrite(w)
  <2>1. Promise!Fail(HeadOf(w))
    BY <1>3, <1>b DEF FailWrite, Promise!Fail
  <2> QED
    BY <1>b, <2>1 DEF Promise!Next
<1>4. CASE ~PostFindings(w) /\ ~SaveWrite(w) /\ ~FailWrite(w)
  BY <1>4 DEF TaskStep, CheckIdempotency, ClaimRead, ClaimWrite, RunPipeline, SaveRead, DoneRead,
              DoneWrite, RaiseUnclaimed, ClaimInDoubt, RaiseClaimed, FailRead, LoseFailedMark, Retry, Ack
<1> QED
  BY <1>1, <1>2, <1>3, <1>4

LEMMA NextRefines == IInv /\ [Next]_vars => [Promise!Next]_(Promise!vars)
<1> SUFFICES ASSUME IInv, [Next]_vars PROVE Promise!Next \/ UNCHANGED Promise!vars
  OBVIOUS
<1>1. ASSUME NEW h \in Heads, PullRequestEvent(h) PROVE Promise!Next
  <2>1. {g \in Heads : events'[g] > 0} = {g \in Heads : events[g] > 0} \cup {h}
    BY <1>1 DEF PullRequestEvent, IInv, TypeInv, TypeOK
  <2>2. Promise!Request(h)
    BY <1>1, <2>1 DEF PullRequestEvent, Promise!Request, dbVars, historyVars
  <2> QED
    BY <2>2 DEF Promise!Next
<1>2. ASSUME NEW h \in Heads, Register(h) PROVE UNCHANGED Promise!vars
  BY <1>2 DEF Register, Promise!vars, dbVars, historyVars
<1>3. ASSUME NEW w \in Workers, NEW h \in Heads, NEW n \in Attempt, Take(w, h, n)
      PROVE  UNCHANGED Promise!vars
  BY <1>3 DEF Take, Promise!vars, dbVars, historyVars
<1>4. ASSUME NEW w \in Workers, Crash(w) PROVE UNCHANGED Promise!vars
  BY <1>4 DEF Crash, Promise!vars, dbVars
<1>5. ASSUME NEW w \in Workers, TaskStep(w) PROVE Promise!Next \/ UNCHANGED Promise!vars
  BY <1>5, TaskStepRefines
<1>6. CASE UNCHANGED vars
  BY <1>6 DEF vars, brokerVars, dbVars, historyVars, Promise!vars
<1> QED
  BY <1>1, <1>2, <1>3, <1>4, <1>5, <1>6 DEF Next, Deliver

\* The job, its queue and its rows implement the promise: a review is posted for a
\* requested head only, again only after a failure, and recorded only if posted.
THEOREM ImplementsPromise == Spec => PromiseKept
<1>1. Init => Promise!Init
  BY DEF Init, Promise!Init
<1> QED
  BY <1>1, NextRefines, Invariance, PTL DEF Spec, Promise!Spec, PromiseKept

-----------------------------------------------------------------------------
(* DebtLedger: the scores over a given set of rows                         *)

\* The rows of a file among the rows R, and its latest score.
Of(R, f) == {r \in R : r.file = f}
LatestIn(R, f) ==
  IF Of(R, f) = {} THEN 0
  ELSE (CHOOSE r \in Of(R, f) : \A q \in Of(R, f) : q.time <= r.time).score
LatestScores(R) == [f \in Files |-> LatestIn(R, f)]

\* The checked invariants and the listing's, with the rows as a parameter.
SerialIn(R) ==
  \A f \in Files :
    (\A q, r \in Of(R, f) : q # r => Disjoint(q, r)) => LatestIn(R, f) = Total(Of(R, f))

SumsIn(R) ==
  \A f \in Files : \A r \in Of(R, f) :
    \E S \in SUBSET {q \in Of(R, f) : q.commit <= r.commit} : r \in S /\ r.score = Total(S)

QuietIn(R, l) ==
  l.open /\ l.quiet => l.sum = SumOver(LatestScores(R), {r.file : r \in R} \ l.toRead)

\* What is summed up is finite.
FiniteLedger == IsFiniteSet(rows) /\ \A s \in Saves : IsFiniteSet(txn[s].pending)

\* A row is committed after its transaction began, and nothing is in the future.
LedgerTimes ==
  /\ \A r \in rows : r.time < r.commit /\ r.commit <= now
  /\ \A s \in Saves : txn[s].state = "open" => txn[s].start <= now

\* A score that is not committed yet is a sum of committed deltas and of its own.
PendingSum(R, s, p) ==
  \E S \in SUBSET Of(R, p.file) : p.score = Total(S) + Delta[s][p.file]

\* It is made from the latest score, as long as no save of the file was committed
\* after its own began.
PendingLatest(R, s, p) ==
  (\A q \in Of(R, p.file) : q.commit < txn[s].start)
     => p.score = LatestIn(R, p.file) + Delta[s][p.file]

PendingInv ==
  \A s \in Saves : txn[s].state = "open" =>
    \A p \in txn[s].pending : PendingSum(rows, s, p) /\ PendingLatest(rows, s, p)

\* GET /repos reads files that have rows.
ListedFiles == listing.open => listing.toRead \subseteq {r.file : r \in rows}

\* The inductive invariant.
LedgerInv ==
  /\ LedgerTypeOK /\ FiniteLedger /\ LedgerTimes /\ PendingInv /\ ListedFiles
  /\ SerialIn(rows) /\ SumsIn(rows) /\ QuietIn(rows, listing)

-----------------------------------------------------------------------------
(* Sums of deltas and of scores                                            *)

\* The model's totals are sums in the sense of FoldFacts.
LEMMA TotalIs ==
  ASSUME NEW S
  PROVE  Total(S) = SumOver([r \in S |-> r.delta], S)
<1> DEFINE d == [r \in S |-> r.delta]
<1>1. \A s \in SUBSET S : s # {} => (CHOOSE r \in s : TRUE) \in S
  OBVIOUS
<1>2. ASSUME NEW it
      PROVE  IsSum(it, d, S) <=>
               it = [s \in SUBSET S |-> IF s = {} THEN 0
                       ELSE (CHOOSE r \in s : TRUE).delta + it[s \ {CHOOSE r \in s : TRUE}]]
  BY <1>1 DEF IsSum, Some
<1> QED BY <1>2, ZenonT(60) DEF SumOver, Total, MapThenSumSet, MapThenFoldSet

\* So are the listing's, before and after a step.
LEMMA LatestSum ==
  ASSUME NEW F \in SUBSET Files
  PROVE  /\ MapThenSumSet(Latest, F) = SumOver(LatestScores(rows), F)
         /\ MapThenSumSet(Latest, F)' = SumOver(LatestScores(rows'), F)
<1> DEFINE d == LatestScores(rows)
           e == LatestScores(rows')
<1>1. \A s \in SUBSET F : s # {} => (CHOOSE f \in s : TRUE) \in Files
  OBVIOUS
<1>2. \A f \in Files : d[f] = Latest(f) /\ e[f] = Latest(f)'
  BY DEF LatestScores, Latest, LatestIn, Of
<1>3. ASSUME NEW it
      PROVE  IsSum(it, d, F) <=>
               it = [s \in SUBSET F |-> IF s = {} THEN 0
                       ELSE Latest(CHOOSE f \in s : TRUE) + it[s \ {CHOOSE f \in s : TRUE}]]
  <2> HIDE DEF d
  <2> QED BY <1>1, <1>2 DEF IsSum, Some
<1>4. MapThenSumSet(Latest, F) = SumOver(d, F)
  BY <1>3, ZenonT(60) DEF SumOver, MapThenSumSet, MapThenFoldSet
<1>5. ASSUME NEW it
      PROVE  IsSum(it, e, F) <=>
               it = [s \in SUBSET F |-> IF s = {} THEN 0
                       ELSE Latest(CHOOSE f \in s : TRUE)' + it[s \ {CHOOSE f \in s : TRUE}]]
  <2> HIDE DEF e
  <2> QED BY <1>1, <1>2 DEF IsSum, Some
<1>6. MapThenSumSet(Latest, F)' = SumOver(e, F)
  BY <1>5, ZenonT(60) DEF SumOver, MapThenSumSet, MapThenFoldSet
<1> QED BY <1>4, <1>6

\* A total grows by a row's delta when the row is added.
LEMMA TotalFacts ==
  ASSUME NEW S \in SUBSET Row, IsFiniteSet(S)
  PROVE  /\ Total(S) \in Int
         /\ Total({}) = 0
         /\ \A r \in Row \ S : Total(S \cup {r}) = r.delta + Total(S)
<1>1. Total(S) \in Int
  <2> DEFINE d == [r \in S |-> r.delta]
  <2>1. \A r \in S : d[r] \in Int
    BY DEF Row
  <2> HIDE DEF d
  <2> QED BY <2>1, SumIs, TotalIs DEF d
<1>2. Total({}) = 0
  BY TotalIs, SumEmpty
<1>3. ASSUME NEW r \in Row \ S  PROVE Total(S \cup {r}) = r.delta + Total(S)
  <2> DEFINE R == S \cup {r}
             d == [q \in R |-> q.delta]
             e == [q \in S |-> q.delta]
  <2>1. \A q \in R : d[q] \in Int
    BY DEF Row
  <2>2. IsFiniteSet(R) /\ R \ {r} = S /\ r \in R
    BY FS_AddElement
  <2>3. \A q \in S : d[q] \in Int /\ d[q] = e[q]
    BY DEF Row
  <2>4. Total(R) = SumOver(d, R) /\ Total(S) = SumOver(e, S)
    BY TotalIs
  <2>5. d[r] = r.delta
    OBVIOUS
  <2> HIDE DEF d, e, R
  <2>6. SumOver(d, R) = d[r] + SumOver(d, R \ {r})
    BY <2>1, <2>2, SumAdd
  <2>7. SumOver(d, S) = SumOver(e, S)
    BY <2>3, SumSame
  <2> QED BY <2>2, <2>4, <2>5, <2>6, <2>7 DEF R
<1> QED BY <1>1, <1>2, <1>3

\* The latest score is the score of a row after which no row of the file is.
LEMMA LatestFact ==
  ASSUME NEW R \in SUBSET Row, NEW t \in Nat, \A r \in R : r.time <= t, NEW f
  PROVE  /\ LatestIn(R, f) \in Int
         /\ Of(R, f) = {} => LatestIn(R, f) = 0
         /\ Of(R, f) # {} =>
              \E r \in Of(R, f) : /\ \A q \in Of(R, f) : q.time <= r.time
                                  /\ LatestIn(R, f) = r.score
<1>1. CASE Of(R, f) = {}
  BY <1>1 DEF LatestIn
<1>2. CASE Of(R, f) # {}
  <2> DEFINE T == {n \in Nat : \E r \in Of(R, f) : n = t - r.time}
             r0 == CHOOSE r \in Of(R, f) : \A q \in Of(R, f) : q.time <= r.time
  <2>1. \A r \in Of(R, f) : r \in Row /\ r.time \in Nat /\ t - r.time \in Nat
    BY DEF Of, Row
  <2>2. T \subseteq Nat /\ T # {}
    BY <1>2, <2>1
  <2>3. PICK n \in T : \A m \in T : n <= m
    <3> HIDE DEF T
    <3> QED BY <2>2, LeastNat
  <2>4. PICK r \in Of(R, f) : n = t - r.time
    BY <2>3
  <2>5. \A q \in Of(R, f) : q.time <= r.time
    <3> SUFFICES ASSUME NEW q \in Of(R, f)  PROVE q.time <= r.time
      OBVIOUS
    <3>1. t - q.time \in T
      BY <2>1
    <3> QED BY <2>1, <2>3, <2>4, <3>1
  <2>6. r0 \in Of(R, f) /\ \A q \in Of(R, f) : q.time <= r0.time
    BY <2>5
  <2>7. LatestIn(R, f) = r0.score
    BY <1>2 DEF LatestIn
  <2>8. r0.score \in Int
    BY <2>6 DEF Of, Row
  <2> HIDE DEF r0
  <2> QED BY <1>2, <2>6, <2>7, <2>8
<1> QED BY <1>1, <1>2

-----------------------------------------------------------------------------
(* The ledger's invariant                                                  *)

LEMMA InitLedgerInv == LedgerInit => LedgerInv
<1> SUFFICES ASSUME LedgerInit  PROVE LedgerInv
  OBVIOUS
<1> USE DEF LedgerInit
<1>1. LedgerTypeOK
  BY MaxTimeAssumption DEF LedgerTypeOK, NoTxn, NoListing
<1>2. FiniteLedger /\ LedgerTimes /\ PendingInv /\ ListedFiles
  BY FS_EmptySet DEF FiniteLedger, LedgerTimes, PendingInv, ListedFiles, NoTxn, NoListing
<1>3. SerialIn(rows) /\ SumsIn(rows)
  <2>1. \A f \in Files : Of(rows, f) = {}
    BY DEF Of
  <2>2. Total({}) = 0
    BY TotalFacts, FS_EmptySet
  <2>3. \A f \in Files : LatestIn(rows, f) = 0
    BY <2>1 DEF LatestIn
  <2> QED BY <2>1, <2>2, <2>3 DEF SerialIn, SumsIn
<1>4. QuietIn(rows, listing)
  BY DEF QuietIn, NoListing
<1> QED BY <1>1, <1>2, <1>3, <1>4 DEF LedgerInv

\* What a commit does to the rows.
LEMMA CommitRows ==
  ASSUME LedgerTypeOK, FiniteLedger, LedgerTimes, NEW s \in Saves, Commit(s)
  PROVE  /\ rows' \in SUBSET Row /\ IsFiniteSet(rows') /\ rows \subseteq rows'
         /\ now' = now + 1 /\ now \in Nat
         /\ \A r \in rows' \ rows : \E p \in txn[s].pending : r = RowOf(s, p)
         /\ \A p \in txn[s].pending :
              RowOf(s, p) \in Row /\ RowOf(s, p) \in rows' /\ RowOf(s, p) \notin rows
<1>1. now \in Nat /\ now' = now + 1
  BY DEF Commit, Tick, LedgerTypeOK
<1>2. ASSUME NEW p \in txn[s].pending
      PROVE  RowOf(s, p) \in Row /\ RowOf(s, p) \notin rows
  <2>1. p \in Pending /\ txn[s].start \in Nat
    BY DEF LedgerTypeOK
  <2>2. Delta[s][p.file] \in Int
    BY <2>1, DeltaAssumption DEF Pending
  <2>3. RowOf(s, p) \in Row
    BY <1>1, <2>1, <2>2 DEF RowOf, Row, Pending
  <2>4. RowOf(s, p).commit = now + 1
    BY DEF RowOf
  <2> QED BY <1>1, <2>3, <2>4 DEF LedgerTimes, LedgerTypeOK, Row
<1> DEFINE new == {RowOf(s, p) : p \in txn[s].pending}
<1>3. rows' = rows \cup new
  BY DEF Commit
<1>4. IsFiniteSet(new)
  <2> DEFINE h == [p \in txn[s].pending |-> RowOf(s, p)]
  <2>1. h \in Surjection(txn[s].pending, new)
    BY DEF Surjection
  <2>2. IsFiniteSet(txn[s].pending)
    BY DEF FiniteLedger
  <2> HIDE DEF h, new
  <2> QED BY <2>1, <2>2, FS_Surjection
<1>5. IsFiniteSet(rows')
  <2> HIDE DEF new
  <2> QED BY <1>3, <1>4, FS_Union DEF FiniteLedger
<1> QED BY <1>1, <1>2, <1>3, <1>5 DEF LedgerTypeOK

\* The score that a save starts from is a number.
LEMMA LatestInt ==
  ASSUME LedgerTypeOK, LedgerTimes, NEW f
  PROVE  Latest(f) = LatestIn(rows, f) /\ Latest(f) \in Int
<1>1. rows \in SUBSET Row /\ now \in Nat /\ \A r \in rows : r.time <= now
  BY MaxTimeAssumption DEF LedgerTypeOK, LedgerTimes, Row
<1>2. LatestIn(rows, f) \in Int
  BY <1>1, LatestFact
<1>3. Latest(f) = LatestIn(rows, f)
  BY DEF Latest, LatestIn, Of
<1> QED BY <1>2, <1>3

\* Types, finiteness and times.
LEMMA NextLedgerTypes ==
  LedgerTypeOK /\ FiniteLedger /\ LedgerTimes /\ ListedFiles /\ [LedgerNext]_ledgerVars
    => LedgerTypeOK' /\ FiniteLedger' /\ LedgerTimes' /\ ListedFiles'
<1> SUFFICES ASSUME LedgerTypeOK, FiniteLedger, LedgerTimes, ListedFiles,
                    [LedgerNext]_ledgerVars
             PROVE  LedgerTypeOK' /\ FiniteLedger' /\ LedgerTimes' /\ ListedFiles'
  OBVIOUS
<1> DEFINE Goal == LedgerTypeOK' /\ FiniteLedger' /\ LedgerTimes' /\ ListedFiles'
<1>0. /\ now \in 0 .. MaxTime /\ MaxTime \in Nat
      /\ \A r \in rows : r \in Row /\ r.file \in Files /\ r.time \in Nat /\ r.commit \in Nat
      /\ txn \in [Saves -> [state : {"none", "open", "committed"}, start : 0 .. MaxTime,
                           pending : SUBSET Pending]]
  BY MaxTimeAssumption DEF LedgerTypeOK, Row
<1>1. ASSUME NEW s \in Saves, Begin(s)  PROVE Goal
  <2> USE DEF Begin, Tick
  <2>1. txn'[s] = [state |-> "open", start |-> now + 1, pending |-> {}]
    BY <1>1, <1>0
  <2>2. \A t \in Saves \ {s} : txn'[t] = txn[t]
    BY <1>1, <1>0
  <2>3. LedgerTypeOK'
    BY <1>1, <1>0 DEF LedgerTypeOK
  <2>4. FiniteLedger'
    BY <1>1, <2>1, <2>2, FS_EmptySet DEF FiniteLedger
  <2>5. LedgerTimes'
    BY <1>0, <1>1, <2>1, <2>2 DEF LedgerTimes
  <2> QED BY <1>1, <2>3, <2>4, <2>5 DEF ListedFiles
<1>2. ASSUME NEW s \in Saves, Commit(s)  PROVE Goal
  <2> USE DEF Commit, Tick
  <2>1. /\ rows' \in SUBSET Row /\ IsFiniteSet(rows') /\ rows \subseteq rows'
        /\ \A r \in rows' \ rows : \E p \in txn[s].pending : r = RowOf(s, p)
    BY <1>2, CommitRows
  <2>2. /\ txn'[s] = [txn[s] EXCEPT !.state = "committed"]
        /\ \A t \in Saves \ {s} : txn'[t] = txn[t]
    BY <1>2, <1>0
  <2>3. LedgerTypeOK'
    <3>1. /\ txn[s] \in [state : {"none", "open", "committed"}, start : 0 .. MaxTime,
                        pending : SUBSET Pending]
          /\ txn' = [txn EXCEPT ![s] = [txn[s] EXCEPT !.state = "committed"]]
      BY <1>2, <1>0
    <3>2. txn' \in [Saves -> [state : {"none", "open", "committed"}, start : 0 .. MaxTime,
                              pending : SUBSET Pending]]
      BY <1>0, <3>1
    <3>3. now' \in 0 .. MaxTime
      BY <1>0, <1>2
    <3>4. listing' = [listing EXCEPT !.quiet = FALSE]
      BY <1>2
    <3> QED BY <2>1, <3>2, <3>3, <3>4 DEF LedgerTypeOK
  <2>4. FiniteLedger'
    BY <2>1, <2>2, <1>0 DEF FiniteLedger
  <2>5. LedgerTimes'
    <3>1. ASSUME NEW r \in rows'  PROVE r.time < r.commit /\ r.commit <= now'
      <4>1. CASE r \in rows
        BY <4>1, <1>0, <1>2 DEF LedgerTimes
      <4>2. CASE r \notin rows
        BY <4>2, <1>0, <1>2, <2>1 DEF LedgerTimes, RowOf
      <4> QED BY <4>1, <4>2
    <3> QED BY <3>1, <2>2, <1>0, <1>2 DEF LedgerTimes
  <2> QED BY <1>2, <2>1, <2>3, <2>4, <2>5 DEF ListedFiles, LedgerTypeOK
<1>3. ASSUME NEW s \in Saves, Rollback(s) \/ Repeat(s)  PROVE Goal
  <2> USE DEF Rollback, Repeat
  <2>1. txn'[s] = NoTxn /\ \A t \in Saves \ {s} : txn'[t] = txn[t]
    BY <1>3, <1>0
  <2>2. LedgerTypeOK'
    BY <1>3, <1>0 DEF LedgerTypeOK, NoTxn
  <2>3. FiniteLedger'
    <3>1. IsFiniteSet(txn'[s].pending)
      BY <2>1, FS_EmptySet DEF NoTxn
    <3> QED BY <1>3, <2>1, <3>1 DEF FiniteLedger
  <2>4. LedgerTimes'
    BY <1>3, <1>0, <2>1 DEF LedgerTimes, NoTxn
  <2> QED BY <1>3, <2>2, <2>3, <2>4 DEF ListedFiles
<1>4. ASSUME NEW s \in Saves, NEW f \in Files, RecordDebt(s, f)  PROVE Goal
  <2> USE DEF RecordDebt
  <2> DEFINE p == [file |-> f, score |-> Latest(f) + Delta[s][f]]
  <2>1. /\ txn'[s] = [txn[s] EXCEPT !.pending = @ \cup {p}]
        /\ \A t \in Saves \ {s} : txn'[t] = txn[t]
    BY <1>4, <1>0
  <2>2. p \in Pending
    BY LatestInt, DeltaAssumption DEF Pending
  <2> HIDE DEF p
  <2>3. txn' = [txn EXCEPT ![s].pending = @ \cup {p}]
    BY <1>4 DEF p
  <2>4. LedgerTypeOK'
    BY <1>4, <1>0, <2>2, <2>3 DEF LedgerTypeOK
  <2>5. FiniteLedger'
    <3>1. IsFiniteSet(txn[s].pending \cup {p})
      BY FS_AddElement DEF FiniteLedger
    <3>2. txn'[s].pending = txn[s].pending \cup {p}
      BY <1>0, <2>1
    <3> QED BY <1>4, <2>1, <3>1, <3>2 DEF FiniteLedger
  <2> QED BY <1>4, <1>0, <2>1, <2>4, <2>5 DEF LedgerTimes, ListedFiles
<1>5. CASE ListFiles \/ ListEnd
  <2>1. UNCHANGED <<now, rows, txn>>
    BY <1>5 DEF ListFiles, ListEnd
  <2>2. listing' \in [open : BOOLEAN, toRead : SUBSET Files, sum : Int, quiet : BOOLEAN]
    <3> DEFINE F == {r.file : r \in rows}
    <3>1. F \in SUBSET Files
      BY <1>0
    <3>2. \/ listing' = [open |-> TRUE, toRead |-> F, sum |-> 0, quiet |-> TRUE]
          \/ listing' = [open |-> FALSE, toRead |-> {}, sum |-> 0, quiet |-> TRUE]
      BY <1>5 DEF ListFiles, ListEnd, NoListing
    <3> HIDE DEF F
    <3>3. CASE listing' = [open |-> TRUE, toRead |-> F, sum |-> 0, quiet |-> TRUE]
      BY <3>1, <3>3
    <3>4. CASE listing' = [open |-> FALSE, toRead |-> {}, sum |-> 0, quiet |-> TRUE]
      BY <3>4
    <3> QED BY <3>2, <3>3, <3>4
  <2>3. LedgerTypeOK'
    BY <2>1, <2>2 DEF LedgerTypeOK
  <2>4. FiniteLedger' /\ LedgerTimes'
    BY <2>1 DEF FiniteLedger, LedgerTimes
  <2>5. ListedFiles'
    BY <1>5, <2>1 DEF ListFiles, ListEnd, NoListing, ListedFiles
  <2> QED BY <2>3, <2>4, <2>5
<1>6. ASSUME NEW f \in Files, ListScore(f)  PROVE Goal
  <2>1. Latest(f) \in Int
    BY LatestInt
  <2>2. LedgerTypeOK'
    <3>1. listing' = [listing EXCEPT !.toRead = @ \ {f}, !.sum = @ + Latest(f)]
      BY <1>6 DEF ListScore
    <3>2. /\ listing \in [open : BOOLEAN, toRead : SUBSET Files, sum : Int, quiet : BOOLEAN]
          /\ listing.sum + Latest(f) \in Int
      BY <2>1 DEF LedgerTypeOK
    <3>3. listing' \in [open : BOOLEAN, toRead : SUBSET Files, sum : Int, quiet : BOOLEAN]
      BY <3>1, <3>2
    <3> QED BY <1>6, <3>3 DEF ListScore, LedgerTypeOK
  <2> QED BY <1>6, <1>0, <2>2 DEF ListScore, LedgerTypeOK, FiniteLedger, LedgerTimes, ListedFiles
<1>7. CASE UNCHANGED ledgerVars
  BY <1>7 DEF ledgerVars, LedgerTypeOK, FiniteLedger, LedgerTimes, ListedFiles
<1> SUFFICES Goal
  OBVIOUS
<1> HIDE DEF Goal
<1>8. CASE \E s \in Saves : \/ Begin(s) \/ Commit(s) \/ Rollback(s) \/ Repeat(s)
                           \/ \E f \in Files : RecordDebt(s, f)
  BY <1>8, <1>1, <1>2, <1>3, <1>4
<1>9. CASE \E f \in Files : ListScore(f)
  BY <1>9, <1>6
<1> QED BY <1>5, <1>7, <1>8, <1>9 DEF LedgerNext, Goal

\* A latest score is the sum of the deltas of some rows.
LEMMA LatestIsSum ==
  ASSUME LedgerTypeOK, LedgerTimes, SumsIn(rows), NEW f \in Files
  PROVE  \E S \in SUBSET Of(rows, f) : LatestIn(rows, f) = Total(S)
<1>1. rows \in SUBSET Row /\ now \in Nat /\ \A r \in rows : r.time <= now
  BY MaxTimeAssumption DEF LedgerTypeOK, LedgerTimes, Row
<1>2. CASE Of(rows, f) = {}
  <2>1. LatestIn(rows, f) = 0
    BY <1>2 DEF LatestIn
  <2>2. Total({}) = 0
    BY TotalFacts, FS_EmptySet
  <2> QED BY <2>1, <2>2
<1>3. CASE Of(rows, f) # {}
  <2>1. PICK r \in Of(rows, f) : LatestIn(rows, f) = r.score
    BY <1>1, <1>3, LatestFact
  <2>2. PICK S \in SUBSET {q \in Of(rows, f) : q.commit <= r.commit} : r.score = Total(S)
    BY DEF SumsIn
  <2> QED BY <2>1, <2>2
<1> QED BY <1>2, <1>3

\* Scores that are not committed yet.
LEMMA NextPending ==
  LedgerInv /\ [LedgerNext]_ledgerVars => PendingInv'
<1> SUFFICES ASSUME LedgerInv, [LedgerNext]_ledgerVars,
                    NEW t \in Saves, txn'[t].state = "open", NEW p \in txn'[t].pending
             PROVE  PendingSum(rows', t, p) /\ PendingLatest(rows, t, p)'
  BY DEF PendingInv, PendingSum
<1>0. /\ LedgerTypeOK /\ FiniteLedger /\ LedgerTimes /\ PendingInv /\ SumsIn(rows)
      /\ txn \in [Saves -> [state : {"none", "open", "committed"}, start : 0 .. MaxTime,
                           pending : SUBSET Pending]]
      /\ MaxTime \in Nat
  BY MaxTimeAssumption DEF LedgerInv, LedgerTypeOK
<1>1. CASE rows' = rows /\ txn[t].state = "open" /\ p \in txn[t].pending
           /\ txn'[t].start = txn[t].start
  BY <1>0, <1>1 DEF PendingInv, PendingSum, PendingLatest
<1>2. ASSUME NEW s \in Saves, Begin(s) \/ Rollback(s) \/ Repeat(s)
      PROVE  rows' = rows /\ txn[t].state = "open" /\ p \in txn[t].pending
             /\ txn'[t].start = txn[t].start
  <2>1. CASE s = t
    <3>1. txn'[t].pending = {} \/ txn'[t].state = "none"
      BY <1>0, <1>2, <2>1 DEF Begin, Rollback, Repeat, NoTxn
    <3> QED BY <3>1
  <2>2. CASE s # t
    BY <1>0, <1>2, <2>2 DEF Begin, Rollback, Repeat
  <2> QED BY <2>1, <2>2
<1>3. ASSUME NEW s \in Saves, Commit(s)
      PROVE  PendingSum(rows', t, p) /\ PendingLatest(rows, t, p)'
  <2>1. /\ rows \subseteq rows' /\ now \in Nat
        /\ \A r \in rows' \ rows : \E q \in txn[s].pending : r = RowOf(s, q)
    BY <1>0, <1>3, CommitRows
  <2>2. txn'[s].state = "committed"
    BY <1>0, <1>3 DEF Commit
  <2>3. t # s /\ txn'[t] = txn[t]
    BY <1>0, <1>3, <2>2 DEF Commit
  <2>4. PendingSum(rows, t, p) /\ PendingLatest(rows, t, p)
    BY <1>0, <2>3 DEF PendingInv
  <2>5. Of(rows, p.file) \subseteq Of(rows', p.file)
    BY <2>1 DEF Of
  <2>6. PendingSum(rows', t, p)
    BY <2>4, <2>5 DEF PendingSum
  <2>7. ASSUME \A q \in Of(rows', p.file) : q.commit < txn[t].start
        PROVE  rows' \cap Of(rows', p.file) = Of(rows, p.file)
    <3> SUFFICES ASSUME NEW q \in Of(rows', p.file), q \notin rows  PROVE FALSE
      BY <2>5 DEF Of
    <3>1. q.commit = now + 1
      BY <2>1 DEF Of, RowOf
    <3>2. txn[t].start <= now /\ txn[t].start \in Nat
      BY <1>0, <2>3 DEF LedgerTimes
    <3> QED BY <2>1, <2>7, <3>1, <3>2
  <2>8. ASSUME \A q \in Of(rows', p.file) : q.commit < txn[t].start
        PROVE  p.score = LatestIn(rows', p.file) + Delta[t][p.file]
    <3>1. Of(rows', p.file) = Of(rows, p.file)
      BY <2>7, <2>8 DEF Of
    <3>2. LatestIn(rows', p.file) = LatestIn(rows, p.file)
      BY <3>1 DEF LatestIn
    <3> QED BY <2>4, <2>8, <3>1, <3>2 DEF PendingLatest
  <2> QED BY <2>3, <2>6, <2>8 DEF PendingLatest
<1>4. ASSUME NEW s \in Saves, NEW f \in Files, RecordDebt(s, f)
      PROVE  PendingSum(rows', t, p) /\ PendingLatest(rows, t, p)'
  <2> DEFINE new == [file |-> f, score |-> Latest(f) + Delta[s][f]]
  <2>1. rows' = rows /\ \A u \in Saves : u # s => txn'[u] = txn[u]
    BY <1>0, <1>4 DEF RecordDebt
  <2>2. /\ txn[s].state = "open" /\ txn'[s].start = txn[s].start
        /\ txn'[s].pending = txn[s].pending \cup {new}
    BY <1>0, <1>4 DEF RecordDebt
  <2>3. CASE ~(t = s /\ p = new)
    <3> HIDE DEF new
    <3>1. txn[t].state = "open" /\ p \in txn[t].pending /\ txn'[t].start = txn[t].start
      BY <2>1, <2>2, <2>3
    <3> QED BY <1>1, <2>1, <3>1
  <2>4. CASE t = s /\ p = new
    <3>1. p.file = f /\ p.score = LatestIn(rows, f) + Delta[t][f]
      BY <1>0, <2>4, LatestInt
    <3>2. PICK S \in SUBSET Of(rows, f) : LatestIn(rows, f) = Total(S)
      BY <1>0, LatestIsSum
    <3>3. PendingSum(rows', t, p)
      BY <2>1, <3>1, <3>2 DEF PendingSum
    <3> QED BY <2>1, <3>1, <3>3 DEF PendingLatest
  <2> QED BY <2>3, <2>4
<1>5. CASE ListFiles \/ ListEnd \/ (\E f \in Files : ListScore(f)) \/ UNCHANGED ledgerVars
  <2>1. rows' = rows /\ txn' = txn
    BY <1>5 DEF ListFiles, ListEnd, ListScore, ledgerVars
  <2> QED BY <1>1, <2>1
<1>6. CASE \E s \in Saves : \/ Begin(s) \/ Commit(s) \/ Rollback(s) \/ Repeat(s)
                           \/ \E f \in Files : RecordDebt(s, f)
  BY <1>6, <1>1, <1>2, <1>3, <1>4
<1> QED BY <1>5, <1>6 DEF LedgerNext

\* A committed score is a sum of deltas, its own among them.
LEMMA CommitSums ==
  ASSUME LedgerInv, NEW s \in Saves, Commit(s)
  PROVE  SumsIn(rows')
<1> SUFFICES ASSUME NEW f \in Files, NEW r \in Of(rows', f)
             PROVE  \E S \in SUBSET {q \in Of(rows', f) : q.commit <= r.commit} :
                      r \in S /\ r.score = Total(S)
  BY DEF SumsIn
<1>0. LedgerTypeOK /\ FiniteLedger /\ LedgerTimes /\ PendingInv /\ SumsIn(rows)
  BY DEF LedgerInv
<1>1. /\ rows' \in SUBSET Row /\ IsFiniteSet(rows') /\ rows \subseteq rows' /\ now \in Nat
      /\ \A q \in rows' \ rows : \E p \in txn[s].pending : q = RowOf(s, p)
  BY <1>0, CommitRows
<1>2. Of(rows, f) \subseteq Of(rows', f)
  BY <1>1 DEF Of
<1>3. CASE r \in rows
  <2>1. PICK S \in SUBSET {q \in Of(rows, f) : q.commit <= r.commit} :
               r \in S /\ r.score = Total(S)
    BY <1>0, <1>3 DEF SumsIn, Of
  <2> QED BY <1>2, <2>1
<1>4. CASE r \notin rows
  <2>1. PICK p \in txn[s].pending : r = RowOf(s, p)
    BY <1>1, <1>4 DEF Of
  <2>2. /\ r.file = p.file /\ r.file = f /\ r.commit = now + 1
        /\ r.score = p.score /\ r.delta = Delta[s][p.file]
    BY <2>1 DEF RowOf, Of
  <2>3. PICK S \in SUBSET Of(rows, f) : p.score = Total(S) + r.delta
    <3>1. PendingSum(rows, s, p)
      BY <1>0 DEF PendingInv, Commit
    <3> QED BY <2>2, <3>1 DEF PendingSum
  <2>4. S \in SUBSET Row /\ IsFiniteSet(S) /\ r \in Row \ S
    BY <1>0, <1>1, <1>4, FS_Subset DEF Of, FiniteLedger
  <2>5. Total(S \cup {r}) = r.delta + Total(S) /\ Total(S) \in Int
    BY <2>4, TotalFacts
  <2>6. r.delta \in Int
    BY <2>4 DEF Row
  <2>7. r.score = Total(S \cup {r})
    BY <2>2, <2>3, <2>5, <2>6
  <2>8. \A q \in S \cup {r} : q \in Of(rows', f) /\ q.commit <= r.commit
    <3>1. \A q \in S : q \in rows /\ q.commit \in Nat /\ q.commit <= now
      BY <1>0 DEF Of, LedgerTimes, LedgerTypeOK, Row
    <3> QED BY <1>1, <1>2, <2>2, <3>1
  <2> QED BY <2>7, <2>8
<1> QED BY <1>3, <1>4

\* If a row of a commit is apart from every other of its file, then no save of the file
\* was committed after it began, and its score is the latest score and its delta.
LEMMA CommitSerial ==
  ASSUME LedgerInv, NEW s \in Saves, Commit(s)
  PROVE  SerialIn(rows')
<1> SUFFICES ASSUME NEW f \in Files,
                    \A q, r \in Of(rows', f) : q # r => Disjoint(q, r)
             PROVE  LatestIn(rows', f) = Total(Of(rows', f))
  BY DEF SerialIn
<1>0. LedgerTypeOK /\ FiniteLedger /\ LedgerTimes /\ PendingInv /\ SerialIn(rows)
  BY DEF LedgerInv
<1>1. /\ rows' \in SUBSET Row /\ IsFiniteSet(rows') /\ rows \subseteq rows' /\ now \in Nat
      /\ now' = now + 1
      /\ \A q \in rows' \ rows : \E p \in txn[s].pending : q = RowOf(s, p)
  BY <1>0, CommitRows
<1>2. LatestIn(rows, f) = Total(Of(rows, f))
  <2>1. \A q, r \in Of(rows, f) : q # r => Disjoint(q, r)
    BY <1>1 DEF Of
  <2> QED BY <1>0, <2>1 DEF SerialIn
<1>3. CASE Of(rows', f) \subseteq rows
  <2>1. Of(rows', f) = Of(rows, f)
    BY <1>1, <1>3 DEF Of
  <2>2. LatestIn(rows', f) = LatestIn(rows, f)
    BY <2>1 DEF LatestIn
  <2> QED BY <1>2, <2>1, <2>2
<1>4. ASSUME NEW r \in Of(rows', f), r \notin rows
      PROVE  LatestIn(rows', f) = Total(Of(rows', f))
  <2>1. PICK p \in txn[s].pending : r = RowOf(s, p)
    BY <1>1, <1>4 DEF Of
  <2>2. /\ r.file = p.file /\ r.file = f /\ r.commit = now + 1 /\ r.time = txn[s].start
        /\ r.score = p.score /\ r.delta = Delta[s][p.file]
    BY <2>1 DEF RowOf, Of
  <2>3. r \in Row /\ r.delta \in Int /\ r.time \in Nat /\ r.time <= now
    BY <1>0, <1>1, <2>2 DEF Of, Row, LedgerTimes, Commit
  <2>4. \A q \in Of(rows', f) \ rows : q = r
    <3> SUFFICES ASSUME NEW q \in Of(rows', f) \ rows, q # r  PROVE FALSE
      OBVIOUS
    <3>1. PICK u \in txn[s].pending : q = RowOf(s, u)
      BY <1>1 DEF Of
    <3>2. q.commit = now + 1 /\ q.time = r.time
      BY <2>2, <3>1 DEF RowOf
    <3>3. Disjoint(q, r)
      BY <1>4
    <3> QED BY <1>1, <2>2, <2>3, <3>2, <3>3 DEF Disjoint
  <2>5. \A q \in Of(rows, f) :
           q.time \in Nat /\ q.commit \in Nat /\ q.time < q.commit /\ q.commit <= now
    BY <1>0 DEF LedgerTimes, LedgerTypeOK, Row, Of
  <2>6. \A q \in Of(rows, f) : q.commit < r.time
    <3> SUFFICES ASSUME NEW q \in Of(rows, f)  PROVE q.commit < r.time
      OBVIOUS
    <3>1. Disjoint(q, r)
      BY <1>1, <1>4 DEF Of
    <3> QED BY <1>1, <2>2, <2>3, <2>5, <3>1 DEF Disjoint
  <2>7. Of(rows', f) = Of(rows, f) \cup {r}
    BY <1>1, <1>4, <2>4 DEF Of
  <2>8. LatestIn(rows', f) = r.score
    <3>1. \A q \in rows' : q.time \in Nat
      BY <1>1 DEF Row
    <3>2. \A q \in rows' : q.time <= now
      <4>1. \A q \in rows : q.time <= now
        BY <1>0, <1>1 DEF LedgerTimes, LedgerTypeOK, Row
      <4>2. \A q \in rows' \ rows : q.time = txn[s].start
        BY <1>1 DEF RowOf
      <4> QED BY <2>2, <2>3, <4>1, <4>2
    <3>3. PICK q \in Of(rows', f) : /\ \A u \in Of(rows', f) : u.time <= q.time
                                   /\ LatestIn(rows', f) = q.score
      BY <1>1, <1>4, <3>2, LatestFact
    <3>4. q = r
      <4> SUFFICES ASSUME q \in Of(rows, f)  PROVE FALSE
        BY <2>7
      <4>1. r.time <= q.time /\ q.time < q.commit /\ q.commit < r.time
        BY <1>4, <2>5, <2>6, <3>3
      <4> QED BY <2>3, <2>5, <4>1
    <3> QED BY <3>3, <3>4
  <2>9. r.score = LatestIn(rows, f) + r.delta
    <3>1. PendingLatest(rows, s, p)
      BY <1>0 DEF PendingInv, Commit
    <3> QED BY <2>2, <2>6, <3>1 DEF PendingLatest
  <2>10. Total(Of(rows', f)) = r.delta + Total(Of(rows, f)) /\ Total(Of(rows, f)) \in Int
    <3> DEFINE S == Of(rows, f)
    <3>1. S \in SUBSET Row /\ IsFiniteSet(S) /\ r \in Row \ S
      BY <1>0, <1>4, <2>3, FS_Subset DEF Of, FiniteLedger, LedgerTypeOK
    <3> HIDE DEF S
    <3>2. Total(S \cup {r}) = r.delta + Total(S) /\ Total(S) \in Int
      BY <3>1, TotalFacts
    <3> QED BY <2>7, <3>2 DEF S
  <2> QED BY <1>2, <2>3, <2>8, <2>9, <2>10
<1> QED BY <1>3, <1>4 DEF Of

\* The listing's sum, as long as no save is committed.
LEMMA NextQuiet ==
  LedgerInv /\ [LedgerNext]_ledgerVars => QuietIn(rows, listing)'
<1> SUFFICES ASSUME LedgerInv, [LedgerNext]_ledgerVars,
                    listing'.open, listing'.quiet
             PROVE  listing'.sum = SumOver(LatestScores(rows'),
                                           {r.file : r \in rows'} \ listing'.toRead)
  BY DEF QuietIn, LatestScores, LatestIn, Of
<1>0. /\ LedgerTypeOK /\ LedgerTimes /\ ListedFiles /\ QuietIn(rows, listing)
      /\ listing \in [open : BOOLEAN, toRead : SUBSET Files, sum : Int, quiet : BOOLEAN]
      /\ \A r \in rows : r.file \in Files
  BY DEF LedgerInv, LedgerTypeOK, Row
<1>1. CASE UNCHANGED <<rows, listing>>
  BY <1>0, <1>1 DEF QuietIn
<1>2. CASE \E s \in Saves : \/ Begin(s) \/ Rollback(s) \/ Repeat(s)
                           \/ \E f \in Files : RecordDebt(s, f)
  <2>1. UNCHANGED <<rows, listing>>
    BY <1>2 DEF Begin, Rollback, Repeat, RecordDebt
  <2> QED BY <1>1, <2>1
<1>3. CASE \E s \in Saves : Commit(s)
  <2>1. listing' = [listing EXCEPT !.quiet = FALSE]
    BY <1>3 DEF Commit
  <2>2. ~listing'.quiet
    BY <1>0, <2>1
  <2> QED BY <2>2
<1>4. CASE ListFiles
  <2>1. rows' = rows /\ listing'.sum = 0 /\ listing'.toRead = {r.file : r \in rows}
    BY <1>4 DEF ListFiles
  <2>2. {r.file : r \in rows'} \ listing'.toRead = {}
    BY <2>1
  <2> QED BY <2>1, <2>2, SumEmpty
<1>5. CASE ListEnd
  <2>1. ~listing'.open
    BY <1>5 DEF ListEnd, NoListing
  <2> QED BY <2>1
<1>6. ASSUME NEW f \in Files, ListScore(f)
      PROVE  listing'.sum = SumOver(LatestScores(rows'),
                                    {r.file : r \in rows'} \ listing'.toRead)
  <2> DEFINE d == LatestScores(rows)
             F == {r.file : r \in rows} \ listing.toRead
  <2>1. /\ rows' = rows /\ f \in listing.toRead /\ listing.open
        /\ listing'.toRead = listing.toRead \ {f}
        /\ listing'.sum = listing.sum + Latest(f)
        /\ listing'.quiet = listing.quiet
    BY <1>0, <1>6 DEF ListScore
  <2>2. listing.sum = SumOver(d, F)
    BY <1>0, <2>1 DEF QuietIn
  <2>3. {r.file : r \in rows'} \ listing'.toRead = F \cup {f}
    BY <1>0, <2>1 DEF ListedFiles
  <2>4. F \cup {f} \in SUBSET Files /\ f \notin F /\ (F \cup {f}) \ {f} = F
    BY <1>0, <2>1
  <2>5. IsFiniteSet(F \cup {f})
    BY <2>4, FiniteAssumption, FS_Subset
  <2>6. \A g \in Files : d[g] = Latest(g) /\ d[g] \in Int
    BY <1>0, LatestInt DEF LatestScores
  <2> HIDE DEF d, F
  <2>7. SumOver(d, F \cup {f}) = d[f] + SumOver(d, F)
    <3> DEFINE S == F \cup {f}
    <3>1. f \in S /\ IsFiniteSet(S) /\ \A g \in S : d[g] \in Int
      BY <2>4, <2>5, <2>6
    <3>2. S \ {f} = F
      BY <2>4
    <3> HIDE DEF S
    <3>3. SumOver(d, S) = d[f] + SumOver(d, S \ {f})
      BY <3>1, SumAdd
    <3> QED BY <3>2, <3>3 DEF S
  <2>8. listing.sum \in Int /\ d[f] \in Int
    BY <1>0, <2>6
  <2>9. listing'.sum = SumOver(d, F \cup {f})
    BY <2>1, <2>2, <2>6, <2>7, <2>8
  <2> QED BY <2>1, <2>3, <2>9 DEF d
<1> QED BY <1>1, <1>2, <1>3, <1>4, <1>5, <1>6 DEF LedgerNext, ledgerVars

-----------------------------------------------------------------------------
(* The theorems about the ledger                                           *)

LEMMA NextLedgerInv == LedgerInv /\ [LedgerNext]_ledgerVars => LedgerInv'
<1> SUFFICES ASSUME LedgerInv, [LedgerNext]_ledgerVars  PROVE LedgerInv'
  OBVIOUS
<1>1. LedgerTypeOK' /\ FiniteLedger' /\ LedgerTimes' /\ ListedFiles'
  BY NextLedgerTypes DEF LedgerInv
<1>2. PendingInv'
  BY NextPending
<1>3. SerialIn(rows') /\ SumsIn(rows')
  <2>1. CASE \E s \in Saves : Commit(s)
    BY <2>1, CommitSums, CommitSerial
  <2>2. CASE ~ \E s \in Saves : Commit(s)
    <3>1. rows' = rows
      BY <2>2 DEF LedgerNext, ledgerVars, Begin, Rollback, Repeat, RecordDebt, ListFiles,
                  ListEnd, ListScore
    <3> QED BY <3>1 DEF LedgerInv
  <2> QED BY <2>1, <2>2
<1>4. QuietIn(rows, listing)'
  BY NextQuiet
<1> QED BY <1>1, <1>2, <1>3, <1>4 DEF LedgerInv, SerialIn, SumsIn

\* The invariant of the ledger.
THEOREM LedgerInvariance == LedgerSpec => []LedgerInv
<1> QED BY InitLedgerInv, NextLedgerInv, PTL DEF LedgerSpec

\* The ledger, its transactions and its listing are well typed.
THEOREM LedgerTypeCorrect == LedgerSpec => []LedgerTypeOK
<1>1. LedgerInv => LedgerTypeOK
  BY DEF LedgerInv
<1> QED BY <1>1, LedgerInvariance, PTL

\* While the saves of a file do not overlap, its debt score is the sum of the deltas that
\* they recorded, whatever saves of other files do, and although nothing is locked.
THEOREM SerialScoresAddUp == LedgerSpec => []SerialSavesAddUp
<1>1. LedgerInv => SerialSavesAddUp
  <2>1. \A f \in Files : RowsOf(f) = Of(rows, f) /\ Latest(f) = LatestIn(rows, f)
    BY DEF RowsOf, Of, Latest, LatestIn
  <2> QED BY <2>1 DEF LedgerInv, SerialIn, SerialSavesAddUp
<1> QED BY <1>1, LedgerInvariance, PTL

\* Saves that do overlap lose whole deltas of each other and nothing else: each score is
\* the sum of deltas that were committed by then, its own among them.
THEOREM EveryScoreIsASum == LedgerSpec => []ScoresAreSums
<1>1. LedgerInv => ScoresAreSums
  <2>1. \A f \in Files : RowsOf(f) = Of(rows, f)
    BY DEF RowsOf, Of
  <2> QED BY <2>1 DEF LedgerInv, SumsIn, ScoresAreSums
<1> QED BY <1>1, LedgerInvariance, PTL

\* What GET /repos has summed up is the ledger's total of the files it has read, if no
\* save was committed since it began.
THEOREM QuietListingExact == LedgerSpec => []QuietListingIsExact
<1>1. LedgerInv => QuietListingIsExact
  <2> SUFFICES ASSUME LedgerInv, listing.open, listing.quiet
               PROVE  listing.sum = MapThenSumSet(Latest, {r.file : r \in rows} \ listing.toRead)
    BY DEF QuietListingIsExact
  <2> DEFINE F == {r.file : r \in rows} \ listing.toRead
  <2>1. listing.sum = SumOver(LatestScores(rows), F)
    BY DEF LedgerInv, QuietIn
  <2>2. F \in SUBSET Files
    BY DEF LedgerInv, LedgerTypeOK, Row
  <2> HIDE DEF F
  <2>3. listing.sum = MapThenSumSet(Latest, F)
    BY <2>1, <2>2, LatestSum
  <2> QED BY <2>3 DEF F
<1> QED BY <1>1, LedgerInvariance, PTL
=============================================================================
