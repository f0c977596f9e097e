------------------------------ MODULE DebtLedger ------------------------------
(***************************************************************************)
(* The debt_scores table and the transactions that write it: the last part *)
(* of save_review_and_findings (backend/app/db/crud.py).  A save begins a  *)
(* transaction, and for every changed file reads the latest committed      *)
(* score and inserts a row with the new one; its rows appear with its      *)
(* commit.  Saves of different heads run on different workers with nothing *)
(* between them: READ COMMITTED, no lock, and a row's time is now(), the   *)
(* start of its transaction.                                               *)
(*                                                                         *)
(* GET /repos sums the latest scores, one SELECT per file.                 *)
(***************************************************************************)
EXTENDS Integers, FiniteSets, FiniteSetsExt

CONSTANTS
  Saves,         \* saves of reviews
  Files,         \* file paths of one repository
  Changed,       \* Changed[s]: files of the save's pull request
  Delta,         \* Delta[s][f]: what the save adds to the score of f
  MaxTime        \* bound: begins and commits

ASSUME ChangedAssumption == Changed \in [Saves -> SUBSET Files]
ASSUME DeltaAssumption   == Delta \in [Saves -> [Files -> Int]]
ASSUME FiniteAssumption  == IsFiniteSet(Files) /\ IsFiniteSet(Saves)
ASSUME MaxTimeAssumption == MaxTime \in Nat

VARIABLES
  now,      \* the database's clock, one tick per begin and commit
  rows,     \* committed rows of debt_scores, with the commit time as history
  txn,      \* txn[s]: the save's transaction
  listing   \* GET /repos: the files still to read and the sum so far

ledgerVars == <<now, rows, txn, listing>>

Row == [save : Saves, file : Files, time : Nat, score : Int, delta : Int, commit : Nat]

\* A transaction has inserted the rows `pending', whose commit time is not known yet.
Pending == [file : Files, score : Int]
NoTxn   == [state |-> "none", start |-> 0, pending |-> {}]

LedgerTypeOK ==
  /\ now \in 0 .. MaxTime
  /\ rows \subseteq Row
  /\ txn \in [Saves -> [state : {"none", "open", "committed"}, start : 0 .. MaxTime,
                       pending : SUBSET Pending]]
  /\ listing \in [open : BOOLEAN, toRead : SUBSET Files, sum : Int, quiet : BOOLEAN]

NoListing == [open |-> FALSE, toRead |-> {}, sum |-> 0, quiet |-> TRUE]

LedgerInit ==
  /\ now = 0
  /\ rows = {}
  /\ txn = [s \in Saves |-> NoTxn]
  /\ listing = NoListing

Tick == now < MaxTime /\ now' = now + 1

-----------------------------------------------------------------------------
\* Mutant of Latest: the rows of a file are ordered by score.
Highest(f) ==
  LET of == {r \in rows : r.file = f}
  IN  IF of = {} THEN 0 ELSE (CHOOSE r \in of : \A q \in of : q.score <= r.score).score

\* Mutant of Latest: the query does not ask for the file.
LatestOfRepo(f) ==
  IF rows = {} THEN 0 ELSE (CHOOSE r \in rows : \A q \in rows : q.time <= r.time).score

\* get_last_debt_score: the committed row of the file with the greatest time.
Latest(f) ==
  LET of == {r \in rows : r.file = f}
  IN  IF of = {} THEN 0 ELSE (CHOOSE r \in of : \A q \in of : q.time <= r.time).score

\* The first statement of the save.
Begin(s) ==
  /\ txn[s].state = "none"
  /\ Tick
  /\ txn' = [txn EXCEPT ![s] = [state |-> "open", start |-> now', pending |-> {}]]
  /\ UNCHANGED <<rows, listing>>

Written(s) == {p.file : p \in txn[s].pending}

\* One file of the save (taken in any order): get_last_debt_score and record_debt_score.
RecordDebt(s, f) ==
  /\ txn[s].state = "open"
  /\ f \in Changed[s] \ Written(s)
  /\ txn' = [txn EXCEPT ![s].pending = @ \cup {[file |-> f, score |-> Latest(f) + Delta[s][f]]}]
  /\ UNCHANGED <<now, rows, listing>>

RowOf(s, p) ==
  [save |-> s, file |-> p.file, time |-> txn[s].start, score |-> p.score,
   delta |-> Delta[s][p.file], commit |-> now + 1]

Commit(s) ==
  /\ txn[s].state = "open"
  /\ Written(s) = Changed[s]
  /\ Tick
  /\ rows' = rows \cup {RowOf(s, p) : p \in txn[s].pending}
  /\ txn' = [txn EXCEPT ![s].state = "committed"]
  /\ listing' = [listing EXCEPT !.quiet = FALSE]

\* Mutant of Rollback: the session keeps its transaction.
RollbackForgotten(s) ==
  /\ txn[s].state = "open"
  /\ txn' = [txn EXCEPT ![s].state = "aborted"]
  /\ UNCHANGED <<now, rows, listing>>

\* An exception, or the loss of the worker: get_session rolls back, and the
\* job's retry begins again.
Rollback(s) ==
  /\ txn[s].state = "open"
  /\ txn' = [txn EXCEPT ![s] = NoTxn]
  /\ UNCHANGED <<now, rows, listing>>

\* The save of a head is made a second time, when the job failed after it.
Repeat(s) ==
  /\ txn[s].state = "committed"
  /\ txn' = [txn EXCEPT ![s] = NoTxn]
  /\ UNCHANGED <<now, rows, listing>>

\* GET /repos: the distinct paths, then the latest score of each.
ListFiles ==
  /\ ~listing.open
  /\ listing' = [open |-> TRUE, toRead |-> {r.file : r \in rows}, sum |-> 0, quiet |-> TRUE]
  /\ UNCHANGED <<now, rows, txn>>

\* Mutant of ListScore: every score of the file is added.
ListScores(f) ==
  /\ listing.open
  /\ f \in listing.toRead
  /\ listing' = [listing EXCEPT !.toRead = @ \ {f},
                               !.sum = @ + MapThenSumSet(LAMBDA r : r.score,
                                                         {r \in rows : r.file = f})]
  /\ UNCHANGED <<now, rows, txn>>

ListScore(f) ==
  /\ listing.open
  /\ f \in listing.toRead
  /\ listing' = [listing EXCEPT !.toRead = @ \ {f}, !.sum = @ + Latest(f)]
  /\ UNCHANGED <<now, rows, txn>>

ListEnd ==
  /\ listing.open
  /\ listing.toRead = {}
  /\ listing' = NoListing
  /\ UNCHANGED <<now, rows, txn>>

LedgerNext ==
  \/ \E s \in Saves :
       \/ Begin(s) \/ Commit(s) \/ Rollback(s) \/ Repeat(s)
       \/ \E f \in Files : RecordDebt(s, f)
  \/ ListFiles \/ ListEnd
  \/ \E f \in Files : ListScore(f)

LedgerSpec == LedgerInit /\ [][LedgerNext]_ledgerVars

-----------------------------------------------------------------------------
(* Properties                                                              *)

RowsOf(f) == {r \in rows : r.file = f}

Disjoint(q, r) == q.commit < r.time \/ r.commit < q.time

Total(S) == MapThenSumSet(LAMBDA r : r.delta, S)

\* The score of a file is the sum of all deltas recorded for it, as long as no two
\* saves of the file were open at the same time; a repeated save counts twice.
SerialSavesAddUp ==
  \A f \in Files :
    (\A q, r \in RowsOf(f) : q # r => Disjoint(q, r)) => Latest(f) = Total(RowsOf(f))

\* Even overlapping saves only lose deltas of each other: every score is the sum of
\* the deltas of some saves of the file, its own among them.
ScoresAreSums ==
  \A f \in Files : \A r \in RowsOf(f) :
    \E S \in SUBSET {q \in RowsOf(f) : q.commit <= r.commit} :
      r \in S /\ r.score = Total(S)

\* The total that GET /repos computes row by row is the ledger's total when no save
\* was committed meanwhile.
QuietListingIsExact ==
  listing.open /\ listing.quiet =>
    listing.sum = MapThenSumSet(Latest, {r.file : r \in rows} \ listing.toRead)
=============================================================================
