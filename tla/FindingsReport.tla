--------------------------- MODULE FindingsReport ---------------------------
(***************************************************************************)
(* The way of a review's findings from the agents to the database and to   *)
(* GitHub (agents/orchestrator.py): aggregator_node dedupes and sorts what *)
(* the agents found, and post_findings_to_github dedupes and sorts again   *)
(* what the job hands it, writes a review with at most InlineMax inline    *)
(* comments and then a check run, each in a try block of its own.          *)
(*                                                                         *)
(* The two loops are taken one finding at a time.                          *)
(***************************************************************************)
EXTENDS Findings

CONSTANTS
  Inputs,    \* the lists of findings that the agents may merge into the state
  InlineMax  \* 15 in the code

ASSUME InputsAssumption == Inputs \subseteq Seq(Finding)

ASSUME InlineMaxAssumption == InlineMax \in Nat

VARIABLES
  found,   \* state.findings when the aggregator starts
  stage,   \* where the review is
  next,    \* index of the next finding in the loop
  kept,    \* values of the dict `deduped'
  saved,   \* the aggregator's result, which the job saves and posts
  posted,  \* sorted_findings of post_findings_to_github
  review,  \* what the accepted review shows, as [inline, summary], or NoReview
  check    \* the check run's conclusion, or "none"

vars == <<found, stage, next, kept, saved, posted, review, check>>

NoReview == [inline |-> {}, summary |-> {}]

TypeOK ==
  /\ found  \in Seq(Finding)
  /\ stage  \in {"aggregate", "post", "review", "check", "done"}
  /\ next   \in Nat \ {0}
  /\ kept   \in Seq(Finding)
  /\ saved  \in Seq(Finding)
  /\ posted \in Seq(Finding)
  /\ review \in [inline : SUBSET Finding, summary : SUBSET Finding]
  /\ check  \in {"none", "success", "failure"}

Init ==
  /\ found \in Inputs
  /\ stage  = "aggregate"
  /\ next   = 1
  /\ kept   = <<>>
  /\ saved  = <<>>
  /\ posted = <<>>
  /\ review = NoReview
  /\ check  = "none"

-----------------------------------------------------------------------------
\* One iteration of the dedupe loop over s.
Iterate(s) ==
  /\ next <= Len(s)
  /\ kept' = Absorb(kept, s[next])
  /\ next' = next + 1

\* aggregator_node
AggregateFinding ==
  /\ stage = "aggregate"
  /\ Iterate(found)
  /\ UNCHANGED <<found, stage, saved, posted, review, check>>

AggregateEnd ==
  /\ stage = "aggregate"
  /\ next > Len(found)
  /\ saved' \in SortedBySeverity(kept)
  /\ stage' = "post"
  /\ kept'  = <<>>
  /\ next'  = 1
  /\ UNCHANGED <<found, posted, review, check>>

\* post_findings_to_github

\* Mutant of PostFinding: the posting dedupes by place, whatever the category.
PostFindingByPlace ==
  /\ stage = "post"
  /\ next <= Len(saved)
  /\ kept' = IF \E i \in DOMAIN kept : kept[i].file = saved[next].file
                                     /\ kept[i].line = saved[next].line
             THEN kept ELSE Append(kept, saved[next])
  /\ next' = next + 1
  /\ UNCHANGED <<found, stage, saved, posted, review, check>>

PostFinding ==
  /\ stage = "post"
  /\ Iterate(saved)
  /\ UNCHANGED <<found, stage, saved, posted, review, check>>

PostEnd ==
  /\ stage = "post"
  /\ next > Len(saved)
  /\ posted' \in SortedBySeverity(kept)
  /\ stage'  = "review"
  /\ UNCHANGED <<found, next, kept, saved, review, check>>

\* The first InlineMax findings become inline comments if they have a line; all
\* the others are listed in the review's body.
Inlined == {posted[i] : i \in {j \in DOMAIN posted : j <= InlineMax /\ posted[j].line # NoLine}}

\* Mutant of Listed: findings without a line are dropped with the inline ones.
ListedOverflow == {posted[i] : i \in {j \in DOMAIN posted : j > InlineMax}}

Listed == {posted[i] : i \in {j \in DOMAIN posted : j > InlineMax}}
             \cup {posted[i] : i \in {j \in DOMAIN posted : j <= InlineMax /\ posted[j].line = NoLine}}

CreateReview ==
  /\ stage = "review"
  /\ review' = [inline |-> Inlined, summary |-> Listed]
  /\ stage'  = "check"
  /\ UNCHANGED <<found, next, kept, saved, posted, check>>

\* GitHub refuses the review (a line outside the diff, say): logged, and the check
\* run is still created.
ReviewRefused ==
  /\ stage = "review"
  /\ stage' = "check"
  /\ UNCHANGED <<found, next, kept, saved, posted, review, check>>

\* Mutant of HasBlockers: only the inline comments are looked at.
HasInlineBlockers == \E f \in Inlined : f.severity = "blocker"

HasBlockers == \E i \in DOMAIN posted : posted[i].severity = "blocker"

CreateCheckRun ==
  /\ stage = "check"
  /\ check' = IF HasBlockers THEN "failure" ELSE "success"
  /\ stage' = "done"
  /\ UNCHANGED <<found, next, kept, saved, posted, review>>

CheckRunRefused ==
  /\ stage = "check"
  /\ stage' = "done"
  /\ UNCHANGED <<found, next, kept, saved, posted, review, check>>

Next ==
  \/ AggregateFinding \/ AggregateEnd
  \/ PostFinding \/ PostEnd
  \/ CreateReview \/ ReviewRefused
  \/ CreateCheckRun \/ CheckRunRefused

Spec == Init /\ [][Next]_vars

-----------------------------------------------------------------------------
(* Properties                                                              *)

Reviewed == stage \in {"check", "done"} /\ review # NoReview

\* The aggregator keeps exactly one finding of every (file, line, category) that
\* was found, one of those that were found, and none of its key-mates was more
\* confident.
StrongestKept ==
  stage # "aggregate" =>
    /\ OnePerKey(saved)
    /\ Findings(saved) \subseteq Findings(found)
    /\ Covers(Findings(saved), Findings(found))

\* The second dedupe and sort lose nothing: what GitHub is told is what the
\* database is told.
PostedAsSaved ==
  stage \in {"review", "check", "done"} =>
    /\ Len(posted) = Len(saved)
    /\ Findings(posted) = Findings(saved)

\* A review shows every finding in exactly one place, inline only on a line, and
\* no finding is pushed out of the inline comments by a less severe one.
EveryFindingShown ==
  Reviewed =>
    /\ review.inline \cup review.summary = Findings(saved)
    /\ review.inline \cap review.summary = {}
    /\ \A f \in review.inline : f.line # NoLine
    /\ \A f \in review.inline, g \in review.summary :
         g.line # NoLine => Rank(f) <= Rank(g)

\* The pull request is marked green exactly when the database holds no blocker of
\* it, whether or not GitHub took the review.
GreenMeansNoSavedBlocker ==
  /\ check = "success" => \A f \in Findings(saved) : f.severity # "blocker"
  /\ check = "failure" => \E f \in Findings(saved) : f.severity = "blocker"

\* A blocker some agent found is missing from a green review only because a
\* key-mate that is at least as confident, and less severe, took its place.
BlockerLostOnlyToKeyMate ==
  check = "success" =>
    \A f \in Findings(found) :
      f.severity = "blocker" =>
        \E g \in Findings(saved) :
          /\ Key(g) = Key(f)
          /\ g.confidence >= f.confidence
          /\ g.severity # "blocker"

\* "If a high-severity blocker is found, the check is marked as failed" (README).
BlockerFailsCheck ==
  check = "success" => \A f \in Findings(found) : f.severity # "blocker"
=============================================================================
