------------------------------ MODULE Findings ------------------------------
(***************************************************************************)
(* The findings of a review and what the orchestrator does with a list of  *)
(* them (agents/orchestrator.py): the dedupe loop and the stable sort that *)
(* aggregator_node and post_findings_to_github both contain.               *)
(*                                                                         *)
(* A finding is its file, its line or NoLine, severity, category and       *)
(* confidence.  The agents' categories are distinct, so a category stands  *)
(* for its agent too; message and suggested fix are left out.              *)
(***************************************************************************)
EXTENDS Integers, Sequences, FiniteSets

CONSTANTS
  Finding,  \* the findings that agents may produce
  NoLine    \* the line None of a finding about a whole file

Severities == {"blocker", "warning", "nit"}

ASSUME FindingAssumption ==
  \A f \in Finding :
    /\ f.severity \in Severities
    /\ f.confidence \in Nat

Findings(s) == {s[i] : i \in DOMAIN s}

Key(f) == <<f.file, f.line, f.category>>

Rank(f) == CASE f.severity = "blocker" -> 0
             [] f.severity = "warning" -> 1
             [] f.severity = "nit"     -> 2

-----------------------------------------------------------------------------
(* One iteration of the loop over the findings: `kept' holds the values of *)
(* the dict, in the order in which their keys were inserted.               *)

\* Mutant of Absorb: the last finding of a key wins.
AbsorbLast(kept, f) ==
  IF \E i \in DOMAIN kept : Key(kept[i]) = Key(f)
  THEN [i \in DOMAIN kept |-> IF Key(kept[i]) = Key(f) THEN f ELSE kept[i]]
  ELSE Append(kept, f)

\* Mutant of Absorb: the first finding of a key wins.
AbsorbFirst(kept, f) ==
  IF \E i \in DOMAIN kept : Key(kept[i]) = Key(f) THEN kept ELSE Append(kept, f)

Absorb(kept, f) ==
  IF \E i \in DOMAIN kept : Key(kept[i]) = Key(f)
  THEN [i \in DOMAIN kept |->
          IF Key(kept[i]) = Key(f) /\ f.confidence > kept[i].confidence
          THEN f ELSE kept[i]]
  ELSE Append(kept, f)

\* Python's sorted by severity: stable, so positions decide among equals.
Before(s, i, j) == Rank(s[i]) < Rank(s[j]) \/ (Rank(s[i]) = Rank(s[j]) /\ i < j)

Reorderings(s) ==
  {p \in [DOMAIN s -> DOMAIN s] :
     /\ \A i, j \in DOMAIN s : p[i] = p[j] => i = j
     /\ \A j \in DOMAIN s : \E i \in DOMAIN s : p[i] = j}

SortedBySeverity(s) ==
  {[i \in DOMAIN s |-> s[p[i]]] :
     p \in {q \in Reorderings(s) : \A i, j \in DOMAIN s : i < j => Before(s, q[i], q[j])}}

-----------------------------------------------------------------------------
(* What a list of findings says about another                              *)

OnePerKey(s) == \A i, j \in DOMAIN s : Key(s[i]) = Key(s[j]) => i = j

\* Every finding of S has a key-mate in T that is at least as confident.
Covers(T, S) == \A f \in S : \E g \in T : Key(g) = Key(f) /\ g.confidence >= f.confidence
=============================================================================
