--------------------------- MODULE Findings_proofs ---------------------------
(***************************************************************************)
(* Theorems about the way of the findings.  FindingsReport, for every list *)
(* of findings and every cap: the two loops are followed by their loop     *)
(* invariants, AggregateInv and PostInv, and the sort is known by what a   *)
(* stable sort promises.  ReviewGraph, for any agents, pull requests,      *)
(* answers of the models and pool: what a task has found accounts for what *)
(* it has looked at, what an agent returns for its tasks, and what is      *)
(* reported of an agent for what it returned alone, since the dedupe       *)
(* treats every category as if it were on its own.                         *)
(***************************************************************************)
EXTENDS FindingsReport, ReviewGraph, FoldFacts, TLAPS

-----------------------------------------------------------------------------
(* FindingsReport's inductive invariant                                    *)

\* What the dedupe loop over s has achieved when its next index is n.
LoopInv(s, n, k) ==
  /\ n <= Len(s) + 1
  /\ OnePerKey(k)
  /\ Findings(k) \subseteq Findings(s)
  /\ Covers(Findings(k), {s[i] : i \in 1 .. n - 1})

Ordered(s) == \A i, j \in DOMAIN s : i < j => Rank(s[i]) <= Rank(s[j])

AggregateInv == stage = "aggregate" => LoopInv(found, next, kept)

\* Over findings with distinct keys the loop copies its input.
PostInv ==
  stage = "post" =>
    /\ next <= Len(saved) + 1
    /\ Len(kept) = next - 1
    /\ \A i \in 1 .. next - 1 : kept[i] = saved[i]

PostedInv ==
  stage \in {"review", "check", "done"} => OnePerKey(posted) /\ Ordered(posted)

ReviewInv ==
  /\ stage \notin {"check", "done"} => review = NoReview
  /\ review # NoReview => review = [inline |-> Inlined, summary |-> Listed]

CheckInv ==
  /\ stage # "done" => check = "none"
  /\ check = "success" => ~HasBlockers
  /\ check = "failure" => HasBlockers

IInv ==
  /\ TypeOK
  /\ AggregateInv
  /\ StrongestKept
  /\ PostInv
  /\ PostedAsSaved
  /\ PostedInv
  /\ ReviewInv
  /\ CheckInv

-----------------------------------------------------------------------------
(* Lemmas about the operators of Findings                                  *)

\* Ranks are numbers.
LEMMA RankType == ASSUME NEW f \in Finding PROVE Rank(f) \in 0 .. 2
  BY FindingAssumption DEF Rank, Severities

\* Absorbing a finding keeps one finding per key, the strongest one.
LEMMA AbsorbStrongest ==
  ASSUME NEW k \in Seq(Finding), NEW f \in Finding, OnePerKey(k)
  PROVE  /\ Absorb(k, f) \in Seq(Finding)
         /\ OnePerKey(Absorb(k, f))
         /\ Findings(Absorb(k, f)) \subseteq Findings(k) \cup {f}
         /\ Covers(Findings(Absorb(k, f)), Findings(k) \cup {f})
<1> DEFINE a == Absorb(k, f)
<1>1. CASE \E i \in DOMAIN k : Key(k[i]) = Key(f)
  <2> DEFINE new(i) == IF Key(k[i]) = Key(f) /\ f.confidence > k[i].confidence
                       THEN f ELSE k[i]
  <2>1. a = [i \in DOMAIN k |-> new(i)]
    BY <1>1 DEF Absorb
  <2>2. DOMAIN a = DOMAIN k /\ \A i \in DOMAIN k : a[i] = new(i)
    BY <2>1
  <2>3. \A i \in DOMAIN k : a[i] \in Finding /\ Key(a[i]) = Key(k[i])
    BY <2>2
  <2>4. a \in Seq(Finding)
    BY <2>1, <2>2, <2>3
  <2>5. OnePerKey(a)
    BY <2>2, <2>3 DEF OnePerKey
  <2>6. Findings(a) \subseteq Findings(k) \cup {f}
    BY <2>2 DEF Findings
  <2>7. ASSUME NEW g \in Findings(k) \cup {f}
        PROVE  \E h \in Findings(a) : Key(h) = Key(g) /\ h.confidence >= g.confidence
    <3>1. PICK i \in DOMAIN k : Key(k[i]) = Key(g) /\ (g = k[i] \/ g = f)
      BY <1>1, <2>7 DEF Findings
    <3>2. k[i] \in Finding /\ k[i].confidence \in Nat /\ f.confidence \in Nat
      BY FindingAssumption
    <3>3. new(i).confidence >= g.confidence
      <4>1. CASE Key(k[i]) = Key(f) /\ f.confidence > k[i].confidence
        BY <3>1, <3>2, <4>1
      <4>2. CASE ~(Key(k[i]) = Key(f) /\ f.confidence > k[i].confidence)
        BY <3>1, <3>2, <4>2
      <4> QED BY <4>1, <4>2
    <3>4. a[i] \in Findings(a) /\ Key(a[i]) = Key(g) /\ a[i].confidence >= g.confidence
      BY <2>2, <2>3, <3>1, <3>3 DEF Findings
    <3> QED BY <3>4
  <2> QED BY <2>4, <2>5, <2>6, <2>7 DEF Covers
<1>2. CASE ~ \E i \in DOMAIN k : Key(k[i]) = Key(f)
  <2>1. a = Append(k, f)
    BY <1>2 DEF Absorb
  <2>2. /\ a \in Seq(Finding)
        /\ Len(a) = Len(k) + 1
        /\ \A i \in 1 .. Len(k) : a[i] = k[i]
        /\ a[Len(k) + 1] = f
    BY <2>1
  <2>3. DOMAIN a = 1 .. Len(k) + 1 /\ DOMAIN k = 1 .. Len(k)
    BY <2>2
  <2>4. OnePerKey(a)
    BY <1>2, <2>2, <2>3 DEF OnePerKey
  <2>5. Findings(a) = Findings(k) \cup {f}
    BY <2>2, <2>3 DEF Findings
  <2>6. \A g \in Findings(a) : g.confidence >= g.confidence
    <3>1. Findings(a) \subseteq Finding
      BY <2>2, <2>3 DEF Findings
    <3> QED BY <3>1, FindingAssumption
  <2> QED BY <2>2, <2>4, <2>5, <2>6 DEF Covers
<1> QED BY <1>1, <1>2

\* A stable sort keeps the findings, their number and their distinctness.
LEMMA SortKeeps ==
  ASSUME NEW s \in Seq(Finding), NEW t \in SortedBySeverity(s)
  PROVE  /\ t \in Seq(Finding)
         /\ Len(t) = Len(s)
         /\ Findings(t) = Findings(s)
         /\ OnePerKey(s) => OnePerKey(t)
         /\ Ordered(t)
<1>1. PICK p \in Reorderings(s) :
        /\ t = [i \in DOMAIN s |-> s[p[i]]]
        /\ \A i, j \in DOMAIN s : i < j => Before(s, p[i], p[j])
  BY DEF SortedBySeverity
<1>2. /\ \A i \in DOMAIN s : p[i] \in DOMAIN s
      /\ \A i, j \in DOMAIN s : p[i] = p[j] => i = j
      /\ \A j \in DOMAIN s : \E i \in DOMAIN s : p[i] = j
  BY DEF Reorderings
<1>3. DOMAIN t = DOMAIN s /\ \A i \in DOMAIN s : t[i] = s[p[i]]
  BY <1>1
<1>4. t \in Seq(Finding) /\ Len(t) = Len(s)
  <2>1. DOMAIN s = 1 .. Len(s) /\ Len(s) \in Nat /\ \A j \in DOMAIN s : s[j] \in Finding
    OBVIOUS
  <2>2. \A i \in DOMAIN s : s[p[i]] \in Finding
    BY <1>2, <2>1
  <2>3. t \in [1 .. Len(s) -> Finding]
    BY <1>1, <2>1, <2>2
  <2> QED BY <2>1, <2>3
<1>5. Findings(t) = Findings(s)
  <2>1. ASSUME NEW f \in Findings(t) PROVE f \in Findings(s)
    <3>1. PICK i \in DOMAIN t : f = t[i]
      BY DEF Findings
    <3>2. p[i] \in DOMAIN s /\ f = s[p[i]]
      BY <1>2, <1>3, <3>1
    <3> QED BY <3>2 DEF Findings
  <2>2. ASSUME NEW f \in Findings(s) PROVE f \in Findings(t)
    <3>1. PICK j \in DOMAIN s : f = s[j]
      BY DEF Findings
    <3>2. PICK i \in DOMAIN s : p[i] = j
      BY <1>2
    <3>3. i \in DOMAIN t /\ f = t[i]
      BY <1>3, <3>1, <3>2
    <3> QED BY <3>3 DEF Findings
  <2> QED BY <2>1, <2>2
<1>6. OnePerKey(s) => OnePerKey(t)
  <2> SUFFICES ASSUME OnePerKey(s), NEW i \in DOMAIN t, NEW j \in DOMAIN t, Key(t[i]) = Key(t[j])
               PROVE  i = j
    BY DEF OnePerKey
  <2>1. p[i] \in DOMAIN s /\ p[j] \in DOMAIN s /\ Key(s[p[i]]) = Key(s[p[j]])
    BY <1>2, <1>3
  <2>2. p[i] = p[j]
    BY <2>1 DEF OnePerKey
  <2> QED BY <1>2, <1>3, <2>2
<1>7. Ordered(t)
  <2>1. \A i \in DOMAIN s : Rank(s[i]) \in 0 .. 2
    BY RankType
  <2>2. \A i, j \in DOMAIN s : Before(s, i, j) => Rank(s[i]) <= Rank(s[j])
    BY <2>1 DEF Before
  <2> QED BY <1>1, <1>2, <1>3, <2>2 DEF Ordered
<1> QED BY <1>4, <1>5, <1>6, <1>7

\* The loop invariant survives an iteration.
LEMMA LoopStep ==
  ASSUME NEW s \in Seq(Finding), NEW n \in Nat \ {0}, NEW k \in Seq(Finding),
         LoopInv(s, n, k), n <= Len(s)
  PROVE  Absorb(k, s[n]) \in Seq(Finding) /\ LoopInv(s, n + 1, Absorb(k, s[n]))
<1> DEFINE a == Absorb(k, s[n])
<1>1. s[n] \in Finding /\ n \in DOMAIN s
  OBVIOUS
<1>2. /\ a \in Seq(Finding)
      /\ OnePerKey(a)
      /\ Findings(a) \subseteq Findings(k) \cup {s[n]}
      /\ Covers(Findings(a), Findings(k) \cup {s[n]})
  BY <1>1, AbsorbStrongest DEF LoopInv
<1>3. Findings(a) \subseteq Findings(s)
  BY <1>1, <1>2 DEF LoopInv, Findings
<1>4. ASSUME NEW i \in 1 .. n
      PROVE  \E h \in Findings(a) : Key(h) = Key(s[i]) /\ h.confidence >= s[i].confidence
  <2>1. PICK g \in Findings(k) \cup {s[n]} : Key(g) = Key(s[i]) /\ g.confidence >= s[i].confidence
    <3>1. s[n].confidence >= s[n].confidence
      BY <1>1, FindingAssumption
    <3>2. CASE i = n
      BY <3>1, <3>2
    <3>3. CASE i # n
      <4>1. i \in 1 .. n - 1
        BY <3>3
      <4> QED BY <4>1 DEF LoopInv, Covers
    <3> QED BY <3>2, <3>3
  <2>2. PICK h \in Findings(a) : Key(h) = Key(g) /\ h.confidence >= g.confidence
    BY <1>2 DEF Covers
  <2>3. /\ h.confidence \in Nat
        /\ g.confidence \in Nat
        /\ s[i].confidence \in Nat
    <3>1. h \in Finding /\ g \in Finding /\ s[i] \in Finding
      BY <1>1, <1>2 DEF Findings
    <3> QED BY <3>1, FindingAssumption
  <2> QED BY <2>1, <2>2, <2>3
<1>5. Covers(Findings(a), {s[i] : i \in 1 .. (n + 1) - 1})
  BY <1>4 DEF Covers
<1> QED BY <1>2, <1>3, <1>5 DEF LoopInv

-----------------------------------------------------------------------------
(* FindingsReport's steps                                                  *)

\* The invariant holds at first.
LEMMA InitIInv == Init => IInv
<1> SUFFICES ASSUME Init PROVE IInv
  OBVIOUS
<1>1. found \in Seq(Finding)
  BY InputsAssumption DEF Init
<1>2. TypeOK
  BY <1>1 DEF Init, TypeOK, NoReview
<1>3. LoopInv(found, next, kept)
  BY <1>1 DEF Init, LoopInv, OnePerKey, Findings, Covers
<1> QED BY <1>2, <1>3 DEF Init, IInv, AggregateInv, StrongestKept, PostInv, PostedAsSaved,
           PostedInv, ReviewInv, CheckInv

\* Every step keeps it.
LEMMA NextIInv == IInv /\ [Next]_vars => IInv'
<1> SUFFICES ASSUME IInv, [Next]_vars PROVE IInv'
  OBVIOUS
<1> USE DEF IInv
<1>1. CASE AggregateFinding
  <2>1. stage = "aggregate" /\ next <= Len(found) /\ kept' = Absorb(kept, found[next])
        /\ next' = next + 1 /\ UNCHANGED <<found, stage, saved, posted, review, check>>
    BY <1>1 DEF AggregateFinding, Iterate
  <2>2. kept' \in Seq(Finding) /\ LoopInv(found, next', kept')
    BY <2>1, LoopStep DEF TypeOK, AggregateInv
  <2>3. TypeOK'
    BY <2>1, <2>2 DEF TypeOK
  <2> QED BY <2>1, <2>2, <2>3 DEF AggregateInv, StrongestKept, PostInv, PostedAsSaved,
             PostedInv, ReviewInv, CheckInv
<1>2. CASE AggregateEnd
  <2>1. stage = "aggregate" /\ next > Len(found) /\ saved' \in SortedBySeverity(kept)
        /\ stage' = "post" /\ kept' = <<>> /\ next' = 1
        /\ UNCHANGED <<found, posted, review, check>>
    BY <1>2 DEF AggregateEnd
  <2>2. kept \in Seq(Finding) /\ found \in Seq(Finding) /\ next \in Nat
        /\ LoopInv(found, next, kept)
    BY <2>1 DEF TypeOK, AggregateInv
  <2>3. saved' \in Seq(Finding) /\ Findings(saved') = Findings(kept) /\ OnePerKey(saved')
    BY <2>1, <2>2, SortKeeps DEF LoopInv
  <2>4. TypeOK'
    BY <2>1, <2>3 DEF TypeOK
  <2>5. Findings(found) = {found[i] : i \in 1 .. next - 1}
    BY <2>1, <2>2 DEF LoopInv, Findings
  <2>6. StrongestKept'
    BY <2>1, <2>2, <2>3, <2>5 DEF StrongestKept, LoopInv, Covers
  <2>7. PostInv'
    BY <2>1, <2>3 DEF PostInv
  <2> QED BY <2>1, <2>4, <2>6, <2>7 DEF AggregateInv, PostedAsSaved, PostedInv, ReviewInv, CheckInv
<1>3. CASE PostFinding
  <2>1. stage = "post" /\ next <= Len(saved) /\ kept' = Absorb(kept, saved[next])
        /\ next' = next + 1 /\ UNCHANGED <<found, stage, saved, posted, review, check>>
    BY <1>3 DEF PostFinding, Iterate
  <2>2. kept \in Seq(Finding) /\ saved \in Seq(Finding) /\ next \in Nat \ {0}
        /\ next \in DOMAIN saved /\ DOMAIN kept = 1 .. next - 1
    BY <2>1 DEF TypeOK, PostInv
  <2>3. \A i \in DOMAIN kept : Key(kept[i]) # Key(saved[next])
    BY <2>1, <2>2 DEF PostInv, StrongestKept, OnePerKey
  <2>4. kept' = Append(kept, saved[next])
    BY <2>1, <2>3 DEF Absorb
  <2>5. saved[next] \in Finding
    BY <2>2
  <2>6. kept' \in Seq(Finding) /\ Len(kept') = next
        /\ \A i \in 1 .. next : kept'[i] = saved[i]
    BY <2>1, <2>2, <2>4, <2>5 DEF PostInv
  <2>7. TypeOK'
    BY <2>1, <2>6 DEF TypeOK
  <2>8. PostInv'
    BY <2>1, <2>2, <2>6 DEF PostInv
  <2> QED BY <2>1, <2>7, <2>8 DEF AggregateInv, StrongestKept, PostedAsSaved, PostedInv,
             ReviewInv, CheckInv
<1>4. CASE PostEnd
  <2>1. stage = "post" /\ next > Len(saved) /\ posted' \in SortedBySeverity(kept)
        /\ stage' = "review" /\ UNCHANGED <<found, next, kept, saved, review, check>>
    BY <1>4 DEF PostEnd
  <2>2. kept \in Seq(Finding) /\ saved \in Seq(Finding) /\ next \in Nat \ {0}
    BY DEF TypeOK
  <2>3. Len(kept) = Len(saved) /\ \A i \in 1 .. Len(saved) : kept[i] = saved[i]
    BY <2>1, <2>2 DEF PostInv
  <2>4. Findings(kept) = Findings(saved) /\ OnePerKey(kept)
    BY <2>1, <2>2, <2>3 DEF Findings, OnePerKey, StrongestKept
  <2>5. posted' \in Seq(Finding) /\ Len(posted') = Len(saved)
        /\ Findings(posted') = Findings(saved) /\ OnePerKey(posted') /\ Ordered(posted')
    BY <2>1, <2>2, <2>3, <2>4, SortKeeps
  <2>6. TypeOK'
    BY <2>1, <2>5 DEF TypeOK
  <2> QED BY <2>1, <2>5, <2>6 DEF AggregateInv, StrongestKept, PostInv, PostedAsSaved, PostedInv,
             ReviewInv, CheckInv
<1>5. CASE CreateReview
  <2>1. Inlined \in SUBSET Finding /\ Listed \in SUBSET Finding
    BY DEF TypeOK, Inlined, Listed
  <2>2. TypeOK'
    BY <1>5, <2>1 DEF CreateReview, TypeOK
  <2>3. review' = [inline |-> Inlined, summary |-> Listed]' /\ ReviewInv'
    BY <1>5 DEF CreateReview, ReviewInv, Inlined, Listed
  <2> QED BY <1>5, <2>2, <2>3 DEF CreateReview, AggregateInv, StrongestKept, PostInv, PostedAsSaved,
             PostedInv, CheckInv
<1>6. CASE ReviewRefused
  BY <1>6 DEF ReviewRefused, TypeOK, AggregateInv, StrongestKept, PostInv, PostedAsSaved,
     PostedInv, ReviewInv, CheckInv, Inlined, Listed, HasBlockers
<1>7. CASE CreateCheckRun
  BY <1>7 DEF CreateCheckRun, TypeOK, AggregateInv, StrongestKept, PostInv, PostedAsSaved,
     PostedInv, ReviewInv, CheckInv, Inlined, Listed, HasBlockers
<1>8. CASE CheckRunRefused
  BY <1>8, SMTT(30) DEF CheckRunRefused, TypeOK, AggregateInv, StrongestKept, PostInv, PostedAsSaved,
     PostedInv, ReviewInv, CheckInv, Inlined, Listed, HasBlockers
<1>9. CASE UNCHANGED vars
  BY <1>9 DEF vars, TypeOK, AggregateInv, StrongestKept, PostInv, PostedAsSaved,
     PostedInv, ReviewInv, CheckInv, Inlined, Listed, HasBlockers
<1> QED BY <1>1, <1>2, <1>3, <1>4, <1>5, <1>6, <1>7, <1>8, <1>9 DEF Next

\* Every reachable state of the report satisfies the invariant.
THEOREM ReportInvariance == Spec => []IInv
  BY InitIInv, NextIInv, PTL DEF Spec

\* The report keeps its types, for every list of findings.
THEOREM ReportTypeCorrect == Spec => []TypeOK
<1>1. IInv => TypeOK
  BY DEF IInv
<1> QED BY <1>1, ReportInvariance, PTL

\* aggregator_node keeps the strongest finding of every key and nothing else.
THEOREM AggregatorKeepsStrongest == Spec => []StrongestKept
<1>1. IInv => StrongestKept
  BY DEF IInv
<1> QED BY <1>1, ReportInvariance, PTL

\* post_findings_to_github posts what the job saves.
THEOREM PostingAgreesWithSaving == Spec => []PostedAsSaved
<1>1. IInv => PostedAsSaved
  BY DEF IInv
<1> QED BY <1>1, ReportInvariance, PTL

\* An accepted review shows every finding once, the most severe ones inline.
THEOREM ReviewShowsEveryFinding == Spec => []EveryFindingShown
<1>1. IInv => EveryFindingShown
  <2> SUFFICES ASSUME IInv, Reviewed
               PROVE  /\ review.inline \cup review.summary = Findings(saved)
                      /\ review.inline \cap review.summary = {}
                      /\ \A f \in review.inline : f.line # NoLine
                      /\ \A f \in review.inline, g \in review.summary :
                           g.line # NoLine => Rank(f) <= Rank(g)
    BY DEF EveryFindingShown
  <2>1. review.inline = Inlined /\ review.summary = Listed
    BY DEF IInv, ReviewInv, Reviewed
  <2>2. posted \in Seq(Finding) /\ Findings(posted) = Findings(saved)
        /\ OnePerKey(posted) /\ Ordered(posted) /\ DOMAIN posted \subseteq Nat
    BY DEF IInv, TypeOK, PostedAsSaved, PostedInv, Reviewed
  <2>3. Inlined \cup Listed = Findings(posted)
    BY <2>2, InlineMaxAssumption DEF Inlined, Listed, Findings
  <2>4. \A i, j \in DOMAIN posted : posted[i] = posted[j] => i = j
    BY <2>2 DEF OnePerKey
  <2>5. Inlined \cap Listed = {}
    BY <2>2, <2>4, InlineMaxAssumption DEF Inlined, Listed
  <2>6. \A f \in Inlined : f.line # NoLine
    BY DEF Inlined
  <2>7. ASSUME NEW f \in Inlined, NEW g \in Listed, g.line # NoLine
        PROVE  Rank(f) <= Rank(g)
    <3>1. PICK i \in DOMAIN posted : i <= InlineMax /\ f = posted[i]
      BY DEF Inlined
    <3>2. PICK j \in DOMAIN posted : j > InlineMax /\ g = posted[j]
      BY <2>7 DEF Listed
    <3>3. i < j
      BY <2>2, <3>1, <3>2, InlineMaxAssumption
    <3> QED BY <2>2, <3>1, <3>2, <3>3 DEF Ordered
  <2> QED BY <2>1, <2>2, <2>3, <2>5, <2>6, <2>7
<1> QED BY <1>1, ReportInvariance, PTL

\* The check run is green exactly when no blocker was saved.
THEOREM GreenIsClean == Spec => []GreenMeansNoSavedBlocker
<1>1. IInv => GreenMeansNoSavedBlocker
  <2> SUFFICES ASSUME IInv PROVE GreenMeansNoSavedBlocker
    OBVIOUS
  <2>1. check # "none" => Findings(posted) = Findings(saved)
    BY DEF IInv, CheckInv, PostedAsSaved
  <2> QED BY <2>1 DEF IInv, CheckInv, HasBlockers, Findings, GreenMeansNoSavedBlocker
<1> QED BY <1>1, ReportInvariance, PTL

\* A green review lost a blocker only to a key-mate at least as confident.
THEOREM BlockerLoss == Spec => []BlockerLostOnlyToKeyMate
<1>1. IInv /\ GreenMeansNoSavedBlocker => BlockerLostOnlyToKeyMate
  <2> SUFFICES ASSUME IInv, GreenMeansNoSavedBlocker, check = "success",
                      NEW f \in Findings(found)
               PROVE  \E g \in Findings(saved) :
                        Key(g) = Key(f) /\ g.confidence >= f.confidence /\ g.severity # "blocker"
    BY DEF BlockerLostOnlyToKeyMate
  <2>1. stage # "aggregate"
    BY DEF IInv, CheckInv
  <2> QED BY <2>1 DEF IInv, StrongestKept, Covers, GreenMeansNoSavedBlocker
<1> QED BY <1>1, ReportInvariance, GreenIsClean, PTL

-----------------------------------------------------------------------------
(* ReviewGraph's dedupe: every category is deduped on its own              *)

Part(s, a) == {f \in Findings(s) : f.category = a}

\* What Absorb does to the set of the findings kept.
AbsorbInto(K, f) ==
  IF \E g \in K : Key(g) = Key(f)
  THEN {IF Key(g) = Key(f) /\ f.confidence > g.confidence THEN f ELSE g : g \in K}
  ELSE K \cup {f}

\* Absorb does so, and keeps the type.
LEMMA AbsorbAsSet ==
  ASSUME NEW k \in Seq(Finding), NEW f \in Finding
  PROVE  /\ Absorb(k, f) \in Seq(Finding)
         /\ Findings(Absorb(k, f)) = AbsorbInto(Findings(k), f)
<1> DEFINE a == Absorb(k, f)
           new(g) == IF Key(g) = Key(f) /\ f.confidence > g.confidence THEN f ELSE g
<1>1. CASE \E i \in DOMAIN k : Key(k[i]) = Key(f)
  <2>1. a = [i \in DOMAIN k |-> new(k[i])]
    BY <1>1 DEF Absorb
  <2>2. \A i \in DOMAIN k : k[i] \in Finding /\ new(k[i]) \in Finding
    OBVIOUS
  <2>3. a \in Seq(Finding) /\ DOMAIN a = DOMAIN k
    BY <2>1, <2>2
  <2>4. AbsorbInto(Findings(k), f) = {new(g) : g \in Findings(k)}
    BY <1>1 DEF AbsorbInto, Findings
  <2>5. Findings(a) = {new(g) : g \in Findings(k)}
    <3> HIDE DEF new
    <3>1. DOMAIN a = DOMAIN k /\ \A i \in DOMAIN k : a[i] = new(k[i])
      BY <2>1
    <3> HIDE DEF a
    <3> QED BY <3>1 DEF Findings
  <2> QED BY <2>3, <2>4, <2>5
<1>2. CASE ~ \E i \in DOMAIN k : Key(k[i]) = Key(f)
  <2>1. a = Append(k, f)
    BY <1>2 DEF Absorb
  <2>2. /\ a \in Seq(Finding)
        /\ DOMAIN a = 1 .. Len(k) + 1 /\ DOMAIN k = 1 .. Len(k)
        /\ \A i \in 1 .. Len(k) : a[i] = k[i]
        /\ a[Len(k) + 1] = f
    BY <2>1
  <2>3. Findings(a) = Findings(k) \cup {f}
    BY <2>2 DEF Findings
  <2>4. AbsorbInto(Findings(k), f) = Findings(k) \cup {f}
    BY <1>2 DEF AbsorbInto, Findings
  <2> QED BY <2>2, <2>3, <2>4
<1> QED BY <1>1, <1>2

\* A finding of a category leaves the others' as they are.
LEMMA AbsorbPart ==
  ASSUME NEW k \in Seq(Finding), NEW f \in Finding, NEW a
  PROVE  Part(Absorb(k, f), a) =
           IF f.category = a THEN AbsorbInto(Part(k, a), f) ELSE Part(k, a)
<1> DEFINE K == Findings(k)
           P == {g \in K : g.category = a}
           Q == {g \in AbsorbInto(K, f) : g.category = a}
<1>1. Part(Absorb(k, f), a) = Q /\ Part(k, a) = P
  BY AbsorbAsSet DEF Part
<1>2. \A g : Key(g) = Key(f) => g.category = f.category
  BY DEF Key
<1>3. CASE f.category = a
  <2>1. (\E g \in K : Key(g) = Key(f)) <=> (\E g \in P : Key(g) = Key(f))
    BY <1>2, <1>3
  <2>2. CASE \E g \in K : Key(g) = Key(f)
    <3> DEFINE new(g) == IF Key(g) = Key(f) /\ f.confidence > g.confidence THEN f ELSE g
    <3>1. AbsorbInto(K, f) = {new(g) : g \in K} /\ AbsorbInto(P, f) = {new(g) : g \in P}
      BY <2>1, <2>2 DEF AbsorbInto
    <3>2. \A g \in K : new(g).category = g.category
      BY <1>2
    <3> HIDE DEF new, K
    <3>3. Q = {new(g) : g \in P}
      BY <3>1, <3>2
    <3> QED BY <1>1, <1>3, <3>1, <3>3
  <2>3. CASE ~ \E g \in K : Key(g) = Key(f)
    <3>1. AbsorbInto(K, f) = K \cup {f} /\ AbsorbInto(P, f) = P \cup {f}
      BY <2>1, <2>3 DEF AbsorbInto
    <3> HIDE DEF K
    <3>2. Q = P \cup {f}
      BY <1>3, <3>1
    <3> QED BY <1>1, <1>3, <3>1, <3>2
  <2> QED BY <2>2, <2>3
<1>4. CASE f.category # a
  <2>1. CASE \E g \in K : Key(g) = Key(f)
    <3> DEFINE new(g) == IF Key(g) = Key(f) /\ f.confidence > g.confidence THEN f ELSE g
    <3>1. AbsorbInto(K, f) = {new(g) : g \in K}
      BY <2>1 DEF AbsorbInto
    <3>2. \A g \in K : new(g).category = g.category /\ (g.category = a => new(g) = g)
      BY <1>2, <1>4
    <3> HIDE DEF new, K
    <3>3. Q = P
      BY <3>1, <3>2
    <3> QED BY <1>1, <1>4, <3>3
  <2>2. CASE ~ \E g \in K : Key(g) = Key(f)
    <3>1. AbsorbInto(K, f) = K \cup {f}
      BY <2>2 DEF AbsorbInto
    <3> HIDE DEF K
    <3>2. Q = P
      BY <1>4, <3>1
    <3> QED BY <1>1, <1>4, <3>2
  <2> QED BY <2>1, <2>2
<1> QED BY <1>3, <1>4

\* The dedupe takes one finding after the other.
LEMMA DedupeRun ==
  ASSUME NEW s \in Seq(Finding)
  PROVE  \E g \in [0 .. Len(s) -> Seq(Finding)] :
           /\ g[0] = <<>>
           /\ \A m \in 1 .. Len(s) : g[m] = Absorb(g[m - 1], s[m])
           /\ g[Len(s)] = Dedupe(s)
<1> DEFINE n == Len(s)
           X == Seq(Finding)
           base == <<>>
           step == [m \in 1 .. n |-> [k \in X |-> Absorb(k, s[m])]]
           Goes(it) == it = [t \in SUBSET DOMAIN s |->
                               IF t = {} THEN <<>> ELSE Absorb(it[t \ {Max(t)}], s[Max(t)])]
<1>1. n \in Nat /\ DOMAIN s = 1 .. n /\ base \in X /\ \A m \in 1 .. n : s[m] \in Finding
  OBVIOUS
<1>2. step \in [1 .. n -> [X -> X]] /\ \A m \in 1 .. n, k \in X : step[m][k] = Absorb(k, s[m])
  <2>1. \A m \in 1 .. n, k \in X : Absorb(k, s[m]) \in X
    BY <1>1, AbsorbAsSet
  <2> QED BY <2>1
<1> HIDE DEF step, X, base, n
<1>3. PICK h \in [SUBSET (1 .. n) -> X] : IsLeftFold(h, n, base, step)
  BY <1>1, <1>2, LeftFoldExists
<1>4. Goes(h)
  <2>1. ASSUME NEW t \in SUBSET (1 .. n), t # {}
        PROVE  h[t] = Absorb(h[t \ {Max(t)}], s[Max(t)])
    <3>1. Max(t) \in 1 .. n /\ t \ {Max(t)} \in SUBSET (1 .. n)
      BY <1>1, <2>1, MaxFacts
    <3>2. h[t] = step[Max(t)][h[t \ {Max(t)}]]
      BY <1>3, <2>1 DEF IsLeftFold
    <3> QED BY <1>2, <3>1, <3>2
  <2>2. h[{}] = <<>> /\ {} \in SUBSET (1 .. n)
    BY <1>3 DEF IsLeftFold, base
  <2>3. h = [t \in SUBSET (1 .. n) |->
               IF t = {} THEN <<>> ELSE Absorb(h[t \ {Max(t)}], s[Max(t)])]
    BY <2>1, <2>2
  <2> QED BY <1>1, <2>3
<1> DEFINE it == CHOOSE i : Goes(i)
<1>5. Goes(it)
  <2> HIDE DEF Goes
  <2> QED BY <1>4
<1>6. Dedupe(s) = it[1 .. n]
  <2>1. Dedupe(s) = it[DOMAIN s]
    BY DEF Dedupe, FoldLeft, MapThenFoldSet
  <2> QED BY <1>1, <2>1
<1> HIDE DEF it
<1>7. FoldsIn(it, n, X, base, step)
  <2>1. it[{}] = base
    BY <1>5 DEF base
  <2>2. ASSUME NEW t \in SUBSET (1 .. n), t # {}, it[t \ {Max(t)}] \in X
        PROVE  it[t] = step[Max(t)][it[t \ {Max(t)}]]
    <3>1. Max(t) \in 1 .. n
      BY <1>1, <2>2, MaxFacts
    <3>2. it[t] = Absorb(it[t \ {Max(t)}], s[Max(t)])
      BY <1>1, <1>5, <2>2
    <3> QED BY <1>2, <2>2, <3>1, <3>2
  <2> QED BY <2>1, <2>2 DEF FoldsIn
<1>8. PICK g \in [0 .. n -> X] : IsRun(g, n, base, step) /\ g[n] = it[1 .. n]
  <2>1. n \in Nat /\ base \in X /\ step \in [1 .. n -> [X -> X]] /\ FoldsIn(it, n, X, base, step)
    BY <1>1, <1>2, <1>7
  <2> QED BY <2>1, LeftFoldRun
<1>9. g[0] = <<>> /\ \A m \in 1 .. n : g[m] = Absorb(g[m - 1], s[m])
  <2>1. ASSUME NEW m \in 1 .. n  PROVE g[m] = Absorb(g[m - 1], s[m])
    <3>1. g[m] = step[m][g[m - 1]] /\ m - 1 \in 0 .. n
      BY <1>1, <1>8 DEF IsRun
    <3>2. g[m - 1] \in X
      BY <1>8, <3>1
    <3> QED BY <1>2, <3>1, <3>2
  <2> QED BY <1>8, <2>1 DEF IsRun, base
<1> QED BY <1>6, <1>8, <1>9 DEF n, X

\* What the dedupe keeps: findings of the list, one of every key, the most confident.
LEMMA DedupeKeeps ==
  ASSUME NEW s \in Seq(Finding)
  PROVE  /\ Dedupe(s) \in Seq(Finding)
         /\ OnePerKey(Dedupe(s))
         /\ Findings(Dedupe(s)) \subseteq Findings(s)
         /\ Covers(Findings(Dedupe(s)), Findings(s))
<1> DEFINE n == Len(s)
<1>1. PICK g \in [0 .. n -> Seq(Finding)] :
        /\ g[0] = <<>>
        /\ \A m \in 1 .. n : g[m] = Absorb(g[m - 1], s[m])
        /\ g[n] = Dedupe(s)
  BY DedupeRun
<1> DEFINE T == {m \in Nat : m <= n => LoopInv(s, m + 1, g[m])}
<1>2. n \in Nat /\ DOMAIN s = 1 .. n
  OBVIOUS
<1>3. 0 \in T
  <2>1. LoopInv(s, 1, <<>>)
    BY <1>2 DEF LoopInv, OnePerKey, Findings, Covers
  <2>2. LoopInv(s, 0 + 1, g[0])
    BY <1>1, <2>1
  <2> QED BY <2>2
<1>4. ASSUME NEW m \in Nat, m \in T  PROVE m + 1 \in T
  <2> HIDE DEF n
  <2> SUFFICES ASSUME m + 1 <= n  PROVE LoopInv(s, (m + 1) + 1, g[m + 1])
    OBVIOUS
  <2>1. /\ m + 1 \in 1 .. n /\ (m + 1) - 1 = m /\ m \in 0 .. n /\ m + 1 \in Nat \ {0}
        /\ m + 1 <= Len(s)
    BY <1>2 DEF n
  <2>2. g[m + 1] = Absorb(g[m], s[m + 1])
    BY <1>1, <2>1
  <2>3. g[m] \in Seq(Finding) /\ LoopInv(s, m + 1, g[m])
    BY <1>4, <2>1
  <2> HIDE DEF T
  <2> QED BY <2>1, <2>2, <2>3, LoopStep
<1>5. Nat \subseteq T
  <2> HIDE DEF T
  <2> QED BY <1>3, <1>4, NatSetInduction
<1>6. LoopInv(s, n + 1, Dedupe(s)) /\ Dedupe(s) \in Seq(Finding)
  <2> HIDE DEF n
  <2>1. n \in 0 .. n /\ n \in T
    BY <1>2, <1>5
  <2> QED BY <1>1, <2>1
<1>7. {s[i] : i \in 1 .. (n + 1) - 1} = Findings(s)
  BY <1>2 DEF Findings
<1> HIDE DEF n
<1> QED BY <1>6, <1>7 DEF LoopInv

\* If a list has a block with all findings of a category, then what its dedupe keeps of the
\* category is what the dedupe of the block alone keeps.
LEMMA DedupeBlock ==
  ASSUME NEW s \in Seq(Finding), NEW u \in Seq(Finding), NEW a, NEW o, IsBlock(s, u, o),
         \A j \in 1 .. Len(u) : u[j].category = a,
         \A k \in DOMAIN s : k <= o \/ k > o + Len(u) => s[k].category # a
  PROVE  Part(Dedupe(s), a) = Findings(Dedupe(u))
<1> DEFINE n == Len(s)
           l == Len(u)
           past(m) == IF m < o THEN 0 ELSE IF m > o + l THEN l ELSE m - o
<1>0. /\ n \in Nat /\ l \in Nat /\ o \in Nat /\ o + l <= n /\ DOMAIN s = 1 .. n
      /\ \A m \in 1 .. n : s[m] \in Finding
      /\ \A j \in 1 .. l : u[j] \in Finding /\ s[o + j] = u[j]
  BY DEF IsBlock
<1>1. PICK g \in [0 .. n -> Seq(Finding)] :
        /\ g[0] = <<>>
        /\ \A m \in 1 .. n : g[m] = Absorb(g[m - 1], s[m])
        /\ g[n] = Dedupe(s)
  BY DedupeRun
<1>2. PICK h \in [0 .. l -> Seq(Finding)] :
        /\ h[0] = <<>>
        /\ \A m \in 1 .. l : h[m] = Absorb(h[m - 1], u[m])
        /\ h[l] = Dedupe(u)
  BY DedupeRun
<1> DEFINE T == {m \in Nat : m <= n => Part(g[m], a) = Findings(h[past(m)])}
<1>3. 0 \in T
  <2>1. past(0) = 0
    BY <1>0
  <2>2. Part(<<>>, a) = {} /\ Findings(<<>>) = {}
    BY DEF Part, Findings
  <2> HIDE DEF past
  <2> QED BY <1>1, <1>2, <2>1, <2>2
<1>4. ASSUME NEW m \in Nat, m \in T  PROVE m + 1 \in T
  <2> HIDE DEF l, n
  <2> SUFFICES ASSUME m + 1 <= n  PROVE Part(g[m + 1], a) = Findings(h[past(m + 1)])
    OBVIOUS
  <2>1. m + 1 \in 1 .. n /\ (m + 1) - 1 = m /\ m \in 0 .. n
    BY <1>0
  <2>2. g[m + 1] = Absorb(g[m], s[m + 1]) /\ g[m] \in Seq(Finding) /\ s[m + 1] \in Finding
    BY <1>0, <1>1, <2>1
  <2>3. Part(g[m], a) = Findings(h[past(m)])
    BY <1>4, <2>1
  <2>4. Part(g[m + 1], a) = IF s[m + 1].category = a THEN AbsorbInto(Part(g[m], a), s[m + 1])
                            ELSE Part(g[m], a)
    BY <2>2, AbsorbPart
  <2>5. CASE m + 1 <= o \/ m + 1 > o + l
    <3>1. s[m + 1].category # a
      BY <1>0, <2>1, <2>5 DEF l
    <3>2. past(m + 1) = past(m)
      BY <1>0, <2>5
    <3> QED BY <2>3, <2>4, <3>1, <3>2
  <2>6. CASE ~(m + 1 <= o \/ m + 1 > o + l)
    <3> DEFINE j == m + 1 - o
    <3>1. j \in 1 .. l /\ past(m + 1) = j /\ past(m) = j - 1 /\ o + j = m + 1 /\ j - 1 \in 0 .. l
      BY <1>0, <2>6
    <3> HIDE DEF j, past
    <3>2. s[m + 1] = u[j]
      BY <1>0, <3>1
    <3>3. s[m + 1].category = a
      BY <3>1, <3>2 DEF l
    <3>4. h[j] = Absorb(h[j - 1], u[j]) /\ h[j - 1] \in Seq(Finding) /\ u[j] \in Finding
      BY <1>0, <1>2, <3>1
    <3>5. Findings(h[j]) = AbsorbInto(Findings(h[j - 1]), u[j])
      BY <3>4, AbsorbAsSet
    <3> QED BY <2>3, <2>4, <3>1, <3>2, <3>3, <3>5
  <2> QED BY <2>5, <2>6
<1>5. Nat \subseteq T
  <2> HIDE DEF T
  <2> QED BY <1>3, <1>4, NatSetInduction
<1>6. past(n) = l
  <2> HIDE DEF n, l
  <2>1. CASE n > o + l
    BY <1>0, <2>1
  <2>2. CASE n = o + l
    BY <1>0, <2>2
  <2> QED BY <1>0, <2>1, <2>2
<1>7. Part(g[n], a) = Findings(h[l])
  <2>1. n \in T
    BY <1>0, <1>5
  <2> HIDE DEF past, n, l
  <2> QED BY <1>0, <1>6, <2>1
<1> QED BY <1>1, <1>2, <1>7

-----------------------------------------------------------------------------
(* The aggregator in both modules                                          *)

\* g[m] is what the dedupe of s keeps of its first m findings.
IsDedupeRun(g, s) ==
  /\ g \in [0 .. Len(s) -> Seq(Finding)]
  /\ g[0] = <<>>
  /\ \A m \in 1 .. Len(s) : g[m] = Absorb(g[m - 1], s[m])
  /\ g[Len(s)] = Dedupe(s)

\* What the loop hands on is what ReviewGraph's Aggregate gives in one step.
SavedIsDeduped == stage # "aggregate" => saved \in SortedBySeverity(Dedupe(found))

\* FindingsReport's loop is on its way to what ReviewGraph's aggregator does at once.
LoopIsDedupe ==
  /\ stage = "aggregate" => \E g : IsDedupeRun(g, found) /\ kept = g[next - 1]
  /\ SavedIsDeduped

\* It starts there.
LEMMA InitLoopIsDedupe == Init => LoopIsDedupe
<1> SUFFICES ASSUME Init PROVE LoopIsDedupe
  OBVIOUS
<1>1. found \in Seq(Finding) /\ stage = "aggregate" /\ next = 1 /\ kept = <<>>
  BY InputsAssumption DEF Init
<1>2. PICK g : IsDedupeRun(g, found)
  BY <1>1, DedupeRun DEF IsDedupeRun
<1>3. kept = g[next - 1]
  BY <1>1, <1>2 DEF IsDedupeRun
<1> QED BY <1>1, <1>2, <1>3 DEF LoopIsDedupe, SavedIsDeduped

\* Every finding is taken as the dedupe takes it.
LEMMA NextLoopIsDedupe == IInv /\ LoopIsDedupe /\ [Next]_vars => LoopIsDedupe'
<1> SUFFICES ASSUME IInv, LoopIsDedupe, [Next]_vars PROVE LoopIsDedupe'
  OBVIOUS
<1>0. next \in Nat \ {0} /\ found \in Seq(Finding)
  BY DEF IInv, TypeOK
<1>1. CASE AggregateFinding
  <2>1. /\ stage = "aggregate" /\ next <= Len(found) /\ kept' = Absorb(kept, found[next])
        /\ next' = next + 1 /\ found' = found /\ stage' = stage
    BY <1>1 DEF AggregateFinding, Iterate
  <2>2. PICK g : IsDedupeRun(g, found) /\ kept = g[next - 1]
    BY <2>1 DEF LoopIsDedupe, SavedIsDeduped
  <2>3. next \in 1 .. Len(found) /\ next' - 1 = next
    BY <1>0, <2>1
  <2>4. kept' = g[next' - 1]
    BY <2>1, <2>2, <2>3 DEF IsDedupeRun
  <2> QED BY <2>1, <2>2, <2>4 DEF LoopIsDedupe, SavedIsDeduped
<1>2. CASE AggregateEnd
  <2>1. /\ stage = "aggregate" /\ next > Len(found) /\ saved' \in SortedBySeverity(kept)
        /\ stage' = "post" /\ found' = found
    BY <1>2 DEF AggregateEnd
  <2>2. PICK g : IsDedupeRun(g, found) /\ kept = g[next - 1]
    BY <2>1 DEF LoopIsDedupe, SavedIsDeduped
  <2>3. next - 1 = Len(found)
    BY <1>0, <2>1 DEF IInv, AggregateInv, LoopInv
  <2>4. kept = Dedupe(found)
    BY <2>2, <2>3 DEF IsDedupeRun
  <2> QED BY <2>1, <2>4 DEF LoopIsDedupe, SavedIsDeduped
<1>3. CASE UNCHANGED <<found, saved>> /\ stage # "aggregate" /\ stage' # "aggregate"
  BY <1>3 DEF LoopIsDedupe, SavedIsDeduped
<1>4. CASE UNCHANGED vars
  BY <1>4 DEF LoopIsDedupe, SavedIsDeduped, vars
<1>5. CASE Next /\ ~AggregateFinding /\ ~AggregateEnd
  <2>1. UNCHANGED <<found, saved>> /\ stage # "aggregate" /\ stage' # "aggregate"
    BY <1>5 DEF Next, PostFinding, PostEnd, Iterate, CreateReview, ReviewRefused,
               CreateCheckRun, CheckRunRefused
  <2> QED BY <1>3, <2>1
<1> QED BY <1>1, <1>2, <1>4, <1>5

\* The aggregator's loop, one finding at a time, computes what ReviewGraph's aggregator does
\* in one step: the two modules speak of the same aggregator_node.
THEOREM LoopComputesDedupe == Spec => []SavedIsDeduped
<1>1. IInv /\ LoopIsDedupe /\ [Next]_vars => (IInv /\ LoopIsDedupe)'
  BY NextIInv, NextLoopIsDedupe
<1>2. Init => IInv /\ LoopIsDedupe
  BY InitIInv, InitLoopIsDedupe
<1>3. IInv /\ LoopIsDedupe => SavedIsDeduped
  BY DEF LoopIsDedupe
<1> QED BY <1>1, <1>2, <1>3, PTL DEF Spec

-----------------------------------------------------------------------------
(* ReviewGraph's tasks and its merge                                       *)

\* The files that an agent reviews.
MyFiles(a) == {i \in DOMAIN pr : Reviews(a, pr[i])}

\* Every task of an agent is the path of a file that it reviews.
LEMMA TasksAreReviewed ==
  ASSUME NEW a, pr \in PullRequests
  PROVE  Tasks(a) \in Seq({pr[i].path : i \in MyFiles(a)})
<1> DEFINE n == Len(pr)
           X == Seq({pr[i].path : i \in MyFiles(a)})
           base == <<>>
           task(ts, file) == IF Reviews(a, file)
                             THEN ts \o [h \in 1 .. file.hunks |-> file.path] ELSE ts
           step == [m \in 1 .. n |-> [ts \in X |-> task(ts, pr[m])]]
           Goes(it) == it = [t \in SUBSET DOMAIN pr |->
                               IF t = {} THEN <<>> ELSE task(it[t \ {Max(t)}], pr[Max(t)])]
<1>1. n \in Nat /\ DOMAIN pr = 1 .. n /\ base \in X
  BY PullRequestsAssumption
<1>2. step \in [1 .. n -> [X -> X]] /\ \A m \in 1 .. n, ts \in X : step[m][ts] = task(ts, pr[m])
  <2>1. ASSUME NEW m \in 1 .. n, NEW ts \in X  PROVE task(ts, pr[m]) \in X
    <3>1. CASE Reviews(a, pr[m])
      <4>1. pr[m].hunks \in Nat /\ pr[m].path \in {pr[i].path : i \in MyFiles(a)}
        BY <1>1, <3>1, PullRequestsAssumption DEF MyFiles
      <4>2. [h \in 1 .. pr[m].hunks |-> pr[m].path] \in X
        BY <4>1
      <4> QED BY <3>1, <4>2, ConcatProperties
    <3>2. CASE ~Reviews(a, pr[m])
      BY <3>2
    <3> QED BY <3>1, <3>2
  <2> HIDE DEF X, task
  <2> QED BY <2>1
<1> HIDE DEF step, X, base, n
<1>3. PICK h \in [SUBSET (1 .. n) -> X] : IsLeftFold(h, n, base, step)
  BY <1>1, <1>2, LeftFoldExists
<1>4. Goes(h)
  <2> HIDE DEF task
  <2>1. ASSUME NEW t \in SUBSET (1 .. n), t # {}
        PROVE  h[t] = task(h[t \ {Max(t)}], pr[Max(t)])
    <3>1. Max(t) \in 1 .. n /\ t \ {Max(t)} \in SUBSET (1 .. n)
      BY <1>1, <2>1, MaxFacts
    <3>2. h[t] = step[Max(t)][h[t \ {Max(t)}]]
      BY <1>3, <2>1 DEF IsLeftFold
    <3> QED BY <1>2, <3>1, <3>2
  <2>2. h[{}] = <<>> /\ {} \in SUBSET (1 .. n)
    BY <1>3 DEF IsLeftFold, base
  <2>3. h = [t \in SUBSET (1 .. n) |->
               IF t = {} THEN <<>> ELSE task(h[t \ {Max(t)}], pr[Max(t)])]
    BY <2>1, <2>2
  <2> QED BY <1>1, <2>3
<1> DEFINE it == CHOOSE i : Goes(i)
<1>5. Goes(it)
  <2> HIDE DEF Goes
  <2> QED BY <1>4
<1>6. Tasks(a) = it[1 .. n]
  <2>1. Tasks(a) = it[DOMAIN pr]
    BY DEF Tasks, FoldLeft, MapThenFoldSet
  <2> QED BY <1>1, <2>1
<1> HIDE DEF it
<1>7. FoldsIn(it, n, X, base, step)
  <2> HIDE DEF task
  <2>1. it[{}] = base
    BY <1>5 DEF base
  <2>2. ASSUME NEW t \in SUBSET (1 .. n), t # {}, it[t \ {Max(t)}] \in X
        PROVE  it[t] = step[Max(t)][it[t \ {Max(t)}]]
    <3>1. Max(t) \in 1 .. n
      BY <1>1, <2>2, MaxFacts
    <3>2. it[t] = task(it[t \ {Max(t)}], pr[Max(t)])
      BY <1>1, <1>5, <2>2
    <3> QED BY <1>2, <2>2, <3>1, <3>2
  <2> QED BY <2>1, <2>2 DEF FoldsIn
<1>8. it[1 .. n] \in X
  BY <1>1, <1>2, <1>7, LeftFoldRun
<1> QED BY <1>6, <1>8 DEF X

\* The outputs, in the order in which they are merged, and what a list merged from them is.
Outputs == [i \in 1 .. Len(Reviewers) |-> output[Reviewers[i]]]

IsMerged(s) ==
  \E g : IsConcat(g, Len(Reviewers), Outputs) /\ g[Len(Reviewers)] = s

\* Every agent is in the list of reviewers, so every output is merged.
LEMMA OutputsType ==
  ASSUME output \in [Agents -> Seq(Finding)]
  PROVE  /\ Len(Reviewers) \in Nat /\ DOMAIN Reviewers = 1 .. Len(Reviewers)
         /\ \A i \in 1 .. Len(Reviewers) : Reviewers[i] \in Agents
         /\ \A a \in Agents : \E i \in 1 .. Len(Reviewers) : Reviewers[i] = a
         /\ Outputs \in [1 .. Len(Reviewers) -> Seq(Finding)]
  BY ReviewersAssumption DEF Outputs, Agents, ToSet

\* Merge merges them.
LEMMA MergeRun ==
  ASSUME output \in [Agents -> Seq(Finding)]
  PROVE  IsMerged(FoldLeft(LAMBDA merged, a : merged \o output[a], <<>>, Reviewers))
<1> DEFINE n == Len(Reviewers)
           X == Seq(Finding)
           base == <<>>
           step == [m \in 1 .. n |-> [s \in X |-> s \o output[Reviewers[m]]]]
           Goes(it) == it = [t \in SUBSET DOMAIN Reviewers |->
                               IF t = {} THEN <<>>
                               ELSE it[t \ {Max(t)}] \o output[Reviewers[Max(t)]]]
<1>1. n \in Nat /\ DOMAIN Reviewers = 1 .. n /\ base \in X
      /\ \A m \in 1 .. n : output[Reviewers[m]] \in X
  BY OutputsType
<1>2. step \in [1 .. n -> [X -> X]]
      /\ \A m \in 1 .. n, s \in X : step[m][s] = s \o output[Reviewers[m]]
  <2>1. \A m \in 1 .. n, s \in X : s \o output[Reviewers[m]] \in X
    BY <1>1, ConcatProperties
  <2> HIDE DEF X, n
  <2> QED BY <2>1
<1> HIDE DEF step, X, base, n
<1>3. PICK h \in [SUBSET (1 .. n) -> X] : IsLeftFold(h, n, base, step)
  BY <1>1, <1>2, LeftFoldExists
<1>4. Goes(h)
  <2>1. ASSUME NEW t \in SUBSET (1 .. n), t # {}
        PROVE  h[t] = h[t \ {Max(t)}] \o output[Reviewers[Max(t)]]
    <3>1. Max(t) \in 1 .. n /\ t \ {Max(t)} \in SUBSET (1 .. n)
      BY <1>1, <2>1, MaxFacts
    <3>2. h[t] = step[Max(t)][h[t \ {Max(t)}]]
      BY <1>3, <2>1 DEF IsLeftFold
    <3> QED BY <1>2, <3>1, <3>2
  <2>2. h[{}] = <<>> /\ {} \in SUBSET (1 .. n)
    BY <1>3 DEF IsLeftFold, base
  <2>3. h = [t \in SUBSET (1 .. n) |->
               IF t = {} THEN <<>> ELSE h[t \ {Max(t)}] \o output[Reviewers[Max(t)]]]
    BY <2>1, <2>2
  <2> QED BY <1>1, <2>3
<1> DEFINE it == CHOOSE i : Goes(i)
           all == FoldLeft(LAMBDA merged, a : merged \o output[a], <<>>, Reviewers)
<1>5. Goes(it)
  <2> HIDE DEF Goes
  <2> QED BY <1>4
<1>6. all = it[1 .. n]
  <2>1. all = it[DOMAIN Reviewers]
    BY DEF FoldLeft, MapThenFoldSet
  <2> QED BY <1>1, <2>1
<1> HIDE DEF it, all
<1>7. FoldsIn(it, n, X, base, step)
  <2>1. it[{}] = base
    BY <1>5 DEF base
  <2>2. ASSUME NEW t \in SUBSET (1 .. n), t # {}, it[t \ {Max(t)}] \in X
        PROVE  it[t] = step[Max(t)][it[t \ {Max(t)}]]
    <3>1. Max(t) \in 1 .. n
      BY <1>1, <2>2, MaxFacts
    <3>2. it[t] = it[t \ {Max(t)}] \o output[Reviewers[Max(t)]]
      BY <1>1, <1>5, <2>2
    <3> QED BY <1>2, <2>2, <3>1, <3>2
  <2> QED BY <2>1, <2>2 DEF FoldsIn
<1>8. PICK g \in [0 .. n -> X] : IsRun(g, n, base, step) /\ g[n] = it[1 .. n]
  <2>1. n \in Nat /\ base \in X /\ step \in [1 .. n -> [X -> X]] /\ FoldsIn(it, n, X, base, step)
    BY <1>1, <1>2, <1>7
  <2> QED BY <2>1, LeftFoldRun
<1>9. IsConcat(g, n, Outputs)
  <2>1. ASSUME NEW m \in 1 .. n  PROVE g[m] = g[m - 1] \o Outputs[m]
    <3>1. g[m] = step[m][g[m - 1]] /\ m - 1 \in 0 .. n
      BY <1>1, <1>8 DEF IsRun
    <3>2. g[m - 1] \in X
      BY <1>8, <3>1
    <3>3. Outputs[m] = output[Reviewers[m]]
      BY DEF Outputs, n
    <3> QED BY <1>2, <3>1, <3>2, <3>3
  <2> QED BY <1>8, <2>1 DEF IsRun, base, IsConcat
<1> QED BY <1>6, <1>8, <1>9 DEF IsMerged, n, all

\* What is merged from them has what they have.
LEMMA MergedElements ==
  ASSUME output \in [Agents -> Seq(Finding)], NEW s, IsMerged(s)
  PROVE  ToSet(s) = PartsUpto(Outputs, Len(Reviewers))
<1>1. PICK g : IsConcat(g, Len(Reviewers), Outputs) /\ g[Len(Reviewers)] = s
  BY DEF IsMerged
<1>2. Len(Reviewers) \in Nat /\ Outputs \in [1 .. Len(Reviewers) -> Seq(Finding)]
  BY OutputsType
<1>3. \A m \in 0 .. Len(Reviewers) : ToSet(g[m]) = PartsUpto(Outputs, m)
  BY <1>1, <1>2, ConcatElements
<1> QED BY <1>1, <1>2, <1>3

\* In the merged list every agent's findings are in one block, since the agents differ
\* and each writes its own category.
LEMMA MergedParts ==
  ASSUME output \in [Agents -> Seq(Finding)],
         \A a \in Agents : \A f \in ToSet(output[a]) : f.category = a,
         NEW s, IsMerged(s)
  PROVE  /\ s \in Seq(Finding)
         /\ \A f \in Findings(s) : f.category \in Agents
         /\ \A a \in Agents : Part(Dedupe(s), a) = Findings(Dedupe(output[a]))
<1> DEFINE n == Len(Reviewers)
<1>1. PICK g : IsConcat(g, n, Outputs) /\ g[n] = s
  BY DEF IsMerged
<1>2. /\ n \in Nat /\ DOMAIN Reviewers = 1 .. n
      /\ \A i \in 1 .. n : Reviewers[i] \in Agents /\ Outputs[i] = output[Reviewers[i]]
      /\ \A a \in Agents : \E i \in 1 .. n : Reviewers[i] = a
      /\ Outputs \in [1 .. n -> Seq(Finding)]
  BY OutputsType DEF Outputs
<1> HIDE DEF n
<1>3. s \in Seq(Finding)
  <2>1. n \in 0 .. n
    BY <1>2
  <2>2. \A m \in 0 .. n : g[m] \in Seq(Finding)
    BY <1>1, <1>2, ConcatTypes
  <2> QED BY <1>1, <2>1, <2>2
<1>4. \A i \in 1 .. n : \A f \in ToSet(Outputs[i]) : f.category = Reviewers[i]
  BY <1>2
<1>5. ASSUME NEW f \in Findings(s)  PROVE f.category \in Agents
  <2>1. ToSet(s) = PartsUpto(Outputs, n)
    BY MergedElements DEF n
  <2>2. PICK i \in 1 .. n : f \in ToSet(Outputs[i])
    BY <2>1 DEF PartsUpto, Findings, ToSet
  <2> QED BY <1>2, <1>4, <2>2
<1>6. ASSUME NEW a \in Agents  PROVE Part(Dedupe(s), a) = Findings(Dedupe(output[a]))
  <2>1. PICK i \in 1 .. n : Reviewers[i] = a
    BY <1>2
  <2> DEFINE u == output[a]
  <2>2. u \in Seq(Finding) /\ Outputs[i] = u
    BY <1>2, <2>1
  <2>3. PICK o : /\ IsBlock(g[n], Outputs[i], o)
                 /\ \A k \in DOMAIN g[n] :
                      k <= o \/ k > o + Len(Outputs[i]) =>
                        \E l \in (1 .. n) \ {i} : g[n][k] \in ToSet(Outputs[l])
    <3>1. /\ n \in Nat /\ i \in 1 .. n /\ Outputs \in [1 .. n -> Seq(Finding)]
          /\ IsConcat(g, n, Outputs)
      BY <1>1, <1>2
    <3> QED BY <3>1, ConcatBlock
  <2>4. IsBlock(s, u, o)
    BY <1>1, <2>2, <2>3
  <2>5. ASSUME NEW k \in DOMAIN s, k <= o \/ k > o + Len(u)  PROVE s[k].category # a
    <3>1. PICK l \in (1 .. n) \ {i} : s[k] \in ToSet(Outputs[l])
      BY <1>1, <2>2, <2>3, <2>5
    <3>2. s[k].category = Reviewers[l] /\ Reviewers[l] # Reviewers[i]
      BY <1>2, <1>4, <3>1, ReviewersAssumption
    <3> QED BY <2>1, <3>2
  <2>6. \A j \in 1 .. Len(u) : u[j].category = a
    BY <2>2 DEF ToSet
  <2> HIDE DEF u
  <2>7. Part(Dedupe(s), a) = Findings(Dedupe(u))
    BY <1>3, <2>2, <2>4, <2>5, <2>6, DedupeBlock
  <2> QED BY <2>7 DEF u
<1> QED BY <1>3, <1>5, <1>6

-----------------------------------------------------------------------------
(* ReviewGraph's inductive invariant                                       *)

\* What DoubtfulFindingsChecked says of a finding of the task, while it is not over.
Explained(a, t, f, r, e) ==
  /\ e.agent = a /\ e.task = t /\ e.kept = f
  /\ r[e.at].confidence < Threshold
  /\ IF e.outcome = "failed" THEN f = r[e.at] ELSE f \in Refined(r[e.at])

Checked(a, t, f, r, asked) ==
  client /\ f.confidence < Threshold => \E e \in asked : Explained(a, t, f, r, e)

\* A task in the state h, which looks at r[n] and has found s so far.
TaskGood(a, t, h, r, n, s, asked, ended) ==
  /\ \A f \in ToSet(r) : f.category = a
  /\ \A f \in ToSet(s) : f.category = a /\ Checked(a, t, f, r, asked)
  /\ \A i \in DOMAIN r : i < n /\ r[i].confidence >= Threshold => r[i] \in ToSet(s)
  /\ h \in {"queued", "calling"} => r = <<>> /\ s = <<>> /\ n = 1
  /\ h = "escalating" => client /\ n <= Len(r) /\ r[n].confidence < Threshold
  /\ h = "done" => <<a, t>> \in ended \/ ~(n <= Len(r))

TaskInv(a, t) ==
  TaskGood(a, t, hunk[a][t], raw[a][t], at[a][t], got[a][t], escalated, aborted)

\* An agent that is not running, not yet or not any more.
Returned(a) ==
  /\ \A t \in DOMAIN hunk[a] : hunk[a][t] \notin Active
  /\ ToSet(output[a]) = UNION {ToSet(got[a][t]) : t \in DOMAIN got[a]}

PhaseInv ==
  /\ phase = "ingestion" => running = {} /\ hunk = Idle /\ output = Idle
  /\ phase # "ingestion" => \A a \in Agents : DOMAIN hunk[a] = TaskIds(a)
  /\ phase \notin {"ingestion", "agents"} => running = {}
  /\ phase \in {"ingestion", "agents"} => findings = <<>>

FindingsInv ==
  /\ phase = "aggregator" => IsMerged(findings)
  /\ Aggregated => \A f \in ToSet(findings) : f.category \in Agents
  /\ AgentsIndependent

GraphInv ==
  /\ ReviewTypeOK
  /\ \A a \in Agents : \A t \in DOMAIN hunk[a] : TaskInv(a, t)
  /\ \A a \in Agents \ running : Returned(a)
  /\ PhaseInv
  /\ FindingsInv

-----------------------------------------------------------------------------
(* ReviewGraph's steps                                                     *)

\* y is the table x of tasks, with the entry v for task t of agent a.
IsSet(y, x, a, t, v) ==
  /\ \A b \in Agents : DOMAIN y[b] = DOMAIN x[b]
  /\ \A b \in Agents : b # a => y[b] = x[b]
  /\ \A u \in DOMAIN x[a] : u # t => y[a][u] = x[a][u]
  /\ y[a][t] = v

WithTask(x, a, t, v) == [x EXCEPT ![a][t] = v]

\* Setting an entry does so.
LEMMA SetTask ==
  ASSUME NEW S, NEW x \in [Agents -> Seq(S)], NEW a \in Agents, NEW t \in DOMAIN x[a],
         NEW v \in S, NEW y, y = WithTask(x, a, t, v)
  PROVE  y \in [Agents -> Seq(S)] /\ IsSet(y, x, a, t, v)
<1>1. y = [x EXCEPT ![a] = [x[a] EXCEPT ![t] = v]]
  BY DEF WithTask
<1>2. x[a] \in Seq(S) /\ t \in 1 .. Len(x[a])
  OBVIOUS
<1>3. [x[a] EXCEPT ![t] = v] \in Seq(S) /\ DOMAIN [x[a] EXCEPT ![t] = v] = DOMAIN x[a]
  BY <1>2, ExceptSeq
<1>4. y \in [Agents -> Seq(S)]
  BY <1>1, <1>3
<1>5. y[a] = [x[a] EXCEPT ![t] = v]
  BY <1>1
<1>6. \A b \in Agents : b # a => y[b] = x[b]
  BY <1>1
<1> QED BY <1>3, <1>4, <1>5, <1>6 DEF IsSet

\* A table that does not change.
LEMMA SameTask ==
  ASSUME NEW S, NEW x \in [Agents -> Seq(S)], NEW a \in Agents, NEW t \in DOMAIN x[a]
  PROVE  x[a][t] \in S /\ IsSet(x, x, a, t, x[a][t])
  BY DEF IsSet

\* The tasks are those of the pull request.
LEMMA SameTasks == ASSUME pr' = pr, NEW a PROVE TaskIds(a)' = TaskIds(a)
<1>1. Tasks(a)' = Tasks(a)
  BY DEF Tasks, FoldLeft, MapThenFoldSet
<1> QED BY <1>1 DEF TaskIds

\* A step of a task that leaves it good keeps the invariant.
LEMMA TaskStepKeeps ==
  ASSUME GraphInv, NEW a \in Agents, NEW t \in DOMAIN hunk[a], a \in running, InTask,
         NEW h, hunk' \in [Agents -> Seq(Active \cup {"queued", "done"})],
         IsSet(hunk', hunk, a, t, h),
         NEW r, raw' \in [Agents -> Seq(Seq(Finding))], IsSet(raw', raw, a, t, r),
         NEW n, at' \in [Agents -> Seq(Nat \ {0})], IsSet(at', at, a, t, n), n <= Len(r) + 1,
         NEW s, got' \in [Agents -> Seq(Seq(Finding))], IsSet(got', got, a, t, s),
         escalated \subseteq escalated', escalated' \subseteq Escalation,
         aborted' \in {aborted, aborted \cup {<<a, t>>}},
         TaskGood(a, t, h, r, n, s, escalated', aborted')
  PROVE  GraphInv'
<1>0. ReviewTypeOK /\ PhaseInv /\ FindingsInv
  BY DEF GraphInv
<1>1. \A b \in Agents : \A u \in DOMAIN hunk[b] : TaskInv(b, u)
  BY DEF GraphInv
<1>2. \A b \in Agents \ running : Returned(b)
  BY DEF GraphInv
<1>3. \A b \in Agents : /\ DOMAIN raw[b] = DOMAIN hunk[b]
                        /\ DOMAIN at[b] = DOMAIN hunk[b]
                        /\ DOMAIN got[b] = DOMAIN hunk[b]
                        /\ DOMAIN raw'[b] = DOMAIN hunk[b]
                        /\ DOMAIN at'[b] = DOMAIN hunk[b]
                        /\ DOMAIN got'[b] = DOMAIN hunk[b]
                        /\ DOMAIN hunk'[b] = DOMAIN hunk[b]
  BY <1>0 DEF ReviewTypeOK, IsSet
<1>4. hunk'[a][t] = h /\ raw'[a][t] = r /\ at'[a][t] = n /\ got'[a][t] = s
  BY DEF IsSet
<1>5. \A b \in Agents : b # a => /\ hunk'[b] = hunk[b] /\ raw'[b] = raw[b]
                                 /\ at'[b] = at[b] /\ got'[b] = got[b]
  BY DEF IsSet
<1>6. ASSUME NEW b \in Agents, NEW u \in DOMAIN hunk[b], b # a \/ u # t
      PROVE  /\ hunk'[b][u] = hunk[b][u] /\ raw'[b][u] = raw[b][u]
             /\ at'[b][u] = at[b][u] /\ got'[b][u] = got[b][u]
             /\ <<b, u>> \in aborted' <=> <<b, u>> \in aborted
  <2>1. CASE b # a
    BY <1>5, <2>1
  <2>2. CASE b = a /\ u # t
    BY <1>3, <2>2 DEF IsSet
  <2> QED BY <1>6, <2>1, <2>2
<1>7. ReviewTypeOK'
  <2>1. ASSUME NEW b \in Agents, NEW u \in DOMAIN hunk[b]
        PROVE  at'[b][u] <= Len(raw'[b][u]) + 1
    <3>1. CASE b = a /\ u = t
      BY <1>4, <3>1
    <3>2. CASE b # a \/ u # t
      BY <1>0, <1>6, <3>2 DEF ReviewTypeOK
    <3> QED BY <3>1, <3>2
  <2>2. aborted' \subseteq Agents \X Nat
    <3>1. hunk[a] \in Seq(Active \cup {"queued", "done"})
      BY <1>0 DEF ReviewTypeOK
    <3>2. DOMAIN hunk[a] = 1 .. Len(hunk[a]) /\ Len(hunk[a]) \in Nat
      BY <3>1
    <3>3. t \in Nat
      BY <3>2
    <3>4. aborted \subseteq Agents \X Nat
      BY <1>0 DEF ReviewTypeOK
    <3> QED BY <3>3, <3>4
  <2>4. UNCHANGED <<pr, client, phase, running, output, findings, counted>>
    BY DEF InTask
  <2> QED BY <1>0, <1>3, <2>1, <2>2, <2>4 DEF ReviewTypeOK
<1>8. ASSUME NEW b \in Agents, NEW u \in DOMAIN hunk'[b]  PROVE TaskInv(b, u)'
  <2>0. client' = client
    BY DEF InTask
  <2>1. CASE b = a /\ u = t
    BY <1>4, <2>0, <2>1 DEF TaskInv, TaskGood, Checked
  <2>2. CASE b # a \/ u # t
    <3>1. TaskInv(b, u) /\ u \in DOMAIN hunk[b]
      BY <1>1, <1>3, <1>8
    <3> QED BY <1>6, <2>0, <2>2, <3>1 DEF TaskInv, TaskGood, Checked
  <2> QED BY <2>1, <2>2
<1>9. ASSUME NEW b \in Agents \ running'  PROVE Returned(b)'
  <2>1. b \in Agents \ running /\ b # a /\ output' = output
    BY <1>9 DEF InTask
  <2>2. Returned(b) /\ hunk'[b] = hunk[b] /\ got'[b] = got[b]
    BY <1>2, <1>5, <2>1
  <2> QED BY <2>1, <2>2 DEF Returned
<1>10. running # {} /\ UNCHANGED <<pr, phase, running, output, findings>>
  BY DEF InTask
<1>11. phase = "agents"
  BY <1>0, <1>10 DEF PhaseInv, ReviewTypeOK
<1>12. PhaseInv'
  BY <1>0, <1>3, <1>10, <1>11, SameTasks DEF PhaseInv
<1>13. FindingsInv'
  BY <1>10, <1>11 DEF FindingsInv, Aggregated, AgentsIndependent
<1> QED BY <1>7, <1>8, <1>9, <1>12, <1>13 DEF GraphInv

\* What the invariant says of one task.
LEMMA TaskFacts ==
  ASSUME GraphInv, NEW a \in Agents, NEW t \in DOMAIN hunk[a]
  PROVE  /\ hunk \in [Agents -> Seq(Active \cup {"queued", "done"})]
         /\ raw \in [Agents -> Seq(Seq(Finding))] /\ t \in DOMAIN raw[a]
         /\ at \in [Agents -> Seq(Nat \ {0})] /\ t \in DOMAIN at[a]
         /\ got \in [Agents -> Seq(Seq(Finding))] /\ t \in DOMAIN got[a]
         /\ at[a][t] <= Len(raw[a][t]) + 1
         /\ TaskInv(a, t)
         /\ hunk[a][t] \in Active => a \in running
         /\ a \in running => t \in TaskIds(a)
<1>1. ReviewTypeOK /\ PhaseInv
  BY DEF GraphInv
<1>2. hunk[a][t] \in Active => a \in running
  BY DEF GraphInv, Returned
<1>3. a \in running => t \in TaskIds(a)
  BY <1>1 DEF PhaseInv
<1>4. TaskInv(a, t)
  BY DEF GraphInv
<1>5. DOMAIN raw[a] = DOMAIN hunk[a] /\ DOMAIN at[a] = DOMAIN hunk[a]
      /\ DOMAIN got[a] = DOMAIN hunk[a]
  BY <1>1 DEF ReviewTypeOK
<1> QED BY <1>1, <1>2, <1>3, <1>4, <1>5 DEF ReviewTypeOK

\* The thread of a task, and the tables that it leaves alone.
LEMMA ThreadMoves ==
  ASSUME GraphInv, NEW a \in Agents, NEW t \in DOMAIN hunk[a],
         NEW h, NEW k \in Active \cup {"queued", "done"}, Thread(a, t, h, k)
  PROVE  /\ hunk[a][t] = h
         /\ hunk' \in [Agents -> Seq(Active \cup {"queued", "done"})]
         /\ IsSet(hunk', hunk, a, t, k)
<1>1. hunk[a][t] = h /\ hunk' = WithTask(hunk, a, t, k)
  BY DEF Thread, WithTask
<1>2. hunk \in [Agents -> Seq(Active \cup {"queued", "done"})]
  BY TaskFacts
<1> QED BY <1>1, <1>2, SetTask

\* A step that leaves the primary model's findings as they are.
LEMMA RawStays ==
  ASSUME GraphInv, NEW a \in Agents, NEW t \in DOMAIN hunk[a], raw' = raw
  PROVE  raw' \in [Agents -> Seq(Seq(Finding))] /\ IsSet(raw', raw, a, t, raw[a][t])
         /\ raw[a][t] \in Seq(Finding)
  BY TaskFacts, SameTask

\* A step that does not move the thread's place.
LEMMA AtStays ==
  ASSUME GraphInv, NEW a \in Agents, NEW t \in DOMAIN hunk[a], at' = at
  PROVE  at' \in [Agents -> Seq(Nat \ {0})] /\ IsSet(at', at, a, t, at[a][t])
         /\ at[a][t] \in Nat \ {0}
  BY TaskFacts, SameTask

\* A step that finds nothing.
LEMMA GotStays ==
  ASSUME GraphInv, NEW a \in Agents, NEW t \in DOMAIN hunk[a], got' = got
  PROVE  got' \in [Agents -> Seq(Seq(Finding))] /\ IsSet(got', got, a, t, got[a][t])
         /\ got[a][t] \in Seq(Finding)
  BY TaskFacts, SameTask

\* Skip: the thread goes on with the next finding.
LEMMA AtMoves ==
  ASSUME GraphInv, NEW a \in Agents, NEW t \in DOMAIN hunk[a], Skip(a, t), HasMore(a, t)
  PROVE  /\ at[a][t] \in DOMAIN raw[a][t]
         /\ Looked(a, t) \in Finding /\ Looked(a, t) \in ToSet(raw[a][t])
         /\ at' \in [Agents -> Seq(Nat \ {0})] /\ IsSet(at', at, a, t, at[a][t] + 1)
         /\ at[a][t] + 1 <= Len(raw[a][t]) + 1
<1>1. /\ at \in [Agents -> Seq(Nat \ {0})] /\ t \in DOMAIN at[a]
      /\ raw \in [Agents -> Seq(Seq(Finding))] /\ t \in DOMAIN raw[a]
  BY TaskFacts
<1>2. at[a][t] \in Nat \ {0} /\ raw[a][t] \in Seq(Finding)
  BY <1>1, SameTask
<1>3. at[a][t] <= Len(raw[a][t])
  BY DEF HasMore
<1>4. at[a][t] \in DOMAIN raw[a][t] /\ at[a][t] + 1 \in Nat \ {0}
      /\ at[a][t] + 1 <= Len(raw[a][t]) + 1
  BY <1>2, <1>3
<1>5. at' = WithTask(at, a, t, at[a][t] + 1)
  BY DEF Skip, WithTask
<1>6. at' \in [Agents -> Seq(Nat \ {0})] /\ IsSet(at', at, a, t, at[a][t] + 1)
  <2> DEFINE v == at[a][t] + 1
  <2>1. v \in Nat \ {0} /\ at' = WithTask(at, a, t, v)
    BY <1>4, <1>5
  <2> HIDE DEF v
  <2>2. at' \in [Agents -> Seq(Nat \ {0})] /\ IsSet(at', at, a, t, v)
    BY <1>1, <2>1, SetTask
  <2> QED BY <2>2 DEF v
<1> QED BY <1>2, <1>4, <1>6 DEF Looked, ToSet

\* Keep: a finding more.
Grown(a, t, f) ==
  /\ got' \in [Agents -> Seq(Seq(Finding))]
  /\ IsSet(got', got, a, t, Append(got[a][t], f))
  /\ ToSet(Append(got[a][t], f)) = ToSet(got[a][t]) \cup {f}

\* Keep does so.
LEMMA GotGrows ==
  ASSUME GraphInv, NEW a \in Agents, NEW t \in DOMAIN hunk[a], NEW f \in Finding, Keep(a, t, f)
  PROVE  Grown(a, t, f)
<1>1. got \in [Agents -> Seq(Seq(Finding))] /\ t \in DOMAIN got[a]
  BY TaskFacts
<1> DEFINE u == got[a][t]
           s == Append(u, f)
<1>2. u \in Seq(Finding)
  BY <1>1, SameTask
<1>3. got' = WithTask(got, a, t, s)
  BY DEF Keep, WithTask
<1> HIDE DEF u
<1>4. s \in Seq(Finding) /\ DOMAIN s = 1 .. Len(u) + 1 /\ DOMAIN u = 1 .. Len(u)
      /\ s[Len(u) + 1] = f /\ \A i \in 1 .. Len(u) : s[i] = u[i]
  BY <1>2
<1>5. Len(u) \in Nat
  BY <1>2
<1> HIDE DEF s
<1>6. ToSet(s) = ToSet(u) \cup {f}
  BY <1>4, <1>5 DEF ToSet
<1>7. got' \in [Agents -> Seq(Seq(Finding))] /\ IsSet(got', got, a, t, s)
  BY <1>1, <1>3, <1>4, SetTask
<1> QED BY <1>6, <1>7 DEF s, u, Grown

\* A step in which Claude is not asked.
LEMMA AskedStays ==
  ASSUME GraphInv, escalated' = escalated
  PROVE  escalated \subseteq escalated' /\ escalated' \subseteq Escalation
  BY DEF GraphInv, ReviewTypeOK

\* What became of an escalation is remembered.
LEMMA AskedGrows ==
  ASSUME GraphInv, NEW a \in Agents, NEW t \in DOMAIN hunk[a],
         NEW outcome \in {"failed", "answered"}, NEW f \in Finding,
         Asked(a, t, outcome, f)
  PROVE  /\ escalated \subseteq escalated' /\ escalated' \subseteq Escalation
         /\ \E e \in escalated' : /\ e.agent = a /\ e.task = t /\ e.at = at[a][t]
                                  /\ e.outcome = outcome /\ e.kept = f
<1> DEFINE e == [agent |-> a, task |-> t, at |-> at[a][t], outcome |-> outcome, kept |-> f]
<1>1. escalated' = escalated \cup {e}
  BY DEF Asked
<1>2. escalated \subseteq Escalation
  BY DEF GraphInv, ReviewTypeOK
<1>3. t \in Nat
  <2>1. hunk[a] \in Seq(Active \cup {"queued", "done"})
    BY TaskFacts
  <2>2. DOMAIN hunk[a] = 1 .. Len(hunk[a]) /\ Len(hunk[a]) \in Nat
    BY <2>1
  <2> QED BY <2>2
<1>4. at[a][t] \in Nat
  BY TaskFacts
<1>5. e \in Escalation
  BY <1>3, <1>4 DEF Escalation
<1> QED BY <1>1, <1>2, <1>5

\* A task that starts is as empty as one that waits.
LEMMA StartHunkKeeps ==
  ASSUME GraphInv, NEW a \in Agents, NEW t \in DOMAIN hunk[a], StartHunk(a, t)
  PROVE  GraphInv'
<1>1. /\ a \in running /\ Thread(a, t, "queued", "calling") /\ InTask
      /\ UNCHANGED <<raw, at, got, escalated, aborted>>
  BY DEF StartHunk
<1>2. TaskInv(a, t) /\ at[a][t] <= Len(raw[a][t]) + 1
  BY TaskFacts
<1>3. /\ hunk[a][t] = "queued"
      /\ hunk' \in [Agents -> Seq(Active \cup {"queued", "done"})]
      /\ IsSet(hunk', hunk, a, t, "calling")
  BY <1>1, ThreadMoves DEF Active
<1>4. TaskGood(a, t, "calling", raw[a][t], at[a][t], got[a][t], escalated', aborted')
  BY <1>1, <1>2, <1>3 DEF TaskInv, TaskGood
<1> QED BY <1>1, <1>2, <1>3, <1>4, RawStays, AtStays, GotStays, AskedStays, TaskStepKeeps

\* The answer is about a file that the agent reviews, so it is of the agent's category.
LEMMA PrimaryAnswersKeeps ==
  ASSUME GraphInv, NEW a \in Agents, NEW t \in DOMAIN hunk[a], PrimaryAnswers(a, t)
  PROVE  GraphInv'
<1>1. /\ Thread(a, t, "calling", "looking") /\ InTask
      /\ UNCHANGED <<at, got, escalated, aborted>>
  BY DEF PrimaryAnswers
<1>2. PICK r \in Answer(a, Tasks(a)[t]) : raw' = WithTask(raw, a, t, r)
  BY DEF PrimaryAnswers, WithTask
<1>3. /\ hunk[a][t] = "calling"
      /\ hunk' \in [Agents -> Seq(Active \cup {"queued", "done"})]
      /\ IsSet(hunk', hunk, a, t, "looking")
  BY <1>1, ThreadMoves DEF Active
<1>4. TaskInv(a, t) /\ a \in running /\ t \in TaskIds(a)
  BY <1>3, TaskFacts DEF Active
<1>5. PICK i \in DOMAIN pr : Reviews(a, pr[i]) /\ Tasks(a)[t] = pr[i].path
  <2>1. pr \in PullRequests
    BY DEF GraphInv, ReviewTypeOK
  <2>2. Tasks(a) \in Seq({pr[i].path : i \in MyFiles(a)}) /\ t \in DOMAIN Tasks(a)
    BY <1>4, <2>1, TasksAreReviewed DEF TaskIds
  <2>3. Tasks(a)[t] \in {pr[i].path : i \in MyFiles(a)}
    BY <2>2
  <2> QED BY <2>3 DEF MyFiles
<1>6. r \in Seq(Finding) /\ \A j \in DOMAIN r : r[j].category = a
  <2>1. pr \in PullRequests
    BY DEF GraphInv, ReviewTypeOK
  <2> QED BY <1>2, <1>5, <2>1, AnswerAssumption
<1>7. raw' \in [Agents -> Seq(Seq(Finding))] /\ IsSet(raw', raw, a, t, r)
  <2>1. raw \in [Agents -> Seq(Seq(Finding))] /\ t \in DOMAIN raw[a]
    BY TaskFacts
  <2> QED BY <1>2, <1>6, <2>1, SetTask
<1>8. got[a][t] = <<>> /\ at[a][t] = 1
  BY <1>3, <1>4 DEF TaskInv, TaskGood
<1>9. at[a][t] <= Len(r) + 1
  BY <1>6, <1>8
<1>10. TaskGood(a, t, "looking", r, at[a][t], got[a][t], escalated', aborted')
  <2>1. \A j \in DOMAIN r : ~(j < 1)
    BY <1>6
  <2>2. ToSet(<<>>) = {}
    BY DEF ToSet
  <2> QED BY <1>6, <1>8, <2>1, <2>2 DEF TaskGood, ToSet
<1> QED BY <1>1, <1>3, <1>4, <1>7, <1>9, <1>10, AtStays, GotStays, AskedStays, TaskStepKeeps

\* A task whose call fails has nothing left to look at.
LEMMA PrimaryFailsKeeps ==
  ASSUME GraphInv, NEW a \in Agents, NEW t \in DOMAIN hunk[a], PrimaryFails(a, t)
  PROVE  GraphInv'
<1>1. /\ Thread(a, t, "calling", "done") /\ InTask
      /\ UNCHANGED <<raw, at, got, escalated, aborted>>
  BY DEF PrimaryFails
<1>2. /\ hunk[a][t] = "calling"
      /\ hunk' \in [Agents -> Seq(Active \cup {"queued", "done"})]
      /\ IsSet(hunk', hunk, a, t, "done")
  BY <1>1, ThreadMoves
<1>3. TaskInv(a, t) /\ at[a][t] <= Len(raw[a][t]) + 1 /\ a \in running
  BY <1>2, TaskFacts DEF Active
<1>4. TaskGood(a, t, "done", raw[a][t], at[a][t], got[a][t], escalated', aborted')
  <2>1. raw[a][t] = <<>> /\ at[a][t] = 1
    BY <1>2, <1>3 DEF TaskInv, TaskGood
  <2>2. ~(at[a][t] <= Len(raw[a][t]))
    BY <2>1
  <2> QED BY <1>1, <1>3, <2>2 DEF TaskInv, TaskGood
<1> QED BY <1>1, <1>2, <1>3, <1>4, RawStays, AtStays, GotStays, AskedStays, TaskStepKeeps

\* A thread that asks Claude has a doubtful finding before it.
LEMMA EscalateKeeps ==
  ASSUME GraphInv, NEW a \in Agents, NEW t \in DOMAIN hunk[a], Escalate(a, t)
  PROVE  GraphInv'
<1>1. /\ Thread(a, t, "looking", "escalating") /\ InTask
      /\ client /\ HasMore(a, t) /\ Looked(a, t).confidence < Threshold
      /\ UNCHANGED <<raw, at, got, escalated, aborted>>
  BY DEF Escalate
<1>2. /\ hunk[a][t] = "looking"
      /\ hunk' \in [Agents -> Seq(Active \cup {"queued", "done"})]
      /\ IsSet(hunk', hunk, a, t, "escalating")
  BY <1>1, ThreadMoves DEF Active
<1>3. TaskInv(a, t) /\ at[a][t] <= Len(raw[a][t]) + 1 /\ a \in running
  BY <1>2, TaskFacts DEF Active
<1>4. TaskGood(a, t, "escalating", raw[a][t], at[a][t], got[a][t], escalated', aborted')
  BY <1>1, <1>3 DEF TaskInv, TaskGood, HasMore, Looked
<1> QED BY <1>1, <1>2, <1>3, <1>4, RawStays, AtStays, GotStays, AskedStays, TaskStepKeeps

\* An aborted task is marked.
LEMMA AbortKeeps ==
  ASSUME GraphInv, NEW a \in Agents, NEW t \in DOMAIN hunk[a], Abort(a, t)
  PROVE  GraphInv'
<1>1. /\ Thread(a, t, "looking", "done") /\ InTask
      /\ aborted' = aborted \cup {<<a, t>>}
      /\ UNCHANGED <<raw, at, got, escalated>>
  BY DEF Abort
<1>2. /\ hunk[a][t] = "looking"
      /\ hunk' \in [Agents -> Seq(Active \cup {"queued", "done"})]
      /\ IsSet(hunk', hunk, a, t, "done")
  BY <1>1, ThreadMoves
<1>3. TaskInv(a, t) /\ at[a][t] <= Len(raw[a][t]) + 1 /\ a \in running
  BY <1>2, TaskFacts DEF Active
<1>4. TaskGood(a, t, "done", raw[a][t], at[a][t], got[a][t], escalated', aborted')
  BY <1>1, <1>3 DEF TaskInv, TaskGood
<1> QED BY <1>1, <1>2, <1>3, <1>4, RawStays, AtStays, GotStays, AskedStays, TaskStepKeeps

\* A task that ends has looked at all it had.
LEMMA EndHunkKeeps ==
  ASSUME GraphInv, NEW a \in Agents, NEW t \in DOMAIN hunk[a], EndHunk(a, t)
  PROVE  GraphInv'
<1>1. /\ Thread(a, t, "looking", "done") /\ InTask /\ ~HasMore(a, t)
      /\ UNCHANGED <<raw, at, got, escalated, aborted>>
  BY DEF EndHunk
<1>2. /\ hunk[a][t] = "looking"
      /\ hunk' \in [Agents -> Seq(Active \cup {"queued", "done"})]
      /\ IsSet(hunk', hunk, a, t, "done")
  BY <1>1, ThreadMoves
<1>3. TaskInv(a, t) /\ at[a][t] <= Len(raw[a][t]) + 1 /\ a \in running
  BY <1>2, TaskFacts DEF Active
<1>4. TaskGood(a, t, "done", raw[a][t], at[a][t], got[a][t], escalated', aborted')
  BY <1>1, <1>3 DEF TaskInv, TaskGood, HasMore
<1> QED BY <1>1, <1>2, <1>3, <1>4, RawStays, AtStays, GotStays, AskedStays, TaskStepKeeps

\* A finding that is kept, after which the thread looks at the next one.
LEMMA KeepKeeps ==
  ASSUME GraphInv, NEW a \in Agents, NEW t \in DOMAIN hunk[a], NEW h \in Active,
         Thread(a, t, h, "looking"), InTask, HasMore(a, t), Skip(a, t), raw' = raw,
         NEW f \in Finding, Keep(a, t, f), f.category = a,
         Checked(a, t, f, raw[a][t], escalated'),
         Looked(a, t).confidence >= Threshold => f = Looked(a, t),
         escalated \subseteq escalated', escalated' \subseteq Escalation, aborted' = aborted
  PROVE  GraphInv'
<1>1. /\ hunk[a][t] = h
      /\ hunk' \in [Agents -> Seq(Active \cup {"queued", "done"})]
      /\ IsSet(hunk', hunk, a, t, "looking")
  BY ThreadMoves DEF Active
<1>2. TaskInv(a, t) /\ a \in running
  BY <1>1, TaskFacts
<1>3. /\ at[a][t] \in DOMAIN raw[a][t]
      /\ at' \in [Agents -> Seq(Nat \ {0})] /\ IsSet(at', at, a, t, at[a][t] + 1)
      /\ at[a][t] + 1 <= Len(raw[a][t]) + 1
  BY AtMoves
<1> DEFINE s == Append(got[a][t], f)
<1>4. /\ got' \in [Agents -> Seq(Seq(Finding))] /\ IsSet(got', got, a, t, s)
      /\ ToSet(s) = ToSet(got[a][t]) \cup {f}
  <2>1. Grown(a, t, f)
    BY GotGrows
  <2> QED BY <2>1 DEF Grown
<1> HIDE DEF s
<1>5. /\ raw' \in [Agents -> Seq(Seq(Finding))] /\ IsSet(raw', raw, a, t, raw[a][t])
      /\ raw[a][t] \in Seq(Finding)
  BY RawStays
<1>6. at[a][t] \in Nat
  BY <1>3, <1>5
<1>7. TaskGood(a, t, "looking", raw[a][t], at[a][t] + 1, s, escalated', aborted')
  <2> DEFINE r == raw[a][t]
             n == at[a][t]
             u == got[a][t]
  <2>1. /\ \A g \in ToSet(r) : g.category = a
        /\ \A g \in ToSet(u) : g.category = a /\ Checked(a, t, g, r, escalated)
        /\ \A i \in DOMAIN r : i < n /\ r[i].confidence >= Threshold => r[i] \in ToSet(u)
    BY <1>2 DEF TaskInv, TaskGood
  <2>2. Looked(a, t) = r[n] /\ n \in Nat /\ DOMAIN r \subseteq Nat
    BY <1>5, <1>6 DEF Looked
  <2>3. \A g \in ToSet(u) : Checked(a, t, g, r, escalated')
    BY <2>1 DEF Checked
  <2> HIDE DEF r, n, u
  <2>4. \A g \in ToSet(s) : g.category = a /\ Checked(a, t, g, r, escalated')
    BY <1>4, <2>1, <2>3 DEF r, u
  <2>5. ASSUME NEW i \in DOMAIN r, i < n + 1, r[i].confidence >= Threshold
        PROVE  r[i] \in ToSet(s)
    <3>1. CASE i = n
      BY <1>4, <2>2, <2>5, <3>1
    <3>2. CASE i < n
      BY <1>4, <2>1, <2>5, <3>2 DEF u
    <3> QED BY <2>2, <2>5, <3>1, <3>2
  <2> QED BY <2>1, <2>4, <2>5 DEF TaskGood, r, n
<1> QED BY <1>1, <1>2, <1>3, <1>4, <1>5, <1>7, TaskStepKeeps

\* What is accepted unasked is confident, or there is no key for Claude.
LEMMA AcceptKeeps ==
  ASSUME GraphInv, NEW a \in Agents, NEW t \in DOMAIN hunk[a], Accept(a, t)
  PROVE  GraphInv'
<1>1. /\ Thread(a, t, "looking", "looking") /\ InTask /\ HasMore(a, t) /\ Skip(a, t)
      /\ Keep(a, t, Looked(a, t))
      /\ ~client \/ Looked(a, t).confidence >= Threshold
      /\ UNCHANGED <<raw, escalated, aborted>>
  BY DEF Accept
<1>2. Looked(a, t) \in Finding /\ Looked(a, t) \in ToSet(raw[a][t])
  BY <1>1, AtMoves
<1>3. Looked(a, t).category = a
  <2>1. TaskInv(a, t)
    BY TaskFacts
  <2> QED BY <1>2, <2>1 DEF TaskInv, TaskGood
<1>4. Checked(a, t, Looked(a, t), raw[a][t], escalated')
  BY <1>1, <1>2, FindingAssumption, ThresholdAssumption DEF Checked
<1>5. "looking" \in Active
  BY DEF Active
<1> QED BY <1>1, <1>2, <1>3, <1>4, <1>5, AskedStays, KeepKeeps

\* A thread that waits for Claude has a doubtful finding.
LEMMA EscalatingFacts ==
  ASSUME GraphInv, NEW a \in Agents, NEW t \in DOMAIN hunk[a], hunk[a][t] = "escalating",
         Skip(a, t)
  PROVE  /\ HasMore(a, t) /\ client
         /\ Looked(a, t) \in Finding /\ Looked(a, t) \in ToSet(raw[a][t])
         /\ Looked(a, t).category = a
         /\ Looked(a, t).confidence < Threshold
         /\ ~(Looked(a, t).confidence >= Threshold)
<1>1. TaskInv(a, t)
  BY TaskFacts
<1>2. client /\ HasMore(a, t) /\ Looked(a, t).confidence < Threshold
  BY <1>1 DEF TaskInv, TaskGood, HasMore, Looked
<1>3. Looked(a, t) \in Finding /\ Looked(a, t) \in ToSet(raw[a][t])
  BY <1>2, AtMoves
<1>4. Looked(a, t).category = a
  BY <1>1, <1>3 DEF TaskInv, TaskGood
<1>5. ~(Looked(a, t).confidence >= Threshold)
  BY <1>2, <1>3, FindingAssumption, ThresholdAssumption
<1> QED BY <1>2, <1>3, <1>4, <1>5

\* What Claude confirms is a refinement of a doubtful finding.
LEMMA ConfirmKeeps ==
  ASSUME GraphInv, NEW a \in Agents, NEW t \in DOMAIN hunk[a], Confirm(a, t)
  PROVE  GraphInv'
<1>1. /\ Thread(a, t, "escalating", "looking") /\ InTask /\ Skip(a, t)
      /\ UNCHANGED <<raw, aborted>>
  BY DEF Confirm
<1>2. PICK f \in Refined(Looked(a, t)) : Keep(a, t, f) /\ Asked(a, t, "answered", f)
  BY DEF Confirm
<1>3. hunk[a][t] = "escalating" /\ "escalating" \in Active
  BY <1>1 DEF Thread, Active
<1>4. /\ HasMore(a, t)
      /\ Looked(a, t) \in Finding /\ Looked(a, t) \in ToSet(raw[a][t])
      /\ Looked(a, t).category = a /\ Looked(a, t).confidence < Threshold
      /\ ~(Looked(a, t).confidence >= Threshold)
  BY <1>1, <1>3, EscalatingFacts
<1>5. f \in Finding /\ f.category = a
  BY <1>2, <1>4, RefinedAssumption
<1>6. PICK e \in escalated' : /\ e.agent = a /\ e.task = t /\ e.at = at[a][t]
                              /\ e.outcome = "answered" /\ e.kept = f
  BY <1>2, <1>5, AskedGrows
<1>7. escalated \subseteq escalated' /\ escalated' \subseteq Escalation
  BY <1>2, <1>5, AskedGrows
<1>8. Checked(a, t, f, raw[a][t], escalated')
  BY <1>2, <1>4, <1>6 DEF Checked, Explained, Looked
<1> QED BY <1>1, <1>2, <1>3, <1>4, <1>5, <1>7, <1>8, KeepKeeps

\* A finding whose escalation failed is kept as it was.
LEMMA EscalationFailsKeeps ==
  ASSUME GraphInv, NEW a \in Agents, NEW t \in DOMAIN hunk[a], EscalationFails(a, t)
  PROVE  GraphInv'
<1>1. /\ Thread(a, t, "escalating", "looking") /\ InTask /\ Skip(a, t)
      /\ Keep(a, t, Looked(a, t)) /\ Asked(a, t, "failed", Looked(a, t))
      /\ UNCHANGED <<raw, aborted>>
  BY DEF EscalationFails
<1>2. hunk[a][t] = "escalating" /\ "escalating" \in Active
  BY <1>1 DEF Thread, Active
<1>3. /\ HasMore(a, t) /\ Looked(a, t) \in Finding /\ Looked(a, t).category = a
      /\ Looked(a, t).confidence < Threshold
  BY <1>1, <1>2, EscalatingFacts
<1>4. PICK e \in escalated' : /\ e.agent = a /\ e.task = t /\ e.at = at[a][t]
                              /\ e.outcome = "failed" /\ e.kept = Looked(a, t)
  BY <1>1, <1>3, AskedGrows
<1>5. escalated \subseteq escalated' /\ escalated' \subseteq Escalation
  BY <1>1, <1>3, AskedGrows
<1>6. Checked(a, t, Looked(a, t), raw[a][t], escalated')
  BY <1>3, <1>4 DEF Checked, Explained, Looked
<1> QED BY <1>1, <1>2, <1>3, <1>5, <1>6, KeepKeeps

\* What Claude rejects was not confident.
LEMMA RejectKeeps ==
  ASSUME GraphInv, NEW a \in Agents, NEW t \in DOMAIN hunk[a], Reject(a, t)
  PROVE  GraphInv'
<1>1. /\ Thread(a, t, "escalating", "looking") /\ InTask /\ Skip(a, t)
      /\ UNCHANGED <<raw, got, escalated, aborted>>
  BY DEF Reject
<1>2. /\ hunk[a][t] = "escalating"
      /\ hunk' \in [Agents -> Seq(Active \cup {"queued", "done"})]
      /\ IsSet(hunk', hunk, a, t, "looking")
  BY <1>1, ThreadMoves DEF Active
<1>3. HasMore(a, t) /\ ~(Looked(a, t).confidence >= Threshold)
  BY <1>1, <1>2, EscalatingFacts
<1>4. TaskInv(a, t) /\ a \in running
  BY <1>2, TaskFacts DEF Active
<1>5. /\ at' \in [Agents -> Seq(Nat \ {0})] /\ IsSet(at', at, a, t, at[a][t] + 1)
      /\ at[a][t] + 1 <= Len(raw[a][t]) + 1
      /\ at[a][t] \in DOMAIN raw[a][t]
  BY <1>1, <1>3, AtMoves
<1>6. raw[a][t] \in Seq(Finding)
  BY <1>1, RawStays
<1>7. TaskGood(a, t, "looking", raw[a][t], at[a][t] + 1, got[a][t], escalated', aborted')
  <2> DEFINE r == raw[a][t]
             n == at[a][t]
  <2>1. n \in Nat /\ DOMAIN r \subseteq Nat /\ ~(r[n].confidence >= Threshold)
    BY <1>3, <1>5, <1>6 DEF Looked
  <2> HIDE DEF r, n
  <2>2. \A i \in DOMAIN r : i < n /\ r[i].confidence >= Threshold => r[i] \in ToSet(got[a][t])
    BY <1>4 DEF TaskInv, TaskGood, r, n
  <2>3. \A i \in DOMAIN r : i < n + 1 /\ r[i].confidence >= Threshold => r[i] \in ToSet(got[a][t])
    BY <2>1, <2>2
  <2> QED BY <1>1, <1>4, <2>3 DEF TaskInv, TaskGood, r, n
<1> QED BY <1>1, <1>2, <1>4, <1>5, <1>7, RawStays, GotStays, AskedStays, TaskStepKeeps

\* The invariant holds at first.
LEMMA InitGraphInv == ReviewInit => GraphInv
<1> SUFFICES ASSUME ReviewInit PROVE GraphInv
  OBVIOUS
<1>1. /\ pr \in PullRequests /\ client \in BOOLEAN /\ phase = "ingestion" /\ running = {}
      /\ hunk = Idle /\ raw = Idle /\ at = Idle /\ got = Idle /\ output = Idle
      /\ findings = <<>> /\ counted = 0 /\ escalated = {} /\ aborted = {}
  BY DEF ReviewInit
<1>2. /\ hunk \in [Agents -> Seq(Active \cup {"queued", "done"})]
      /\ raw \in [Agents -> Seq(Seq(Finding))]
      /\ at \in [Agents -> Seq(Nat \ {0})]
      /\ got \in [Agents -> Seq(Seq(Finding))]
      /\ output \in [Agents -> Seq(Finding)]
      /\ \A a \in Agents : hunk[a] = <<>> /\ raw[a] = <<>> /\ at[a] = <<>> /\ got[a] = <<>>
                           /\ output[a] = <<>>
  BY <1>1 DEF Idle
<1>3. DOMAIN <<>> = {}
  OBVIOUS
<1>4. ReviewTypeOK
  BY <1>1, <1>2, <1>3 DEF ReviewTypeOK
<1>5. ASSUME NEW a \in Agents  PROVE Returned(a)
  <2>1. ToSet(<<>>) = {}
    BY DEF ToSet
  <2> QED BY <1>2, <1>3, <2>1 DEF Returned
<1>6. PhaseInv /\ FindingsInv
  BY <1>1 DEF PhaseInv, FindingsInv, Aggregated, AgentsIndependent
<1> QED BY <1>2, <1>3, <1>4, <1>5, <1>6 DEF GraphInv

\* An agent that is not routed has no tasks, and its output is empty.
LEMMA IngestKeeps == GraphInv /\ Ingest => GraphInv'
<1> SUFFICES ASSUME GraphInv, Ingest PROVE GraphInv'
  OBVIOUS
<1>1. /\ phase = "ingestion" /\ phase' = "agents" /\ running' = Routed
      /\ hunk' = [a \in Agents |-> [t \in TaskIds(a) |-> "queued"]]
      /\ raw'  = [a \in Agents |-> [t \in TaskIds(a) |-> <<>>]]
      /\ at'   = [a \in Agents |-> [t \in TaskIds(a) |-> 1]]
      /\ got'  = [a \in Agents |-> [t \in TaskIds(a) |-> <<>>]]
      /\ UNCHANGED <<pr, client, output, findings, counted, escalated, aborted>>
  BY DEF Ingest
<1>2. ReviewTypeOK /\ PhaseInv
  BY DEF GraphInv
<1>3. pr \in PullRequests
  BY <1>2 DEF ReviewTypeOK
<1>4. \A a \in Agents : Tasks(a) \in Seq({pr[i].path : i \in MyFiles(a)})
  BY <1>3, TasksAreReviewed
<1>5. \A a \in Agents : TaskIds(a) = 1 .. Len(Tasks(a)) /\ Len(Tasks(a)) \in Nat
  BY <1>4 DEF TaskIds
<1>6. /\ \A a \in Agents : \A t \in TaskIds(a) :
           hunk'[a][t] = "queued" /\ raw'[a][t] = <<>> /\ at'[a][t] = 1 /\ got'[a][t] = <<>>
      /\ \A a \in Agents : /\ DOMAIN hunk'[a] = TaskIds(a) /\ DOMAIN raw'[a] = TaskIds(a)
                           /\ DOMAIN at'[a] = TaskIds(a) /\ DOMAIN got'[a] = TaskIds(a)
  BY <1>1
<1>7. /\ hunk' \in [Agents -> Seq(Active \cup {"queued", "done"})]
      /\ raw' \in [Agents -> Seq(Seq(Finding))]
      /\ at' \in [Agents -> Seq(Nat \ {0})]
      /\ got' \in [Agents -> Seq(Seq(Finding))]
  <2>1. ASSUME NEW a \in Agents
        PROVE  /\ [t \in TaskIds(a) |-> "queued"] \in Seq(Active \cup {"queued", "done"})
               /\ [t \in TaskIds(a) |-> <<>>] \in Seq(Seq(Finding))
               /\ [t \in TaskIds(a) |-> 1] \in Seq(Nat \ {0})
    <3>1. <<>> \in Seq(Finding) /\ 1 \in Nat \ {0}
      OBVIOUS
    <3> DEFINE none == <<>>
    <3>2. none \in Seq(Finding)
      BY <3>1
    <3> HIDE DEF none
    <3>3. [t \in TaskIds(a) |-> none] \in Seq(Seq(Finding))
      BY <1>5, <3>2
    <3>4. [t \in TaskIds(a) |-> 1] \in Seq(Nat \ {0})
      BY <1>5, <3>1
    <3>5. [t \in TaskIds(a) |-> "queued"] \in Seq(Active \cup {"queued", "done"})
      BY <1>5
    <3> QED BY <3>3, <3>4, <3>5 DEF none
  <2> QED BY <1>1, <2>1
<1>8. ReviewTypeOK'
  <2>1. running' \subseteq Agents \cup {Debt}
    BY <1>1 DEF Routed
  <2>2. \A a \in Agents : \A t \in DOMAIN hunk'[a] : at'[a][t] <= Len(raw'[a][t]) + 1
    BY <1>6
  <2> QED BY <1>1, <1>2, <1>6, <1>7, <2>1, <2>2 DEF ReviewTypeOK
<1>9. ASSUME NEW a \in Agents, NEW t \in DOMAIN hunk'[a]  PROVE TaskInv(a, t)'
  <2>1. ToSet(<<>>) = {} /\ DOMAIN <<>> = {}
    BY DEF ToSet
  <2> QED BY <1>6, <1>9, <2>1 DEF TaskInv, TaskGood
<1>10. ASSUME NEW a \in Agents \ running'  PROVE Returned(a)'
  <2>1. MyFiles(a) = {}
    BY <1>1, <1>10 DEF Routed, MyFiles, Reviews
  <2>2. Tasks(a) = <<>>
    <3>1. Tasks(a) \in Seq({})
      <4>1. {pr[i].path : i \in MyFiles(a)} = {}
        BY <2>1
      <4> QED BY <1>4, <4>1
    <3>2. Len(Tasks(a)) = 0
      BY <3>1
    <3> QED BY <3>1, <3>2
  <2>3. DOMAIN hunk'[a] = {} /\ DOMAIN got'[a] = {}
    BY <1>6, <2>2 DEF TaskIds
  <2>4. output'[a] = <<>>
    BY <1>1, <1>2 DEF PhaseInv, Idle
  <2>5. ToSet(<<>>) = {}
    BY DEF ToSet
  <2> QED BY <2>3, <2>4, <2>5 DEF Returned
<1>11. PhaseInv'
  BY <1>1, <1>2, <1>6, SameTasks DEF PhaseInv
<1>12. FindingsInv'
  BY <1>1 DEF FindingsInv, Aggregated, AgentsIndependent
<1> QED BY <1>8, <1>9, <1>10, <1>11, <1>12 DEF GraphInv

\* A node returns all that its tasks have found.
LEMMA AgentReturnsKeeps ==
  ASSUME GraphInv, NEW a \in Agents, AgentReturns(a)
  PROVE  GraphInv'
<1>1. /\ phase = "agents" /\ a \in running
      /\ \A t \in DOMAIN hunk[a] : hunk[a][t] = "done"
      /\ output' = [output EXCEPT ![a] = FlattenSeq(got[a])]
      /\ running' = running \ {a}
      /\ UNCHANGED <<pr, client, phase, hunk, raw, at, got, escalated, aborted, findings, counted>>
  BY DEF AgentReturns, taskVars
<1>2. ReviewTypeOK /\ PhaseInv
  BY DEF GraphInv
<1>3. got[a] \in Seq(Seq(Finding))
  BY <1>2 DEF ReviewTypeOK
<1>4. /\ FlattenSeq(got[a]) \in Seq(Finding)
      /\ ToSet(FlattenSeq(got[a])) = UNION {ToSet(got[a][t]) : t \in DOMAIN got[a]}
  <2> DEFINE seqs == got[a]
             n == Len(seqs)
             all == FlattenSeq(seqs)
  <2>1. PICK g \in [0 .. n -> Seq(Finding)] : IsConcat(g, n, seqs) /\ g[n] = all
    BY <1>3, FlattenConcat
  <2>2. n \in Nat /\ DOMAIN seqs = 1 .. n /\ n \in 0 .. n /\ seqs \in [1 .. n -> Seq(Finding)]
    BY <1>3
  <2> HIDE DEF seqs, n, all
  <2>3. all \in Seq(Finding)
    BY <2>1, <2>2
  <2>4. \A m \in 0 .. n : ToSet(g[m]) = PartsUpto(seqs, m)
    BY <2>1, <2>2, ConcatElements
  <2>5. ToSet(all) = PartsUpto(seqs, n)
    BY <2>1, <2>2, <2>4
  <2>6. ToSet(all) = UNION {ToSet(seqs[t]) : t \in DOMAIN seqs}
    BY <2>2, <2>5 DEF PartsUpto
  <2> QED BY <2>3, <2>6 DEF all, seqs
<1> DEFINE flat == FlattenSeq(got[a])
<1> HIDE DEF flat
<1>5. output' \in [Agents -> Seq(Finding)] /\ output'[a] = flat
      /\ \A b \in Agents : b # a => output'[b] = output[b]
  BY <1>1, <1>2, <1>4 DEF ReviewTypeOK, flat
<1>6. ReviewTypeOK'
  BY <1>1, <1>2, <1>5 DEF ReviewTypeOK
<1>7. ASSUME NEW b \in Agents, NEW t \in DOMAIN hunk'[b]  PROVE TaskInv(b, t)'
  BY <1>1, <1>7 DEF GraphInv, TaskInv, TaskGood, Checked
<1>8. ASSUME NEW b \in Agents \ running'  PROVE Returned(b)'
  <2>1. CASE b = a
    BY <1>1, <1>4, <1>5, <2>1 DEF Returned, Active, flat
  <2>2. CASE b # a
    <3>1. Returned(b)
      BY <1>1, <1>8, <2>2 DEF GraphInv
    <3> QED BY <1>1, <1>5, <2>2, <3>1 DEF Returned
  <2> QED BY <2>1, <2>2
<1>9. PhaseInv'
  BY <1>1, <1>2, SameTasks DEF PhaseInv
<1>10. FindingsInv'
  BY <1>1 DEF FindingsInv, Aggregated, AgentsIndependent
<1> QED BY <1>6, <1>7, <1>8, <1>9, <1>10 DEF GraphInv

\* What the steps have in common that leave the tasks and the outputs as they are.
LEMMA NodeStepKeeps ==
  ASSUME GraphInv, UNCHANGED <<pr, client, taskVars, output>>, phase # "ingestion",
         running' \subseteq running, running' \cap Agents = running \cap Agents,
         phase' \in {"agents", "aggregator", "summary", "end"},
         phase' # "agents" => running' = {},
         phase' = "agents" => findings' = findings /\ phase = "agents",
         counted' \in Nat, findings' \in Seq(Finding), FindingsInv'
  PROVE  GraphInv'
<1>1. ReviewTypeOK /\ PhaseInv
  BY DEF GraphInv
<1>2. UNCHANGED <<pr, client, hunk, raw, at, got, escalated, aborted, output>>
  BY DEF taskVars
<1>3. ReviewTypeOK'
  BY <1>1, <1>2 DEF ReviewTypeOK
<1>4. ASSUME NEW b \in Agents, NEW t \in DOMAIN hunk'[b]  PROVE TaskInv(b, t)'
  BY <1>2, <1>4 DEF GraphInv, TaskInv, TaskGood, Checked
<1>5. ASSUME NEW b \in Agents \ running'  PROVE Returned(b)'
  <2>1. Returned(b)
    BY <1>5 DEF GraphInv
  <2> QED BY <1>2, <2>1 DEF Returned
<1>6. PhaseInv'
  BY <1>1, <1>2, SameTasks DEF PhaseInv
<1> QED BY <1>3, <1>4, <1>5, <1>6 DEF GraphInv

\* The debt agent touches no finding.
LEMMA DebtReturnsKeeps == GraphInv /\ DebtReturns => GraphInv'
<1> SUFFICES ASSUME GraphInv, DebtReturns PROVE GraphInv'
  OBVIOUS
<1>1. /\ phase = "agents" /\ counted' = Len(findings) /\ running' = running \ {Debt}
      /\ UNCHANGED <<pr, client, phase, taskVars, output, findings>>
  BY DEF DebtReturns
<1>2. findings \in Seq(Finding)
  BY DEF GraphInv, ReviewTypeOK
<1>3. running' \cap Agents = running \cap Agents
  BY <1>1, ReviewersAssumption
<1>4. FindingsInv'
  BY <1>1 DEF FindingsInv, Aggregated, AgentsIndependent
<1> QED BY <1>1, <1>2, <1>3, <1>4, NodeStepKeeps

\* What an agent that is done has returned is of its own category.
LEMMA OutputsCategory ==
  ASSUME GraphInv, running = {}
  PROVE  /\ output \in [Agents -> Seq(Finding)]
         /\ \A a \in Agents : \A f \in ToSet(output[a]) :
              f.category = a /\ \E t \in DOMAIN raw[a] : f \in ToSet(got[a][t])
<1>1. ReviewTypeOK
  BY DEF GraphInv
<1>2. ASSUME NEW a \in Agents, NEW f \in ToSet(output[a])
      PROVE  f.category = a /\ \E t \in DOMAIN raw[a] : f \in ToSet(got[a][t])
  <2>1. Returned(a)
    BY DEF GraphInv
  <2>2. PICK t \in DOMAIN got[a] : f \in ToSet(got[a][t])
    BY <2>1 DEF Returned
  <2>3. t \in DOMAIN hunk[a] /\ t \in DOMAIN raw[a]
    BY <1>1, <2>2 DEF ReviewTypeOK
  <2>4. TaskInv(a, t)
    BY <2>3 DEF GraphInv
  <2> QED BY <2>2, <2>3, <2>4 DEF TaskInv, TaskGood
<1> QED BY <1>1, <1>2 DEF ReviewTypeOK

\* The merge starts from an empty list.
LEMMA MergeKeeps == GraphInv /\ Merge => GraphInv'
<1> SUFFICES ASSUME GraphInv, Merge PROVE GraphInv'
  OBVIOUS
<1>1. /\ phase = "agents" /\ running = {} /\ phase' = "aggregator"
      /\ UNCHANGED <<pr, client, running, taskVars, output, counted>>
  BY DEF Merge
<1>2. findings = <<>>
  BY <1>1 DEF GraphInv, PhaseInv
<1>3. findings' = FoldLeft(LAMBDA merged, a : merged \o output[a], <<>>, Reviewers)
  BY <1>2 DEF Merge
<1>4. /\ output \in [Agents -> Seq(Finding)]
      /\ \A a \in Agents : \A f \in ToSet(output[a]) : f.category = a
  BY <1>1, OutputsCategory
<1>5. IsMerged(findings')
  BY <1>3, <1>4, MergeRun
<1>6. findings' \in Seq(Finding)
  BY <1>4, <1>5, MergedParts
<1>7. FindingsInv'
  BY <1>1, <1>5 DEF FindingsInv, Aggregated, AgentsIndependent, IsMerged, Outputs
<1>8. counted \in Nat
  BY DEF GraphInv, ReviewTypeOK
<1> QED BY <1>1, <1>6, <1>7, <1>8, NodeStepKeeps

\* The aggregator keeps of every agent what the dedupe of its output keeps.
LEMMA AggregateKeeps == GraphInv /\ Aggregate => GraphInv'
<1> SUFFICES ASSUME GraphInv, Aggregate PROVE GraphInv'
  OBVIOUS
<1>1. /\ phase = "aggregator" /\ phase' = "summary"
      /\ findings' \in SortedBySeverity(Dedupe(findings))
      /\ UNCHANGED <<pr, client, running, taskVars, output, counted>>
  BY DEF Aggregate
<1>2. running = {} /\ IsMerged(findings)
  BY <1>1 DEF GraphInv, PhaseInv, FindingsInv
<1>3. /\ output \in [Agents -> Seq(Finding)]
      /\ \A a \in Agents : \A f \in ToSet(output[a]) : f.category = a
  BY <1>2, OutputsCategory
<1>4. /\ findings \in Seq(Finding)
      /\ \A f \in Findings(findings) : f.category \in Agents
      /\ \A a \in Agents : Part(Dedupe(findings), a) = Findings(Dedupe(output[a]))
  BY <1>2, <1>3, MergedParts
<1>5. Dedupe(findings) \in Seq(Finding) /\ Findings(Dedupe(findings)) \subseteq Findings(findings)
  BY <1>4, DedupeKeeps
<1>6. findings' \in Seq(Finding) /\ Findings(findings') = Findings(Dedupe(findings))
  BY <1>1, <1>5, SortKeeps
<1>7. ToSet(findings') = Findings(findings')
  BY DEF ToSet, Findings
<1>8. \A f \in ToSet(findings') : f.category \in Agents
  BY <1>4, <1>5, <1>6, <1>7
<1>9. ASSUME NEW a \in Agents  PROVE OfAgent(a)' = ToSet(Dedupe(output'[a]))
  <2>1. OfAgent(a)' = Part(Dedupe(findings), a)
    BY <1>6, <1>7 DEF OfAgent, Part
  <2>2. ToSet(Dedupe(output[a])) = Findings(Dedupe(output[a]))
    BY DEF ToSet, Findings
  <2> QED BY <1>1, <1>4, <2>1, <2>2
<1>10. FindingsInv'
  BY <1>1, <1>8, <1>9 DEF FindingsInv, AgentsIndependent
<1>11. counted \in Nat
  BY DEF GraphInv, ReviewTypeOK
<1> QED BY <1>1, <1>2, <1>6, <1>10, <1>11, NodeStepKeeps

\* The summary leaves the findings alone.
LEMMA SummariseKeeps == GraphInv /\ Summarise => GraphInv'
<1> SUFFICES ASSUME GraphInv, Summarise PROVE GraphInv'
  OBVIOUS
<1>1. /\ phase = "summary" /\ phase' = "end"
      /\ UNCHANGED <<pr, client, running, taskVars, output, findings, counted>>
  BY DEF Summarise
<1>2. running = {} /\ findings \in Seq(Finding) /\ counted \in Nat
  BY <1>1 DEF GraphInv, PhaseInv, ReviewTypeOK
<1>3. FindingsInv'
  BY <1>1 DEF GraphInv, FindingsInv, Aggregated, AgentsIndependent, OfAgent
<1> QED BY <1>1, <1>2, <1>3, NodeStepKeeps

\* So does a step of nobody.
LEMMA StutterKeeps == GraphInv /\ UNCHANGED reviewVars => GraphInv'
<1> SUFFICES ASSUME GraphInv, UNCHANGED reviewVars PROVE GraphInv'
  OBVIOUS
<1>1. UNCHANGED <<pr, client, phase, running, hunk, raw, at, got, escalated, aborted, output,
                  findings, counted>>
  BY DEF reviewVars, taskVars
<1>2. ReviewTypeOK'
  BY <1>1 DEF GraphInv, ReviewTypeOK
<1>3. ASSUME NEW b \in Agents, NEW t \in DOMAIN hunk'[b]  PROVE TaskInv(b, t)'
  BY <1>1, <1>3 DEF GraphInv, TaskInv, TaskGood, Checked
<1>4. ASSUME NEW b \in Agents \ running'  PROVE Returned(b)'
  BY <1>1, <1>4 DEF GraphInv, Returned
<1>5. PhaseInv'
  BY <1>1, SameTasks DEF GraphInv, PhaseInv
<1>6. FindingsInv'
  BY <1>1 DEF GraphInv, FindingsInv, Aggregated, AgentsIndependent, OfAgent, IsMerged, Outputs
<1> QED BY <1>2, <1>3, <1>4, <1>5, <1>6 DEF GraphInv

\* Every step keeps the invariant.
LEMMA NextGraphInv == GraphInv /\ [ReviewNext]_reviewVars => GraphInv'
<1> SUFFICES ASSUME GraphInv, [ReviewNext]_reviewVars PROVE GraphInv'
  OBVIOUS
<1>1. ASSUME NEW a \in Agents, NEW t \in DOMAIN hunk[a], TaskStep(a, t)  PROVE GraphInv'
  BY <1>1, StartHunkKeeps, PrimaryAnswersKeeps, PrimaryFailsKeeps, AcceptKeeps, EscalateKeeps,
     ConfirmKeeps, RejectKeeps, EscalationFailsKeeps, AbortKeeps, EndHunkKeeps DEF TaskStep
<1>2. ASSUME NEW a \in Agents, AgentStep(a)  PROVE GraphInv'
  BY <1>1, <1>2, AgentReturnsKeeps DEF AgentStep
<1> QED BY <1>2, IngestKeeps, DebtReturnsKeeps, MergeKeeps, AggregateKeeps, SummariseKeeps,
           StutterKeeps DEF ReviewNext

-----------------------------------------------------------------------------
(* ReviewGraph's theorems                                                  *)

\* The inductive invariant holds of every invocation of the graph.
THEOREM GraphInvariance == ReviewSpec => []GraphInv
  BY InitGraphInv, NextGraphInv, PTL DEF ReviewSpec

\* The graph keeps its types, for every pull request and whatever the models answer.
THEOREM ReviewTypeCorrect == ReviewSpec => []ReviewTypeOK
<1>1. GraphInv => ReviewTypeOK
  BY DEF GraphInv
<1> QED BY <1>1, GraphInvariance, PTL

\* No agent silences another: what is reported of one is what its findings alone give.
THEOREM AgentsIndependence == ReviewSpec => []AgentsIndependent
<1>1. GraphInv => AgentsIndependent
  BY DEF GraphInv, FindingsInv
<1> QED BY <1>1, GraphInvariance, PTL

\* A confident finding of a hunk that was not aborted is reported, or a key-mate that is
\* at least as confident.
THEOREM ConfidentSurvive == ReviewSpec => []ConfidentFindingsSurvive
<1>1. GraphInv => ConfidentFindingsSurvive
  <2> SUFFICES ASSUME GraphInv, Aggregated, NEW a \in Agents, NEW t \in DOMAIN raw[a],
                      <<a, t>> \notin aborted, NEW f \in ToSet(raw[a][t]),
                      f.confidence >= Threshold
               PROVE  \E g \in ToSet(findings) : Key(g) = Key(f) /\ g.confidence >= f.confidence
    BY DEF ConfidentFindingsSurvive, Covers
  <2>1. running = {} /\ AgentsIndependent
    BY DEF GraphInv, PhaseInv, FindingsInv, Aggregated
  <2>2. t \in DOMAIN hunk[a]
    BY DEF GraphInv, ReviewTypeOK
  <2>3. /\ hunk \in [Agents -> Seq(Active \cup {"queued", "done"})]
        /\ at \in [Agents -> Seq(Nat \ {0})] /\ t \in DOMAIN at[a]
        /\ raw \in [Agents -> Seq(Seq(Finding))] /\ TaskInv(a, t) /\ t \in DOMAIN got[a]
    BY <2>2, TaskFacts
  <2>4. Returned(a)
    BY <2>1 DEF GraphInv
  <2>5. hunk[a][t] = "done"
    <3>1. hunk[a][t] \notin Active /\ hunk[a][t] \in Active \cup {"queued", "done"}
      BY <2>2, <2>3, <2>4 DEF Returned
    <3>2. hunk[a][t] # "queued"
      BY <2>3 DEF TaskInv, TaskGood, ToSet
    <3> QED BY <3>1, <3>2
  <2>6. ~(at[a][t] <= Len(raw[a][t]))
    BY <2>3, <2>5 DEF TaskInv, TaskGood
  <2>7. PICK i \in DOMAIN raw[a][t] : f = raw[a][t][i]
    BY DEF ToSet
  <2>8. i < at[a][t]
    <3>1. raw[a][t] \in Seq(Finding) /\ at[a][t] \in Nat
      BY <2>3
    <3>2. i \in 1 .. Len(raw[a][t]) /\ Len(raw[a][t]) \in Nat
      BY <3>1
    <3> QED BY <2>6, <3>1, <3>2
  <2>9. f \in ToSet(got[a][t])
    BY <2>3, <2>7, <2>8 DEF TaskInv, TaskGood
  <2>10. f \in Findings(output[a])
    <3>1. f \in ToSet(output[a])
      BY <2>3, <2>4, <2>9 DEF Returned
    <3> QED BY <3>1 DEF ToSet, Findings
  <2>11. output[a] \in Seq(Finding)
    BY <2>1, OutputsCategory
  <2>12. PICK g \in Findings(Dedupe(output[a])) :
            Key(g) = Key(f) /\ g.confidence >= f.confidence
    BY <2>10, <2>11, DedupeKeeps DEF Covers
  <2>13. g \in OfAgent(a)
    BY <2>1, <2>12 DEF AgentsIndependent, ToSet, Findings
  <2> QED BY <2>12, <2>13 DEF OfAgent
<1> QED BY <1>1, GraphInvariance, PTL

\* With a key for Claude, every task that found a doubtful finding of the report had
\* asked Claude about one of its own: the call failed and this is that finding, or Claude
\* answered with this, still doubtful.
THEOREM DoubtfulChecked == ReviewSpec => []DoubtfulFindingsChecked
<1>1. GraphInv => DoubtfulFindingsChecked
  <2> SUFFICES ASSUME GraphInv, Aggregated, client, NEW f \in ToSet(findings),
                      f.confidence < Threshold
               PROVE  /\ FoundIn(f) # {}
                      /\ \A t \in FoundIn(f) :
                           \E e \in escalated : Explained(f.category, t, f, raw[f.category][t], e)
    BY DEF DoubtfulFindingsChecked, Explained
  <2> DEFINE a == f.category
  <2>1. running = {} /\ AgentsIndependent /\ a \in Agents
    BY DEF GraphInv, PhaseInv, FindingsInv, Aggregated
  <2>2. f \in Findings(Dedupe(output[a]))
    BY <2>1 DEF AgentsIndependent, OfAgent, ToSet, Findings
  <2>3. output[a] \in Seq(Finding)
    BY <2>1, OutputsCategory
  <2>4. f \in ToSet(output[a])
    BY <2>2, <2>3, DedupeKeeps DEF ToSet, Findings
  <2>5. FoundIn(f) # {}
    <3>1. PICK t \in DOMAIN raw[a] : f \in ToSet(got[a][t])
      BY <2>1, <2>4, OutputsCategory
    <3> QED BY <2>1, <3>1 DEF FoundIn, GraphInv, ReviewTypeOK
  <2>6. ASSUME NEW t \in FoundIn(f)
        PROVE  \E e \in escalated : Explained(a, t, f, raw[a][t], e)
    <3>1. t \in DOMAIN hunk[a] /\ f \in ToSet(got[a][t])
      BY <2>1 DEF FoundIn, GraphInv, ReviewTypeOK
    <3>2. TaskInv(a, t)
      BY <2>1, <3>1 DEF GraphInv
    <3>3. Checked(a, t, f, raw[a][t], escalated)
      BY <3>1, <3>2 DEF TaskInv, TaskGood
    <3> QED BY <3>3 DEF Checked
  <2> QED BY <2>5, <2>6
<1> QED BY <1>1, GraphInvariance, PTL

\* The debt agent runs before the merge, so that the state it is given has no findings.
NothingCounted == counted = 0

\* Only the debt agent counts.
LEMMA NextNothingCounted == GraphInv /\ NothingCounted /\ [ReviewNext]_reviewVars => NothingCounted'
<1> SUFFICES ASSUME GraphInv, NothingCounted, [ReviewNext]_reviewVars PROVE counted' = 0
  BY DEF NothingCounted
<1>1. counted = 0
  BY DEF NothingCounted
<1>2. ASSUME NEW a, NEW t, TaskStep(a, t)  PROVE counted' = 0
  <2>1. InTask
    BY <1>2 DEF TaskStep, StartHunk, PrimaryAnswers, PrimaryFails, Accept, Escalate, Confirm,
                Reject, EscalationFails, Abort, EndHunk
  <2> QED BY <1>1, <2>1 DEF InTask
<1>3. ASSUME NEW a, AgentStep(a)  PROVE counted' = 0
  BY <1>1, <1>2, <1>3 DEF AgentStep, AgentReturns
<1>4. CASE DebtReturns
  <2>1. phase = "agents" /\ counted' = Len(findings)
    BY <1>4 DEF DebtReturns
  <2>2. findings = <<>>
    BY <2>1 DEF GraphInv, PhaseInv
  <2> QED BY <2>1, <2>2
<1>5. CASE UNCHANGED reviewVars
  BY <1>1, <1>5 DEF reviewVars
<1>6. CASE Ingest \/ Merge \/ Aggregate \/ Summarise
  BY <1>1, <1>6 DEF Ingest, Merge, Aggregate, Summarise
<1> QED BY <1>3, <1>4, <1>5, <1>6 DEF ReviewNext

\* Whatever the agents find and however they interleave, the debt agent counts none of it,
\* although it is meant to count the findings of the other agents.
THEOREM DebtCountsNothing == ReviewSpec => []NothingCounted
<1>1. GraphInv /\ NothingCounted /\ [ReviewNext]_reviewVars => (GraphInv /\ NothingCounted)'
  BY NextGraphInv, NextNothingCounted
<1>2. ReviewInit => GraphInv /\ NothingCounted
  BY InitGraphInv DEF ReviewInit, NothingCounted
<1> QED BY <1>1, <1>2, PTL DEF ReviewSpec
=============================================================================
