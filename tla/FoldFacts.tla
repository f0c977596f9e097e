------------------------------ MODULE FoldFacts ------------------------------
(***************************************************************************)
(* What the proofs need of induction and of the folds of the community     *)
(* modules.  An induction principle takes a set here instead of a          *)
(* predicate, and what is folded is a function instead of an operator, so  *)
(* that first-order provers can use the facts.                             *)
(***************************************************************************)
EXTENDS Integers, Sequences, FiniteSets, SequencesExt, SequenceTheorems, FiniteSetTheorems,
        TLAPS

-----------------------------------------------------------------------------
(* Induction                                                               *)

\* A nonempty set of natural numbers has a least element.
LEMMA LeastNat ==
  ASSUME NEW T \in SUBSET Nat, T # {}
  PROVE  \E n \in T : \A m \in T : n <= m
<1> DEFINE less == {p \in Nat \X Nat : p[1] < p[2]}
<1>1. IsWellFoundedOn(less, Nat)
  BY NatLessThanWellFounded DEF OpToRel
<1>2. PICK n \in T : \A m \in T : ~(<<m, n>> \in less)
  <2> HIDE DEF less
  <2> QED BY <1>1, WFMin
<1>3. ASSUME NEW m \in T  PROVE n <= m
  <2>1. m \in Nat /\ n \in Nat /\ <<m, n>> \notin less
    BY <1>2
  <2> QED BY <2>1
<1> QED BY <1>3

\* Induction over the natural numbers.
LEMMA NatSetInduction ==
  ASSUME NEW T, 0 \in T, \A n \in Nat : n \in T => n + 1 \in T
  PROVE  Nat \subseteq T
<1> SUFFICES ASSUME Nat \ T # {}  PROVE FALSE
  OBVIOUS
<1>1. PICK n \in Nat \ T : \A m \in Nat \ T : n <= m
  BY LeastNat
<1>2. n # 0 /\ n - 1 \in Nat
  BY <1>1
<1>3. n - 1 \in T
  BY <1>1, <1>2
<1>4. (n - 1) + 1 \in T
  BY <1>2, <1>3
<1> QED BY <1>1, <1>4

\* Induction over the subsets of a finite set.
LEMMA StrongSubsetInduction ==
  ASSUME NEW S, IsFiniteSet(S), NEW T,
         \A s \in SUBSET S : (\A r \in SUBSET s : r # s => r \in T) => s \in T
  PROVE  SUBSET S \subseteq T
<1> DEFINE bad == (SUBSET S) \ T
           less == StrictSubsetOrdering(S)
           all == FiniteSubsetsOf(S)
<1> SUFFICES ASSUME bad # {}  PROVE FALSE
  OBVIOUS
<1>1. all = SUBSET S
  BY FS_FiniteSubsetsOfFinite
<1>2. IsWellFoundedOn(less, all)
  BY FS_StrictSubsetOrderingWellFounded
<1>3. PICK s \in bad : \A r \in bad : ~(<<r, s>> \in less)
  <2>1. bad \subseteq all
    BY <1>1
  <2> HIDE DEF bad, less, all
  <2> QED BY <1>2, <2>1, WFMin
<1>4. ASSUME NEW r \in SUBSET s, r # s  PROVE r \in T
  BY <1>3, <1>4 DEF StrictSubsetOrdering
<1> QED BY <1>3, <1>4

-----------------------------------------------------------------------------
(* Folds over finite sets                                                  *)

\* The recursive function in MapThenFoldSet: an element that is picked is
\* combined with what the fold makes of the rest.
IsFold(it, S, base, step, pick) ==
  it = [s \in SUBSET S |-> IF s = {} THEN base ELSE step[pick[s]][it[s \ {pick[s]}]]]

\* There is such a function.
LEMMA FoldExists ==
  ASSUME NEW S, IsFiniteSet(S), NEW X, NEW base \in X, NEW step \in [S -> [X -> X]],
         NEW pick, \A s \in SUBSET S : s # {} => pick[s] \in s
  PROVE  \E it \in [SUBSET S -> X] : IsFold(it, S, base, step, pick)
<1> DEFINE Unfold(it) == [s \in SUBSET S |->
                          IF s = {} THEN base ELSE step[pick[s]][it[s \ {pick[s]}]]]
           Upto(n, it) == \A s \in SUBSET S : Cardinality(s) <= n => it[s] = Unfold(it)[s]
           U == {n \in Nat : \E it \in [SUBSET S -> X] : Upto(n, it)}
<1>1. \A s \in SUBSET S : IsFiniteSet(s) /\ Cardinality(s) \in Nat
  BY FS_Subset, FS_CardinalityType
<1>2. ASSUME NEW it \in [SUBSET S -> X]  PROVE Unfold(it) \in [SUBSET S -> X]
  OBVIOUS
<1>3. 0 \in U
  <2> DEFINE it == [s \in SUBSET S |-> base]
  <2>1. Upto(0, it)
    BY <1>1, FS_EmptySet
  <2>2. it \in [SUBSET S -> X]
    OBVIOUS
  <2> HIDE DEF Upto, it
  <2> QED BY <2>1, <2>2
<1>4. ASSUME NEW n \in Nat, n \in U  PROVE n + 1 \in U
  <2>1. PICK it \in [SUBSET S -> X] : Upto(n, it)
    BY <1>4
  <2>2. ASSUME NEW s \in SUBSET S, Cardinality(s) <= n + 1
        PROVE  Unfold(it)[s] = Unfold(Unfold(it))[s]
    <3>1. CASE s = {}
      BY <3>1
    <3>2. CASE s # {}
      <4>1. pick[s] \in s /\ s \ {pick[s]} \in SUBSET S
        BY <3>2
      <4>2. Cardinality(s \ {pick[s]}) <= n
        <5>1. IsFiniteSet(s) /\ Cardinality(s) \in Nat
          BY <1>1
        <5>2. \A x \in s : Cardinality(s \ {x}) = Cardinality(s) - 1
          BY <5>1, FS_RemoveElement
        <5> QED BY <2>2, <4>1, <5>1, <5>2
      <4>3. it[s \ {pick[s]}] = Unfold(it)[s \ {pick[s]}]
        BY <2>1, <4>1, <4>2
      <4> QED BY <3>2, <4>1, <4>3
    <3> QED BY <3>1, <3>2
  <2>3. Upto(n + 1, Unfold(it))
    BY <2>2
  <2>4. Unfold(it) \in [SUBSET S -> X]
    BY <1>2
  <2> HIDE DEF Upto, Unfold
  <2> QED BY <2>3, <2>4
<1>5. Cardinality(S) \in U
  <2> HIDE DEF U
  <2> QED BY <1>1, <1>3, <1>4, NatSetInduction
<1>6. PICK it \in [SUBSET S -> X] : Upto(Cardinality(S), it)
  BY <1>5
<1>7. \A s \in SUBSET S : it[s] = Unfold(it)[s]
  BY <1>1, <1>6, FS_Subset
<1>8. it = Unfold(it)
  BY <1>7
<1> QED BY <1>8 DEF IsFold

-----------------------------------------------------------------------------
(* Sums                                                                    *)

\* The fold of MapThenSumSet, for a function d of what is summed.
Some(s) == CHOOSE x \in s : TRUE
IsSum(it, d, S) ==
  it = [s \in SUBSET S |-> IF s = {} THEN 0 ELSE d[Some(s)] + it[s \ {Some(s)}]]

\* The sum of d over S, as MapThenSumSet has it.
SumOver(d, S) == (CHOOSE it : IsSum(it, d, S))[S]

\* The fold is defined, and it is a number.
LEMMA SumExists ==
  ASSUME NEW S, IsFiniteSet(S), NEW d, \A x \in S : d[x] \in Int
  PROVE  \E it \in [SUBSET S -> Int] : IsSum(it, d, S)
<1> DEFINE step == [x \in S |-> [v \in Int |-> d[x] + v]]
           pick == [s \in SUBSET S |-> Some(s)]
<1>1. step \in [S -> [Int -> Int]]
  OBVIOUS
<1>2. \A s \in SUBSET S : s # {} => pick[s] \in s /\ pick[s] = Some(s)
  BY DEF Some
<1>3. PICK it \in [SUBSET S -> Int] : IsFold(it, S, 0, step, pick)
  <2> HIDE DEF step, pick
  <2> 0 \in Int
    OBVIOUS
  <2> QED BY <1>1, <1>2, FoldExists
<1>4. ASSUME NEW s \in SUBSET S
      PROVE  it[s] = IF s = {} THEN 0 ELSE d[Some(s)] + it[s \ {Some(s)}]
  <2>1. it[s] = IF s = {} THEN 0 ELSE step[pick[s]][it[s \ {pick[s]}]]
    BY <1>3 DEF IsFold
  <2>2. CASE s = {}
    BY <2>1, <2>2
  <2>3. CASE s # {}
    <3>1. Some(s) \in S /\ s \ {Some(s)} \in SUBSET S
      BY <1>2, <2>3
    <3>2. it[s \ {Some(s)}] \in Int
      BY <3>1
    <3>3. it[s] = step[Some(s)][it[s \ {Some(s)}]]
      BY <2>1, <2>3, <1>2
    <3> QED BY <2>3, <3>1, <3>2, <3>3
  <2> QED BY <2>2, <2>3
<1> QED BY <1>4 DEF IsSum

\* What the fold is at a set depends on what d is there, and on nothing else.
LEMMA SumAgree ==
  ASSUME NEW S, IsFiniteSet(S), NEW R, S \subseteq R, NEW d, NEW e,
         \A x \in S : d[x] = e[x],
         NEW it, IsSum(it, d, S), NEW iu, IsSum(iu, e, R)
  PROVE  it[S] = iu[S]
<1> DEFINE T == {s \in SUBSET S : it[s] = iu[s]}
<1>1. ASSUME NEW s \in SUBSET S, \A r \in SUBSET s : r # s => r \in T
      PROVE  s \in T
  <2>1. CASE s = {}
    BY <2>1 DEF IsSum
  <2>2. CASE s # {}
    <3>1. Some(s) \in s
      BY <2>2 DEF Some
    <3>2. s \ {Some(s)} \in T
      BY <1>1, <3>1
    <3>3. it[s] = d[Some(s)] + it[s \ {Some(s)}]
      BY <2>2 DEF IsSum
    <3>4. iu[s] = e[Some(s)] + iu[s \ {Some(s)}]
      BY <2>2 DEF IsSum
    <3> QED BY <3>1, <3>2, <3>3, <3>4
  <2> QED BY <2>1, <2>2
<1>2. SUBSET S \subseteq T
  <2> HIDE DEF T
  <2> QED BY <1>1, StrongSubsetInduction
<1> QED BY <1>2

\* SumOver is the sum.
LEMMA SumIs ==
  ASSUME NEW R, IsFiniteSet(R), NEW d, \A x \in R : d[x] \in Int, NEW S \in SUBSET R
  PROVE  /\ SumOver(d, S) \in Int
         /\ \A it : IsSum(it, d, R) => it[S] = SumOver(d, S)
<1> IsFiniteSet(S)
  BY FS_Subset
<1>1. PICK iu \in [SUBSET S -> Int] : IsSum(iu, d, S)
  BY SumExists
<1> DEFINE iv == CHOOSE it : IsSum(it, d, S)
<1>2. IsSum(iv, d, S)
  BY <1>1
<1>3. iv[S] = iu[S]
  <2> HIDE DEF iv
  <2> QED BY <1>1, <1>2, SumAgree
<1>4. SumOver(d, S) = iv[S]
  BY DEF SumOver
<1>5. ASSUME NEW it, IsSum(it, d, R)  PROVE it[S] = iv[S]
  <2> HIDE DEF iv
  <2> QED BY <1>2, <1>5, SumAgree
<1> QED BY <1>1, <1>3, <1>4, <1>5

\* Only the values in S count.
LEMMA SumSame ==
  ASSUME NEW S, IsFiniteSet(S), NEW d, NEW e, \A x \in S : d[x] \in Int /\ d[x] = e[x]
  PROVE  SumOver(d, S) = SumOver(e, S)
<1>1. PICK it : IsSum(it, d, S)
  BY SumExists
<1>2. PICK iu : IsSum(iu, e, S)
  BY SumExists
<1>3. it[S] = iu[S]
  BY <1>1, <1>2, SumAgree
<1> QED BY <1>1, <1>2, <1>3, SumIs

\* The sum over nothing.
LEMMA SumEmpty ==
  ASSUME NEW d
  PROVE  SumOver(d, {}) = 0
<1>1. PICK it : IsSum(it, d, {})
  BY SumExists, FS_EmptySet
<1>2. it[{}] = 0
  BY <1>1 DEF IsSum
<1>3. SumOver(d, {}) = it[{}]
  BY <1>1, SumIs, FS_EmptySet
<1> QED BY <1>2, <1>3

\* The order in which elements are picked does not matter.
LEMMA SumAdd ==
  ASSUME NEW S, IsFiniteSet(S), NEW d, \A x \in S : d[x] \in Int, NEW x \in S
  PROVE  SumOver(d, S) = d[x] + SumOver(d, S \ {x})
<1>1. PICK it \in [SUBSET S -> Int] : IsSum(it, d, S)
  BY SumExists
<1> DEFINE T == {s \in SUBSET S : \A y \in s : it[s] = d[y] + it[s \ {y}]}
<1>2. ASSUME NEW s \in SUBSET S, \A r \in SUBSET s : r # s => r \in T
      PROVE  s \in T
  <2> SUFFICES ASSUME NEW y \in s  PROVE it[s] = d[y] + it[s \ {y}]
    OBVIOUS
  <2> DEFINE z == Some(s)
  <2>1. z \in s /\ it[s] = d[z] + it[s \ {z}]
    BY <1>1 DEF IsSum, Some
  <2>2. CASE y = z
    BY <2>1, <2>2
  <2>3. CASE y # z
    <3> HIDE DEF z
    <3>1. s \ {z} \in T /\ s \ {y} \in T
      BY <1>2, <2>1
    <3>2. (s \ {z}) \ {y} = (s \ {y}) \ {z}
      OBVIOUS
    <3> DEFINE rest == it[(s \ {y}) \ {z}]
    <3>3. it[s \ {z}] = d[y] + rest
      BY <3>1, <2>3, <3>2
    <3>4. it[s \ {y}] = d[z] + rest
      BY <3>1, <2>3, <2>1
    <3>5. d[y] \in Int /\ d[z] \in Int /\ rest \in Int
      BY <1>1, <2>1
    <3> HIDE DEF rest
    <3>6. d[z] + (d[y] + rest) = d[y] + (d[z] + rest)
      BY <3>5
    <3> QED BY <2>1, <3>3, <3>4, <3>6
  <2> QED BY <2>2, <2>3
<1>3. SUBSET S \subseteq T
  <2> HIDE DEF T
  <2> QED BY <1>2, StrongSubsetInduction
<1>4. it[S] = d[x] + it[S \ {x}]
  BY <1>3
<1>5. it[S] = SumOver(d, S) /\ it[S \ {x}] = SumOver(d, S \ {x})
  BY <1>1, SumIs
<1> QED BY <1>4, <1>5

-----------------------------------------------------------------------------
(* Folds over sequences                                                    *)

\* What Max picks of a set of positions.
LEMMA MaxFacts ==
  ASSUME NEW n \in Nat, NEW s \in SUBSET (1 .. n), s # {}
  PROVE  Max(s) \in s /\ \A y \in s : Max(s) >= y
<1> DEFINE below == {n - y : y \in s}
<1>1. below \in SUBSET Nat
  OBVIOUS
<1>0. below # {}
  <2>1. PICK y \in s : TRUE
    OBVIOUS
  <2>2. n - y \in below
    BY <2>1
  <2> QED BY <2>2
<1>2. PICK d \in below : \A e \in below : d <= e
  <2> HIDE DEF below
  <2> QED BY <1>0, <1>1, LeastNat
<1>3. PICK x \in s : d = n - x
  BY <1>2
<1>4. ASSUME NEW y \in s  PROVE x >= y
  <2>1. n - y \in below
    OBVIOUS
  <2>2. d <= n - y
    BY <1>2, <2>1
  <2> QED BY <1>3, <2>2
<1> QED BY <1>3, <1>4 DEF Max

\* The last element of an interval.
LEMMA MaxOfInterval ==
  ASSUME NEW m \in Nat \ {0}
  PROVE  Max(1 .. m) = m /\ (1 .. m) \ {Max(1 .. m)} = 1 .. m - 1
<1>1. Max(1 .. m) \in 1 .. m /\ Max(1 .. m) >= m
  <2>1. 1 .. m \in SUBSET (1 .. m) /\ m \in 1 .. m
    OBVIOUS
  <2>2. 1 .. m # {}
    BY <2>1
  <2> QED BY <2>1, <2>2, MaxFacts
<1>2. Max(1 .. m) = m
  BY <1>1
<1> QED BY <1>2

\* The recursive function in FoldLeft: it[1 .. m] is what the fold makes of the
\* first m of n elements.
IsLeftFold(it, n, base, step) ==
  it = [s \in SUBSET (1 .. n) |-> IF s = {} THEN base ELSE step[Max(s)][it[s \ {Max(s)}]]]

\* There is such a function.
LEMMA LeftFoldExists ==
  ASSUME NEW n \in Nat, NEW X, NEW base \in X, NEW step \in [1 .. n -> [X -> X]]
  PROVE  \E it \in [SUBSET (1 .. n) -> X] : IsLeftFold(it, n, base, step)
<1> DEFINE pick == [s \in SUBSET (1 .. n) |-> Max(s)]
<1>1. \A s \in SUBSET (1 .. n) : s # {} => pick[s] \in s
  BY MaxFacts
<1>2. IsFiniteSet(1 .. n)
  BY FS_Interval
<1>3. PICK it \in [SUBSET (1 .. n) -> X] : IsFold(it, 1 .. n, base, step, pick)
  <2> DEFINE S == 1 .. n
  <2> HIDE DEF pick, S
  <2>1. \A s \in SUBSET S : s # {} => pick[s] \in s
    BY <1>1 DEF S
  <2>2. IsFiniteSet(S) /\ step \in [S -> [X -> X]]
    BY <1>2 DEF S
  <2>3. \E it \in [SUBSET S -> X] : IsFold(it, S, base, step, pick)
    BY <2>1, <2>2, FoldExists
  <2> QED BY <2>3 DEF S
<1>4. it = [s \in SUBSET (1 .. n) |-> IF s = {} THEN base ELSE step[pick[s]][it[s \ {pick[s]}]]]
  BY <1>3 DEF IsFold
<1> QED BY <1>4 DEF IsLeftFold

\* One that is known to be one as far as it stays in X.
FoldsIn(it, n, X, base, step) ==
  /\ it[{}] = base
  /\ \A s \in SUBSET (1 .. n) :
       s # {} /\ it[s \ {Max(s)}] \in X => it[s] = step[Max(s)][it[s \ {Max(s)}]]

\* g[m] is what the fold makes of the first m elements.
IsRun(g, n, base, step) ==
  /\ g[0] = base
  /\ \A m \in 1 .. n : g[m] = step[m][g[m - 1]]

\* Such a function, followed element by element.
LEMMA LeftFoldRun ==
  ASSUME NEW n \in Nat, NEW X, NEW base \in X, NEW step \in [1 .. n -> [X -> X]],
         NEW it, FoldsIn(it, n, X, base, step)
  PROVE  \E g \in [0 .. n -> X] : IsRun(g, n, base, step) /\ g[n] = it[1 .. n]
<1> DEFINE g == [m \in 0 .. n |-> it[1 .. m]]
           T == {m \in Nat : m <= n => g[m] \in X}
<1>1. g[0] = base
  <2>1. 1 .. 0 = {}
    OBVIOUS
  <2> QED BY <2>1 DEF FoldsIn
<1>2. ASSUME NEW m \in 1 .. n, g[m - 1] \in X  PROVE g[m] = step[m][g[m - 1]]
  <2>1. 1 .. m \in SUBSET (1 .. n) /\ m \in 1 .. m
    OBVIOUS
  <2>2. 1 .. m # {}
    BY <2>1
  <2>3. Max(1 .. m) = m /\ (1 .. m) \ {Max(1 .. m)} = 1 .. m - 1
    BY MaxOfInterval
  <2>4. g[m] = it[1 .. m] /\ g[m - 1] = it[1 .. m - 1]
    OBVIOUS
  <2> HIDE DEF g
  <2>5. it[(1 .. m) \ {Max(1 .. m)}] \in X
    BY <1>2, <2>3, <2>4
  <2>6. it[1 .. m] = step[Max(1 .. m)][it[(1 .. m) \ {Max(1 .. m)}]]
    BY <2>1, <2>2, <2>5 DEF FoldsIn
  <2> QED BY <2>3, <2>4, <2>6
<1> HIDE DEF g
<1>3. 0 \in T
  BY <1>1
<1>4. ASSUME NEW m \in Nat, m \in T  PROVE m + 1 \in T
  <2> SUFFICES ASSUME m + 1 <= n  PROVE g[m + 1] \in X
    OBVIOUS
  <2>1. m + 1 \in 1 .. n /\ (m + 1) - 1 = m /\ g[m] \in X
    BY <1>4
  <2>2. g[m + 1] = step[m + 1][g[m]]
    BY <1>2, <2>1
  <2> QED BY <2>1, <2>2
<1>5. Nat \subseteq T
  <2> HIDE DEF T
  <2> QED BY <1>3, <1>4, NatSetInduction
<1>6. \A m \in 0 .. n : g[m] \in X
  BY <1>5
<1>7. \A m \in 1 .. n : g[m] = step[m][g[m - 1]]
  BY <1>2, <1>6
<1>8. g \in [0 .. n -> X] /\ g[n] = it[1 .. n]
  BY <1>6 DEF g
<1> QED BY <1>1, <1>7, <1>8 DEF IsRun

\* g[m] is the concatenation of the first m of n sequences.
IsConcat(g, n, seqs) ==
  /\ g[0] = <<>>
  /\ \A m \in 1 .. n : g[m] = g[m - 1] \o seqs[m]

\* There is such a function.
LEMMA ConcatExists ==
  ASSUME NEW X, NEW n \in Nat, NEW seqs \in [1 .. n -> Seq(X)]
  PROVE  \E g \in [0 .. n -> Seq(X)] : IsConcat(g, n, seqs)
<1> DEFINE step == [m \in 1 .. n |-> [s \in Seq(X) |-> s \o seqs[m]]]
<1>1. step \in [1 .. n -> [Seq(X) -> Seq(X)]]
  OBVIOUS
<1>2. PICK it \in [SUBSET (1 .. n) -> Seq(X)] : IsLeftFold(it, n, <<>>, step)
  <2> DEFINE Y == Seq(X)
             base == <<>>
  <2>1. base \in Y /\ step \in [1 .. n -> [Y -> Y]]
    BY <1>1
  <2> HIDE DEF step, Y, base
  <2>2. \E it \in [SUBSET (1 .. n) -> Y] : IsLeftFold(it, n, base, step)
    BY <2>1, LeftFoldExists
  <2> QED BY <2>2 DEF Y, base
<1> DEFINE g == [m \in 0 .. n |-> it[1 .. m]]
<1>3. \A m \in 0 .. n : 1 .. m \in SUBSET (1 .. n)
  OBVIOUS
<1>4. g \in [0 .. n -> Seq(X)]
  BY <1>3
<1>5. g[0] = <<>>
  <2> HIDE DEF step
  <2>1. 1 .. 0 = {} /\ 1 .. 0 \in SUBSET (1 .. n)
    OBVIOUS
  <2>2. it[1 .. 0] = <<>>
    BY <1>2, <2>1 DEF IsLeftFold
  <2> QED BY <2>2
<1>6. ASSUME NEW m \in 1 .. n  PROVE g[m] = g[m - 1] \o seqs[m]
  <2>1. it[1 .. m] = step[m][it[1 .. m - 1]]
    <3> HIDE DEF step
    <3>1. 1 .. m \in SUBSET (1 .. n)
      OBVIOUS
    <3>3. 1 .. m # {}
      <4>1. m \in 1 .. m
        OBVIOUS
      <4> QED BY <4>1
    <3>2. it[1 .. m] = step[Max(1 .. m)][it[(1 .. m) \ {Max(1 .. m)}]]
      BY <1>2, <3>1, <3>3 DEF IsLeftFold
    <3>4. Max(1 .. m) = m /\ (1 .. m) \ {Max(1 .. m)} = 1 .. m - 1
      BY MaxOfInterval
    <3> QED BY <3>2, <3>4
  <2>2. g[m - 1] \in Seq(X) /\ g[m - 1] = it[1 .. m - 1] /\ g[m] = it[1 .. m]
    BY <1>4
  <2> QED BY <2>1, <2>2
<1> HIDE DEF g
<1> QED BY <1>4, <1>5, <1>6 DEF IsConcat

\* A concatenation is determined by its parts.
LEMMA ConcatTypes ==
  ASSUME NEW X, NEW n \in Nat, NEW seqs \in [1 .. n -> Seq(X)], NEW g, IsConcat(g, n, seqs)
  PROVE  \A m \in 0 .. n : g[m] \in Seq(X)
<1> DEFINE T == {m \in Nat : m <= n => g[m] \in Seq(X)}
<1>1. 0 \in T
  <2>1. g[0] = <<>> /\ <<>> \in Seq(X)
    BY DEF IsConcat
  <2>2. g[0] \in Seq(X)
    BY <2>1
  <2> QED BY <2>2
<1>2. ASSUME NEW m \in Nat, m \in T  PROVE m + 1 \in T
  <2> SUFFICES ASSUME m + 1 <= n  PROVE g[m + 1] \in Seq(X)
    OBVIOUS
  <2>1. m + 1 \in 1 .. n /\ (m + 1) - 1 = m
    OBVIOUS
  <2>2. g[m + 1] = g[m] \o seqs[m + 1]
    BY <2>1 DEF IsConcat
  <2>3. g[m] \in Seq(X) /\ seqs[m + 1] \in Seq(X)
    BY <1>2, <2>1
  <2> QED BY <2>2, <2>3
<1>3. Nat \subseteq T
  <2> HIDE DEF T
  <2> QED BY <1>1, <1>2, NatSetInduction
<1> QED BY <1>3

\* What two sequences have together.
LEMMA ElementsOfConcat ==
  ASSUME NEW X, NEW s \in Seq(X), NEW u \in Seq(X)
  PROVE  ToSet(s \o u) = ToSet(s) \cup ToSet(u)
<1> DEFINE c == s \o u
<1>1. /\ c \in Seq(X)
      /\ Len(c) = Len(s) + Len(u)
      /\ \A k \in 1 .. Len(s) + Len(u) : c[k] = IF k <= Len(s) THEN s[k] ELSE u[k - Len(s)]
  BY ConcatProperties
<1> HIDE DEF c
<1>2. Len(s) \in Nat /\ Len(u) \in Nat
  OBVIOUS
<1>3. ASSUME NEW f \in ToSet(c)  PROVE f \in ToSet(s) \cup ToSet(u)
  <2>1. PICK k \in 1 .. Len(s) + Len(u) : f = c[k]
    BY <1>1 DEF ToSet
  <2>2. CASE k <= Len(s)
    BY <1>1, <1>2, <2>1, <2>2 DEF ToSet
  <2>3. CASE k > Len(s)
    <3>1. k - Len(s) \in 1 .. Len(u) /\ f = u[k - Len(s)]
      BY <1>1, <1>2, <2>1, <2>3
    <3> QED BY <3>1 DEF ToSet
  <2> QED BY <1>2, <2>2, <2>3
<1>4. ASSUME NEW f \in ToSet(s)  PROVE f \in ToSet(c)
  <2>1. PICK k \in 1 .. Len(s) : f = s[k]
    BY DEF ToSet
  <2>2. k \in 1 .. Len(c) /\ f = c[k]
    BY <1>1, <1>2, <2>1
  <2> QED BY <1>1, <2>2 DEF ToSet
<1>5. ASSUME NEW f \in ToSet(u)  PROVE f \in ToSet(c)
  <2>1. PICK k \in 1 .. Len(u) : f = u[k]
    BY DEF ToSet
  <2>2. Len(s) + k \in 1 .. Len(c) /\ ~(Len(s) + k <= Len(s)) /\ (Len(s) + k) - Len(s) = k
    BY <1>1, <1>2
  <2>3. f = c[Len(s) + k]
    BY <1>1, <2>1, <2>2
  <2>4. Len(s) + k \in DOMAIN c
    BY <1>1, <2>2
  <2> QED BY <2>3, <2>4 DEF ToSet
<1> QED BY <1>3, <1>4, <1>5 DEF c

\* A concatenation has what its parts have.
PartsUpto(seqs, m) == UNION {ToSet(seqs[i]) : i \in 1 .. m}

\* So it is for every part of the concatenation.
LEMMA ConcatElements ==
  ASSUME NEW X, NEW n \in Nat, NEW seqs \in [1 .. n -> Seq(X)], NEW g, IsConcat(g, n, seqs)
  PROVE  \A m \in 0 .. n : ToSet(g[m]) = PartsUpto(seqs, m)
<1> DEFINE parts(m) == PartsUpto(seqs, m)
           T == {m \in Nat : m <= n => ToSet(g[m]) = parts(m)}
<1>1. 0 \in T
  <2>1. g[0] = <<>> /\ parts(0) = {}
    BY DEF IsConcat, PartsUpto
  <2>2. ToSet(<<>>) = {}
    BY DEF ToSet
  <2>3. ToSet(g[0]) = parts(0)
    BY <2>1, <2>2
  <2> HIDE DEF parts
  <2> QED BY <2>3
<1>2. ASSUME NEW m \in Nat, m \in T  PROVE m + 1 \in T
  <2> SUFFICES ASSUME m + 1 <= n  PROVE ToSet(g[m + 1]) = parts(m + 1)
    OBVIOUS
  <2>1. m + 1 \in 1 .. n /\ (m + 1) - 1 = m /\ m \in 0 .. n
    OBVIOUS
  <2>2. g[m + 1] = g[m] \o seqs[m + 1]
    BY <2>1 DEF IsConcat
  <2>3. g[m] \in Seq(X) /\ seqs[m + 1] \in Seq(X)
    BY <2>1, ConcatTypes
  <2>4. ToSet(g[m + 1]) = ToSet(g[m]) \cup ToSet(seqs[m + 1])
    BY <2>2, <2>3, ElementsOfConcat
  <2>5. ToSet(g[m]) = parts(m)
    BY <1>2, <2>1
  <2>6. 1 .. m + 1 = (1 .. m) \cup {m + 1}
    OBVIOUS
  <2>7. parts(m + 1) = parts(m) \cup ToSet(seqs[m + 1])
    BY <2>6 DEF PartsUpto
  <2> QED BY <2>4, <2>5, <2>7
<1>3. Nat \subseteq T
  <2> HIDE DEF T
  <2> QED BY <1>1, <1>2, NatSetInduction
<1> QED BY <1>3

\* A part is a block of it, and what is outside of the block is of the other parts.
IsBlock(s, u, o) ==
  /\ o \in Nat
  /\ o + Len(u) <= Len(s)
  /\ \A j \in 1 .. Len(u) : s[o + j] = u[j]

\* Every part is in one block.
LEMMA ConcatBlock ==
  ASSUME NEW X, NEW n \in Nat, NEW seqs \in [1 .. n -> Seq(X)], NEW g, IsConcat(g, n, seqs),
         NEW i \in 1 .. n
  PROVE  \E o : /\ IsBlock(g[n], seqs[i], o)
                /\ \A k \in DOMAIN g[n] :
                     k <= o \/ k > o + Len(seqs[i]) =>
                       \E l \in (1 .. n) \ {i} : g[n][k] \in ToSet(seqs[l])
<1> DEFINE u == seqs[i]
           o == Len(g[i - 1])
           Other(f) == \E l \in (1 .. n) \ {i} : f \in ToSet(seqs[l])
           Good(m) == /\ IsBlock(g[m], u, o)
                      /\ \A k \in 1 .. Len(g[m]) : k <= o \/ k > o + Len(u) => Other(g[m][k])
           T == {m \in Nat : i <= m /\ m <= n => Good(m)}
<1>1. \A m \in 0 .. n : g[m] \in Seq(X)
  BY ConcatTypes
<1>2. u \in Seq(X) /\ i - 1 \in 0 .. n /\ i - 1 \in Nat
  OBVIOUS
<1>3. Good(i)
  <2> DEFINE s == g[i - 1]
  <2>1. s \in Seq(X) /\ g[i] = s \o u
    BY <1>1, <1>2 DEF IsConcat
  <2>2. /\ g[i] \in Seq(X)
        /\ Len(g[i]) = Len(s) + Len(u)
        /\ \A k \in 1 .. Len(s) + Len(u) : g[i][k] = IF k <= Len(s) THEN s[k] ELSE u[k - Len(s)]
    BY <1>2, <2>1, ConcatProperties
  <2>3. \A f \in ToSet(s) : Other(f)
    <3>1. ToSet(s) = PartsUpto(seqs, i - 1)
      BY <1>2, ConcatElements
    <3>2. 1 .. i - 1 \subseteq (1 .. n) \ {i}
      OBVIOUS
    <3> QED BY <3>1, <3>2 DEF PartsUpto
  <2> HIDE DEF s, Other, u
  <2>4. Len(s) \in Nat /\ Len(u) \in Nat
    BY <1>2, <2>1
  <2>5. IsBlock(g[i], u, Len(s))
    <3>1. ASSUME NEW j \in 1 .. Len(u)  PROVE g[i][Len(s) + j] = u[j]
      <4>1. Len(s) + j \in 1 .. Len(s) + Len(u) /\ ~(Len(s) + j <= Len(s)) /\ (Len(s) + j) - Len(s) = j
        BY <2>4
      <4> QED BY <2>2, <4>1
    <3> QED BY <2>2, <2>4, <3>1 DEF IsBlock
  <2>6. ASSUME NEW k \in 1 .. Len(g[i]), k <= Len(s) \/ k > Len(s) + Len(u)
        PROVE  Other(g[i][k])
    <3>1. k <= Len(s) /\ g[i][k] = s[k]
      BY <2>2, <2>4, <2>6
    <3>2. s[k] \in ToSet(s)
      BY <2>1, <2>4, <3>1 DEF ToSet
    <3> QED BY <2>3, <3>1, <3>2
  <2> QED BY <2>5, <2>6 DEF s
<1>4. 0 \in T
  OBVIOUS
<1>5. ASSUME NEW m \in Nat, m \in T  PROVE m + 1 \in T
  <2> HIDE DEF Good
  <2> SUFFICES ASSUME i <= m + 1, m + 1 <= n  PROVE Good(m + 1)
    OBVIOUS
  <2>1. CASE m + 1 = i
    BY <1>3, <2>1
  <2>2. CASE m + 1 # i
    <3> DEFINE s == g[m]
               v == seqs[m + 1]
    <3>1. Good(m)
      BY <1>5, <2>2
    <3> USE DEF Good
    <3>2. m + 1 \in 1 .. n /\ (m + 1) - 1 = m /\ m \in 0 .. n /\ m + 1 \in (1 .. n) \ {i}
      BY <2>2
    <3>3. s \in Seq(X) /\ v \in Seq(X) /\ g[m + 1] = s \o v
      BY <1>1, <3>2 DEF IsConcat
    <3>4. \A f \in ToSet(v) : Other(f)
      BY <3>2
    <3> HIDE DEF s, v, u, Other, o
    <3>5. /\ g[m + 1] \in Seq(X)
          /\ Len(g[m + 1]) = Len(s) + Len(v)
          /\ \A k \in 1 .. Len(s) + Len(v) :
               g[m + 1][k] = IF k <= Len(s) THEN s[k] ELSE v[k - Len(s)]
      BY <3>3, ConcatProperties
    <3>6. Len(s) \in Nat /\ Len(v) \in Nat /\ Len(u) \in Nat
      BY <1>2, <3>3
    <3>7. /\ o \in Nat /\ o + Len(u) <= Len(s)
          /\ \A j \in 1 .. Len(u) : s[o + j] = u[j]
          /\ \A k \in 1 .. Len(s) : k <= o \/ k > o + Len(u) => Other(s[k])
      BY <3>1 DEF s, IsBlock
    <3>8. IsBlock(g[m + 1], u, o)
      <4>1. ASSUME NEW j \in 1 .. Len(u)  PROVE g[m + 1][o + j] = u[j]
        <5>1. o + j \in 1 .. Len(s) + Len(v) /\ o + j <= Len(s)
          BY <3>6, <3>7
        <5> QED BY <3>5, <3>7, <5>1
      <4> QED BY <3>5, <3>6, <3>7, <4>1 DEF IsBlock
    <3>9. ASSUME NEW k \in 1 .. Len(g[m + 1]), k <= o \/ k > o + Len(u)
          PROVE  Other(g[m + 1][k])
      <4>1. CASE k <= Len(s)
        <5>1. k \in 1 .. Len(s) /\ g[m + 1][k] = s[k]
          BY <3>5, <3>6, <4>1
        <5> QED BY <3>7, <3>9, <5>1
      <4>2. CASE k > Len(s)
        <5>1. k - Len(s) \in 1 .. Len(v) /\ g[m + 1][k] = v[k - Len(s)]
          BY <3>5, <3>6, <4>2
        <5>2. v[k - Len(s)] \in ToSet(v)
          BY <3>3, <5>1 DEF ToSet
        <5> QED BY <3>4, <5>1, <5>2
      <4> QED BY <3>6, <4>1, <4>2
    <3> QED BY <3>8, <3>9
  <2> QED BY <2>1, <2>2
<1>6. Nat \subseteq T
  <2> HIDE DEF T
  <2> QED BY <1>4, <1>5, NatSetInduction
<1>7. Good(n)
  BY <1>6
<1>8. g[n] \in Seq(X)
  BY <1>1
<1>9. DOMAIN g[n] = 1 .. Len(g[n])
  BY <1>8
<1> HIDE DEF o
<1> QED BY <1>7, <1>9

\* FlattenSeq concatenates.
LEMMA FlattenConcat ==
  ASSUME NEW X, NEW seqs \in Seq(Seq(X))
  PROVE  \E g \in [0 .. Len(seqs) -> Seq(X)] :
           IsConcat(g, Len(seqs), seqs) /\ g[Len(seqs)] = FlattenSeq(seqs)
<1> DEFINE n == Len(seqs)
           IsFlat(flat) ==
             flat = [i \in 1 .. n |-> IF i = 1 THEN seqs[i] ELSE flat[i - 1] \o seqs[i]]
<1>0. n \in Nat /\ seqs \in [1 .. n -> Seq(X)]
  OBVIOUS
<1>1. PICK h \in [0 .. n -> Seq(X)] : IsConcat(h, n, seqs)
  <2> HIDE DEF n
  <2> QED BY <1>0, ConcatExists
<1>2. CASE n = 0
  <2>1. FlattenSeq(seqs) = <<>>
    BY <1>2 DEF FlattenSeq
  <2> QED BY <1>1, <1>2, <2>1 DEF IsConcat
<1>3. CASE n # 0
  <2> DEFINE flat == CHOOSE f : IsFlat(f)
             g == [m \in 0 .. n |-> IF m = 0 THEN <<>> ELSE flat[m]]
  <2>1. IsFlat([i \in 1 .. n |-> h[i]])
    <3>1. \A i \in 1 .. n : h[i] = IF i = 1 THEN seqs[i] ELSE h[i - 1] \o seqs[i]
      <4> SUFFICES ASSUME NEW i \in 1 .. n
                   PROVE  h[i] = IF i = 1 THEN seqs[i] ELSE h[i - 1] \o seqs[i]
        OBVIOUS
      <4>1. h[i] = h[i - 1] \o seqs[i] /\ h[0] = <<>> /\ seqs[i] \in Seq(X)
        BY <1>0, <1>1 DEF IsConcat
      <4>2. CASE i = 1
        <5>0. i - 1 = 0
          BY <4>2
        <5>1. h[1] = h[0] \o seqs[1]
          BY <4>1, <4>2, <5>0
        <5>2. h[1] = seqs[1]
          BY <4>1, <4>2, <5>1, ConcatEmptySeq
        <5> QED BY <4>2, <5>2
      <4> QED BY <4>1, <4>2
    <3> QED BY <3>1
  <2>2. IsFlat(flat)
    <3> HIDE DEF IsFlat
    <3> QED BY <2>1
  <2>3. \A i \in 1 .. n : flat[i] = IF i = 1 THEN seqs[i] ELSE flat[i - 1] \o seqs[i]
    <3> HIDE DEF flat
    <3> QED BY <2>2
  <2>4. IsConcat(g, n, seqs)
    <3> HIDE DEF flat
    <3>1. ASSUME NEW m \in 1 .. n  PROVE g[m] = g[m - 1] \o seqs[m]
      <4>1. CASE m = 1
        <5>1. g[1] = seqs[1] /\ g[0] = <<>>
          BY <2>3, <4>1
        <5>2. seqs[1] \in Seq(X)
          BY <4>1
        <5>3. g[1] = g[0] \o seqs[1]
          BY <5>1, <5>2, ConcatEmptySeq
        <5>4. m - 1 = 0
          BY <4>1
        <5> HIDE DEF g
        <5> QED BY <4>1, <5>3, <5>4
      <4>2. CASE m # 1
        <5>1. m - 1 \in 1 .. n /\ m - 1 # 0 /\ m # 0
          BY <4>2
        <5>2. g[m] = flat[m] /\ g[m - 1] = flat[m - 1]
          BY <5>1
        <5>3. flat[m] = flat[m - 1] \o seqs[m]
          BY <2>3, <4>2
        <5> QED BY <5>2, <5>3
      <4> QED BY <4>1, <4>2
    <3> QED BY <3>1 DEF IsConcat
  <2>5. g \in [0 .. n -> Seq(X)]
    <3>1. \A m \in 0 .. n : g[m] \in Seq(X)
      <4> HIDE DEF g, n
      <4> QED BY <1>0, <2>4, ConcatTypes
    <3> QED BY <3>1
  <2>6. FlattenSeq(seqs) = flat[n]
    BY <1>3 DEF FlattenSeq
  <2>7. g[n] = flat[n]
    <3> HIDE DEF flat
    <3> QED BY <1>0, <1>3
  <2> HIDE DEF g, flat
  <2> QED BY <2>4, <2>5, <2>6, <2>7
<1> QED BY <1>2, <1>3
=============================================================================
