--------------------------- MODULE Ingestion_proofs ---------------------------
(***************************************************************************)
(* Theorems about the two parts of ingestion that read code.  CallGraph,   *)
(* for any repositories, files, contents and workers: what the graph has   *)
(* of calls is fresh, what it lacks was lost to a later ingest, and a      *)
(* blast radius stays in its file.  ChangedDefinitions, for trees, files   *)
(* and hunks of any size: the parser finds every added line, the search    *)
(* finds only definitions that the hunk touches, and what it misses is     *)
(* hidden by a sibling that shares its first line.                         *)
(***************************************************************************)
EXTENDS CallGraph, ChangedDefinitions, FoldFacts, SequenceTheorems, TLAPS

\* What a file of a repository defines is named by the file's path.
PathsInv == \A d \in definedIn : d[1][2] = d[2][2]

\* Every call is in the contents ingested last for a file whose definition of the
\* caller the graph still has: a cleanup of that file would take the call along.
FreshInv ==
  \A e \in calls : \E r \in Repos, f \in Files :
    e \in Edges(f, last[r][f]) /\ <<e[1], <<r, f>>>> \in definedIn

\* Time passes.
StampInv == \A r \in Repos, f \in Files : stamp[r][f] <= clock

\* That a file of this path was ingested, in some repository, after the job's.
Later(st, f, j) == \E other \in Repos : st[other][f] > j.from

\* What is known of a job before its query, if the graph had the functions of its file
\* before: the calls of them that it has and the file's contents do not, or the other
\* way round, are due to later ingests of the caller's file and of its own.
Own(j) == j.version.defs \X {j.file}
Asked(j, edges, st, now) ==
  /\ j.fn \in Own(j) /\ j.from <= now
  /\ \A e \in Edges(j.file, j.version) : e[1] \in Own(j)
  /\ j.known => \A e : e[2] \in Own(j) =>
       /\ e \in edges => e \in Edges(j.file, j.version) \/ Later(st, e[1][2], j)
       /\ e \in Edges(j.file, j.version) => e \in edges \/ Later(st, j.file, j)

\* A radius holds functions of files.
RadiusInv == \A w \in Workers : job[w].step = "answered" => \A x \in job[w].radius : x[2] \in Files

QueryInv == \A w \in Workers : job[w].step = "query" => Asked(job[w], calls, stamp, clock)

IInv ==
  /\ TypeOK /\ PathsInv /\ FreshInv /\ StampInv /\ QueryInv /\ RadiusInv
  /\ LostOnlyToLaterIngest /\ RadiusIsOwnFile

-----------------------------------------------------------------------------
(* Facts about contents and callers *)

LEMMA VersionFacts ==
  ASSUME NEW f \in Files, NEW v \in Versions[f]
  PROVE  /\ v \in Version /\ v.defs \subseteq Names
         /\ v.calls \subseteq Names \X Functions
         /\ \A e \in v.calls : e[1] \in v.defs /\ e[2] \in Functions
<1>1. v \in Version /\ WellResolved(f, v)
  BY CallGraphAssumption
<1> QED
  BY <1>1 DEF Version, WellResolved

\* Where the edges into a set of functions agree, as far as the callers found in the
\* one are concerned, and come from within it in the other, the callers of its
\* functions agree.
LEMMA CallersAgree ==
  ASSUME NEW A, NEW B, NEW D, NEW fn \in D,
         \A e : e[2] \in D /\ e[1] \in Callers(A, fn) => (e \in A => e \in B),
         \A e : e[2] \in D => (e \in B => e \in A),
         \A e \in B : e[1] \in D
  PROVE  Callers(A, fn) = Callers(B, fn)
<1> DEFINE direct(edges, x) == {e[1] : e \in {e \in edges : e[2] = x}}
<1>1. \A edges : Callers(edges, fn) =
        direct(edges, fn) \cup UNION {direct(edges, x) : x \in direct(edges, fn)}
  BY DEF Callers
<1>2. \A x \in D : direct(B, x) \subseteq direct(A, x) /\ direct(B, x) \subseteq D
  OBVIOUS
<1>3. \A x \in D : direct(A, x) \subseteq Callers(A, fn) => direct(A, x) = direct(B, x)
  OBVIOUS
<1> HIDE DEF direct
<1>4. direct(A, fn) \subseteq Callers(A, fn)
  BY <1>1
<1>5. direct(A, fn) = direct(B, fn) /\ direct(A, fn) \subseteq D
  BY <1>2, <1>3, <1>4
<1>6. \A x \in direct(A, fn) : direct(A, x) \subseteq Callers(A, fn)
  BY <1>1
<1>7. \A x \in direct(A, fn) : direct(A, x) = direct(B, x)
  BY <1>3, <1>5, <1>6
<1>8. {direct(A, x) : x \in direct(A, fn)} = {direct(B, x) : x \in direct(B, fn)}
  BY <1>5, <1>7
<1> QED
  BY <1>1, <1>5, <1>8

\* The calls of a file's contents lead from its definitions to functions.
LEMMA EdgesFacts ==
  ASSUME NEW f \in Files, NEW v \in Versions[f]
  PROVE  \A e \in Edges(f, v) :
            /\ e[1] \in v.defs \X {f} /\ e[1][2] = f
            /\ e[2] \in {c[2] : c \in v.calls} /\ e[2] \in Functions
            /\ e = <<e[1], e[2]>>
BY VersionFacts DEF Edges

\* A caller in the graph is in a file.
LEMMA CallersInFiles ==
  ASSUME FreshInv
  PROVE  \A e \in calls : e[1][2] \in Files
<1> SUFFICES ASSUME NEW e \in calls PROVE e[1][2] \in Files
  OBVIOUS
<1>1. PICK r \in Repos, f \in Files : e \in Edges(f, last[r][f])
  BY DEF FreshInv
<1>2. e[1][2] = f
  BY <1>1 DEF Edges
<1> QED
  BY <1>2

-----------------------------------------------------------------------------
(* Ingesting *)

LEMMA WriteTypes ==
  ASSUME TypeOK, NEW r \in Repos, NEW f \in Files, NEW v \in Versions[f], Write(r, f, v)
  PROVE  /\ functions' \subseteq Functions
         /\ definedIn' \subseteq functions' \X (Repos \X Files)
         /\ calls' \subseteq functions' \X functions'
<1> DEFINE gone == Cleared(r, f)
           new == v.defs \X {f}
           called == {e[2] : e \in v.calls}
<1>1. /\ functions' = (functions \ gone) \cup new \cup called
      /\ definedIn' = {d \in definedIn : d[1] \notin gone} \cup (new \X {<<r, f>>})
      /\ calls' = {e \in calls : e[1] \notin gone /\ e[2] \notin gone} \cup Edges(f, v)
  BY DEF Write
<1>2. new \subseteq Functions /\ called \subseteq Functions
  BY VersionFacts DEF Functions
<1>3. Edges(f, v) \subseteq new \X called
  BY EdgesFacts
<1>4. /\ functions \subseteq Functions
      /\ definedIn \subseteq functions \X (Repos \X Files)
      /\ calls \subseteq functions \X functions
  BY DEF TypeOK
<1> HIDE DEF gone, new, called
<1>5. functions' \subseteq Functions
  BY <1>1, <1>2, <1>4
<1>6. definedIn' \subseteq functions' \X (Repos \X Files)
  <2>1. {d \in definedIn : d[1] \notin gone} \subseteq (functions \ gone) \X (Repos \X Files)
    BY <1>4
  <2>2. new \X {<<r, f>>} \subseteq new \X (Repos \X Files)
    OBVIOUS
  <2> QED
    BY <1>1, <2>1, <2>2
<1>7. calls' \subseteq functions' \X functions'
  <2>1. {e \in calls : e[1] \notin gone /\ e[2] \notin gone} \subseteq (functions \ gone) \X (functions \ gone)
    BY <1>4
  <2> QED
    BY <1>1, <1>3, <2>1
<1> QED
  BY <1>5, <1>6, <1>7

\* A job that is to query for a function of the file it has just ingested.
Started(j, f, v, now) ==
  /\ j.step = "query" /\ j.file = f /\ j.version = v
  /\ j.fn \in v.defs \X {f} /\ j.from = now

\* The two ways in which an ingest goes on.
LEMMA IngestJob ==
  ASSUME TypeOK, NEW w \in Workers, NEW r \in Repos, NEW f \in Files, NEW v \in Versions[f],
         Ingest(w, r, f, v)
  PROVE  /\ clock' = clock + 1 /\ clock' \in 0 .. MaxIngests /\ clock \in 0 .. MaxIngests
         /\ job' \in [Workers -> {Idle} \cup Job]
         /\ \A u \in Workers : u # w => job'[u] = job[u]
         /\ \/ job'[w] = Idle
            \/ Started(job'[w], f, v, clock') /\ (job'[w].known => v.defs \X {f} \subseteq Cleared(r, f))
<1>1. /\ job \in [Workers -> {Idle} \cup Job]
      /\ clock \in 0 .. MaxIngests /\ clock' = clock + 1 /\ clock' \in 0 .. MaxIngests
  BY CallGraphAssumption DEF TypeOK, Ingest
<1>2. CASE job' = [job EXCEPT ![w] = Idle]
  <2>1. job'[w] = Idle /\ \A u \in Workers : u # w => job'[u] = job[u]
    BY <1>1, <1>2
  <2>2. DOMAIN job' = Workers /\ job' = [u \in Workers |-> job'[u]]
    BY <1>1, <1>2
  <2>3. \A u \in Workers : job'[u] \in {Idle} \cup Job
    BY <1>1, <2>1
  <2>4. job' \in [Workers -> {Idle} \cup Job]
    BY <2>2, <2>3
  <2> QED
    BY <1>1, <2>1, <2>4
<1>3. ASSUME NEW n \in v.defs, NEW known \in BOOLEAN,
             known => v.defs \X {f} \subseteq Cleared(r, f),
             job' = [job EXCEPT ![w] =
               [step |-> "query", repo |-> r, file |-> f, version |-> v, fn |-> <<n, f>>,
                known |-> known, from |-> clock', radius |-> {}]]
      PROVE  /\ job' \in [Workers -> {Idle} \cup Job]
             /\ \A u \in Workers : u # w => job'[u] = job[u]
             /\ Started(job'[w], f, v, clock')
             /\ job'[w].known => v.defs \X {f} \subseteq Cleared(r, f)
  <2> DEFINE new == [step |-> "query", repo |-> r, file |-> f, version |-> v, fn |-> <<n, f>>,
                     known |-> known, from |-> clock', radius |-> {}]
  <2>1. v \in Version /\ <<n, f>> \in Functions
    BY VersionFacts DEF Functions
  <2>2. new \in Job
    BY <1>1, <2>1 DEF Job
  <2>3. Started(new, f, v, clock') /\ new.known = known
    BY DEF Started
  <2>4. job' = [job EXCEPT ![w] = new]
    BY <1>3
  <2> HIDE DEF new
  <2>5. job'[w] = new /\ \A u \in Workers : u # w => job'[u] = job[u]
    BY <1>1, <2>4
  <2>6. job' \in [Workers -> {Idle} \cup Job]
    BY <1>1, <2>2, <2>4
  <2> QED
    BY <1>3, <2>3, <2>5, <2>6
<1>4. \/ job' = [job EXCEPT ![w] = Idle]
      \/ \E n \in v.defs :
           job' = [job EXCEPT ![w] =
             [step |-> "query", repo |-> r, file |-> f, version |-> v, fn |-> <<n, f>>,
              known |-> v.defs \X {f} \subseteq Cleared(r, f),
              from |-> clock', radius |-> {}]]
  BY DEF Ingest, Cleared
<1>5. (v.defs \X {f} \subseteq Cleared(r, f)) \in BOOLEAN
  OBVIOUS
<1> QED
  BY <1>1, <1>2, <1>3, <1>4, <1>5

LEMMA IngestTypeOK ==
  ASSUME TypeOK, NEW w \in Workers, NEW r \in Repos, NEW f \in Files, NEW v \in Versions[f],
         Ingest(w, r, f, v)
  PROVE  /\ TypeOK'
         /\ last' = [last EXCEPT ![r][f] = v] /\ stamp' = [stamp EXCEPT ![r][f] = clock + 1]
         /\ \A q \in Repos, g \in Files :
               /\ last'[q][g] = IF q = r /\ g = f THEN v ELSE last[q][g]
               /\ stamp'[q][g] = IF q = r /\ g = f THEN clock + 1 ELSE stamp[q][g]
<1>1. /\ last \in [Repos -> [Files -> Version]]
      /\ stamp \in [Repos -> [Files -> 0 .. MaxIngests]]
      /\ last' = [last EXCEPT ![r][f] = v] /\ stamp' = [stamp EXCEPT ![r][f] = clock + 1]
      /\ Write(r, f, v) /\ v \in Version /\ clock + 1 \in 0 .. MaxIngests
  BY IngestJob, VersionFacts DEF TypeOK, Ingest
<1>2. /\ last' \in [Repos -> [Files -> Version]]
      /\ stamp' \in [Repos -> [Files -> 0 .. MaxIngests]]
  BY <1>1
<1>3. \A q \in Repos, g \in Files :
        /\ last'[q][g] = IF q = r /\ g = f THEN v ELSE last[q][g]
        /\ stamp'[q][g] = IF q = r /\ g = f THEN clock + 1 ELSE stamp[q][g]
  BY <1>1
<1>4. TypeOK'
  BY <1>1, <1>2, WriteTypes, IngestJob DEF TypeOK
<1> QED
  BY <1>1, <1>3, <1>4

\* The names of a file's definitions, and who is left in the graph.
LEMMA IngestFresh ==
  ASSUME IInv, NEW w \in Workers, NEW r \in Repos, NEW f \in Files, NEW v \in Versions[f],
         Ingest(w, r, f, v)
  PROVE  PathsInv' /\ FreshInv' /\ StampInv'
<1> DEFINE gone == Cleared(r, f)
           new == v.defs \X {f}
<1>1. /\ definedIn' = {d \in definedIn : d[1] \notin gone} \cup (new \X {<<r, f>>})
      /\ calls' = {e \in calls : e[1] \notin gone /\ e[2] \notin gone} \cup Edges(f, v)
  BY DEF Ingest, Write
<1>2. TypeOK /\ PathsInv /\ FreshInv /\ StampInv
  BY DEF IInv
<1>3. \A q \in Repos, g \in Files :
        /\ last'[q][g] = IF q = r /\ g = f THEN v ELSE last[q][g]
        /\ stamp'[q][g] = IF q = r /\ g = f THEN clock + 1 ELSE stamp[q][g]
  BY <1>2, IngestTypeOK
<1>4. PathsInv'
  BY <1>1, <1>2 DEF PathsInv
<1>5. FreshInv'
  <2> SUFFICES ASSUME NEW e \in calls'
               PROVE  \E q \in Repos, g \in Files :
                        e \in Edges(g, last'[q][g]) /\ <<e[1], <<q, g>>>> \in definedIn'
    BY DEF FreshInv, Edges
  <2>1. CASE e \in Edges(f, v)
    <3>1. e[1] \in new
      BY <2>1, EdgesFacts
    <3>2. <<e[1], <<r, f>>>> \in definedIn'
      BY <1>1, <3>1
    <3> QED
      BY <1>3, <2>1, <3>2
  <2>2. CASE e \in calls /\ e[1] \notin gone
    <3>1. PICK q \in Repos, g \in Files :
            e \in Edges(g, last[q][g]) /\ <<e[1], <<q, g>>>> \in definedIn
      BY <1>2, <2>2 DEF FreshInv
    <3>2. e[1] \in functions
      BY <1>2, <3>1 DEF TypeOK
    <3>3. ~(q = r /\ g = f)
      BY <2>2, <3>1, <3>2 DEF Cleared
    <3>4. <<e[1], <<q, g>>>> \in definedIn'
      BY <1>1, <2>2, <3>1
    <3> QED
      BY <1>3, <3>1, <3>3, <3>4
  <2> QED
    BY <1>1, <2>1, <2>2
<1>6. StampInv'
  <2>1. /\ clock' = clock + 1 /\ clock \in Nat
        /\ \A q \in Repos, g \in Files : stamp[q][g] \in Nat /\ stamp[q][g] <= clock
    BY <1>2, IngestJob, CallGraphAssumption DEF TypeOK, StampInv
  <2> QED
    BY <1>3, <2>1 DEF StampInv
<1> QED
  BY <1>4, <1>5, <1>6

\* A cleanup takes calls from or to functions of its path only.
LEMMA IngestLost ==
  ASSUME IInv, NEW w \in Workers, NEW r \in Repos, NEW f \in Files, NEW v \in Versions[f],
         Ingest(w, r, f, v)
  PROVE  LostOnlyToLaterIngest'
<1> DEFINE gone == Cleared(r, f)
<1>1. calls' = {e \in calls : e[1] \notin gone /\ e[2] \notin gone} \cup Edges(f, v)
  BY DEF Ingest, Write
<1>2. TypeOK /\ PathsInv /\ StampInv /\ LostOnlyToLaterIngest
  BY DEF IInv
<1>3. \A q \in Repos, g \in Files :
        /\ last'[q][g] = IF q = r /\ g = f THEN v ELSE last[q][g]
        /\ stamp'[q][g] = IF q = r /\ g = f THEN clock + 1 ELSE stamp[q][g]
  BY <1>2, IngestTypeOK
<1>4. clock \in Nat /\ \A q \in Repos, g \in Files : stamp[q][g] \in Nat /\ stamp[q][g] <= clock
  BY <1>2, CallGraphAssumption DEF TypeOK, StampInv
<1>5. \A x \in gone : x[2] = f
  BY <1>2 DEF Cleared, PathsInv
<1> SUFFICES ASSUME NEW q \in Repos, NEW g \in Files, NEW e \in Edges(g, last'[q][g]), e \notin calls'
             PROVE  \E other \in Repos, h \in {e[2][2], g} \cap Files : stamp'[other][h] > stamp'[q][g]
  BY DEF LostOnlyToLaterIngest, Edges
<1>6. ~(q = r /\ g = f)
  BY <1>1, <1>3
<1>7. e \in Edges(g, last[q][g]) /\ stamp'[q][g] = stamp[q][g]
  BY <1>3, <1>6
<1>8. e[1][2] = g
  BY <1>7 DEF Edges
<1>9. CASE e \in calls
  <2>1. e[1] \in gone \/ e[2] \in gone
    BY <1>1, <1>9
  <2>2. f \in {e[2][2], g}
    BY <1>5, <1>8, <2>1
  <2>3. stamp'[r][f] = clock + 1
    BY <1>3
  <2> QED
    BY <1>4, <1>7, <2>2, <2>3
<1>10. CASE e \notin calls
  <2>1. PICK other \in Repos, h \in {e[2][2], g} \cap Files : stamp[other][h] > stamp[q][g]
    BY <1>2, <1>7, <1>10 DEF LostOnlyToLaterIngest
  <2>2. stamp'[other][h] >= stamp[other][h]
    BY <1>3, <1>4
  <2>3. stamp'[other][h] \in Nat
    BY <1>3, <1>4
  <2> QED
    BY <1>4, <1>7, <2>1, <2>2, <2>3
<1> QED
  BY <1>9, <1>10

\* An ingest of one's own file replaces every call of its functions, when the graph had
\* them all; any other is later than the questions that are under way.
LEMMA IngestQueries ==
  ASSUME IInv, NEW w \in Workers, NEW r \in Repos, NEW f \in Files, NEW v \in Versions[f],
         Ingest(w, r, f, v)
  PROVE  QueryInv' /\ RadiusInv' /\ RadiusIsOwnFile'
<1> DEFINE own == v.defs \X {f}
<1>1. calls' = {e \in calls : e[1] \notin Cleared(r, f) /\ e[2] \notin Cleared(r, f)} \cup Edges(f, v)
  BY DEF Ingest, Write
<1>2. /\ TypeOK /\ PathsInv /\ FreshInv /\ StampInv
      /\ QueryInv /\ RadiusInv /\ RadiusIsOwnFile
  BY DEF IInv
<1>3. /\ clock' = clock + 1 /\ clock \in Nat
      /\ \A u \in Workers : u # w => job'[u] = job[u]
      /\ \/ job'[w] = Idle
         \/ Started(job'[w], f, v, clock') /\ (job'[w].known => own \subseteq Cleared(r, f))
  BY <1>2, IngestJob, CallGraphAssumption
<1>4. Idle.step # "query" /\ Idle.step # "answered"
  BY DEF Idle
<1>5. /\ \A q \in Repos, g \in Files : stamp[q][g] \in Nat /\ stamp[q][g] <= clock
      /\ \A q \in Repos, g \in Files : stamp'[q][g] = IF q = r /\ g = f THEN clock + 1 ELSE stamp[q][g]
  BY <1>2, IngestTypeOK, CallGraphAssumption DEF TypeOK, StampInv
<1>6. \A u \in Workers : job[u].step \in {"query", "answered"} =>
        job[u] \in Job /\ job[u].from \in 0 .. MaxIngests /\ job[u].file \in Files
  BY <1>2 DEF TypeOK, Idle, Job
<1>7. \A x \in Cleared(r, f) : x[2] = f
  BY <1>2 DEF Cleared, PathsInv
<1>8. ASSUME NEW u \in Workers, job'[u].step = "query"
      PROVE  Asked(job'[u], calls', stamp', clock')
  <2>1. CASE u = w
    <3>1. /\ job'[w].file = f /\ job'[w].version = v /\ job'[w].fn \in own
          /\ job'[w].from = clock' /\ clock' \in Nat
          /\ job'[w].known => own \subseteq Cleared(r, f)
      BY <1>3, <1>4, <1>8, <2>1 DEF Started
    <3>2. \A e \in Edges(f, v) : e[1] \in own
      BY EdgesFacts
    <3>3. job'[w].known => \A e : e[2] \in own => (e \in calls' <=> e \in Edges(f, v))
      BY <1>1, <3>1
    <3>4. Own(job'[w]) = own /\ job'[w].from <= clock'
      BY <3>1 DEF Own
    <3> QED
      BY <2>1, <3>1, <3>2, <3>3, <3>4 DEF Asked
  <2>2. CASE u # w
    <3> DEFINE j == job[u]
    <3>1. job'[u] = j /\ j.step = "query"
      BY <1>3, <1>8, <2>2
    <3>2. Asked(j, calls, stamp, clock) /\ j.from \in Nat /\ j.file \in Files
      BY <1>2, <1>6, <3>1, CallGraphAssumption DEF QueryInv
    <3> HIDE DEF j
    <3>3. j.from <= clock /\ j.from <= clock' /\ j.from < clock + 1
      BY <1>3, <3>2 DEF Asked
    <3>4. Later(stamp', f, j)
      BY <1>5, <3>3 DEF Later
    <3>5. ASSUME NEW g \in Files, Later(stamp, g, j) PROVE Later(stamp', g, j)
      <4>1. PICK q \in Repos : stamp[q][g] > j.from
        BY <3>5 DEF Later
      <4>2. stamp'[q][g] > j.from
        BY <1>3, <1>5, <3>2, <3>3, <4>1
      <4> QED
        BY <4>2 DEF Later
    <3>6. \A e \in calls : e[1][2] \in Files
      BY <1>2, CallersInFiles
    <3>7. \A e \in Edges(f, v) : e[1][2] = f
      BY EdgesFacts
    <3>8. \A x \in Own(j) : x[2] = j.file
      BY DEF Own
    <3>9. ASSUME j.known, NEW e, e[2] \in Own(j)
          PROVE  /\ e \in calls' => e \in Edges(j.file, j.version) \/ Later(stamp', e[1][2], j)
                 /\ e \in Edges(j.file, j.version) => e \in calls' \/ Later(stamp', j.file, j)
      <4>1. /\ e \in calls => e \in Edges(j.file, j.version) \/ Later(stamp, e[1][2], j)
            /\ e \in Edges(j.file, j.version) => e \in calls \/ Later(stamp, j.file, j)
        BY <3>2, <3>9 DEF Asked
      <4>2. e \in Edges(j.file, j.version) => e[1][2] = j.file
        BY DEF Edges
      <4>3. e \in calls' => e \in calls \/ e \in Edges(f, v)
        BY <1>1
      <4>4. e \in calls /\ e \notin calls' => e[1][2] = f \/ e[2][2] = f
        BY <1>1, <1>7
      <4> QED
        BY <3>2, <3>4, <3>5, <3>6, <3>7, <3>8, <3>9, <4>1, <4>2, <4>3, <4>4
    <3> QED
      BY <3>1, <3>2, <3>3, <3>9 DEF Asked
  <2> QED
    BY <2>1, <2>2
<1>9. QueryInv'
  BY <1>8 DEF QueryInv
<1>10. RadiusIsOwnFile'
  <2> SUFFICES ASSUME NEW u \in Workers, job'[u].step = "answered", job'[u].known
               PROVE  \/ job'[u].radius = Callers(Edges(job'[u].file, job'[u].version), job'[u].fn)
                      \/ \E other \in Repos, g \in {job'[u].file} \cup {x[2] : x \in job'[u].radius} :
                           stamp'[other][g] > job'[u].from
    BY DEF RadiusIsOwnFile, Callers, Edges
  <2> DEFINE paths == {job[u].file} \cup {x[2] : x \in job[u].radius}
  <2>1. u # w
    BY <1>3, <1>4 DEF Started
  <2>2. job'[u] = job[u] /\ job[u].from \in Nat
    BY <1>3, <1>6, <2>1, CallGraphAssumption
  <2>3. \/ job[u].radius = Callers(Edges(job[u].file, job[u].version), job[u].fn)
        \/ \E other \in Repos, g \in paths : stamp[other][g] > job[u].from
    BY <1>2, <2>2 DEF RadiusIsOwnFile
  <2>4. paths \subseteq Files
    BY <1>2, <1>6, <2>2 DEF RadiusInv
  <2> HIDE DEF paths
  <2>5. \A other \in Repos, g \in paths : stamp[other][g] <= stamp'[other][g]
    BY <1>3, <1>5, <2>4
  <2>6. \A other \in Repos, g \in paths : stamp[other][g] > job[u].from => stamp'[other][g] > job[u].from
    BY <1>3, <1>5, <2>2, <2>4, <2>5
  <2> QED
    BY <2>2, <2>3, <2>6 DEF paths
<1>11. RadiusInv'
  <2> SUFFICES ASSUME NEW u \in Workers, job'[u].step = "answered"
               PROVE  \A x \in job'[u].radius : x[2] \in Files
    BY DEF RadiusInv
  <2>1. u # w
    BY <1>3, <1>4 DEF Started
  <2> QED
    BY <1>2, <1>3, <2>1 DEF RadiusInv
<1> QED
  BY <1>9, <1>10, <1>11

LEMMA IngestStep ==
  ASSUME IInv, NEW w \in Workers, NEW r \in Repos, NEW f \in Files, NEW v \in Versions[f],
         Ingest(w, r, f, v)
  PROVE  IInv'
BY IngestTypeOK, IngestFresh, IngestLost, IngestQueries DEF IInv

-----------------------------------------------------------------------------
(* Querying *)

LEMMA CallersType ==
  ASSUME TypeOK, NEW fn
  PROVE  Callers(calls, fn) \subseteq Functions
<1>1. \A e \in calls : e[1] \in Functions
  BY DEF TypeOK
<1> QED
  BY <1>1 DEF Callers

LEMMA QueryStep ==
  ASSUME IInv, NEW w \in Workers, Query(w)
  PROVE  IInv'
<1> DEFINE callers == Callers(calls, job[w].fn)
           answered == [job[w] EXCEPT !.step = "answered", !.radius = callers]
           failed == [job[w] EXCEPT !.step = "failed"]
<1>1. /\ TypeOK /\ FreshInv /\ QueryInv /\ RadiusInv /\ RadiusIsOwnFile
      /\ job \in [Workers -> {Idle} \cup Job]
  BY DEF IInv, TypeOK
<1>2. /\ job[w].step = "query" /\ job[w] \in Job /\ callers \in SUBSET Functions
      /\ UNCHANGED <<functions, definedIn, calls, last, stamp, clock>>
  BY <1>1, CallersType DEF Query, graph, Idle
<1>3. PICK n \in {answered, failed} : job' = [job EXCEPT ![w] = n]
  BY <1>1 DEF Query
<1>4. /\ n \in Job /\ n.step \in {"answered", "failed"} /\ (n.step = "answered" => n.radius = callers)
      /\ n.known = job[w].known /\ n.from = job[w].from /\ n.fn = job[w].fn
      /\ n.file = job[w].file /\ n.version = job[w].version
  <2>1. CASE n = answered
    BY <1>2, <2>1 DEF Job
  <2>2. CASE n = failed
    BY <1>2, <2>2 DEF Job
  <2> QED
    BY <1>3, <2>1, <2>2
<1> HIDE DEF answered, failed
<1>6. /\ job' \in [Workers -> {Idle} \cup Job] /\ job'[w] = n
      /\ \A u \in Workers : u # w => job'[u] = job[u]
  BY <1>1, <1>3, <1>4
<1>7. TypeOK'
  BY <1>1, <1>2, <1>6 DEF TypeOK
<1>8. PathsInv' /\ FreshInv' /\ StampInv' /\ LostOnlyToLaterIngest'
  BY <1>2 DEF IInv, PathsInv, FreshInv, StampInv, LostOnlyToLaterIngest, Edges
<1>9. QueryInv'
  <2> SUFFICES ASSUME NEW u \in Workers, job'[u].step = "query"
               PROVE  Asked(job'[u], calls', stamp', clock')
    BY DEF QueryInv
  <2>1. u # w
    BY <1>3, <1>4, <1>6
  <2> QED
    BY <1>1, <1>2, <1>6, <2>1 DEF QueryInv
<1>10. RadiusInv'
  <2>1. \A e \in calls : e[1][2] \in Files
    BY <1>1, CallersInFiles
  <2>2. \A x \in callers : x[2] \in Files
    BY <2>1 DEF Callers
  <2> HIDE DEF callers
  <2> QED
    BY <1>1, <1>4, <1>6, <2>2 DEF RadiusInv
<1>11. RadiusIsOwnFile'
  <2> DEFINE Explained(j, st) ==
        \/ j.radius = Callers(Edges(j.file, j.version), j.fn)
        \/ \E other \in Repos, g \in {j.file} \cup {x[2] : x \in j.radius} : st[other][g] > j.from
  <2>1. ASSUME n.step = "answered", n.known PROVE Explained(n, stamp)
    <3> SUFFICES ASSUME \A other \in Repos, g \in {job[w].file} \cup {x[2] : x \in callers} :
                          ~(stamp[other][g] > job[w].from)
                 PROVE  callers = Callers(Edges(job[w].file, job[w].version), job[w].fn)
      BY <1>4, <2>1
    <3>1. Asked(job[w], calls, stamp, clock) /\ job[w].known
      BY <1>1, <1>2, <1>4, <2>1 DEF QueryInv
    <3>2. ~Later(stamp, job[w].file, job[w])
      BY DEF Later
    <3>3. \A x \in callers : ~Later(stamp, x[2], job[w])
      BY DEF Later
    <3> HIDE DEF callers
    <3>4. \A e : e[2] \in Own(job[w]) /\ e[1] \in callers =>
            (e \in calls => e \in Edges(job[w].file, job[w].version))
      BY <3>1, <3>3 DEF Asked
    <3>5. \A e : e[2] \in Own(job[w]) =>
            (e \in Edges(job[w].file, job[w].version) => e \in calls)
      BY <3>1, <3>2 DEF Asked
    <3>6. job[w].fn \in Own(job[w]) /\ \A e \in Edges(job[w].file, job[w].version) : e[1] \in Own(job[w])
      BY <3>1 DEF Asked
    <3> QED
      BY <3>4, <3>5, <3>6, CallersAgree DEF callers
  <2>2. ASSUME NEW u \in Workers, job'[u].step = "answered", job'[u].known
        PROVE  Explained(job'[u], stamp)
    <3>1. CASE u # w
      BY <1>1, <1>6, <2>2, <3>1 DEF RadiusIsOwnFile
    <3>2. CASE u = w
      BY <1>4, <1>6, <2>1, <2>2, <3>2
    <3> QED
      BY <3>1, <3>2
  <2> QED
    BY <1>2, <2>2 DEF RadiusIsOwnFile, Callers, Edges
<1> QED
  BY <1>7, <1>8, <1>9, <1>10, <1>11 DEF IInv

-----------------------------------------------------------------------------
(* Theorems *)

LEMMA InitIInv == Init => IInv
<1> SUFFICES ASSUME Init PROVE IInv
  OBVIOUS
<1>1. None \in Version /\ None.calls = {}
  BY DEF None, Version
<1>2. MaxIngests \in Nat
  BY CallGraphAssumption
<1>3. Idle.step = "idle"
  BY DEF Idle
<1>4. TypeOK
  BY <1>1, <1>2 DEF Init, TypeOK
<1>5. PathsInv /\ FreshInv /\ StampInv
  BY <1>2 DEF Init, PathsInv, FreshInv, StampInv
<1>6. \A r \in Repos, f \in Files : Edges(f, last[r][f]) = {}
  BY <1>1 DEF Init, Edges
<1>7. LostOnlyToLaterIngest
  BY <1>6 DEF LostOnlyToLaterIngest
<1>8. QueryInv /\ RadiusInv /\ RadiusIsOwnFile
  BY <1>3 DEF Init, QueryInv, RadiusInv, RadiusIsOwnFile
<1> QED
  BY <1>4, <1>5, <1>7, <1>8 DEF IInv

LEMMA NextIInv == IInv /\ [Next]_vars => IInv'
<1> SUFFICES ASSUME IInv, [Next]_vars PROVE IInv'
  OBVIOUS
<1>1. ASSUME NEW w \in Workers, Query(w) PROVE IInv'
  BY <1>1, QueryStep
<1>2. ASSUME NEW w \in Workers, NEW r \in Repos, NEW f \in Files, NEW v \in Versions[f],
             Ingest(w, r, f, v)
      PROVE  IInv'
  BY <1>2, IngestStep
<1>3. CASE UNCHANGED vars
  <2>1. UNCHANGED <<functions, definedIn, calls, job, last, stamp, clock>>
    BY <1>3 DEF vars, graph
  <2>2. TypeOK' /\ PathsInv' /\ FreshInv' /\ StampInv' /\ LostOnlyToLaterIngest'
    BY <2>1 DEF IInv, TypeOK, PathsInv, FreshInv, StampInv, LostOnlyToLaterIngest, Edges
  <2>3. QueryInv' /\ RadiusInv'
    BY <2>1 DEF IInv, QueryInv, RadiusInv, Asked, Own, Edges, Later
  <2>4. RadiusIsOwnFile'
    BY <2>1, Zenon DEF IInv, RadiusIsOwnFile
  <2> QED
    BY <2>2, <2>3, <2>4 DEF IInv
<1> QED
  BY <1>1, <1>2, <1>3 DEF Next

\* The calls in the graph belong to definitions that a cleanup of their file would
\* find, and a question that is under way is about them.
THEOREM CallGraphInvariance == Spec => []IInv
BY InitIInv, NextIInv, PTL DEF Spec

\* The graph has no DEFINED_IN and no CALLS of a node that it does not have, whatever
\* the transactions delete.
THEOREM CallGraphTypeCorrect == Spec => []TypeOK
<1>1. IInv => TypeOK
  BY DEF IInv
<1> QED
  BY <1>1, CallGraphInvariance, PTL

\* A re-run of _ingest_tx leaves no call of the old contents behind, although another
\* repository may have deleted and created the same nodes in between.
THEOREM CallsFresh == Spec => []CallsAreFresh
<1>1. IInv => CallsAreFresh
  BY DEF IInv, FreshInv, CallsAreFresh
<1> QED
  BY <1>1, CallGraphInvariance, PTL

\* A call of the contents ingested last is lost only to a later cleanup of the caller's
\* or the called path, in this repository or another.
THEOREM CallsLostToIngest == Spec => []LostOnlyToLaterIngest
<1>1. IInv => LostOnlyToLaterIngest
  BY DEF IInv
<1> QED
  BY <1>1, CallGraphInvariance, PTL

\* What get_blast_radius answers for a file whose functions were all in the graph before
\* its ingest is the callers within the file, unless another worker ingested that file
\* or one of the callers' between the ingest and the query.
THEOREM RadiusWithinFile == Spec => []RadiusIsOwnFile
<1>1. IInv => RadiusIsOwnFile
  BY DEF IInv
<1> QED
  BY <1>1, CallGraphInvariance, PTL

-----------------------------------------------------------------------------
(* The inputs of ChangedDefinitions                                        *)

\* The tree and the hunk stay as they are.
InputInv == tree \in Tree /\ IsTree(tree) /\ hunk \in Hunks

LEMMA HunkFacts ==
  ASSUME hunk \in Hunks
  PROVE  /\ hunk.isHeader \in BOOLEAN /\ hunk.start \in Nat
         /\ hunk.body \in Seq(Marks) /\ Len(hunk.body) \in Nat
         /\ DOMAIN hunk.body = 1..Len(hunk.body)
         /\ IsHunk(hunk.body, hunk.rests)
<1>1. CASE /\ hunk \in [isHeader : {TRUE}, start : Lines, rests : SUBSET (1..MaxBody),
                        body : UNION {[1..n -> Marks] : n \in 0..MaxBody}]
           /\ IsHunk(hunk.body, hunk.rests)
  <2>1. hunk.isHeader = TRUE /\ hunk.start \in Lines
    BY <1>1
  <2>2. PICK n \in 0..MaxBody : hunk.body \in [1..n -> Marks]
    BY <1>1
  <2>3. n \in Nat
    BY SizeAssumption
  <2>4. hunk.body \in Seq(Marks)
    BY <2>2, <2>3, SeqDef
  <2>5. Len(hunk.body) \in Nat /\ DOMAIN hunk.body = 1..Len(hunk.body)
    BY <2>4, LenProperties
  <2>6. hunk.start \in Nat
    BY <2>1, SizeAssumption DEF Lines
  <2> QED
    BY <1>1, <2>1, <2>4, <2>5, <2>6
<1>2. CASE hunk \in [isHeader : {FALSE}, start : {1}, rests : {{}}, body : {<<>>}]
  <2>1. hunk.isHeader = FALSE /\ hunk.start = 1 /\ hunk.body = <<>> /\ hunk.rests = {}
    BY <1>2
  <2>2. <<>> \in Seq(Marks)
    BY EmptySeq
  <2>3. Len(<<>>) = 0 /\ DOMAIN <<>> = 1..0
    BY <2>2, EmptySeq, LenProperties
  <2>4. IsHunk(hunk.body, hunk.rests)
    BY <2>1, <2>3 DEF IsHunk
  <2>5. Len(hunk.body) = 0 /\ DOMAIN hunk.body = 1..Len(hunk.body) /\ hunk.body \in Seq(Marks)
    BY <2>1, <2>2, <2>3
  <2>6. hunk.isHeader \in BOOLEAN
    BY <2>1, Zenon
  <2>7. hunk.start \in Nat /\ Len(hunk.body) \in Nat
    BY <2>1, <2>5
  <2> QED
    BY <2>4, <2>5, <2>6, <2>7
<1> QED
  BY <1>1, <1>2 DEF Hunks

\* Of several children one is the first.
LEMMA FirstExists ==
  ASSUME NEW S \in SUBSET Nodes, S # {}
  PROVE  First(S) \in S /\ \A m \in S : First(S) <= m
<1>1. S \in SUBSET Nat
  BY SizeAssumption DEF Nodes
<1>2. \E n \in S : \A m \in S : n <= m
  BY <1>1, LeastNat
<1> QED
  BY <1>2 DEF First

-----------------------------------------------------------------------------
(* Line numbers *)

\* Counting the members of a set below a number.
LEMMA CountBelow ==
  ASSUME NEW S, NEW j \in Nat \ {0}
  PROVE  /\ Cardinality(S \cap (1..(j - 1))) \in Nat
         /\ j = 1 => Cardinality(S \cap (1..(j - 1))) = 0
         /\ Cardinality(S \cap (1..((j + 1) - 1))) =
              IF j \in S THEN Cardinality(S \cap (1..(j - 1))) + 1
                         ELSE Cardinality(S \cap (1..(j - 1)))
<1> DEFINE T == S \cap (1..(j - 1))
<1>1. IsFiniteSet(T) /\ Cardinality(T) \in Nat
  <2>1. IsFiniteSet(1..(j - 1))
    BY FS_Interval
  <2>2. T \in SUBSET (1..(j - 1))
    OBVIOUS
  <2> HIDE DEF T
  <2> QED
    BY <2>1, <2>2, FS_Subset, FS_CardinalityType
<1>2. j = 1 => T = {}
  OBVIOUS
<1>3. j \notin T
  OBVIOUS
<1>4. S \cap (1..((j + 1) - 1)) = IF j \in S THEN T \cup {j} ELSE T
  <2>1. 1..((j + 1) - 1) = (1..(j - 1)) \cup {j}
    OBVIOUS
  <2> QED
    BY <2>1
<1> HIDE DEF T
<1>5. Cardinality(T \cup {j}) = Cardinality(T) + 1
  BY <1>1, <1>3, FS_AddElement
<1>6. j = 1 => Cardinality(T) = 0
  BY <1>2, FS_EmptySet
<1> QED
  BY <1>1, <1>4, <1>5, <1>6 DEF T

LEMMA NewLineFacts ==
  ASSUME hunk \in Hunks, NEW j \in Nat \ {0}
  PROVE  /\ j = 1 => NewLine(hunk, j) = hunk.start /\ Cuts(hunk, j) = 0
         /\ NewLine(hunk, j) \in Nat /\ Cuts(hunk, j) \in Nat
         /\ j \in hunk.rests => /\ NewLine(hunk, j + 1) = NewLine(hunk, j)
                                /\ Cuts(hunk, j + 1) = Cuts(hunk, j) + 1
         /\ j \notin hunk.rests =>
              /\ Cuts(hunk, j + 1) = Cuts(hunk, j)
              /\ hunk.body[j] \in {"+", "context"} => NewLine(hunk, j + 1) = NewLine(hunk, j) + 1
              /\ hunk.body[j] \notin {"+", "context"} => NewLine(hunk, j + 1) = NewLine(hunk, j)
<1> DEFINE IsNew(i) == hunk.body[i] \in {"+", "context"}
           New == {i \in Nat \ hunk.rests : IsNew(i)}
<1>1. hunk.start \in Nat
  BY HunkFacts
<1>2. ASSUME NEW k \in Nat \ {0}
      PROVE  NewLine(hunk, k) = hunk.start + Cardinality(New \cap (1..(k - 1)))
  <2> DEFINE T == {i \in (1..(k - 1)) \ hunk.rests : IsNew(i)}
  <2>1. NewLine(hunk, k) = hunk.start + Cardinality(T)
    BY DEF NewLine
  <2> HIDE DEF IsNew
  <2>2. \A i : i \in 1..(k - 1) => i \in Nat
    OBVIOUS
  <2>3. T = New \cap (1..(k - 1))
    BY <2>2, Zenon
  <2> QED
    BY <2>1, <2>3
<1>3. \A k : Cuts(hunk, k) = Cardinality(hunk.rests \cap (1..(k - 1)))
  BY DEF Cuts
<1> HIDE DEF IsNew
<1>4. j \in New <=> j \notin hunk.rests /\ IsNew(j)
  OBVIOUS
<1>5. j + 1 \in Nat \ {0}
  OBVIOUS
<1> HIDE DEF New
<1> DEFINE before == Cardinality(New \cap (1..(j - 1)))
           after == Cardinality(New \cap (1..((j + 1) - 1)))
<1>6. /\ before \in Nat /\ (j = 1 => before = 0)
      /\ after = IF j \in New THEN before + 1 ELSE before
  BY CountBelow
<1>7. NewLine(hunk, j) = hunk.start + before /\ NewLine(hunk, j + 1) = hunk.start + after
  BY <1>2, <1>5
<1> DEFINE cuts == Cardinality(hunk.rests \cap (1..(j - 1)))
           more == Cardinality(hunk.rests \cap (1..((j + 1) - 1)))
<1>8. /\ cuts \in Nat /\ (j = 1 => cuts = 0)
      /\ more = IF j \in hunk.rests THEN cuts + 1 ELSE cuts
  BY CountBelow
<1>9. Cuts(hunk, j) = cuts /\ Cuts(hunk, j + 1) = more
  BY <1>3
<1> HIDE DEF before, after, cuts, more
<1>10. /\ j = 1 => NewLine(hunk, j) = hunk.start
       /\ NewLine(hunk, j) \in Nat
       /\ NewLine(hunk, j + 1) = IF j \in New THEN NewLine(hunk, j) + 1 ELSE NewLine(hunk, j)
  BY <1>1, <1>6, <1>7
<1> QED
  BY <1>4, <1>8, <1>9, <1>10 DEF IsNew

-----------------------------------------------------------------------------
(* The inductive invariant *)

Values == {changed[k] : k \in DOMAIN changed}

\* The lines that may stand for the j-th piece when as many are cut before it.
Near(j) == NewLine(hunk, j)..(NewLine(hunk, j) + Cuts(hunk, j))

\* A marker was read before the next piece.
PastMarker == \E i \in 1..(pos - 1) : hunk.body[i] = "\\"

\* The last line before the next piece, cut or not, is removed.
PastRemoved ==
  \E p \in (1..(pos - 1)) \ hunk.rests : hunk.body[p] = "-" /\ (p + 1)..(pos - 1) \subseteq hunk.rests

\* What may follow a marker.
OnlyAdded ==
  \A j \in (pos..Len(hunk.body)) \ hunk.rests :
    hunk.body[j] = "+" \/ (hunk.body[j] = "\\" /\ j = Len(hunk.body))

\* The parser is right about its line, but for the lines cut before, up to a marker, and
\* one too far after it; the line that it leaves out was changed by the removed line
\* before the marker.
ParseInv ==
  hunk.isHeader =>
    /\ ~PastMarker => current \in Near(pos)
    /\ ~PastMarker /\ PastRemoved => \E l \in Values : l \in Near(pos)
    /\ PastMarker /\ ~Parsed =>
         /\ current - 1 \in Near(pos)
         /\ \E l \in Values : l \in Near(pos)
         /\ OnlyAdded
    /\ \A j \in (1..(pos - 1)) \ hunk.rests :
         hunk.body[j] = "+" => \E l \in Values : l \in Near(j)

\* A line at which the hunk adds or removes, or ahead of it as far as the parser may be.
Touched(l) ==
  \E j \in DOMAIN hunk.body :
    hunk.body[j] \in {"+", "-"} /\ l \in NewLine(hunk, j)..(NewLine(hunk, j) + Ahead(j))

\* Lines thought to be changed are touched.
ValuesInv == \A l \in Values : Touched(l)

\* The search is at a node that covers its line; it has not begun before all
\* lines are known.
SearchInv ==
  /\ ~Parsed => next = 1 /\ node = NoNode /\ ~climbing /\ found = {}
  /\ node # NoNode \/ climbing => next \in DOMAIN changed
  /\ node # NoNode => Covers(node, changed[next])

LookupInv == LookupTypeOK /\ InputInv /\ ParseInv /\ ValuesInv /\ SearchInv /\ FoundIsTouched

-----------------------------------------------------------------------------
(* Parsing *)

\* The values after a line.
LEMMA ParseLineValues ==
  ASSUME LookupInv, ParseLine
  PROVE  /\ Values' = IF hunk.body[pos] \in {"+", "-"} THEN Values \cup {current} ELSE Values
         /\ changed' \in Seq(Nat)
<1>1. changed \in Seq(Nat) /\ current \in Nat
  BY DEF LookupInv, LookupTypeOK
<1>2. CASE hunk.body[pos] \in {"+", "-"}
  <2> DEFINE longer == Append(changed, current)
  <2>1. longer \in Seq(Nat) /\ Len(longer) = Len(changed) + 1
    BY <1>1, AppendProperties
  <2>2. /\ DOMAIN changed = 1..Len(changed) /\ Len(changed) \in Nat
        /\ DOMAIN longer = 1..(Len(changed) + 1)
    BY <1>1, <2>1, LenProperties
  <2>3. \A k \in 1..Len(changed) : longer[k] = changed[k]
    BY <1>1, AppendProperties
  <2>4. longer[Len(changed) + 1] = current
    BY <1>1, AppendProperties
  <2>5. changed' = longer
    BY <1>2 DEF ParseLine
  <2> HIDE DEF longer
  <2>6. {longer[k] : k \in 1..(Len(changed) + 1)} = {changed[k] : k \in 1..Len(changed)} \cup {current}
    <3>1. \A k \in 1..(Len(changed) + 1) : k \in 1..Len(changed) \/ k = Len(changed) + 1
      BY <2>2
    <3>2. 1..Len(changed) \subseteq 1..(Len(changed) + 1) /\ Len(changed) + 1 \in 1..(Len(changed) + 1)
      BY <2>2
    <3> QED
      BY <2>3, <2>4, <3>1, <3>2
  <2> QED
    BY <1>2, <2>1, <2>2, <2>5, <2>6 DEF Values
<1>3. CASE hunk.body[pos] \notin {"+", "-"}
  BY <1>1, <1>3 DEF ParseLine, Values
<1> QED
  BY <1>2, <1>3

LEMMA ParseLineParseInv ==
  ASSUME LookupInv, ParseLine
  PROVE  ParseInv'
<1> DEFINE b == hunk.body
           n == Len(b)
           mark == b[pos]
<1>1. /\ hunk.isHeader /\ hunk' = hunk /\ pos' = pos + 1 /\ ~Parsed
      /\ pos \in 1..n /\ n \in Nat /\ mark \in Marks \ {"@@"} /\ current \in Nat
      /\ b \in Seq(Marks) /\ DOMAIN b = 1..n /\ IsHunk(b, hunk.rests)
  <2>1. pos \in 1..(n + 1) /\ hunk \in Hunks /\ current \in Nat /\ ~Parsed
    BY DEF LookupInv, LookupTypeOK, ParseLine
  <2>2. pos <= n /\ mark # "@@" /\ hunk.isHeader
    BY <2>1 DEF Parsed
  <2> QED
    BY <2>1, <2>2, HunkFacts DEF ParseLine
<1>2. current' = IF mark = "-" THEN current ELSE current + 1
  BY DEF ParseLine
<1>3. Values' = IF mark \in {"+", "-"} THEN Values \cup {current} ELSE Values
  BY ParseLineValues
<1>4. /\ NewLine(hunk, pos) \in Nat /\ Cuts(hunk, pos) \in Nat
      /\ pos \in hunk.rests => /\ NewLine(hunk, pos + 1) = NewLine(hunk, pos)
                               /\ Cuts(hunk, pos + 1) = Cuts(hunk, pos) + 1
      /\ pos \notin hunk.rests =>
           /\ Cuts(hunk, pos + 1) = Cuts(hunk, pos)
           /\ mark \in {"+", "context"} => NewLine(hunk, pos + 1) = NewLine(hunk, pos) + 1
           /\ mark \notin {"+", "context"} => NewLine(hunk, pos + 1) = NewLine(hunk, pos)
  <2>1. hunk \in Hunks /\ pos \in Nat \ {0}
    BY <1>1 DEF LookupInv, InputInv
  <2> QED
    BY <2>1, NewLineFacts
<1>5. PastMarker' <=> (PastMarker \/ mark = "\\")
  BY <1>1 DEF PastMarker
<1>6. /\ ~PastMarker => current \in Near(pos)
      /\ ~PastMarker /\ PastRemoved => \E l \in Values : l \in Near(pos)
      /\ PastMarker => /\ current - 1 \in Near(pos)
                       /\ \E l \in Values : l \in Near(pos)
                       /\ OnlyAdded
      /\ \A j \in (1..(pos - 1)) \ hunk.rests : b[j] = "+" => \E l \in Values : l \in Near(j)
  BY <1>1 DEF LookupInv, ParseInv
<1>7. pos \in hunk.rests => mark # "\\"
  BY <1>1 DEF IsHunk
<1>8. pos \in hunk.rests \/ mark \in {"-", "\\"} => \A l \in Nat : l \in Near(pos) => l \in Near(pos + 1)
  <2>1. pos \in hunk.rests \/ mark \in {"-", "\\"} => NewLine(hunk, pos + 1) = NewLine(hunk, pos)
    BY <1>4
  <2>2. Cuts(hunk, pos + 1) \in Nat /\ Cuts(hunk, pos + 1) >= Cuts(hunk, pos)
    BY <1>4
  <2> QED
    BY <1>4, <2>1, <2>2 DEF Near
<1>9. \A l \in Values' : l \in Nat
  <2>1. changed \in Seq(Nat)
    BY DEF LookupInv, LookupTypeOK
  <2>2. \A l \in Values : l \in Nat
    BY <2>1, LenProperties, ElementOfSeq DEF Values
  <2> QED
    BY <1>1, <1>3, <2>2
<1>10. Values \subseteq Values'
  BY <1>3
<1>11. ~PastMarker' => current' \in Near(pos + 1)
  <2> SUFFICES ASSUME ~PastMarker' PROVE current' \in Near(pos + 1)
    OBVIOUS
  <2>1. ~PastMarker /\ mark \in {"+", "-", "context"}
    BY <1>1, <1>5 DEF Marks
  <2>2. current \in Near(pos) /\ current \in Nat
    BY <1>1, <1>6, <2>1
  <2>3. \/ NewLine(hunk, pos + 1) = NewLine(hunk, pos) /\ current' = current
           /\ Cuts(hunk, pos + 1) >= Cuts(hunk, pos)
        \/ NewLine(hunk, pos + 1) = NewLine(hunk, pos) + 1 /\ current' = current + 1
           /\ Cuts(hunk, pos + 1) = Cuts(hunk, pos)
        \/ NewLine(hunk, pos + 1) = NewLine(hunk, pos) /\ current' = current + 1
           /\ Cuts(hunk, pos + 1) = Cuts(hunk, pos) + 1
    BY <1>2, <1>4, <2>1
  <2>4. NewLine(hunk, pos + 1) \in Nat /\ Cuts(hunk, pos + 1) \in Nat
    BY <1>4
  <2> QED
    BY <1>4, <2>2, <2>3, <2>4 DEF Near
<1>12. PastRemoved' => \/ mark = "-" /\ pos \notin hunk.rests
                       \/ pos \in hunk.rests /\ PastRemoved
  <2> SUFFICES ASSUME PastRemoved'
               PROVE  (mark = "-" /\ pos \notin hunk.rests) \/ (pos \in hunk.rests /\ PastRemoved)
    OBVIOUS
  <2>0. pos' - 1 = pos /\ hunk' = hunk
    BY <1>1
  <2>1. PICK p \in (1..pos) \ hunk.rests : b[p] = "-" /\ (p + 1)..pos \subseteq hunk.rests
    <3>1. \E p \in (1..(pos' - 1)) \ hunk'.rests :
            hunk'.body[p] = "-" /\ (p + 1)..(pos' - 1) \subseteq hunk'.rests
      BY Zenon DEF PastRemoved
    <3> QED
      BY <2>0, <3>1
  <2>2. CASE p = pos
    BY <2>1, <2>2
  <2>3. CASE p # pos
    <3>1. p \in (1..(pos - 1)) \ hunk.rests /\ pos \in (p + 1)..pos
      BY <1>1, <2>1, <2>3
    <3>2. (p + 1)..(pos - 1) \subseteq (p + 1)..pos
      BY <1>1, <2>1
    <3> QED
      BY <2>1, <3>1, <3>2 DEF PastRemoved
  <2> QED
    BY <2>2, <2>3
<1>13. ~PastMarker' /\ PastRemoved' => \E l \in Values' : l \in Near(pos + 1)
  <2> SUFFICES ASSUME ~PastMarker', PastRemoved'
               PROVE  \E l \in Values' : l \in Near(pos + 1)
    OBVIOUS
  <2>1. CASE mark = "-" /\ pos \notin hunk.rests
    <3>1. current \in Values' /\ current \in Near(pos)
      BY <1>3, <1>5, <1>6, <2>1
    <3> QED
      BY <1>1, <1>8, <2>1, <3>1
  <2>2. CASE pos \in hunk.rests /\ PastRemoved
    <3>1. PICK l \in Values : l \in Near(pos)
      BY <1>5, <1>6, <2>2
    <3> QED
      BY <1>8, <1>9, <1>10, <2>2, <3>1
  <2> QED
    BY <1>12, <2>1, <2>2
<1>14. mark = "\\" => /\ PastRemoved \/ pos = n
                      /\ PastRemoved => \A j \in ((pos + 1)..n) \ hunk.rests :
                                          b[j] = "+" \/ (b[j] = "\\" /\ j = n)
  <2> SUFFICES ASSUME mark = "\\"
               PROVE  \/ pos = n
                      \/ /\ PastRemoved
                         /\ \A j \in ((pos + 1)..n) \ hunk.rests : b[j] = "+" \/ (b[j] = "\\" /\ j = n)
    BY <1>1
  <2>1. PICK p \in (1..(pos - 1)) \ hunk.rests :
          /\ (p + 1)..(pos - 1) \subseteq hunk.rests
          /\ b[p] = "-" => \A j \in ((pos + 1)..n) \ hunk.rests : b[j] = "+" \/ (b[j] = "\\" /\ j = n)
          /\ b[p] # "-" => pos = n
    BY <1>1 DEF IsHunk
  <2> QED
    BY <2>1 DEF PastRemoved
<1>15. PastMarker' /\ ~Parsed' =>
         /\ current' - 1 \in Near(pos + 1)
         /\ \E l \in Values' : l \in Near(pos + 1)
         /\ OnlyAdded'
  <2> SUFFICES ASSUME PastMarker', ~Parsed'
               PROVE  /\ current' - 1 \in Near(pos + 1)
                      /\ \E l \in Values' : l \in Near(pos + 1)
                      /\ OnlyAdded'
    OBVIOUS
  <2>0. pos + 1 \in 1..n /\ pos # n
    BY <1>1 DEF Parsed
  <2>1. CASE PastMarker
    <3>1. OnlyAdded /\ current - 1 \in Near(pos)
      BY <1>6, <2>1
    <3>2. OnlyAdded'
      BY <1>1, <3>1 DEF OnlyAdded
    <3>3. pos \notin hunk.rests => mark = "+"
      BY <1>1, <2>0, <3>1 DEF OnlyAdded
    <3>4. current' - 1 \in Near(pos + 1)
      <4>1. \/ NewLine(hunk, pos + 1) = NewLine(hunk, pos) /\ current' = current
               /\ Cuts(hunk, pos + 1) >= Cuts(hunk, pos)
            \/ NewLine(hunk, pos + 1) = NewLine(hunk, pos) + 1 /\ current' = current + 1
               /\ Cuts(hunk, pos + 1) = Cuts(hunk, pos)
            \/ NewLine(hunk, pos + 1) = NewLine(hunk, pos) /\ current' = current + 1
               /\ Cuts(hunk, pos + 1) = Cuts(hunk, pos) + 1
        BY <1>2, <1>4, <3>3
      <4>2. NewLine(hunk, pos + 1) \in Nat /\ Cuts(hunk, pos + 1) \in Nat
        BY <1>4
      <4> QED
        BY <1>1, <1>4, <3>1, <4>1, <4>2 DEF Near
    <3>5. CASE pos \in hunk.rests
      <4>1. PICK l \in Values : l \in Near(pos)
        BY <1>6, <2>1
      <4> QED
        BY <1>8, <1>9, <1>10, <3>2, <3>4, <3>5, <4>1
    <3>6. CASE pos \notin hunk.rests
      <4>1. current \in Values' /\ current \in Near(pos + 1)
        <5>1. /\ NewLine(hunk, pos + 1) = NewLine(hunk, pos) + 1
              /\ Cuts(hunk, pos + 1) = Cuts(hunk, pos) /\ current \in Values'
          BY <1>3, <1>4, <3>3, <3>6
        <5> QED
          BY <1>1, <1>4, <3>1, <5>1 DEF Near
      <4> QED
        BY <3>2, <3>4, <4>1
    <3> QED
      BY <3>5, <3>6
  <2>2. CASE ~PastMarker
    <3>1. mark = "\\" /\ pos \notin hunk.rests
      BY <1>5, <1>7, <2>2
    <3>2. PastRemoved /\ OnlyAdded'
      BY <1>1, <1>14, <2>0, <3>1 DEF OnlyAdded
    <3>3. current \in Near(pos) /\ current' = current + 1
      BY <1>2, <1>6, <2>2, <3>1
    <3>4. current' - 1 \in Near(pos + 1)
      BY <1>1, <1>4, <3>1, <3>3 DEF Near
    <3>5. PICK l \in Values : l \in Near(pos)
      BY <1>6, <2>2, <3>2
    <3> QED
      BY <1>8, <1>9, <1>10, <3>1, <3>2, <3>4, <3>5
  <2> QED
    BY <2>1, <2>2
<1>16. \A j \in (1..pos) \ hunk.rests : b[j] = "+" => \E l \in Values' : l \in Near(j)
  <2> SUFFICES ASSUME NEW j \in (1..pos) \ hunk.rests, b[j] = "+"
               PROVE  \E l \in Values' : l \in Near(j)
    OBVIOUS
  <2>1. CASE j # pos
    <3>1. j \in (1..(pos - 1)) \ hunk.rests
      BY <1>1, <2>1
    <3> QED
      BY <1>6, <1>10, <3>1
  <2>2. CASE j = pos /\ ~PastMarker
    BY <1>3, <1>6, <2>2
  <2>3. CASE j = pos /\ PastMarker
    BY <1>6, <1>10, <2>3
  <2> QED
    BY <2>1, <2>2, <2>3
<1>17. \A j : Near(j)' = Near(j')
  BY <1>1 DEF Near
<1>18. pos' - 1 = pos /\ (\A j : (NewLine(hunk, j) = NewLine(hunk', j)) /\ (Cuts(hunk, j) = Cuts(hunk', j)))
  BY <1>1
<1> QED
  BY <1>1, <1>11, <1>13, <1>15, <1>16, <1>18 DEF ParseInv, Near

\* A changed line is touched by the piece that made it one.
LEMMA ParseLineValuesInv ==
  ASSUME LookupInv, ParseLine
  PROVE  ValuesInv'
<1> DEFINE n == Len(hunk.body)
           mark == hunk.body[pos]
<1>1. /\ hunk.isHeader /\ hunk' = hunk /\ ~Parsed /\ pos \in DOMAIN hunk.body /\ pos \in Nat \ {0}
      /\ current \in Nat /\ hunk \in Hunks
  <2>1. pos \in 1..(n + 1) /\ hunk \in Hunks /\ current \in Nat /\ ~Parsed
    BY DEF LookupInv, LookupTypeOK, ParseLine
  <2>2. pos <= n /\ hunk.isHeader
    BY <2>1 DEF Parsed
  <2> QED
    BY <2>1, <2>2, HunkFacts DEF ParseLine
<1>2. NewLine(hunk, pos) \in Nat /\ Cuts(hunk, pos) \in Nat
  BY <1>1, NewLineFacts
<1>3. mark \in {"+", "-"} => Touched(current)
  <2> SUFFICES ASSUME mark \in {"+", "-"}
               PROVE  current \in NewLine(hunk, pos)..(NewLine(hunk, pos) + Ahead(pos))
    BY <1>1 DEF Touched
  <2>1. CASE ~PastMarker
    <3>1. current \in Near(pos) /\ Ahead(pos) = Cuts(hunk, pos)
      BY <1>1, <1>2, <2>1 DEF LookupInv, ParseInv, Ahead, PastMarker
    <3> QED
      BY <1>2, <3>1 DEF Near
  <2>2. CASE PastMarker
    <3>1. current - 1 \in Near(pos) /\ Ahead(pos) = Cuts(hunk, pos) + 1
      BY <1>1, <2>2 DEF LookupInv, ParseInv, Ahead, PastMarker
    <3> QED
      BY <1>1, <1>2, <3>1 DEF Near
  <2> QED
    BY <2>1, <2>2
<1>4. \A l \in Values' : Touched(l)
  BY <1>3, ParseLineValues DEF LookupInv, ValuesInv
<1> QED
  BY <1>1, <1>4 DEF ValuesInv, Touched, Ahead

LEMMA ParseLineStep ==
  ASSUME LookupInv, ParseLine
  PROVE  LookupInv'
<1>1. /\ tree' = tree /\ hunk' = hunk /\ next' = next /\ node' = node
      /\ climbing' = climbing /\ found' = found /\ pos' = pos + 1
      /\ pos <= Len(hunk.body) /\ ~Parsed
  BY DEF ParseLine, Parsed
<1>2. next = 1 /\ node = NoNode /\ ~climbing /\ found = {}
  BY <1>1 DEF LookupInv, SearchInv
<1>3. hunk \in Hunks /\ Len(hunk.body) \in Nat
  BY HunkFacts DEF LookupInv, LookupTypeOK
<1>4. LookupTypeOK'
  <2>1. pos' \in 1..(Len(hunk'.body) + 1) /\ current' \in Nat
    BY <1>1, <1>3 DEF LookupInv, LookupTypeOK, ParseLine
  <2>2. changed' \in Seq(Nat) /\ Len(changed') \in Nat
    BY ParseLineValues, LenProperties
  <2>3. next' \in 1..(Len(changed') + 1)
    BY <1>1, <1>2, <2>2
  <2>4. tree' \in Tree /\ hunk' \in Hunks /\ climbing' \in BOOLEAN
    BY <1>1 DEF LookupInv, LookupTypeOK
  <2>5. node' \in {NoNode} \cup Nodes /\ found' \subseteq {d \in Nodes : tree'.isDef[d]}
    BY <1>1, <1>2
  <2> QED
    BY <2>1, <2>2, <2>3, <2>4, <2>5 DEF LookupTypeOK
<1>5. InputInv'
  BY <1>1 DEF LookupInv, InputInv, IsTree
<1>6. SearchInv'
  BY <1>1, <1>2 DEF SearchInv
<1>7. FoundIsTouched'
  BY <1>1, <1>2 DEF FoundIsTouched
<1> QED
  BY <1>4, <1>5, <1>6, <1>7, ParseLineParseInv, ParseLineValuesInv DEF LookupInv

-----------------------------------------------------------------------------
(* Searching *)

\* The search leaves the parser's part of the invariant alone.
LEMMA ParserAtRest ==
  ASSUME LookupInv, UNCHANGED <<tree, hunk, pos, current, changed>>
  PROVE  InputInv' /\ ParseInv' /\ ValuesInv' /\ Parsed' = Parsed
<1>1. InputInv' /\ Parsed' = Parsed
  BY DEF LookupInv, InputInv, IsTree, Parsed
<1>2. /\ Values' = Values /\ PastMarker' = PastMarker /\ PastRemoved' = PastRemoved
      /\ OnlyAdded' = OnlyAdded
  BY DEF Values, PastMarker, PastRemoved, OnlyAdded
<1>3. ParseInv'
  BY <1>1, <1>2 DEF LookupInv, ParseInv, Near
<1>4. ValuesInv'
  BY <1>2 DEF LookupInv, ValuesInv, Touched, Ahead
<1> QED BY <1>1, <1>3, <1>4

\* A line that is looked up is one of the changed lines.
LEMMA LookedUp ==
  ASSUME LookupInv, next \in DOMAIN changed
  PROVE  /\ changed[next] \in Nat
         /\ next + 1 \in 1..(Len(changed) + 1)
         /\ Touched(changed[next])
<1>1. changed \in Seq(Nat)
  BY DEF LookupInv, LookupTypeOK
<1>2. DOMAIN changed = 1..Len(changed) /\ Len(changed) \in Nat
  BY <1>1, LenProperties
<1>3. changed[next] \in Values
  BY DEF Values
<1> QED
  BY <1>1, <1>2, <1>3, ElementOfSeq DEF LookupInv, ValuesInv

\* What is found, in terms of touched lines.
LEMMA TouchedFound ==
  ASSUME LookupInv
  PROVE  \A d \in found : \E l \in Nat : Touched(l) /\ Covers(d, l)
<1> SUFFICES ASSUME NEW d \in found PROVE \E l \in Nat : Touched(l) /\ Covers(d, l)
  OBVIOUS
<1>1. PICK j \in DOMAIN hunk.body :
        /\ hunk.body[j] \in {"+", "-"}
        /\ \E l \in NewLine(hunk, j)..(NewLine(hunk, j) + Ahead(j)) : Covers(d, l)
  BY DEF LookupInv, FoundIsTouched
<1>2. PICK l \in NewLine(hunk, j)..(NewLine(hunk, j) + Ahead(j)) : Covers(d, l)
  BY <1>1
<1>3. NewLine(hunk, j) \in Nat
  <2>1. hunk \in Hunks /\ j \in Nat \ {0}
    BY HunkFacts DEF LookupInv, InputInv
  <2> QED
    BY <2>1, NewLineFacts
<1>4. l \in Nat
  BY <1>2, <1>3
<1> QED
  BY <1>1, <1>2, <1>4 DEF Touched

\* What a step of the search must keep.
LEMMA SearchStep ==
  ASSUME LookupInv, UNCHANGED <<tree, hunk, pos, current, changed>>, Parsed,
         node' \in {NoNode} \cup Nodes, climbing' \in BOOLEAN,
         next' \in 1..(Len(changed) + 1),
         node' # NoNode \/ climbing' => next' \in DOMAIN changed,
         node' # NoNode => Covers(node', changed[next']),
         found' \subseteq {d \in Nodes : tree.isDef[d]},
         \A d \in found' : \E l \in Nat : Touched(l) /\ Covers(d, l)
  PROVE  LookupInv'
<1>1. LookupTypeOK'
  BY DEF LookupInv, LookupTypeOK
<1>2. SearchInv'
  BY ParserAtRest DEF SearchInv, Covers
<1>3. FoundIsTouched'
  BY DEF FoundIsTouched, Touched, Covers, Ahead
<1> QED
  BY <1>1, <1>2, <1>3, ParserAtRest DEF LookupInv

LEMMA StartSearchStep ==
  ASSUME LookupInv, StartSearch
  PROVE  LookupInv'
<1>1. /\ UNCHANGED <<tree, hunk, pos, current, changed, climbing, found>>
      /\ Parsed /\ next <= Len(changed) /\ node = NoNode /\ ~climbing
      /\ \/ Covers(Root, changed[next]) /\ node' = Root /\ next' = next
         \/ node' = NoNode /\ next' = next + 1
  BY DEF StartSearch
<1>2. changed \in Seq(Nat) /\ next \in 1..(Len(changed) + 1) /\ climbing \in BOOLEAN
  BY DEF LookupInv, LookupTypeOK
<1>3. next \in DOMAIN changed /\ next + 1 \in 1..(Len(changed) + 1)
  BY <1>1, <1>2, LenProperties
<1>4. Root \in Nodes
  BY SizeAssumption DEF Root, Nodes
<1>5. /\ found \subseteq {d \in Nodes : tree.isDef[d]}
      /\ \A d \in found : \E l \in Nat : Touched(l) /\ Covers(d, l)
  BY TouchedFound DEF LookupInv, LookupTypeOK
<1> QED
  BY <1>1, <1>2, <1>3, <1>4, <1>5, SearchStep

LEMMA DescendStep ==
  ASSUME LookupInv, Descend
  PROVE  LookupInv'
<1> DEFINE children == CoveringChildren(node, changed[next])
<1>1. /\ UNCHANGED <<tree, hunk, pos, current, changed, next, found>>
      /\ node # NoNode /\ ~climbing
      /\ \/ children # {} /\ node' = First(children) /\ climbing' = FALSE
         \/ node' = node /\ climbing' = TRUE
  BY DEF Descend
<1>2. /\ Parsed /\ next \in DOMAIN changed /\ Covers(node, changed[next])
      /\ next \in 1..(Len(changed) + 1) /\ node \in Nodes
  BY <1>1 DEF LookupInv, LookupTypeOK, SearchInv
<1>3. children # {} => First(children) \in children
  <2>1. children \in SUBSET Nodes
    BY DEF CoveringChildren
  <2> HIDE DEF children
  <2> QED
    BY <2>1, FirstExists
<1>4. \A c \in children : c \in Nodes /\ Covers(c, changed[next])
  BY DEF CoveringChildren
<1>5. /\ found \subseteq {d \in Nodes : tree.isDef[d]}
      /\ \A d \in found : \E l \in Nat : Touched(l) /\ Covers(d, l)
  BY TouchedFound DEF LookupInv, LookupTypeOK
<1> HIDE DEF children
<1>6. node' \in Nodes /\ climbing' \in BOOLEAN /\ Covers(node', changed[next])
  BY <1>1, <1>2, <1>3, <1>4
<1> QED
  BY <1>1, <1>2, <1>5, <1>6, SearchStep

\* What covers a line lies in what covers it too.
LEMMA ParentCovers ==
  ASSUME LookupInv, node \in Nodes, NEW l \in Nat, Covers(node, l)
  PROVE  tree.parent[node] = NoNode \/ (tree.parent[node] \in Nodes /\ Covers(tree.parent[node], l))
<1>1. /\ IsTree(tree)
      /\ tree.parent \in [Nodes -> {NoNode} \cup Nodes]
      /\ tree.first \in [Nodes -> Lines] /\ tree.last \in [Nodes -> Lines]
  BY DEF LookupInv, InputInv, Tree, Parents
<1>2. CASE node = Root
  BY <1>1, <1>2 DEF IsTree
<1>3. CASE node # Root /\ tree.parent[node] # NoNode
  <2> DEFINE p == tree.parent[node]
  <2>1. p \in Nodes
    BY <1>1, <1>3
  <2>2. tree.first[p] <= tree.first[node] /\ tree.last[node] <= tree.last[p]
    BY <1>1, <1>3 DEF IsTree
  <2>3. /\ tree.first[p] \in Nat /\ tree.last[p] \in Nat
        /\ tree.first[node] \in Nat /\ tree.last[node] \in Nat
    BY <1>1, <2>1, SizeAssumption DEF Lines
  <2> QED
    BY <2>1, <2>2, <2>3 DEF Covers
<1> QED
  BY <1>2, <1>3

LEMMA ClimbStep ==
  ASSUME LookupInv, Climb
  PROVE  LookupInv'
<1>1. /\ UNCHANGED <<tree, hunk, pos, current, changed, next, climbing, found>>
      /\ climbing /\ node # NoNode /\ node' = tree.parent[node]
  BY DEF Climb
<1>2. /\ Parsed /\ next \in DOMAIN changed /\ Covers(node, changed[next])
      /\ next \in 1..(Len(changed) + 1) /\ node \in Nodes /\ climbing \in BOOLEAN
  BY <1>1 DEF LookupInv, LookupTypeOK, SearchInv
<1>3. node' = NoNode \/ (node' \in Nodes /\ Covers(node', changed[next]))
  BY <1>1, <1>2, LookedUp, ParentCovers
<1>4. /\ found \subseteq {d \in Nodes : tree.isDef[d]}
      /\ \A d \in found : \E l \in Nat : Touched(l) /\ Covers(d, l)
  BY TouchedFound DEF LookupInv, LookupTypeOK
<1> QED
  BY <1>1, <1>2, <1>3, <1>4, SearchStep

LEMMA CollectStep ==
  ASSUME LookupInv, Collect
  PROVE  LookupInv'
<1>1. /\ UNCHANGED <<tree, hunk, pos, current, changed>>
      /\ climbing /\ (node # NoNode => tree.isDef[node])
      /\ found' = IF node = NoNode THEN found ELSE found \cup {node}
      /\ node' = NoNode /\ climbing' = FALSE /\ next' = next + 1
  BY DEF Collect
<1>2. /\ Parsed /\ next \in DOMAIN changed /\ (node # NoNode => Covers(node, changed[next]))
      /\ node \in {NoNode} \cup Nodes
  BY <1>1 DEF LookupInv, LookupTypeOK, SearchInv
<1>3. /\ next + 1 \in 1..(Len(changed) + 1)
      /\ changed[next] \in Nat /\ Touched(changed[next])
  BY <1>2, LookedUp
<1>4. /\ found' \subseteq {d \in Nodes : tree.isDef[d]}
      /\ \A d \in found' : \E l \in Nat : Touched(l) /\ Covers(d, l)
  BY <1>1, <1>2, <1>3, TouchedFound DEF LookupInv, LookupTypeOK
<1> QED
  BY <1>1, <1>2, <1>3, <1>4, SearchStep

-----------------------------------------------------------------------------
(* Trees: a node lies within its parent, and its parent's parent, and so on *)

LEMMA TreeFacts ==
  ASSUME InputInv
  PROVE  /\ NodeCount \in Nat \ {0} /\ Root \in Nodes
         /\ \A n \in Nodes : /\ n \in Nat /\ tree.first[n] \in Nat /\ tree.last[n] \in Nat
                             /\ n # Root =>
                                  /\ tree.parent[n] \in Nodes /\ tree.parent[n] < n
                                  /\ tree.first[tree.parent[n]] <= tree.first[n]
                                  /\ tree.last[n] <= tree.last[tree.parent[n]]
         /\ \A n \in Nodes \ {Root} : \A m \in (tree.parent[n] + 1)..(n - 1) :
              /\ tree.parent[m] >= tree.parent[n]
              /\ tree.parent[m] = tree.parent[n] => tree.last[m] <= tree.first[n]
<1>1. /\ IsTree(tree) /\ NodeCount \in Nat \ {0}
      /\ tree.parent \in [Nodes -> {NoNode} \cup Nodes]
      /\ tree.first \in [Nodes -> Lines] /\ tree.last \in [Nodes -> Lines]
  BY SizeAssumption DEF InputInv, Tree, Parents
<1>2. Root \in Nodes /\ Lines \subseteq Nat /\ \A n \in Nodes : n \in Nat /\ n \in 1..NodeCount
  BY <1>1, SizeAssumption DEF Root, Nodes, Lines
<1>3. \A n \in Nodes : tree.first[n] \in Nat /\ tree.last[n] \in Nat
  BY <1>1, <1>2
<1>4. ASSUME NEW n \in Nodes, n # Root
      PROVE  /\ tree.parent[n] \in Nodes /\ tree.parent[n] < n
             /\ tree.first[tree.parent[n]] <= tree.first[n]
             /\ tree.last[n] <= tree.last[tree.parent[n]]
  <2>1. /\ tree.parent[n] \in 1..(n - 1)
        /\ tree.first[tree.parent[n]] <= tree.first[n]
        /\ tree.last[n] <= tree.last[tree.parent[n]]
    BY <1>1, <1>4 DEF IsTree
  <2> QED BY <1>1, <1>2, <2>1 DEF Nodes
<1>5. \A n \in Nodes \ {Root} : \A m \in (tree.parent[n] + 1)..(n - 1) :
        /\ tree.parent[m] >= tree.parent[n]
        /\ tree.parent[m] = tree.parent[n] => tree.last[m] <= tree.first[n]
  BY <1>1 DEF IsTree
<1> QED BY <1>1, <1>2, <1>3, <1>4, <1>5

\* What lies within a node has its lines within the node's.
LEMMA WithinLines ==
  ASSUME InputInv, NEW m \in Nodes, NEW d \in Nodes, Within(d, m)
  PROVE  tree.first[m] <= tree.first[d] /\ tree.last[d] <= tree.last[m]
<1> DEFINE In(n) == tree.first[m] <= tree.first[n] /\ tree.last[n] <= tree.last[m]
           T == {n \in Nodes : Within(n, m) /\ ~In(n)}
<1> SUFFICES ASSUME T # {}  PROVE FALSE
  OBVIOUS
<1>1. PICK n \in T : \A k \in T : n <= k
  <2>1. T \subseteq Nat
    BY TreeFacts
  <2> HIDE DEF T
  <2> QED BY <2>1, LeastNat
<1>2. n \in Nodes /\ Within(n, m) /\ ~In(n) /\ n \in Nat /\ m \in Nat
  BY <1>1, TreeFacts
<1>3. n # m
  BY <1>2, TreeFacts
<1>4. m < n /\ tree.parent[n] >= m
  BY <1>2, <1>3 DEF Within
<1> DEFINE p == tree.parent[n]
<1>5. /\ p \in Nodes /\ p < n /\ p \in Nat
      /\ tree.first[p] <= tree.first[n] /\ tree.last[n] <= tree.last[p]
  <2>1. n # Root
    BY <1>4, <1>2, TreeFacts DEF Root, Nodes
  <2> QED BY <1>2, <2>1, TreeFacts
<1>6. Within(p, m)
  BY <1>2, <1>4, <1>5 DEF Within
<1>7. In(p)
  BY <1>1, <1>2, <1>5, <1>6
<1>8. In(n)
  BY <1>2, <1>5, <1>7, TreeFacts
<1> QED BY <1>2, <1>8

\* What lies strictly within a node lies within a child of it.
LEMMA WayDown ==
  ASSUME InputInv, NEW m \in Nodes, NEW d \in Nodes, Within(d, m), d # m
  PROVE  \E c \in Nodes : tree.parent[c] = m /\ Within(d, c)
<1>1. m \in Nat /\ d \in Nat /\ m < d /\ NodeCount \in Nat /\ m \in 1..NodeCount /\ d \in 1..NodeCount
  BY TreeFacts DEF Within, Nodes
<1> DEFINE T == {n \in Nat : \E k \in (m + 1)..d : tree.parent[k] = m /\ n = d - k}
<1>2. \A k \in (m + 1)..d : /\ k \in Nodes /\ k \in Nat /\ k # Root /\ k <= d /\ m < k
                           /\ tree.parent[k] >= m /\ tree.parent[k] \in Nodes
                           /\ tree.parent[k] \in Nat /\ tree.parent[k] < k
  <2>1. \A k \in (m + 1)..d : k \in Nodes /\ k # Root /\ k \in Nat /\ k <= d /\ m < k
    BY <1>1 DEF Nodes, Root
  <2>2. \A k \in (m + 1)..d : tree.parent[k] >= m
    BY DEF Within
  <2> QED BY <2>1, <2>2, TreeFacts
<1>3. T # {}
  <2>1. m + 1 \in (m + 1)..d
    BY <1>1
  <2>2. tree.parent[m + 1] = m
    BY <1>1, <1>2, <2>1
  <2>3. d - (m + 1) \in Nat
    BY <1>1
  <2> QED BY <2>1, <2>2, <2>3
<1>4. PICK n \in T : \A k \in T : n <= k
  <2> HIDE DEF T
  <2>1. T \subseteq Nat
    BY DEF T
  <2> QED BY <1>3, <2>1, LeastNat
<1>5. PICK c \in (m + 1)..d : tree.parent[c] = m /\ n = d - c
  BY <1>4
<1>6. ASSUME NEW k \in (c + 1)..d  PROVE tree.parent[k] >= c
  <2>1. /\ k \in (m + 1)..d /\ c < k /\ c \in Nat /\ k \in Nat /\ c \in Nodes
        /\ tree.parent[k] >= m /\ tree.parent[k] \in Nat /\ tree.parent[k] < k /\ k # Root
        /\ k \in Nodes
    BY <1>1, <1>2, <1>5
  <2>2. tree.parent[k] # m
    <3> SUFFICES ASSUME tree.parent[k] = m  PROVE FALSE
      OBVIOUS
    <3>1. d - k \in T
      BY <1>1, <2>1
    <3> QED BY <1>1, <1>4, <1>5, <2>1, <3>1
  <2> SUFFICES ASSUME tree.parent[k] < c  PROVE FALSE
    BY <2>1
  <2>3. c \in (tree.parent[k] + 1)..(k - 1)
    BY <2>1
  <2>4. tree.parent[c] >= tree.parent[k]
    BY <2>1, <2>3, TreeFacts
  <2> QED BY <1>1, <1>5, <2>1, <2>2, <2>4
<1>7. Within(d, c)
  BY <1>2, <1>5, <1>6 DEF Within
<1> QED BY <1>2, <1>5, <1>7

\* Everything lies within the root.
LEMMA WithinRoot ==
  ASSUME InputInv, NEW d \in Nodes
  PROVE  Within(d, Root)
<1>1. \A n \in (Root + 1)..d : n \in Nodes /\ n # Root
  BY TreeFacts DEF Root, Nodes
<1>2. \A n \in Nodes : n >= Root
  BY TreeFacts DEF Root, Nodes
<1> QED BY <1>1, <1>2, TreeFacts DEF Within

\* A child lies within what its parent lies within, and a parent within what its child
\* lies within strictly.
LEMMA WithinChild ==
  ASSUME InputInv, NEW c \in Nodes, c # Root, NEW d \in Nodes
  PROVE  /\ Within(tree.parent[c], d) => Within(c, d)
         /\ Within(c, d) /\ d # c => Within(tree.parent[c], d)
<1> DEFINE p == tree.parent[c]
<1>1. /\ p \in Nodes /\ p \in Nat /\ c \in Nat /\ d \in Nat /\ p < c
      /\ \A m \in (p + 1)..(c - 1) : tree.parent[m] >= p
      /\ \A n \in Nodes \ {Root} : tree.parent[n] \in Nat
  BY TreeFacts
<1>2. ASSUME Within(p, d)  PROVE Within(c, d)
  <2> SUFFICES ASSUME NEW n \in (d + 1)..c  PROVE tree.parent[n] >= d
    BY <1>1, <1>2 DEF Within
  <2>1. n \in Nodes \ {Root} /\ n \in Nat
    BY <1>1, TreeFacts DEF Nodes, Root
  <2>2. CASE n <= p
    BY <1>1, <1>2, <2>1, <2>2 DEF Within
  <2>3. CASE n \in (p + 1)..(c - 1)
    BY <1>1, <1>2, <2>1, <2>3 DEF Within
  <2>4. CASE n = c
    BY <1>1, <1>2, <2>4 DEF Within
  <2> QED BY <1>1, <2>1, <2>2, <2>3, <2>4
<1>3. ASSUME Within(c, d), d # c  PROVE Within(p, d)
  <2>1. d < c /\ p >= d
    BY <1>1, <1>3 DEF Within
  <2> QED BY <1>1, <1>3, <2>1 DEF Within
<1> QED BY <1>2, <1>3

-----------------------------------------------------------------------------
(* Definitions that are missed *)

\* Definitions around a line, and those that what is before them on the line hides.
Around(l) == {d \in Nodes : tree.isDef[d] /\ Covers(d, l)}
Hidden(d, l) == tree.first[d] = l /\ PrecededOn(d, l)

LookedUpRight(l) == Around(l) \cap found # {} \/ \A d \in Around(l) : Hidden(d, l)

\* A definition around the line that is looked up lies below the node that the search
\* has reached, or around that node, or is hidden; on the way up, around it or hidden.
MissInv ==
  /\ \A k \in 1..(next - 1) : LookedUpRight(changed[k])
  /\ node # NoNode \/ climbing =>
       \A d \in Around(changed[next]) :
         \/ node # NoNode /\ Within(node, d)
         \/ ~climbing /\ Within(d, node)
         \/ Hidden(d, changed[next])

\* The first child on the way down hides, on the line, what lies below later ones.
LEMMA WayDownHides ==
  ASSUME InputInv, NEW n \in Nodes, NEW l \in Nat,
         NEW d \in Around(l), Within(d, n), d # n
  PROVE  /\ CoveringChildren(n, l) # {}
         /\ Within(d, First(CoveringChildren(n, l))) \/ Hidden(d, l)
<1> DEFINE children == CoveringChildren(n, l)
           f == First(children)
<1>1. d \in Nodes /\ Covers(d, l)
  BY DEF Around
<1>2. PICK c \in Nodes : tree.parent[c] = n /\ Within(d, c)
  BY <1>1, WayDown
<1>3. /\ tree.first[c] \in Nat /\ tree.last[c] \in Nat /\ tree.first[d] \in Nat /\ tree.last[d] \in Nat
      /\ tree.first[c] <= tree.first[d] /\ tree.last[d] <= tree.last[c]
  BY <1>1, <1>2, WithinLines, TreeFacts
<1>4. tree.first[d] <= l /\ l <= tree.last[d]
  BY <1>1 DEF Covers
<1>5. c \in children
  BY <1>2, <1>3, <1>4 DEF CoveringChildren, Covers
<1>6. f \in children /\ f <= c
  <2>1. children \in SUBSET Nodes
    BY DEF CoveringChildren
  <2> HIDE DEF children
  <2> QED BY <1>5, <2>1, FirstExists
<1>7. f \in Nodes /\ tree.parent[f] = n /\ tree.first[f] <= l /\ l <= tree.last[f]
  BY <1>6 DEF CoveringChildren, Covers
<1>8. ASSUME f # c  PROVE Hidden(d, l)
  <2>1. /\ f \in Nat /\ c \in Nat /\ n \in Nat /\ f < c
        /\ c # Root /\ f # Root /\ tree.parent[f] < f
    <3>1. f \in Nat /\ c \in Nat /\ n \in Nat
      BY <1>2, <1>7, TreeFacts
    <3>2. f # Root /\ c # Root
      <4>1. tree.parent[Root] = NoNode /\ n # NoNode
        BY TreeFacts DEF InputInv, IsTree, Nodes, NoNode
      <4> HIDE DEF f
      <4> QED BY <1>2, <1>7, <4>1
    <3>3. tree.parent[f] < f
      BY <1>7, <3>2, TreeFacts
    <3> HIDE DEF f
    <3> QED BY <1>6, <1>8, <3>1, <3>2, <3>3
  <2>2. f \in (tree.parent[c] + 1)..(c - 1)
    BY <1>2, <1>7, <2>1
  <2>3. tree.last[f] <= tree.first[c]
    BY <1>2, <1>7, <2>1, <2>2, TreeFacts
  <2>4. tree.last[f] \in Nat
    BY <1>7, TreeFacts
  <2> HIDE DEF f
  <2>5. tree.first[d] = l
    BY <1>3, <1>4, <1>7, <2>3, <2>4
  <2>6. PrecededOn(d, l)
    BY <1>2, <1>7, <2>1 DEF PrecededOn, Covers
  <2> QED BY <2>5, <2>6 DEF Hidden
<1> QED BY <1>2, <1>5, <1>8

LEMMA NextMissInv ==
  ASSUME LookupInv, MissInv, [LookupNext]_lookupVars
  PROVE  MissInv'
<1>1. /\ InputInv /\ LookupTypeOK /\ SearchInv
      /\ tree' = tree /\ next \in Nat
  BY DEF LookupInv, LookupTypeOK, LookupNext, lookupVars, ParseLine, StartSearch, Descend, Climb, Collect
<1>2. \A l : Around(l)' = Around(l)
  BY <1>1 DEF Around, Covers
<1>3. \A d, l : Hidden(d, l)' <=> Hidden(d, l)
  BY <1>1 DEF Hidden, PrecededOn, Within, Covers
<1>4. ASSUME found \subseteq found', NEW l, LookedUpRight(l)  PROVE LookedUpRight(l)'
  BY <1>2, <1>3, <1>4 DEF LookedUpRight
<1>5. CASE ParseLine
  <2>1. next' = 1 /\ node' = NoNode /\ ~climbing'
    <3>1. ~Parsed
      BY <1>5, HunkFacts DEF ParseLine, Parsed, LookupInv, LookupTypeOK
    <3> QED BY <1>1, <1>5, <3>1 DEF SearchInv, ParseLine
  <2> QED BY <2>1 DEF MissInv
<1>6. CASE StartSearch
  <2>1. /\ changed' = changed /\ found' = found /\ ~climbing' /\ Root # NoNode
        /\ next \in DOMAIN changed
    <3>1. changed \in Seq(Nat) /\ next \in 1..(Len(changed) + 1)
      BY <1>1 DEF LookupTypeOK
    <3> QED BY <1>6, <3>1, LenProperties DEF StartSearch, Root, NoNode
  <2>2. CASE Covers(Root, changed[next])
    <3>1. next' = next /\ node' = Root
      BY <1>6, <2>2 DEF StartSearch
    <3>2. \A d \in Around(changed[next]) : Within(d, Root)
      BY <1>1, WithinRoot DEF Around
    <3>3. \A d \in Around(changed[next]) : Within(d, Root)'
      BY <1>1, <3>2 DEF Within
    <3> QED BY <1>2, <1>4, <2>1, <3>1, <3>3 DEF MissInv, Within
  <2>3. CASE ~Covers(Root, changed[next])
    <3>1. next' = next + 1 /\ node' = NoNode
      BY <1>6, <2>3 DEF StartSearch
    <3>2. Around(changed[next]) = {}
      <4> SUFFICES ASSUME NEW d \in Around(changed[next])  PROVE FALSE
        OBVIOUS
      <4>1. d \in Nodes /\ Covers(d, changed[next]) /\ Within(d, Root) /\ changed[next] \in Nat
        BY <1>1, <2>1, WithinRoot, LookedUp DEF Around
      <4>2. /\ tree.first[Root] <= tree.first[d] /\ tree.last[d] <= tree.last[Root]
            /\ tree.first[Root] \in Nat /\ tree.last[Root] \in Nat
            /\ tree.first[d] \in Nat /\ tree.last[d] \in Nat
        BY <1>1, <4>1, TreeFacts, WithinLines
      <4> QED BY <2>3, <4>1, <4>2 DEF Covers
    <3>3. LookedUpRight(changed[next])
      BY <3>2 DEF LookedUpRight
    <3>4. \A k \in 1..(next' - 1) : k \in 1..(next - 1) \/ k = next
      BY <1>1, <3>1
    <3>5. \A k \in 1..(next' - 1) : LookedUpRight(changed[k])
      BY <3>3, <3>4 DEF MissInv
    <3>6. \A k \in 1..(next' - 1) : LookedUpRight(changed[k])'
      BY <1>4, <2>1, <3>5
    <3> QED BY <2>1, <3>1, <3>6 DEF MissInv
  <2> QED BY <2>2, <2>3
<1>7. CASE Descend
  <2>0. PICK l : l = changed[next]
    OBVIOUS
  <2> DEFINE children == CoveringChildren(node, l)
  <2>1. /\ changed' = changed /\ found' = found /\ next' = next /\ node # NoNode /\ ~climbing
        /\ node \in Nodes /\ next \in DOMAIN changed
        /\ IF children # {} THEN node' = First(children) /\ climbing' = FALSE
                            ELSE node' = node /\ climbing' = TRUE
    BY <1>1, <1>7, <2>0 DEF Descend, LookupTypeOK, SearchInv
  <2>2. l \in Nat
    BY <2>0, <2>1, LookedUp
  <2>3. \A k \in 1..(next' - 1) : LookedUpRight(changed[k])'
    BY <1>4, <2>1 DEF MissInv
  <2>4. ASSUME NEW d \in Around(l)
        PROVE  \/ node' # NoNode /\ Within(node', d)
               \/ ~climbing' /\ Within(d, node')
               \/ Hidden(d, l)
    <3>1. Within(node, d) \/ Within(d, node) \/ Hidden(d, l)
      BY <2>0, <2>1 DEF MissInv
    <3>2. CASE Within(node, d)
      <4>1. CASE children # {}
        <5>1. node' \in children
          <6>1. children \in SUBSET Nodes
            BY DEF CoveringChildren
          <6> HIDE DEF children
          <6> QED BY <2>1, <4>1, <6>1, FirstExists
        <5>2. node' \in Nodes /\ tree.parent[node'] = node
          BY <5>1 DEF CoveringChildren
        <5>3. node' # Root /\ node' # NoNode
          BY <1>1, <2>1, <5>2, TreeFacts DEF InputInv, IsTree, Nodes, NoNode
        <5>4. d \in Nodes
          BY DEF Around
        <5> QED BY <1>1, <3>2, <5>2, <5>3, <5>4, WithinChild
      <4>2. CASE children = {}
        BY <2>1, <3>2, <4>2
      <4> QED BY <4>1, <4>2
    <3>3. CASE Within(d, node) /\ d # node
      <4>1. children # {} /\ (Within(d, First(children)) \/ Hidden(d, l))
        BY <1>1, <2>1, <2>2, <3>3, WayDownHides
      <4> QED BY <2>1, <4>1
    <3>4. CASE d = node
      <4>1. Within(node, d)
        BY <1>1, <2>1, <3>4, TreeFacts DEF Within
      <4> QED BY <3>2, <4>1
    <3> QED BY <3>1, <3>2, <3>3, <3>4
  <2> HIDE DEF children
  <2>5. l = changed'[next'] /\ Around(l)' = Around(l)
    BY <1>2, <2>0, <2>1
  <2>6. \A d \in Around(l)' : \/ node' # NoNode /\ Within(node, d)'
                              \/ ~climbing' /\ Within(d, node)'
                              \/ Hidden(d, l)'
    BY <1>1, <1>3, <2>4, <2>5 DEF Within
  <2> QED BY <2>3, <2>5, <2>6 DEF MissInv
<1>8. CASE Climb
  <2>0. PICK l : l = changed[next]
    OBVIOUS
  <2>1. /\ changed' = changed /\ found' = found /\ next' = next /\ node # NoNode
        /\ climbing /\ climbing' = climbing /\ ~tree.isDef[node] /\ node' = tree.parent[node]
        /\ node \in Nodes
    BY <1>1, <1>8 DEF Climb, LookupTypeOK
  <2>2. \A k \in 1..(next' - 1) : LookedUpRight(changed[k])'
    BY <1>4, <2>1 DEF MissInv
  <2>3. ASSUME NEW d \in Around(l)
        PROVE  (node' # NoNode /\ Within(node', d)) \/ Hidden(d, l)
    <3>1. Within(node, d) \/ Hidden(d, l)
      BY <2>0, <2>1 DEF MissInv
    <3>2. d \in Nodes /\ d # node
      BY <2>1 DEF Around
    <3>3. CASE Within(node, d)
      <4>1. node # Root
        BY <1>1, <3>2, <3>3, TreeFacts DEF Within, Root, Nodes
      <4>2. node' \in Nodes /\ node' # NoNode
        BY <1>1, <2>1, <4>1, TreeFacts DEF Nodes, NoNode
      <4> QED BY <1>1, <2>1, <3>2, <3>3, <4>1, <4>2, WithinChild
    <3> QED BY <3>1, <3>3
  <2>4. l = changed'[next'] /\ Around(l)' = Around(l)
    BY <1>2, <2>0, <2>1
  <2>5. \A d \in Around(l)' : (node' # NoNode /\ Within(node, d)') \/ Hidden(d, l)'
    BY <1>1, <1>3, <2>3, <2>4 DEF Within
  <2> QED BY <2>2, <2>4, <2>5 DEF MissInv
<1>9. CASE Collect
  <2>0. PICK l : l = changed[next]
    OBVIOUS
  <2>1. /\ changed' = changed /\ found \subseteq found' /\ next' = next + 1
        /\ node' = NoNode /\ ~climbing' /\ climbing
        /\ node # NoNode => tree.isDef[node] /\ node \in found' /\ node \in Nodes
    BY <1>1, <1>9 DEF Collect, LookupTypeOK
  <2>2. \A k \in 1..(next - 1) : LookedUpRight(changed[k])'
    BY <1>4, <2>1 DEF MissInv
  <2>3. LookedUpRight(l)'
    <3>1. CASE node # NoNode
      <4>1. node \in Around(l)
        BY <1>1, <2>0, <2>1, <3>1 DEF Around, SearchInv
      <4> QED BY <1>2, <2>1, <3>1, <4>1 DEF LookedUpRight
    <3>2. CASE node = NoNode
      <4>1. \A d \in Around(l) : Hidden(d, l)
        BY <2>0, <2>1, <3>2 DEF MissInv
      <4> QED BY <1>2, <1>3, <4>1 DEF LookedUpRight
    <3> QED BY <3>1, <3>2
  <2>4. \A k \in 1..(next' - 1) : k \in 1..(next - 1) \/ k = next
    BY <1>1, <2>1
  <2>5. \A k \in 1..(next' - 1) : LookedUpRight(changed[k])'
    <3>1. l = changed'[next]
      BY <2>0, <2>1
    <3> QED BY <2>2, <2>3, <2>4, <3>1 DEF LookedUpRight, Around, Hidden
  <2> QED BY <2>1, <2>5 DEF MissInv
<1>10. CASE UNCHANGED lookupVars
  <2>1. found' = found /\ changed' = changed /\ next' = next /\ node' = node /\ climbing' = climbing
    BY <1>10 DEF lookupVars
  <2>2. \A k \in 1..(next - 1) : LookedUpRight(changed[k])'
    BY <1>4, <2>1 DEF MissInv
  <2> QED BY <1>1, <1>2, <1>3, <2>1, <2>2 DEF MissInv, Within
<1> QED BY <1>5, <1>6, <1>7, <1>8, <1>9, <1>10 DEF LookupNext

-----------------------------------------------------------------------------
(* Theorems *)

LEMMA InitLookupInv == LookupInit => LookupInv
<1> SUFFICES ASSUME LookupInit PROVE LookupInv
  OBVIOUS
<1>1. /\ hunk.start \in Nat /\ Len(hunk.body) \in Nat /\ hunk \in Hunks
      /\ hunk.body \in Seq(Marks)
  BY HunkFacts DEF LookupInit
<1>2. changed = <<>> /\ changed \in Seq(Nat) /\ Len(changed) = 0 /\ DOMAIN changed = {}
  <2>1. <<>> \in Seq(Nat) /\ Len(<<>>) = 0
    BY EmptySeq
  <2>2. DOMAIN <<>> = 1..0 /\ 1..0 = {}
    BY <2>1, LenProperties
  <2> QED
    BY <2>1, <2>2 DEF LookupInit
<1>3. LookupTypeOK
  <2>1. pos \in 1..(Len(hunk.body) + 1) /\ next \in 1..(Len(changed) + 1)
    BY <1>1, <1>2 DEF LookupInit
  <2>2. current \in Nat /\ tree \in Tree
    BY <1>1 DEF LookupInit
  <2>3. climbing \in BOOLEAN /\ node = NoNode /\ found = {}
    BY Zenon DEF LookupInit
  <2> QED
    BY <1>1, <1>2, <2>1, <2>2, <2>3 DEF LookupTypeOK
<1>4. ParseInv
  <2>1. pos = 1 /\ 1..(1 - 1) = {} /\ current = hunk.start
    BY DEF LookupInit
  <2>2. NewLine(hunk, 1) = hunk.start /\ Cuts(hunk, 1) = 0
    <3>1. 1 \in Nat \ {0}
      OBVIOUS
    <3> QED
      BY <1>1, <3>1, NewLineFacts
  <2>3. 1..(pos - 1) = {} /\ current \in Near(pos)
    BY <1>1, <2>1, <2>2 DEF Near
  <2> QED
    BY <2>3 DEF ParseInv, PastMarker, PastRemoved
<1>5. ValuesInv /\ FoundIsTouched /\ SearchInv
  BY <1>2 DEF LookupInit, ValuesInv, Values, FoundIsTouched, SearchInv
<1> QED
  BY <1>3, <1>4, <1>5 DEF LookupInit, LookupInv, InputInv

LEMMA NextLookupInv == LookupInv /\ [LookupNext]_lookupVars => LookupInv'
<1> SUFFICES ASSUME LookupInv, [LookupNext]_lookupVars PROVE LookupInv'
  OBVIOUS
<1>1. CASE ParseLine
  BY <1>1, ParseLineStep
<1>2. CASE StartSearch
  BY <1>2, StartSearchStep
<1>3. CASE Descend
  BY <1>3, DescendStep
<1>4. CASE Climb
  BY <1>4, ClimbStep
<1>5. CASE Collect
  BY <1>5, CollectStep
<1>6. CASE UNCHANGED lookupVars
  <2>1. /\ UNCHANGED <<tree, hunk, pos, current, changed>>
        /\ next' = next /\ node' = node /\ climbing' = climbing /\ found' = found
    BY <1>6 DEF lookupVars
  <2>2. LookupTypeOK' /\ FoundIsTouched' /\ SearchInv'
    BY <2>1, ParserAtRest DEF LookupInv, LookupTypeOK, FoundIsTouched, SearchInv, Covers, Ahead
  <2> QED
    BY <2>1, <2>2, ParserAtRest DEF LookupInv
<1> QED
  BY <1>1, <1>2, <1>3, <1>4, <1>5, <1>6 DEF LookupNext

\* The parser's line number and the lines it has, and the search at a node that covers
\* its line, whatever the tree and the hunk.
THEOREM ParseAndSearchInvariance == LookupSpec => []LookupInv
BY InitLookupInv, NextLookupInv, PTL DEF LookupSpec

\* Every definition that is found is a node that is a definition, and the indices of
\* the parser and of the search stay within the hunk and the changed lines.
THEOREM DefinitionsTypeCorrect == LookupSpec => []LookupTypeOK
<1>1. LookupInv => LookupTypeOK
  BY DEF LookupInv
<1> QED
  BY <1>1, ParseAndSearchInvariance, PTL

LEMMA AddedLinesInValues == LookupInv => EveryAddedLineIsChanged
<1> SUFFICES ASSUME LookupInv, Parsed, hunk.isHeader,
                    NEW j \in DOMAIN hunk.body \ hunk.rests, hunk.body[j] = "+",
                    \A i \in 1..(j - 1) : hunk.body[i] # "@@"
             PROVE  \E l \in Values : l \in Near(j)
  BY DEF EveryAddedLineIsChanged, Values, Near
<1>1. /\ Len(hunk.body) \in Nat /\ DOMAIN hunk.body = 1..Len(hunk.body)
      /\ pos \in 1..(Len(hunk.body) + 1)
  BY HunkFacts DEF LookupInv, LookupTypeOK
<1>2. j < pos
  <2>1. CASE pos <= Len(hunk.body)
    <3>1. hunk.body[pos] = "@@"
      BY <2>1 DEF Parsed
    <3>2. pos # j /\ pos \notin 1..(j - 1)
      BY <3>1
    <3> QED
      BY <1>1, <3>2
  <2>2. CASE ~(pos <= Len(hunk.body))
    BY <1>1, <2>2
  <2> QED
    BY <2>1, <2>2
<1>3. j \in (1..(pos - 1)) \ hunk.rests
  BY <1>1, <1>2
<1> QED
  BY <1>3 DEF LookupInv, ParseInv

\* Where no line is cut, an added line is a changed line.
LEMMA WholeLinesInValues ==
  ASSUME LookupInv, Parsed, hunk.isHeader, NEW l \in AddedLines
  PROVE  \E k \in DOMAIN changed : l = changed[k]
<1>1. PICK j \in DOMAIN hunk.body :
        l = NewLine(hunk, j) /\ hunk.body[j] = "+" /\ hunk.rests \cap (1..j) = {}
  BY DEF AddedLines
<1>2. /\ DOMAIN hunk.body = 1..Len(hunk.body) /\ Len(hunk.body) \in Nat
      /\ IsHunk(hunk.body, hunk.rests) /\ hunk \in Hunks
  BY HunkFacts DEF LookupInv, InputInv
<1>3. j \in Nat \ {0} /\ j \notin hunk.rests
  BY <1>1, <1>2
<1>4. \A i \in 1..(j - 1) : hunk.body[i] # "@@"
  <2> SUFFICES ASSUME NEW i \in 1..(j - 1) PROVE hunk.body[i] # "@@"
    OBVIOUS
  <2>1. i \in 1..j /\ i \in DOMAIN hunk.body
    BY <1>1, <1>2, <1>3
  <2>2. i \notin hunk.rests
    BY <1>1, <2>1
  <2> QED
    BY <1>2, <2>1, <2>2 DEF IsHunk
<1>5. Cuts(hunk, j) = 0
  <2>1. hunk.rests \cap (1..(j - 1)) = {}
    BY <1>1, <1>3
  <2> QED
    BY <2>1, FS_EmptySet DEF Cuts
<1>6. PICK k \in DOMAIN changed : changed[k] \in NewLine(hunk, j)..(NewLine(hunk, j) + Cuts(hunk, j))
  BY <1>1, <1>3, <1>4, AddedLinesInValues DEF EveryAddedLineIsChanged
<1>7. NewLine(hunk, j) \in Nat
  BY <1>2, <1>3, NewLineFacts
<1> QED
  BY <1>1, <1>5, <1>6, <1>7

\* For every line that the hunk adds parse_changed_lines has one that is not before it,
\* and after it by no more lines than str.splitlines() cut before it, although the marker
\* of a missing newline counts as a line of the new file.
THEOREM AddedLinesAreChanged == LookupSpec => []EveryAddedLineIsChanged
BY AddedLinesInValues, ParseAndSearchInvariance, PTL

\* get_changed_definitions names only definitions that cover a line that the hunk adds or
\* at which it removes something, or one as far ahead as cuts and a marker put it; a
\* definition with nothing but context of the hunk in it is not named.
THEOREM FoundDefinitionsAreTouched == LookupSpec => []FoundIsTouched
<1>1. LookupInv => FoundIsTouched
  BY DEF LookupInv
<1> QED
  BY <1>1, ParseAndSearchInvariance, PTL

\* A definition around an added line, with no line of the hunk cut up to it, is missed
\* only where each definition around the line begins on it, behind something else: the search takes the first child that covers the
\* line, and what that hides shares its last line.
THEOREM MissedIsHidden == LookupSpec => []MissedOnlyOnSharedFirstLine
<1>1. LookupInit => LookupInv /\ MissInv
  BY InitLookupInv DEF LookupInit, MissInv
<1>2. LookupInv /\ MissInv /\ [LookupNext]_lookupVars => (LookupInv /\ MissInv)'
  BY NextLookupInv, NextMissInv
<1>3. LookupInv /\ MissInv => MissedOnlyOnSharedFirstLine
  <2> SUFFICES ASSUME LookupInv, MissInv, Done, hunk.isHeader, NEW l \in AddedLines
               PROVE  Around(l) \cap found # {} \/ \A d \in Around(l) : Hidden(d, l)
    BY DEF MissedOnlyOnSharedFirstLine, Around, Hidden
  <2>1. PICK k \in DOMAIN changed : l = changed[k]
    BY WholeLinesInValues DEF Done
  <2>2. k \in 1..(next - 1)
    <3>1. changed \in Seq(Nat) /\ next \in 1..(Len(changed) + 1)
      BY DEF LookupInv, LookupTypeOK
    <3>2. k \in 1..Len(changed) /\ Len(changed) \in Nat
      BY <3>1, LenProperties
    <3> QED BY <3>1, <3>2 DEF Done
  <2> QED BY <2>1, <2>2 DEF MissInv, LookedUpRight
<1> QED BY <1>1, <1>2, <1>3, PTL DEF LookupSpec
=============================================================================
