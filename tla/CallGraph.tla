------------------------------- MODULE CallGraph -------------------------------
(***************************************************************************)
(* The call graph in Neo4j (backend/app/parser/neo4j_ingest.py).  For each *)
(* changed file of a pull request ingest_pr replaces the file's functions  *)
(* and calls in one transaction and then asks, in another, for the callers *)
(* of a changed function: its blast radius.  Review workers do this at the *)
(* same time for all repositories, in one graph where a File belongs to a  *)
(* repository and a Function only to a path.                               *)
(*                                                                         *)
(* Parsing and import resolution are inputs: a version of a file is the    *)
(* functions it defines and its calls, each resolved to a path or to       *)
(* Unknown.  Files that a pull request removes are not ingested, and a     *)
(* transaction that fails changes nothing and is not followed by a query;  *)
(* neither is an action.  Classes and imports, which the query does not    *)
(* follow, are left out.                                                   *)
(***************************************************************************)
EXTENDS Naturals

CONSTANTS
  Repos, Files, Names,
  Unknown,     \* the path of a function whose call was not resolved
  Versions,    \* Versions[f]: the contents that file f may have
  Workers,
  MaxIngests   \* bound: transactions that write

Functions == Names \X (Files \cup {Unknown})
Version   == [defs : SUBSET Names, calls : SUBSET (Names \X Functions)]
None      == [defs |-> {}, calls |-> {}]

\* A caller is defined in the file, and what the file defines is called there.  A name
\* that it does not define may be resolved to it too, by an import of that name.
WellResolved(f, v) ==
  \A e \in v.calls : e[1] \in v.defs /\ (e[2][1] \in v.defs => e[2][2] = f)

ASSUME CallGraphAssumption ==
  /\ Unknown \notin Files
  /\ MaxIngests \in Nat
  /\ \A f \in Files : Versions[f] \subseteq {v \in Version : WellResolved(f, v)}

VARIABLES
  functions,  \* the Function nodes
  definedIn,  \* DEFINED_IN: pairs of a function and <<repository, path>>
  calls,      \* CALLS: pairs of functions
  job,        \* job[w]: the file that w is at
  last,       \* history: last[r][f], what of f in r was ingested last
  stamp,      \* history: stamp[r][f], when that was
  clock       \* history: transactions so far

graph == <<functions, definedIn, calls>>
vars  == <<graph, job, last, stamp, clock>>

Edges(f, v) == {<<<<e[1], f>>, e[2]>> : e \in v.calls}

\* Callers over one or two CALLS.
Callers(edges, fn) ==
  LET direct(x) == {e[1] : e \in {e \in edges : e[2] = x}}
  IN direct(fn) \cup UNION {direct(x) : x \in direct(fn)}

Idle == [step |-> "idle"]
Job  == [step : {"query", "answered", "failed"}, repo : Repos, file : Files,
         version : Version, fn : Functions, known : BOOLEAN, from : 0 .. MaxIngests,
         radius : SUBSET Functions]

TypeOK ==
  /\ functions \subseteq Functions
  /\ definedIn \subseteq functions \X (Repos \X Files)
  /\ calls \subseteq functions \X functions
  /\ job \in [Workers -> {Idle} \cup Job]
  /\ last \in [Repos -> [Files -> Version]]
  /\ stamp \in [Repos -> [Files -> 0 .. MaxIngests]]
  /\ clock \in 0 .. MaxIngests

Init ==
  /\ functions = {} /\ definedIn = {} /\ calls = {}
  /\ job = [w \in Workers |-> Idle]
  /\ last = [r \in Repos |-> [f \in Files |-> None]]
  /\ stamp = [r \in Repos |-> [f \in Files |-> 0]]
  /\ clock = 0

-----------------------------------------------------------------------------
(* _ingest_tx                                                              *)

\* Mutant of Cleared: nothing is deleted on a re-run.
ClearedNever(r, f) == {}

\* Mutant of Cleared: only functions that nobody calls are deleted.
ClearedUncalled(r, f) ==
  {x \in functions : <<x, <<r, f>>>> \in definedIn /\ \A e \in calls : e[2] # x}

\* The cleanup: the functions that are DEFINED_IN the file of this repository.
Cleared(r, f) == {x \in functions : <<x, <<r, f>>>> \in definedIn}

\* Mutant of Write: a called function is matched, not merged.
WriteMatching(r, f, v) ==
  LET gone == Cleared(r, f)
      new  == v.defs \X {f}
  IN /\ functions' = (functions \ gone) \cup new
     /\ definedIn' = {d \in definedIn : d[1] \notin gone} \cup (new \X {<<r, f>>})
     /\ calls' = {e \in calls : e[1] \notin gone /\ e[2] \notin gone}
                 \cup {e \in Edges(f, v) : e[2] \in functions'}

\* The nodes go with all their relationships; then functions, DEFINED_IN and CALLS
\* of the new contents are merged, with a node for every function called.
Write(r, f, v) ==
  LET gone == Cleared(r, f)
      new  == v.defs \X {f}
  IN /\ functions' = (functions \ gone) \cup new \cup {e[2] : e \in v.calls}
     /\ definedIn' = {d \in definedIn : d[1] \notin gone} \cup (new \X {<<r, f>>})
     /\ calls' = {e \in calls : e[1] \notin gone /\ e[2] \notin gone} \cup Edges(f, v)

-----------------------------------------------------------------------------
(* ingest_pr, one changed file                                             *)

\* A file without a changed function is ingested and not queried.
Ingest(w, r, f, v) ==
  /\ job[w].step # "query"
  /\ clock < MaxIngests
  /\ clock' = clock + 1
  /\ Write(r, f, v)
  /\ last' = [last EXCEPT ![r][f] = v]
  /\ stamp' = [stamp EXCEPT ![r][f] = clock']
  /\ \/ job' = [job EXCEPT ![w] = Idle]
     \/ \E n \in v.defs :
          job' = [job EXCEPT ![w] =
            [step |-> "query", repo |-> r, file |-> f, version |-> v, fn |-> <<n, f>>,
             known |-> v.defs \X {f} \subseteq {x \in functions : <<x, <<r, f>>>> \in definedIn},
             from |-> clock', radius |-> {}]]

\* get_blast_radius.  No connection and a failed query give no callers, too.
Query(w) ==
  /\ job[w].step = "query"
  /\ \/ job' = [job EXCEPT ![w].step = "answered", ![w].radius = Callers(calls, job[w].fn)]
     \/ job' = [job EXCEPT ![w].step = "failed"]
  /\ UNCHANGED <<graph, last, stamp, clock>>

Next == \E w \in Workers :
  \/ Query(w)
  \/ \E r \in Repos, f \in Files : \E v \in Versions[f] : Ingest(w, r, f, v)

Spec == Init /\ [][Next]_vars

-----------------------------------------------------------------------------
(* Properties                                                              *)

\* A re-run leaves nothing of the old contents behind ("cleanups on re-runs"): every
\* CALLS is in the contents ingested last for its caller's path, in some repository.
CallsAreFresh ==
  \A e \in calls : \E r \in Repos, f \in Files : e \in Edges(f, last[r][f])

\* A call in the contents ingested last is missing from the graph only if the
\* called path, or the same path of another repository, was ingested later.
LostOnlyToLaterIngest ==
  \A r \in Repos, f \in Files : \A e \in Edges(f, last[r][f]) :
    e \in calls \/ \E other \in Repos, g \in {e[2][2], f} \cap Files :
                     stamp[other][g] > stamp[r][f]

\* The blast radius answered for a function, in a file whose functions the graph had
\* before, is that within the file: the cleanup of the file has just deleted every call
\* from another one.  It is another only if that file or the file of a caller in it was
\* ingested between the two transactions, by another worker, in some repository.
RadiusIsOwnFile ==
  \A w \in Workers : job[w].step = "answered" /\ job[w].known =>
    \/ job[w].radius = Callers(Edges(job[w].file, job[w].version), job[w].fn)
    \/ \E other \in Repos, g \in {job[w].file} \cup {x[2] : x \in job[w].radius} :
         stamp[other][g] > job[w].from
=============================================================================
