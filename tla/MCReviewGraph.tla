---------------------------- MODULE MCReviewGraph ----------------------------
(* A small instance of ReviewGraph for TLC: a pull request of tests only,   *)
(* with more hunks than the pool has threads, one with a source and a test  *)
(* file, and one without code.  Both agents doubt some of their findings.   *)
EXTENDS ReviewGraph

CONSTANTS Hunks

MCReviewers == <<"security", "test-coverage">>

File(path, language, hunks, test) ==
  [path |-> path, language |-> language, hunks |-> hunks, test |-> test]

MCPullRequests ==
  {<<File("b", "python", Hunks, TRUE)>>,
   <<File("a", "python", 1, FALSE), File("b", "python", 1, TRUE)>>,
   <<File("c", "markdown", 2, FALSE)>>}

Found(a, path, severity, confidence) ==
  [file |-> path, line |-> 1, severity |-> severity, category |-> a, confidence |-> confidence]

MCFinding ==
  {Found(a, path, severity, confidence) :
     a \in Agents, path \in {"a", "b"}, severity \in Severities, confidence \in 1 .. 3}

\* A doubtful blocker or warning, then a confident finding of the same place.
MCAnswer(a, path) ==
  CASE a = "security" -> {<<Found(a, path, "blocker", 1), Found(a, path, "warning", 2)>>}
    [] a = "test-coverage" -> {<<Found(a, path, "nit", 1)>>, <<Found(a, path, "warning", 2)>>}

\* Claude is surer of the finding and may call it a warning, or doubts it as well.
MCRefined(f) ==
  {[f EXCEPT !.confidence = 3, !.severity = "warning"], [f EXCEPT !.confidence = 1]}
=============================================================================
