-------------------------- MODULE MCFindingsReport --------------------------
(* Small instances of FindingsReport for TLC: one file, a line and no line. *)
EXTENDS FindingsReport, SequencesExt

CONSTANTS MaxFindings, Categories

MCFinding ==
  [file : {"file"}, line : {NoLine, 1}, severity : Severities,
   category : Categories, confidence : {1, 2}]

MCInputs == BoundedSeq(MCFinding, MaxFindings)
=============================================================================
