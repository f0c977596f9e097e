----------------------------- MODULE MCReviewJob -----------------------------
(* Small instances of ReviewJob for TLC.                                   *)
EXTENDS ReviewJob
=============================================================================
