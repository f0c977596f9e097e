----------------------------- MODULE MCModelCalls -----------------------------
(* A small instance of ModelCalls for TLC.                                   *)
EXTENDS ModelCalls
=============================================================================
