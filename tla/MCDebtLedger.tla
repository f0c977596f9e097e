----------------------------- MODULE MCDebtLedger -----------------------------
(* A small instance of DebtLedger for TLC: two saves share a file, and each  *)
(* delta tells which saves a score is made of.                               *)
EXTENDS DebtLedger, TLC

CONSTANTS s1, s2, a, b

MCChanged == s1 :> {a, b} @@ s2 :> {a}
MCDelta   == s1 :> [f \in Files |-> 1] @@ s2 :> [f \in Files |-> -3]
=============================================================================
