--------------------------- MODULE MCInstallations ---------------------------
(* A small instance of Installations for TLC.  Ids, names and requests are   *)
(* not told apart by anything, so that states are equal up to a permutation. *)
EXTENDS Installations, TLC

Symmetry == Permutations(Ids) \cup Permutations(Names) \cup Permutations(Handlers)
=============================================================================
