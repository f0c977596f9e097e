-------------------------- MODULE MCConventionsIndex --------------------------
(* A small instance of ConventionsIndex for TLC: the newer version of the    *)
(* repository has one chunk less.                                            *)
EXTENDS ConventionsIndex, TLC

MCShrinking == 0 :> 2 @@ 1 :> 1
=============================================================================
