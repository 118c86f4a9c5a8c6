------------------------------ MODULE MCStore ------------------------------
(***************************************************************************)
(* TLC instance of Store: two callers, a history of two runs that a third  *)
(* one overflows, and one midnight.                                        *)
(***************************************************************************)
EXTENDS Store, TLC

Symmetry == Permutations(Callers)
=============================================================================
