--------------------------- MODULE MCHistoryPanel ---------------------------
(***************************************************************************)
(* TLC instance of HistoryPanel: two runs, so that one can be renamed or   *)
(* deleted while the other finishes.                                       *)
(***************************************************************************)
EXTENDS HistoryPanel, TLC

Symmetry == Permutations(Runs)
=============================================================================
