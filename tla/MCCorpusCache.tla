--------------------------- MODULE MCCorpusCache ---------------------------
(***************************************************************************)
(* TLC instance of CorpusCache: three runs, so that a third reads what two *)
(* saves at a time have left, and a text that can change and change back.  *)
(***************************************************************************)
EXTENDS CorpusCache, TLC

Symmetry == Permutations(Runs)
=============================================================================
