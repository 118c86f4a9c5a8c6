--------------------------- MODULE MCSpendLedger ---------------------------
(***************************************************************************)
(* TLC instance of SpendLedger: the prices of the code and two texts, with *)
(* free tiers that one run can cross.  A run uses what was estimated for   *)
(* the short text, or what the long one takes in instant mode, for which   *)
(* the estimate of the batch mode is low.                                  *)
(***************************************************************************)
EXTENDS Admission, Pricing, TLC

Short == Estimate(20, FALSE, TRUE)
Long(batch) == Estimate(60, batch, TRUE)

MCEstimates == {Short, Long(TRUE)}
MCUsages == {Short, Long(FALSE)}

Symmetry == Permutations(Runs)
=============================================================================
