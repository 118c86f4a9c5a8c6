------------------------------- MODULE MCPage -------------------------------
(***************************************************************************)
(* TLC instances of Page: a batch and an instant analysis for what a page  *)
(* does in the end, two batches for what the polling of the first does to  *)
(* the second.                                                             *)
(***************************************************************************)
EXTENDS Page
=============================================================================
