---------------------------- MODULE MCAnalyzeRun ----------------------------
(***************************************************************************)
(* TLC instance of AnalyzeRun: two or three claims, whose goroutines       *)
(* interleave with each other, the handler and the deadline.               *)
(***************************************************************************)
EXTENDS AnalyzeRun
=============================================================================
