----------------------------- MODULE MCBatchJobs ----------------------------
(***************************************************************************)
(* TLC instance of BatchJobs: two jobs of two claims.  Two jobs, so that a *)
(* later save can put on disk a run whose own save failed.                 *)
(***************************************************************************)
EXTENDS BatchJobs
=============================================================================
