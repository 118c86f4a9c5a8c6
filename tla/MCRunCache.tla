----------------------------- MODULE MCRunCache -----------------------------
(***************************************************************************)
(* TLC instance of RunCache: four goroutines on two keys, so that one key  *)
(* has a leader, waiters and a late caller while the other is in flight.   *)
(***************************************************************************)
EXTENDS RunCache
=============================================================================
