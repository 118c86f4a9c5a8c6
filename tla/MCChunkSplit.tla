---------------------------- MODULE MCChunkSplit ----------------------------
(***************************************************************************)
(* TLC instance of ChunkSplit: every text of up to ten bytes.              *)
(***************************************************************************)
EXTENDS ChunkSplit
=============================================================================
