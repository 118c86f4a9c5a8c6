------------------------------ MODULE MCGather ------------------------------
(***************************************************************************)
(* TLC instance of Gather: two claims with one article and one query in    *)
(* common, an article of the first claim's own, and a paper.  The second   *)
(* claim shares terms with everything, and what it shares most with is     *)
(* hardly similar to it.                                                   *)
(***************************************************************************)
EXTENDS Gather, TLC

CONSTANTS c1, c2, shared, own, paper, query, x, y

MCWanted == c1 :> {shared, own} @@ c2 :> {shared}
MCAsked == c1 :> {query} @@ c2 :> {query}
MCClaimTerms == c1 :> (x :> 1) @@ c2 :> (x :> 1 @@ y :> 1)
MCTerms == shared :> (y :> 1) @@ own :> (x :> 1 @@ y :> 1) @@ paper :> (y :> 1)
MCSimilarity ==
    c1 :> (shared :> -20 @@ own :> -40 @@ paper :> 30) @@
    c2 :> (shared :> -10 @@ own :> 5 @@ paper :> 5)
=============================================================================
