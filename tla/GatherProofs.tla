---------------------------- MODULE GatherProofs ----------------------------
(***************************************************************************)
(* Proofs about Gather and the ranking of Retrieval, for any claims,       *)
(* titles, queries and bags of terms: the longest copy kept is indexed, no *)
(* claim with a term in common goes back to the providers, and no better   *)
(* passage is left out.                                                    *)
(***************************************************************************)
EXTENDS Gather, SumTheorems

-----------------------------------------------------------------------------
(* Overlaps and scores. *)

LEMMA LexicalIsNat ==
    ASSUME NEW query, query \in [DOMAIN query -> Nat], IsFiniteSet(DOMAIN query),
           NEW terms, terms \in [DOMAIN terms -> Nat]
    PROVE  LexicalScore(query, terms) \in Nat
<1> DEFINE w == Weights(query, terms)
<1>1. IsFiniteSet(DOMAIN w)
  <2>1. DOMAIN w \subseteq DOMAIN query
    BY DEF Weights
  <2> QED
    BY <2>1, FS_Subset
<1>2. \A t \in DOMAIN w : w[t] \in Nat
  BY DEF Weights
<1>3. LexicalScore(query, terms) = Sum(w, DOMAIN w)
  BY DEF LexicalScore, Sum
<1> DEFINE D == DOMAIN w
<1>4. IsFiniteSet(D) /\ \A t \in D : w[t] \in Nat
  BY <1>1, <1>2
<1> HIDE DEF w, D
<1>5. Sum(w, D) \in Nat
  BY <1>4, SumOfPicked
<1> QED
  BY <1>3, <1>5 DEF D

\* A shared term gives a score above zero, whatever the vectors say.
LEMMA ScoreOfShared ==
    ASSUME NEW lex \in Nat, NEW sem \in -99..99
    PROVE  /\ Score(lex, sem) \in Int
           /\ lex > 0 => Score(lex, sem) > 0
BY DEF Score

\* What has more terms in common and is no less similar scores more, unless
\* the vectors speak for it alone.
LEMMA ScoreOfBetter ==
    ASSUME NEW lex1 \in Nat, NEW lex2 \in Nat, NEW sem1 \in -99..99, NEW sem2 \in -99..99,
           lex2 > lex1, sem2 >= sem1,
           Score(lex1, sem1) >= Score(lex2, sem2)
    PROVE  sem1 <= 0 /\ sem2 > 0
<1>1. CASE sem1 > 0
  <2>1. Score(lex2, sem2) = 55 * sem2 + 4500 * lex2
    BY <1>1 DEF Score
  <2>2. CASE lex1 = 0
    <3>1. Score(lex1, sem1) = 100 * sem1
      BY <1>1, <2>2 DEF Score
    <3> QED
      BY <1>1, <2>1, <3>1
  <2>3. CASE lex1 > 0
    <3>1. Score(lex1, sem1) = 55 * sem1 + 4500 * lex1
      BY <1>1, <2>3 DEF Score
    <3> QED
      BY <1>1, <2>1, <3>1
  <2> QED
    BY <2>2, <2>3
<1>2. CASE sem2 <= 0
  <2>1. Score(lex2, sem2) = 10000 * lex2 /\ Score(lex1, sem1) = 10000 * lex1
    BY <1>2 DEF Score
  <2> QED
    BY <2>1
<1> QED
  BY <1>1, <1>2

\* Nothing is returned only if nothing scores.
LEMMA BestIsEmpty ==
    ASSUME NEW P, IsFiniteSet(P), NEW score, \A p \in P : score[p] \in Int,
           {} \in Best(P, score)
    PROVE  \A p \in P : score[p] <= 0
<1> DEFINE scoring == {p \in P : score[p] > 0}
<1>1. IsFiniteSet(scoring)
  BY FS_Subset
<1>2. Cardinality(scoring) \in Nat
  BY <1>1, FS_CardinalityType
<1>3. Cardinality({}) = 0
  BY FS_EmptySet
<1>4. Cardinality({}) = IF Cardinality(scoring) < TopK THEN Cardinality(scoring) ELSE TopK
  BY DEF Best
<1>5. Cardinality(scoring) = 0
  <2> HIDE DEF scoring
  <2> QED
    BY <1>2, <1>3, <1>4, RetrievalAssumption
<1>6. scoring = {}
  BY <1>1, <1>5, FS_EmptySet
<1> QED
  BY <1>6

\* What is returned scores, and no less than what scores and is left out.
LEMMA BestIsBest ==
    ASSUME NEW P, NEW score, NEW best \in Best(P, score)
    PROVE  /\ best \subseteq P
           /\ \A p \in best : score[p] > 0
           /\ \A p \in best, q \in P \ best : score[q] > 0 => score[p] >= score[q]
BY DEF Best

\* The scores of the indexed passages.
LEMMA IndexScores ==
    ASSUME TypeOK, NEW c \in Claims, NEW embedded \in BOOLEAN, NEW s \in index
    PROVE  /\ Overlap(c, s) \in Nat
           /\ ScoreFor(c, embedded)[s] =
                 Score(Overlap(c, s), IF embedded THEN Similarity[c][s[1]] ELSE 0)
           /\ (IF embedded THEN Similarity[c][s[1]] ELSE 0) \in -99..99
           /\ ScoreFor(c, embedded)[s] \in Int
<1>1. s[1] \in URLs
  BY DEF TypeOK, Sources
<1>2. Overlap(c, s) \in Nat
  <2>1. /\ ClaimTerms[c] \in [DOMAIN ClaimTerms[c] -> Nat]
        /\ IsFiniteSet(DOMAIN ClaimTerms[c])
        /\ Terms[s[1]] \in [DOMAIN Terms[s[1]] -> Nat]
    BY <1>1, GatherAssumption
  <2> QED
    BY <2>1, LexicalIsNat DEF Overlap
<1>3. (IF embedded THEN Similarity[c][s[1]] ELSE 0) \in -99..99
  BY <1>1, GatherAssumption
<1>4. ScoreFor(c, embedded)[s] =
         Score(Overlap(c, s), IF embedded THEN Similarity[c][s[1]] ELSE 0)
  BY DEF ScoreFor
<1> QED
  BY <1>2, <1>3, <1>4, ScoreOfShared

LEMMA IndexIsFinite ==
    ASSUME TypeOK
    PROVE  IsFiniteSet(index)
<1>1. IsFiniteSet(URLs) /\ IsFiniteSet(0..MaxBody)
  <2>1. 0 \in Int /\ MaxBody \in Int
    BY GatherAssumption
  <2> QED
    BY <2>1, FS_Interval, GatherAssumption
<1>2. IsFiniteSet(Sources)
  BY <1>1, FS_Product DEF Sources
<1> QED
  BY <1>2, FS_Subset DEF TypeOK

-----------------------------------------------------------------------------
(* The steps of FetchAll preserve the invariant. *)

\* What the four parts say beside the types.
Parts == FoundInv /\ LongestInv /\ IndexInv /\ RankInv

LEMMA InitSourcesInv == Init => SourcesInv
<1> SUFFICES ASSUME Init
             PROVE  SourcesInv
  OBVIOUS
<1>1. \A c \in Claims : ~Kept(c) /\ ~Over(c)
  BY DEF Init, Kept, Over
<1>2. TypeOK
  <2>1. 0 \in 0..MaxBody
    BY GatherAssumption
  <2>2. RunCache!Init
    BY DEF Init
  <2>3. /\ memo \in [Keys -> PaperSets \cup {NoEntry}]
        /\ answer \in [Queries -> (Keys \X PaperSets) \cup {NoEntry}]
    BY <2>2 DEF RunCache!Init
  <2>4. articles \in [Titles -> 0..MaxBody] /\ byURL \in [URLs -> 0..MaxBody]
    BY <2>1 DEF Init
  <2>5. /\ todo \in [Claims -> SUBSET Titles] /\ toFetch \in [Claims -> SUBSET Titles]
        /\ fetches \in [Titles -> Nat]
    BY GatherAssumption DEF Init
  <2> QED
    BY <2>3, <2>4, <2>5 DEF Init, TypeOK, Places
<1>3. FoundInv
  BY <1>1 DEF Init, FoundInv
<1>4. LongestInv
  BY DEF Init, LongestInv
<1>5. IndexInv /\ RankInv
  BY <1>1 DEF Init, IndexInv, RankInv
<1> QED
  BY <1>2, <1>3, <1>4, <1>5 DEF SourcesInv

LEMMA ScoresSame ==
    ASSUME index' = index
    PROVE  \A c, e : ScoreFor(c, e)' = ScoreFor(c, e)
BY DEF ScoreFor, Overlap

\* A claim that is still gathering may find what it likes: nothing of it is
\* merged, and the index is not made before it has merged.
LEMMA GatheringFrame ==
    ASSUME Parts, NEW c \in Claims, ~Kept(c), ~Kept(c)',
           UNCHANGED <<merged, byURL, index, ready, passages>>,
           \A d \in Claims \ {c} :
               /\ pc'[d] = pc[d] /\ found'[d] = found[d]
               /\ \A k \in Asked[d] : answer'[<<d, k>>] = answer[<<d, k>>]
    PROVE  Parts'
<1>1. \A d \in Claims \ {c} : (Kept(d)' <=> Kept(d)) /\ (Over(d)' <=> Over(d))
  BY DEF Kept, Over
<1>2. ~Over(c) /\ ~Over(c)'
  BY DEF Over
<1>3. FoundInv'
  BY <1>1, <1>2 DEF Parts, FoundInv
<1>4. LongestInv'
  BY DEF Parts, LongestInv
<1>5. IndexInv'
  <2>1. ~ready
    BY <1>2 DEF Parts, IndexInv
  <2>2. \A d \in Claims : Over(d)' /\ pc'[d] # "merged" => Over(d) /\ pc[d] # "merged"
    BY <1>1, <1>2
  <2> QED
    BY <2>1, <2>2 DEF Parts, IndexInv
<1>6. RankInv'
  <2>1. \A d \in Claims : Over(d)' => Over(d) /\ pc'[d] = pc[d]
    BY <1>1, <1>2
  <2> QED
    BY <2>1, ScoresSame DEF Parts, RankInv
<1> QED
  BY <1>3, <1>4, <1>5, <1>6 DEF Parts

LEMMA LookUpInv ==
    ASSUME SourcesInv, NEW c \in Claims, NEW t \in Titles, LookUp(c, t)
    PROVE  SourcesInv'
<1> USE DEF LookUp
<1>1. TypeOK /\ Parts
  BY DEF SourcesInv, Parts
<1>2. ~Kept(c) /\ ~Kept(c)'
  BY DEF Kept, At
<1>3. TypeOK'
  <2>1. todo' \in [Claims -> SUBSET Titles]
    BY <1>1 DEF TypeOK
  <2>2. CASE articles[t] > 0
    <3>1. <<t, articles[t]>> \in Sources
      BY <1>1, <2>2 DEF TypeOK, Sources, URLs
    <3>2. /\ found' = [found EXCEPT ![c] = @ \cup {<<t, articles[t]>>}]
          /\ merged' = merged
      BY <2>2
    <3>3. found' \in [Claims -> SUBSET Sources]
      BY <1>1, <3>1, <3>2 DEF TypeOK
    <3>4. \A d \in Claims : merged'[d] \subseteq found'[d]
      BY <1>1, <3>2 DEF TypeOK
    <3> QED
      BY <1>1, <2>1, <2>2, <3>3, <3>4 DEF TypeOK, queries, done
  <2>3. CASE ~(articles[t] > 0)
    BY <1>1, <2>1, <2>3 DEF TypeOK, queries, done
  <2> QED
    BY <2>2, <2>3
<1>4. Parts'
  <2>1. \A d \in Claims \ {c} : found'[d] = found[d]
    BY <1>1 DEF TypeOK
  <2>2. UNCHANGED <<pc, merged, byURL, index, ready, passages, answer>>
    BY DEF done, queries
  <2> HIDE DEF LookUp
  <2> QED
    BY <1>1, <1>2, <2>1, <2>2, GatheringFrame
<1> QED
  BY <1>3, <1>4 DEF SourcesInv, Parts

\* Requests, replies and the way to the filter find nothing.
LEMMA RequestInv ==
    ASSUME SourcesInv, NEW c \in Claims,
           AllCached(c) \/ Request(c) \/ Reply(c) \/ AllStored(c)
    PROVE  SourcesInv'
<1> USE DEF AllCached, Request, Reply, AllStored, Goto
<1>1. TypeOK /\ Parts
  BY DEF SourcesInv, Parts
<1>2. /\ UNCHANGED <<todo, toFetch, found, merged, articles, queries, byURL, done>>
      /\ pc[c] \in {"lookup", "request", "store"}
      /\ \E to \in {"request", "store", "filter"} : pc' = [pc EXCEPT ![c] = to]
  BY DEF claimVars
<1>3. ~Kept(c) /\ ~Kept(c)'
  BY <1>1, <1>2 DEF Kept, TypeOK
<1>4. TypeOK'
  <2>1. pc' \in [Claims -> Places]
    BY <1>1, <1>2 DEF TypeOK, Places
  <2>2. reply' \in [Claims -> SUBSET Articles] /\ fetches' \in [Titles -> Nat]
    <3>1. CASE Request(c)
      BY <1>1, <3>1 DEF TypeOK, claimVars
    <3>2. CASE Reply(c)
      <4>1. PICK body \in [toFetch[c] -> 0..MaxBody] :
               reply' = [reply EXCEPT ![c] =
                            {<<t, body[t]>> : t \in {u \in toFetch[c] : body[u] > 0}}]
        BY <3>2
      <4>2. toFetch[c] \subseteq Titles
        BY <1>1 DEF TypeOK
      <4>3. {<<t, body[t]>> : t \in {u \in toFetch[c] : body[u] > 0}} \subseteq Articles
        BY <4>2 DEF Articles
      <4> QED
        BY <1>1, <3>2, <4>1, <4>3 DEF TypeOK
    <3>3. CASE AllCached(c) \/ AllStored(c)
      BY <1>1, <3>3 DEF TypeOK, claimVars
    <3> QED
      BY <3>1, <3>2, <3>3
  <2> QED
    BY <1>1, <1>2, <2>1, <2>2 DEF TypeOK, queries, done
<1>5. Parts'
  <2>1. \A d \in Claims \ {c} : pc'[d] = pc[d]
    BY <1>1, <1>2 DEF TypeOK
  <2>2. UNCHANGED <<found, merged, byURL, index, ready, passages, answer>>
    BY <1>2 DEF done, queries
  <2> HIDE DEF AllCached, Request, Reply, AllStored
  <2> QED
    BY <1>1, <1>3, <2>1, <2>2, GatheringFrame
<1> QED
  BY <1>4, <1>5 DEF SourcesInv, Parts

LEMMA StoreArticleInv ==
    ASSUME SourcesInv, NEW c \in Claims, NEW s \in Articles, Store(c, s)
    PROVE  SourcesInv'
<1> USE DEF Store
<1>1. TypeOK /\ Parts
  BY DEF SourcesInv, Parts
<1>2. ~Kept(c) /\ ~Kept(c)'
  BY DEF Kept, At
<1>3. s[1] \in Titles /\ s[2] \in 0..MaxBody /\ s \in Sources
  BY GatherAssumption DEF Articles, Sources, URLs
<1>4. TypeOK'
  <2>1. articles' \in [Titles -> 0..MaxBody]
    BY <1>1, <1>3 DEF TypeOK, storeWikiArticle
  <2>2. /\ found' \in [Claims -> SUBSET Sources]
        /\ \A d \in Claims : merged'[d] \subseteq found'[d]
    BY <1>1, <1>3 DEF TypeOK
  <2>3. reply' \in [Claims -> SUBSET Articles]
    BY <1>1 DEF TypeOK
  <2> QED
    BY <1>1, <2>1, <2>2, <2>3 DEF TypeOK, queries, done
<1>5. Parts'
  <2>1. \A d \in Claims \ {c} : found'[d] = found[d]
    BY <1>1 DEF TypeOK
  <2>2. UNCHANGED <<pc, merged, byURL, index, ready, passages, answer>>
    BY DEF done, queries
  <2> HIDE DEF Store
  <2> QED
    BY <1>1, <1>2, <2>1, <2>2, GatheringFrame
<1> QED
  BY <1>4, <1>5 DEF SourcesInv, Parts

\* A query that has not been answered belongs to a claim that is gathering.
LEMMA QueryInv ==
    ASSUME SourcesInv, NEW c \in Claims, NEW k \in Keys, Query(c, k)
    PROVE  SourcesInv'
<1>1. TypeOK /\ Parts
  BY DEF SourcesInv, Parts
<1>2. PICK papers \in PaperSets :
         /\ RunCache!Answer(<<c, k>>, k, papers)
         /\ found' = [found EXCEPT ![c] = @ \cup papers]
  BY DEF Query
<1>3. /\ <<c, k>> \in Queries /\ k \in Asked[c]
      /\ UNCHANGED <<pc, todo, toFetch, reply, merged, articles, byURL, fetches, done>>
  BY DEF Query, Queries
<1>4. /\ answer[<<c, k>>] = NoEntry
      /\ memo' = [memo EXCEPT ![k] = papers]
      /\ answer' = [answer EXCEPT ![<<c, k>>] = <<k, papers>>]
  BY <1>2 DEF RunCache!Answer
<1>5. ~Kept(c)
  BY <1>1, <1>3, <1>4 DEF Parts, FoundInv
<1>6. ~Kept(c)'
  BY <1>3, <1>5 DEF Kept
<1>7. TypeOK'
  <2>1. papers \subseteq Sources
    BY DEF PaperSets, Sources, URLs
  <2>2. /\ found' \in [Claims -> SUBSET Sources]
        /\ \A d \in Claims : merged'[d] \subseteq found'[d]
    BY <1>1, <1>2, <1>3, <2>1 DEF TypeOK
  <2>3. /\ memo' \in [Keys -> PaperSets \cup {NoEntry}]
        /\ answer' \in [Queries -> (Keys \X PaperSets) \cup {NoEntry}]
    BY <1>1, <1>3, <1>4 DEF TypeOK
  <2> QED
    BY <1>1, <1>3, <2>2, <2>3 DEF TypeOK, done
<1>8. Parts'
  <2>1. \A d \in Claims \ {c} : found'[d] = found[d] /\ pc'[d] = pc[d]
    BY <1>1, <1>2, <1>3 DEF TypeOK
  <2>2. ASSUME NEW d \in Claims \ {c}, NEW q \in Asked[d]
        PROVE  answer'[<<d, q>>] = answer[<<d, q>>]
    <3>1. q \in Keys
      BY GatherAssumption
    <3>2. <<d, q>> \in Queries /\ <<d, q>> # <<c, k>>
      BY <3>1 DEF Queries
    <3> QED
      BY <1>1, <1>4, <3>2 DEF TypeOK
  <2>3. UNCHANGED <<merged, byURL, index, ready, passages>>
    BY <1>3 DEF done
  <2> QED
    BY <1>1, <1>5, <1>6, <2>1, <2>2, <2>3, GatheringFrame
<1> QED
  BY <1>7, <1>8 DEF SourcesInv, Parts

-----------------------------------------------------------------------------
(* So do filter, merge and index. *)

LEMMA FilterInv ==
    ASSUME SourcesInv, NEW c \in Claims, Filter(c)
    PROVE  SourcesInv'
<1> USE DEF Filter, Goto
<1>1. TypeOK /\ Parts
  BY DEF SourcesInv, Parts
<1>2. /\ UNCHANGED <<todo, toFetch, reply, merged, articles, queries, byURL, fetches, done>>
      /\ pc[c] = "filter" /\ pc' = [pc EXCEPT ![c] = "merge"]
      /\ \A k \in Asked[c] : answer[<<c, k>>] # NoEntry
  OBVIOUS
<1>3. PICK kept \in SUBSET found[c] : found' = [found EXCEPT ![c] = kept]
  OBVIOUS
<1> HIDE DEF Filter
<1>4. /\ Kept(c)' /\ ~Over(c)' /\ ~Kept(c) /\ ~Over(c)
      /\ \A d \in Claims \ {c} : (Kept(d)' <=> Kept(d)) /\ (Over(d)' <=> Over(d))
      /\ \A d \in Claims \ {c} : pc'[d] = pc[d] /\ found'[d] = found[d]
  BY <1>1, <1>2, <1>3 DEF Kept, Over, TypeOK
<1>5. merged[c] = {}
  BY <1>1, <1>4 DEF Parts, FoundInv
<1>6. TypeOK'
  <2>1. /\ found' \in [Claims -> SUBSET Sources]
        /\ \A d \in Claims : merged'[d] \subseteq found'[d]
    BY <1>1, <1>2, <1>3, <1>5 DEF TypeOK
  <2>2. pc' \in [Claims -> Places]
    BY <1>1, <1>2 DEF TypeOK, Places
  <2> QED
    BY <1>1, <1>2, <2>1, <2>2 DEF TypeOK, queries, done
<1>7. FoundInv'
  BY <1>1, <1>2, <1>4 DEF Parts, FoundInv, queries
<1>8. LongestInv'
  BY <1>1, <1>2 DEF Parts, LongestInv
<1>9. IndexInv'
  BY <1>1, <1>2, <1>4 DEF Parts, IndexInv, done
<1>10. RankInv'
  BY <1>1, <1>2, <1>4, ScoresSame DEF Parts, RankInv, done
<1> QED
  BY <1>6, <1>7, <1>8, <1>9, <1>10 DEF SourcesInv

\* The longer body wins: byURL stays the longest of what is merged.
LEMMA MergeInv ==
    ASSUME SourcesInv, NEW c \in Claims, NEW s \in Sources, Merge(c, s)
    PROVE  SourcesInv'
<1> USE DEF Merge, At
<1>1. TypeOK /\ Parts
  BY DEF SourcesInv, Parts
<1>2. /\ UNCHANGED <<pc, claimVars, articles, queries, fetches, done>>
      /\ s \in found[c] /\ Kept(c) /\ ~Over(c)
  BY DEF Kept, Over
<1>3. \A d \in Claims : (Kept(d)' <=> Kept(d)) /\ (Over(d)' <=> Over(d))
  BY <1>2 DEF Kept, Over
<1>4. PICK u \in URLs, l \in 0..MaxBody : s = <<u, l>>
  BY DEF Sources
<1>5. /\ byURL' = [byURL EXCEPT ![u] = IF l > byURL[u] THEN l ELSE byURL[u]]
      /\ merged' = [merged EXCEPT ![c] = @ \cup {s}]
  BY <1>4 DEF Longest
<1> HIDE DEF Merge
<1>6. byURL \in [URLs -> 0..MaxBody] /\ merged[c] \subseteq Sources
  BY <1>1 DEF TypeOK
<1>7. byURL' \in [URLs -> 0..MaxBody] /\ \A v \in URLs : byURL'[v] >= byURL[v]
  BY <1>5, <1>6, GatherAssumption
<1>8. \A d \in Claims : merged'[d] = IF d = c THEN merged[d] \cup {s} ELSE merged[d]
  <2>1. DOMAIN merged = Claims
    BY <1>1 DEF TypeOK
  <2> QED
    BY <1>5, <2>1
<1>9. TypeOK'
  <2>1. \A d \in Claims : merged'[d] \subseteq found'[d]
    BY <1>1, <1>2, <1>8 DEF TypeOK, claimVars
  <2>2. merged' \in [Claims -> SUBSET Sources]
    BY <1>1, <1>5 DEF TypeOK
  <2> QED
    BY <1>1, <1>2, <1>7, <2>1, <2>2 DEF TypeOK, claimVars, queries, done
<1>10. FoundInv'
  BY <1>1, <1>2, <1>3, <1>8 DEF Parts, FoundInv, claimVars, queries
<1>11. LongestInv'
  <2>1. ASSUME NEW d \in Claims, NEW r \in merged'[d]
        PROVE  r[2] <= byURL'[r[1]]
    <3>1. CASE r \in merged[d]
      <4>1. r[1] \in URLs /\ r[2] \in 0..MaxBody
        BY <1>1, <3>1 DEF TypeOK, Sources
      <4>2. r[2] <= byURL[r[1]]
        BY <1>1, <3>1 DEF Parts, LongestInv
      <4>3. byURL[r[1]] \in 0..MaxBody /\ byURL'[r[1]] \in 0..MaxBody
        BY <1>6, <1>7, <4>1
      <4> QED
        BY <1>7, <4>1, <4>2, <4>3, GatherAssumption
    <3>2. CASE r = s
      BY <1>4, <1>5, <1>6, <3>2, GatherAssumption
    <3> QED
      BY <1>8, <3>1, <3>2
  <2>2. ASSUME NEW v \in URLs, byURL'[v] > 0
        PROVE  \E d \in Claims : <<v, byURL'[v]>> \in merged'[d]
    <3>1. CASE byURL'[v] = byURL[v]
      <4>1. PICK d \in Claims : <<v, byURL[v]>> \in merged[d]
        BY <1>1, <2>2, <3>1 DEF Parts, LongestInv
      <4> QED
        BY <1>8, <3>1, <4>1
    <3>2. CASE byURL'[v] # byURL[v]
      <4>1. v = u /\ byURL'[v] = l
        BY <1>5, <1>6, <3>2
      <4> QED
        BY <1>4, <1>8, <4>1
    <3> QED
      BY <3>1, <3>2
  <2> QED
    BY <2>1, <2>2 DEF LongestInv
<1>12. IndexInv'
  <2>1. ~ready
    BY <1>1, <1>2 DEF Parts, IndexInv
  <2> QED
    BY <1>1, <1>2, <1>3, <2>1 DEF Parts, IndexInv, done
<1>13. RankInv'
  BY <1>1, <1>2, <1>3, ScoresSame DEF Parts, RankInv, done
<1> QED
  BY <1>9, <1>10, <1>11, <1>12, <1>13 DEF SourcesInv

LEMMA AllMergedInv ==
    ASSUME SourcesInv, NEW c \in Claims, AllMerged(c)
    PROVE  SourcesInv'
<1> USE DEF AllMerged, Goto
<1>1. TypeOK /\ Parts
  BY DEF SourcesInv, Parts
<1>2. /\ UNCHANGED <<claimVars, merged, articles, queries, byURL, fetches, done>>
      /\ merged[c] = found[c]
      /\ pc[c] = "merge" /\ pc' = [pc EXCEPT ![c] = "merged"]
  OBVIOUS
<1> HIDE DEF AllMerged
<1>3. /\ Kept(c)' /\ Over(c)' /\ Kept(c) /\ ~Over(c) /\ pc'[c] = "merged"
      /\ \A d \in Claims \ {c} : (Kept(d)' <=> Kept(d)) /\ (Over(d)' <=> Over(d))
      /\ \A d \in Claims \ {c} : pc'[d] = pc[d]
  BY <1>1, <1>2 DEF Kept, Over, TypeOK
<1>4. TypeOK'
  <2>1. pc' \in [Claims -> Places]
    BY <1>1, <1>2 DEF TypeOK, Places
  <2> QED
    BY <1>1, <1>2, <2>1 DEF TypeOK, claimVars, queries, done
<1>5. FoundInv'
  BY <1>1, <1>2, <1>3 DEF Parts, FoundInv, claimVars, queries
<1>6. LongestInv'
  BY <1>1, <1>2 DEF Parts, LongestInv
<1>7. IndexInv'
  BY <1>1, <1>2, <1>3 DEF Parts, IndexInv, done
<1>8. RankInv'
  BY <1>1, <1>2, <1>3, ScoresSame DEF Parts, RankInv, done
<1> QED
  BY <1>4, <1>5, <1>6, <1>7, <1>8 DEF SourcesInv

\* The index is made once, before any claim retrieves.
LEMMA IndexStepInv ==
    ASSUME SourcesInv, Index
    PROVE  SourcesInv'
<1> USE DEF Index, At
<1>1. TypeOK /\ Parts
  BY DEF SourcesInv, Parts
<1>2. /\ UNCHANGED <<pc, claimVars, merged, articles, queries, byURL, fetches, passages>>
      /\ \A c \in Claims : pc[c] = "merged"
      /\ ready' = TRUE
      /\ index' = {s \in Sources : s[2] = byURL[s[1]] /\ s[2] >= MinBody}
  OBVIOUS
<1> HIDE DEF Index
<1>3. \A c \in Claims : Over(c)' /\ (Kept(c)' <=> Kept(c)) /\ (Over(c)' <=> Over(c))
  BY <1>2 DEF Kept, Over
<1>4. TypeOK'
  BY <1>1, <1>2 DEF TypeOK, claimVars, queries
<1>5. FoundInv'
  BY <1>1, <1>2, <1>3 DEF Parts, FoundInv, claimVars, queries
<1>6. LongestInv'
  BY <1>1, <1>2 DEF Parts, LongestInv
<1>7. IndexInv'
  BY <1>2, <1>3 DEF IndexInv
<1>8. RankInv'
  BY <1>2 DEF RankInv
<1> QED
  BY <1>4, <1>5, <1>6, <1>7, <1>8 DEF SourcesInv

LEMMA RetrieveInv ==
    ASSUME SourcesInv, NEW c \in Claims, Retrieve(c)
    PROVE  SourcesInv'
<1>1. TypeOK /\ Parts
  BY DEF SourcesInv, Parts
<1>2. PICK embedded \in BOOLEAN : \E b \in Best(index, ScoreFor(c, embedded)) :
         /\ Goto(c, "merged", IF b = {} THEN "refetch" ELSE "retrieved")
         /\ passages' = [passages EXCEPT ![c] = b]
  BY DEF Retrieve
<1>3. PICK best \in Best(index, ScoreFor(c, embedded)) :
         /\ Goto(c, "merged", IF best = {} THEN "refetch" ELSE "retrieved")
         /\ passages' = [passages EXCEPT ![c] = best]
  BY <1>2
<1>4. /\ UNCHANGED <<claimVars, merged, articles, queries, byURL, fetches, index, ready>>
      /\ ready
  BY DEF Retrieve
<1>5. /\ pc[c] = "merged" /\ pc'[c] = IF best = {} THEN "refetch" ELSE "retrieved"
      /\ Kept(c)' /\ Over(c)' /\ Kept(c) /\ Over(c)
      /\ \A d \in Claims \ {c} : pc'[d] = pc[d] /\ passages'[d] = passages[d]
      /\ passages'[c] = best
  BY <1>1, <1>3 DEF Goto, Kept, Over, TypeOK
<1>6. \A d \in Claims : (Kept(d)' <=> Kept(d)) /\ (Over(d)' <=> Over(d))
  BY <1>5 DEF Kept, Over
<1>7. TypeOK'
  <2>1. pc' \in [Claims -> Places]
    BY <1>1, <1>3 DEF TypeOK, Places, Goto
  <2>2. best \subseteq Sources
    BY <1>1, BestIsBest DEF TypeOK
  <2>3. passages' \in [Claims -> SUBSET Sources]
    BY <1>1, <1>3, <2>2 DEF TypeOK
  <2> QED
    BY <1>1, <1>4, <2>1, <2>3 DEF TypeOK, claimVars, queries
<1>8. FoundInv'
  BY <1>1, <1>4, <1>6 DEF Parts, FoundInv, claimVars, queries
<1>9. LongestInv'
  BY <1>1, <1>4 DEF Parts, LongestInv
<1>10. IndexInv'
  BY <1>1, <1>4, <1>5, <1>6 DEF Parts, IndexInv
<1>11. RankInv'
  <2>1. \A d, e : ScoreFor(d, e)' = ScoreFor(d, e)
    BY <1>4, ScoresSame
  <2>2. ASSUME NEW d \in Claims, Over(d)', pc'[d] # "merged"
        PROVE  /\ \E e \in BOOLEAN : passages'[d] \in Best(index', ScoreFor(d, e)')
               /\ pc'[d] # "retrieved" => passages'[d] = {}
    <3>1. CASE d = c
      BY <1>4, <1>5, <2>1, <3>1
    <3>2. CASE d # c
      BY <1>1, <1>4, <1>5, <1>6, <2>1, <2>2, <3>2 DEF Parts, RankInv
    <3> QED
      BY <3>1, <3>2
  <2> QED
    BY <2>2 DEF RankInv
<1> QED
  BY <1>7, <1>8, <1>9, <1>10, <1>11 DEF SourcesInv

LEMMA RefetchInv ==
    ASSUME SourcesInv, NEW c \in Claims, Refetch(c)
    PROVE  SourcesInv'
<1> USE DEF Refetch, Goto
<1>1. TypeOK /\ Parts
  BY DEF SourcesInv, Parts
<1>2. /\ UNCHANGED <<claimVars, merged, articles, queries, byURL, done>>
      /\ fetches' = [t \in Titles |-> fetches[t] + IF t \in Wanted[c] THEN 1 ELSE 0]
      /\ pc[c] = "refetch" /\ pc' = [pc EXCEPT ![c] = "refetched"]
  OBVIOUS
<1> HIDE DEF Refetch
<1>3. /\ pc'[c] = "refetched" /\ \A d \in Claims \ {c} : pc'[d] = pc[d]
      /\ \A d \in Claims : (Kept(d)' <=> Kept(d)) /\ (Over(d)' <=> Over(d))
  BY <1>1, <1>2 DEF Kept, Over, TypeOK
<1>4. TypeOK'
  <2>1. pc' \in [Claims -> Places]
    BY <1>1, <1>2 DEF TypeOK, Places
  <2>2. fetches' \in [Titles -> Nat]
    BY <1>1, <1>2 DEF TypeOK
  <2> QED
    BY <1>1, <1>2, <2>1, <2>2 DEF TypeOK, claimVars, queries, done
<1>5. FoundInv'
  BY <1>1, <1>2, <1>3 DEF Parts, FoundInv, claimVars, queries
<1>6. LongestInv'
  BY <1>1, <1>2 DEF Parts, LongestInv
<1>7. IndexInv'
  BY <1>1, <1>2, <1>3 DEF Parts, IndexInv, done
<1>8. RankInv'
  <2>1. \A d, e : ScoreFor(d, e)' = ScoreFor(d, e)
    BY <1>2, ScoresSame DEF done
  <2>2. \A d \in Claims : Over(d)' /\ pc'[d] # "merged" => Over(d) /\ pc[d] # "merged"
    BY <1>2, <1>3
  <2>3. \A d \in Claims : pc'[d] # "retrieved" => pc[d] # "retrieved"
    BY <1>2, <1>3
  <2> QED
    BY <1>1, <1>2, <2>1, <2>2, <2>3 DEF Parts, RankInv, done
<1> QED
  BY <1>4, <1>5, <1>6, <1>7, <1>8 DEF SourcesInv

LEMMA StutterInv ==
    ASSUME SourcesInv, UNCHANGED vars
    PROVE  SourcesInv'
<1>1. TypeOK /\ Parts
  BY DEF SourcesInv, Parts
<1>2. UNCHANGED <<pc, claimVars, merged, articles, queries, byURL, fetches, done>>
  BY DEF vars
<1>3. \A d \in Claims : (Kept(d)' <=> Kept(d)) /\ (Over(d)' <=> Over(d))
  BY <1>2 DEF Kept, Over
<1>4. TypeOK'
  BY <1>1, <1>2 DEF TypeOK, claimVars, queries, done
<1>5. FoundInv' /\ LongestInv' /\ IndexInv'
  BY <1>1, <1>2, <1>3 DEF Parts, FoundInv, LongestInv, IndexInv, claimVars, queries, done
<1>6. RankInv'
  BY <1>1, <1>2, <1>3, ScoresSame DEF Parts, RankInv, done
<1> QED
  BY <1>4, <1>5, <1>6 DEF SourcesInv

-----------------------------------------------------------------------------
(* What the invariant gives. *)

\* What byURL holds when every claim has merged is what was indexed, and it
\* is the longest copy of each source.
LEMMA LongestOfInv == SourcesInv => LongestIsIndexed
<1> SUFFICES ASSUME SourcesInv, ready
             PROVE  index = {s \in Gathered : s[2] >= MinBody
                                /\ \A r \in Gathered : r[1] = s[1] => r[2] <= s[2]}
  BY DEF LongestIsIndexed
<1>1. TypeOK /\ LongestInv
  BY DEF SourcesInv
<1>2. index = {s \in Sources : s[2] = byURL[s[1]] /\ s[2] >= MinBody}
  BY DEF SourcesInv, IndexInv
<1>3. \A c \in Claims : merged[c] = found[c] /\ merged[c] \subseteq Sources
  BY <1>1 DEF SourcesInv, IndexInv, FoundInv, TypeOK
<1>4. Gathered \subseteq Sources
  BY <1>3 DEF Gathered
<1>5. \A r \in Gathered : r[2] <= byURL[r[1]]
  BY <1>1, <1>3 DEF Gathered, LongestInv
<1>6. \A u \in URLs : byURL[u] > 0 => <<u, byURL[u]>> \in Gathered
  BY <1>1, <1>3 DEF Gathered, LongestInv
<1>7. ASSUME NEW s \in index
      PROVE  /\ s \in Gathered /\ s[2] >= MinBody
             /\ \A r \in Gathered : r[1] = s[1] => r[2] <= s[2]
  <2>1. PICK u \in URLs, l \in 0..MaxBody : s = <<u, l>>
    BY <1>2 DEF Sources
  <2>2. byURL[u] = l /\ l >= MinBody
    BY <1>2, <2>1
  <2>3. <<u, l>> \in Gathered
    BY <1>6, <2>1, <2>2, GatherAssumption
  <2> QED
    BY <1>5, <2>1, <2>2, <2>3
<1>8. ASSUME NEW s \in Gathered, s[2] >= MinBody,
             \A r \in Gathered : r[1] = s[1] => r[2] <= s[2]
      PROVE  s \in index
  <2>1. PICK u \in URLs, l \in 0..MaxBody : s = <<u, l>>
    BY <1>4 DEF Sources
  <2>2. byURL[u] \in 0..MaxBody /\ l <= byURL[u] /\ l >= MinBody
    BY <1>1, <1>5, <1>8, <2>1 DEF TypeOK
  <2>3. byURL[u] > 0
    BY <2>1, <2>2, GatherAssumption
  <2>4. byURL[u] <= l
    BY <1>6, <1>8, <2>1, <2>3
  <2>5. l = byURL[u]
    <3>1. l \in Int /\ byURL[u] \in Int
      BY <2>2, GatherAssumption
    <3> QED
      BY <2>2, <2>4, <3>1
  <2> QED
    BY <1>2, <1>4, <1>8, <2>1, <2>5
<1> QED
  BY <1>7, <1>8

\* A claim whose retrieval was empty has no passage that scores, and a shared
\* term alone would have scored.
LEMMA MatchedOfInv == SourcesInv => MatchedIsNotRefetched
<1> SUFFICES ASSUME SourcesInv, NEW c \in Claims, pc[c] \in {"refetch", "refetched"},
                    NEW s \in Gathered, s[2] >= MinBody,
                    \A r \in Gathered : r[1] = s[1] => r[2] <= s[2]
             PROVE  Overlap(c, s) = 0
  BY DEF MatchedIsNotRefetched
<1>1. Over(c) /\ pc[c] # "merged" /\ pc[c] # "retrieved"
  BY DEF Over, Kept
<1>2. TypeOK /\ ready
  BY <1>1 DEF SourcesInv, IndexInv
<1>3. s \in index
  BY <1>2, LongestOfInv DEF LongestIsIndexed
<1>4. PICK embedded \in BOOLEAN : {} \in Best(index, ScoreFor(c, embedded))
  BY <1>1 DEF SourcesInv, RankInv
<1>5. \A p \in index : ScoreFor(c, embedded)[p] \in Int
  BY <1>2, IndexScores
<1>6. ScoreFor(c, embedded)[s] <= 0
  BY <1>2, <1>3, <1>4, <1>5, BestIsEmpty, IndexIsFinite
<1> DEFINE lex == Overlap(c, s)
           sem == IF embedded THEN Similarity[c][s[1]] ELSE 0
<1>7. lex \in Nat /\ sem \in -99..99 /\ ScoreFor(c, embedded)[s] = Score(lex, sem)
  BY <1>2, <1>3, IndexScores
<1> HIDE DEF lex, sem
<1>8. ~(lex > 0)
  BY <1>6, <1>7, ScoreOfShared
<1>9. lex = 0
  BY <1>7, <1>8
<1> QED
  BY <1>9 DEF lex

\* If a better passage was left out, the one that was taken scores as much.
LEMMA BetterOfInv == SourcesInv => BetterIsRetrieved
<1> SUFFICES ASSUME SourcesInv, NEW c \in Claims, pc[c] = "retrieved",
                    NEW p \in passages[c], NEW q \in index \ passages[c],
                    Overtakes(c, q, p)
             PROVE  Similarity[c][p[1]] <= 0 /\ Similarity[c][q[1]] > 0
  BY DEF BetterIsRetrieved
<1>1. Over(c) /\ pc[c] # "merged"
  BY DEF Over, Kept
<1>2. TypeOK
  BY DEF SourcesInv
<1>3. PICK embedded \in BOOLEAN : passages[c] \in Best(index, ScoreFor(c, embedded))
  BY <1>1 DEF SourcesInv, RankInv
<1> DEFINE score == ScoreFor(c, embedded)
           sem(s) == IF embedded THEN Similarity[c][s[1]] ELSE 0
<1>4. p \in index /\ (score[q] > 0 => score[p] >= score[q])
  BY <1>3, BestIsBest
<1>5. /\ Overlap(c, p) \in Nat /\ sem(p) \in -99..99
      /\ score[p] = Score(Overlap(c, p), sem(p))
  BY <1>2, <1>4, IndexScores
<1>6. /\ Overlap(c, q) \in Nat /\ sem(q) \in -99..99
      /\ score[q] = Score(Overlap(c, q), sem(q))
  BY <1>2, IndexScores
<1>7. Overlap(c, q) > Overlap(c, p) /\ sem(q) >= sem(p)
  <2>1. /\ Overlap(c, q) > Overlap(c, p)
        /\ Similarity[c][q[1]] >= Similarity[c][p[1]]
    BY DEF Overtakes
  <2>2. CASE embedded
    BY <2>1, <2>2
  <2>3. CASE ~embedded
    BY <2>1, <2>3
  <2> QED
    BY <2>2, <2>3
<1>8. Overlap(c, q) > 0
  BY <1>5, <1>6, <1>7
<1>9. Score(Overlap(c, q), sem(q)) > 0
  <2> HIDE DEF sem
  <2> QED
    BY <1>6, <1>8, ScoreOfShared
<1>10. Score(Overlap(c, p), sem(p)) >= Score(Overlap(c, q), sem(q))
  BY <1>4, <1>5, <1>6, <1>9
<1>11. sem(p) <= 0 /\ sem(q) > 0
  <2> HIDE DEF sem, score
  <2> QED
    BY <1>5, <1>6, <1>7, <1>10, ScoreOfBetter
<1>12. embedded
  BY <1>11
<1> QED
  BY <1>11, <1>12

-----------------------------------------------------------------------------
(* Theorems *)

LEMMA StepSourcesInv == SourcesInv /\ [Next]_vars => SourcesInv'
<1> SUFFICES ASSUME SourcesInv, [Next]_vars
             PROVE  SourcesInv'
  OBVIOUS
<1>1. CASE UNCHANGED vars
  BY <1>1, StutterInv
<1>2. CASE Index
  BY <1>2, IndexStepInv
<1>3. ASSUME NEW c \in Claims, FetchAll(c)
      PROVE  SourcesInv'
  <2>1. CASE AllCached(c) \/ Request(c) \/ Reply(c) \/ AllStored(c)
    BY <2>1, RequestInv
  <2>2. CASE Filter(c)
    BY <2>2, FilterInv
  <2>3. CASE \E t \in Titles : LookUp(c, t)
    BY <2>3, LookUpInv
  <2>4. CASE \E s \in Articles : Store(c, s)
    BY <2>4, StoreArticleInv
  <2>5. CASE \E k \in Keys : Query(c, k)
    BY <2>5, QueryInv
  <2> QED
    BY <1>3, <2>1, <2>2, <2>3, <2>4, <2>5 DEF FetchAll
<1>4. ASSUME NEW c \in Claims, Claim(c)
      PROVE  SourcesInv'
  <2>1. CASE FetchAll(c)
    BY <1>3, <2>1
  <2>2. CASE \E s \in Sources : Merge(c, s)
    BY <2>2, MergeInv
  <2>3. CASE AllMerged(c)
    BY <2>3, AllMergedInv
  <2>4. CASE Retrieve(c)
    BY <2>4, RetrieveInv
  <2>5. CASE Refetch(c)
    BY <2>5, RefetchInv
  <2> QED
    BY <1>4, <2>1, <2>2, <2>3, <2>4, <2>5 DEF Claim
<1> QED
  BY <1>1, <1>2, <1>4 DEF Next

\* A claim is given what the cache has or puts there what it is given; a copy
\* in the cache gives way to a longer one only (storeWikiArticle).
LEMMA StepCopiesInv == SourcesInv /\ CopiesInv /\ [Next]_vars => CopiesInv'
<1> SUFFICES ASSUME SourcesInv, CopiesInv, [Next]_vars
             PROVE  CopiesInv'
  OBVIOUS
<1>1. TypeOK
  BY DEF SourcesInv
<1>2. \A d \in Claims : \A r \in found[d] : r[2] \in Int
  BY <1>1 DEF TypeOK, Sources
<1>3. \A t \in Titles : articles[t] \in Int
  BY <1>1 DEF TypeOK
<1>4. ASSUME UNCHANGED articles, \A d \in Claims : found'[d] \subseteq found[d]
      PROVE  CopiesInv'
  BY <1>4 DEF CopiesInv
<1>5. ASSUME NEW c \in Claims, NEW t \in Titles, LookUp(c, t)
      PROVE  CopiesInv'
  <2>1. articles' = articles
    BY <1>5 DEF LookUp
  <2>2. \A d \in Claims : found'[d] \subseteq found[d] \cup {<<t, articles[t]>>}
    BY <1>1, <1>5 DEF LookUp, TypeOK
  <2> QED
    BY <1>3, <2>1, <2>2 DEF CopiesInv
<1>6. ASSUME NEW c \in Claims, NEW s \in Articles, Store(c, s)
      PROVE  CopiesInv'
  <2>1. s[1] \in Titles /\ s[2] \in Int
    BY DEF Articles
  <2>2. \A d \in Claims : found'[d] \subseteq found[d] \cup {s}
    BY <1>1, <1>6 DEF Store, TypeOK
  <2>3. /\ \A t \in Titles : articles'[t] \in Int /\ articles[t] <= articles'[t]
        /\ s[2] <= articles'[s[1]]
    BY <1>1, <1>3, <1>6, <2>1 DEF Store, storeWikiArticle, TypeOK
  <2> SUFFICES ASSUME NEW d \in Claims, NEW r \in found'[d], r[1] \in Titles
               PROVE  r[2] <= articles'[r[1]]
    BY DEF CopiesInv
  <2>4. CASE r = s
    BY <2>3, <2>4
  <2>5. CASE r \in found[d]
    BY <1>2, <1>3, <2>3, <2>5 DEF CopiesInv
  <2> QED
    BY <2>2, <2>4, <2>5
<1>7. ASSUME NEW c \in Claims, NEW k \in Keys, Query(c, k)
      PROVE  CopiesInv'
  <2>1. PICK papers \in PaperSets : found' = [found EXCEPT ![c] = @ \cup papers]
    BY <1>7 DEF Query
  <2>2. \A r \in papers : r[1] \notin Titles
    BY GatherAssumption DEF PaperSets
  <2>3. articles' = articles
    BY <1>7 DEF Query
  <2>4. \A d \in Claims : found'[d] \subseteq found[d] \cup papers
    BY <1>1, <2>1 DEF TypeOK
  <2> QED
    BY <2>2, <2>3, <2>4 DEF CopiesInv
<1>8. ASSUME NEW c \in Claims, Filter(c)
      PROVE  CopiesInv'
  BY <1>1, <1>4, <1>8 DEF Filter, TypeOK
<1>9. CASE Index \/ UNCHANGED vars
  BY <1>4, <1>9 DEF Index, vars, claimVars
<1>10. ASSUME NEW c \in Claims,
              \/ AllCached(c) \/ Request(c) \/ Reply(c) \/ AllStored(c)
              \/ AllMerged(c) \/ Retrieve(c) \/ Refetch(c)
              \/ \E s \in Sources : Merge(c, s)
       PROVE  CopiesInv'
  BY <1>4, <1>10 DEF AllCached, Request, Reply, AllStored, AllMerged, Retrieve,
                     Refetch, Merge, claimVars
<1> QED
  BY <1>5, <1>6, <1>7, <1>8, <1>9, <1>10 DEF Next, Claim, FetchAll

LEMMA InitCopiesInv == Init => CopiesInv
BY DEF Init, CopiesInv

\* Whatever the order of the claims' goroutines and the providers' answers,
\* byURL is the longest of what was merged, the index is byURL, what a claim
\* retrieved is the best of it (api/rag.go gatherAndIndex), and the run's cache
\* has no shorter copy of an article than a claim was given (run_cache.go).
THEOREM GatherInvariant == Spec => []GatherInv
<1> QED
  BY InitSourcesInv, StepSourcesInv, InitCopiesInv, StepCopiesInv, PTL
     DEF Spec, GatherInv

\* A source that a claim kept is indexed once, with the longest body any claim
\* kept of it (the merge under mu in api/rag.go).
THEOREM LongestAlwaysIndexed == Spec => []LongestIsIndexed
<1> QED
  BY GatherInvariant, LongestOfInv, PTL DEF GatherInv

\* A claim that shares a term with an indexed source never goes back to the
\* providers (sourcesForClaim), with or without vectors.
THEOREM MatchedNeverRefetched == Spec => []MatchedIsNotRefetched
<1> QED
  BY GatherInvariant, MatchedOfInv, PTL DEF GatherInv

\* No passage that overtakes a retrieved one is left out, unless the vectors
\* speak for it alone (retrieval/index.go Retrieve).
THEOREM BetterAlwaysRetrieved == Spec => []BetterIsRetrieved
<1> QED
  BY GatherInvariant, BetterOfInv, PTL DEF GatherInv
=============================================================================
