----------------------------- MODULE Retrieval -----------------------------
(***************************************************************************)
(* Ranking the indexed passages for a claim (retrieval/index.go Retrieve,  *)
(* lexical.go, embedder.go).  A passage has two signals: the weighted      *)
(* overlap of its terms with the claim's, a natural number, and the cosine *)
(* similarity of the two vectors in percent, which is 0 when one of the    *)
(* vectors is missing.  Scores are in units of 1/10000.                    *)
(***************************************************************************)
EXTENDS Integers, FiniteSets, FiniteSetsExt

CONSTANT TopK   \* passages given to the scorer, defaultTopK in the code

ASSUME RetrievalAssumption == TopK \in Nat \ {0}

\* A query and a passage are bags of terms: functions from terms to counts.
Weights(query, terms) ==
    [t \in DOMAIN query \cap DOMAIN terms |-> query[t] * terms[t]]

LexicalScore(query, terms) ==
    LET weight == Weights(query, terms)
    IN  MapThenSumSet(LAMBDA t : weight[t], DOMAIN weight)

\* Mutant of Score: where there are vectors, they decide alone.
ScoreByVector(lex, sem) == IF sem # 0 THEN 100 * sem ELSE 10000 * lex

\* 55% cosine and 45% overlap when both speak for the passage, else the one
\* that does.
Score(lex, sem) ==
    CASE sem > 0 /\ lex > 0 -> 55 * sem + 4500 * lex
      [] sem > 0 /\ lex <= 0 -> 100 * sem
      [] sem <= 0 -> 10000 * lex

\* What Retrieve may return: the passages before the first that does not
\* score, TopK at most, in an order that leaves ties open (sort.Slice).
Best(passages, score) ==
    LET scoring == {p \in passages : score[p] > 0}
        count == IF Cardinality(scoring) < TopK THEN Cardinality(scoring) ELSE TopK
    IN  {best \in SUBSET scoring :
            /\ Cardinality(best) = count
            /\ \A p \in best, q \in scoring \ best : score[p] >= score[q]}
=============================================================================
