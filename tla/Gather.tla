------------------------------- MODULE Gather -------------------------------
(***************************************************************************)
(* The sources of a run (api/rag.go with sources/fetcher.go): FetchAll     *)
(* asks the providers of each claim concurrently; articles come from       *)
(* Wikipedia through the run's article cache, papers from the query        *)
(* providers through sourcesFor, which is the memo of FetchOnce (RunCache  *)
(* implements it).  What a claim's filter keeps is merged by URL and       *)
(* indexed; then each claim retrieves its passages (Retrieval), or fetches *)
(* again when nothing scores.  A source has one passage here; ChunkSplit   *)
(* and CorpusCache are about the others.                                   *)
(***************************************************************************)
EXTENDS Retrieval

CONSTANTS
    Claims,
    Titles,     \* article titles; an article's URL is made from its title
    Wanted,     \* Wanted[c]: the titles claim c names or its search returns
    Papers,     \* URLs of what the query providers find
    Keys,       \* "provider:query"
    Asked,      \* Asked[c]: the queries of claim c
    MaxBody,    \* bound of the model: bodies are 1..MaxBody long, 0 is none
    MinBody,    \* shorter bodies are not indexed (80 characters in the code)
    ClaimTerms, \* ClaimTerms[c]: the terms of claim c and how often they occur
    Terms,      \* Terms[u]: those of the passage of u
    Similarity, \* Similarity[c][u]: the cosine of their vectors, in percent
    NoEntry     \* see FetchOnce

URLs == Titles \cup Papers

ASSUME GatherAssumption ==
    /\ IsFiniteSet(Claims) /\ IsFiniteSet(URLs) /\ Titles \cap Papers = {}
    /\ Wanted \in [Claims -> SUBSET Titles] /\ Asked \in [Claims -> SUBSET Keys]
    /\ MaxBody \in Nat /\ MinBody \in Nat \ {0}
    /\ \A c \in Claims : ClaimTerms[c] \in [DOMAIN ClaimTerms[c] -> Nat]
    /\ \A c \in Claims : IsFiniteSet(DOMAIN ClaimTerms[c])
    /\ \A u \in URLs : Terms[u] \in [DOMAIN Terms[u] -> Nat]
    \* A claim and a passage are never the same text.
    /\ Similarity \in [Claims -> [URLs -> -99..99]]

VARIABLES
    pc,         \* pc[c]: where the goroutine of claim c is
    todo,       \* todo[c]: titles not looked up yet
    toFetch,    \* toFetch[c]: titles that were not in the cache
    reply,      \* reply[c]: the articles of its request, still to be stored
    found,      \* found[c]: the sources of c, as <<URL, length of the body>>
    merged,     \* merged[c]: those already merged
    articles,   \* RunCache.articles: the length of the cached body, or 0
    memo,       \* RunCache.sources, see FetchOnce
    answer,     \* what the queries were answered, see FetchOnce
    byURL,      \* the longest body merged so far, or 0
    fetches,    \* fetches[t]: requests that asked Wikipedia for t
    index,      \* the sources that were indexed
    ready,      \* gatherAndIndex has returned
    passages    \* passages[c]: what retrieval returned for c

claimVars == <<todo, toFetch, reply, found>>
queries == <<memo, answer>>
done == <<index, ready, passages>>
vars == <<pc, claimVars, merged, articles, queries, byURL, fetches, done>>

Sources == URLs \X (0..MaxBody)
Articles == Titles \X (1..MaxBody)
\* An abstract may be missing; a provider lists a paper once.
PaperSets ==
    {v \in SUBSET (Papers \X (0..MaxBody)) : \A r, s \in v : r[1] = s[1] => r = s}
Queries == {q \in Claims \X Keys : q[2] \in Asked[q[1]]}

RunCache == INSTANCE FetchOnce WITH Callers <- Queries, Results <- PaperSets

Places == {"lookup", "request", "store", "filter", "merge", "merged",
           "retrieved", "refetch", "refetched"}

TypeOK ==
    /\ pc \in [Claims -> Places]
    /\ todo \in [Claims -> SUBSET Titles] /\ toFetch \in [Claims -> SUBSET Titles]
    /\ reply \in [Claims -> SUBSET Articles]
    /\ found \in [Claims -> SUBSET Sources]
    /\ merged \in [Claims -> SUBSET Sources]
    /\ \A c \in Claims : merged[c] \subseteq found[c]
    /\ articles \in [Titles -> 0..MaxBody]
    /\ memo \in [Keys -> PaperSets \cup {NoEntry}]
    /\ answer \in [Queries -> (Keys \X PaperSets) \cup {NoEntry}]
    /\ byURL \in [URLs -> 0..MaxBody]
    /\ fetches \in [Titles -> Nat]
    /\ index \subseteq Sources /\ ready \in BOOLEAN
    /\ passages \in [Claims -> SUBSET Sources]

Init ==
    /\ pc = [c \in Claims |-> "lookup"]
    /\ todo = Wanted
    /\ toFetch = [c \in Claims |-> {}]
    /\ reply = [c \in Claims |-> {}]
    /\ found = [c \in Claims |-> {}]
    /\ merged = [c \in Claims |-> {}]
    /\ articles = [t \in Titles |-> 0]
    /\ RunCache!Init
    /\ byURL = [u \in URLs |-> 0]
    /\ fetches = [t \in Titles |-> 0]
    /\ index = {} /\ ready = FALSE /\ passages = [c \in Claims |-> {}]

At(c, place) == pc[c] = place
Goto(c, from, to) == pc[c] = from /\ pc' = [pc EXCEPT ![c] = to]

-----------------------------------------------------------------------------
(* fetchWikipediaExtracts *)

\* One title of the loop; the order of the titles is left open.
LookUp(c, t) ==
    /\ At(c, "lookup") /\ t \in todo[c]
    /\ todo' = [todo EXCEPT ![c] = @ \ {t}]
    /\ IF articles[t] > 0
       THEN /\ found' = [found EXCEPT ![c] = @ \cup {<<t, articles[t]>>}]
            /\ UNCHANGED toFetch
       ELSE /\ toFetch' = [toFetch EXCEPT ![c] = @ \cup {t}]
            /\ UNCHANGED found
    /\ UNCHANGED <<pc, reply, merged, articles, queries, byURL, fetches, done>>

AllCached(c) ==
    /\ todo[c] = {} /\ toFetch[c] = {}
    /\ Goto(c, "lookup", "filter")
    /\ UNCHANGED <<claimVars, merged, articles, queries, byURL, fetches, done>>

\* Requests are counted as they are sent.
Request(c) ==
    /\ todo[c] = {} /\ toFetch[c] # {}
    /\ Goto(c, "lookup", "request")
    /\ fetches' = [t \in Titles |-> fetches[t] + IF t \in toFetch[c] THEN 1 ELSE 0]
    /\ UNCHANGED <<claimVars, merged, articles, queries, byURL, done>>

\* One body at most per page; a page may be missing, and a failed request is
\* an answer without pages.
Reply(c) ==
    /\ Goto(c, "request", "store")
    /\ \E body \in [toFetch[c] -> 0..MaxBody] :
          reply' = [reply EXCEPT ![c] =
                       {<<t, body[t]>> : t \in {u \in toFetch[c] : body[u] > 0}}]
    /\ UNCHANGED <<todo, toFetch, found, merged, articles, queries, byURL, fetches, done>>

\* Mutant of storeWikiArticle: the last reply wins.
storeLatest(s) == articles' = [articles EXCEPT ![s[1]] = s[2]]

\* A longer body that another claim has stored meanwhile stays.
storeWikiArticle(s) ==
    articles' = IF articles[s[1]] > s[2] THEN articles
                ELSE [articles EXCEPT ![s[1]] = s[2]]

Store(c, s) ==
    /\ At(c, "store") /\ s \in reply[c]
    /\ storeWikiArticle(s)
    /\ reply' = [reply EXCEPT ![c] = @ \ {s}]
    /\ found' = [found EXCEPT ![c] = @ \cup {s}]
    /\ UNCHANGED <<pc, todo, toFetch, merged, queries, byURL, fetches, done>>

AllStored(c) ==
    /\ reply[c] = {}
    /\ Goto(c, "store", "filter")
    /\ UNCHANGED <<claimVars, merged, articles, queries, byURL, fetches, done>>

-----------------------------------------------------------------------------
(* The rest of FetchAll, and the merge of gatherAndIndex. *)

\* fetchOpenAlex, fetchSemanticScholar or fetchPubMed, in a goroutine of its
\* own: the first answer for the key, which may be empty, is everybody's.
Query(c, k) ==
    /\ <<c, k>> \in Queries
    /\ \E papers \in PaperSets :
          /\ RunCache!Answer(<<c, k>>, k, papers)
          /\ found' = [found EXCEPT ![c] = @ \cup papers]
    /\ UNCHANGED <<pc, todo, toFetch, reply, merged, articles, byURL, fetches, done>>

\* All providers have answered; filterRelevant drops the sources that do not
\* mention the claim's subject.
Filter(c) ==
    /\ \A k \in Asked[c] : answer[<<c, k>>] # NoEntry
    /\ Goto(c, "filter", "merge")
    /\ \E kept \in SUBSET found[c] : found' = [found EXCEPT ![c] = kept]
    /\ UNCHANGED <<todo, toFetch, reply, merged, articles, queries, byURL, fetches,
                   done>>

\* Mutant of Longest: the last source of a URL wins.
Latest(s) == s[2]

\* What byURL holds after s: the longest body wins.
Longest(s) == IF s[2] > byURL[s[1]] THEN s[2] ELSE byURL[s[1]]

\* The comparison and the assignment, under mu.
Merge(c, s) ==
    /\ At(c, "merge") /\ s \in found[c] \ merged[c]
    /\ byURL' = [byURL EXCEPT ![s[1]] = Longest(s)]
    /\ merged' = [merged EXCEPT ![c] = @ \cup {s}]
    /\ UNCHANGED <<pc, claimVars, articles, queries, fetches, done>>

AllMerged(c) ==
    /\ merged[c] = found[c]
    /\ Goto(c, "merge", "merged")
    /\ UNCHANGED <<claimVars, merged, articles, queries, byURL, fetches, done>>

\* wg.Wait(), then AddSources of what byURL holds.
Index ==
    /\ \A c \in Claims : At(c, "merged")
    /\ ~ready /\ ready' = TRUE
    /\ index' = {s \in Sources : s[2] = byURL[s[1]] /\ s[2] >= MinBody}
    /\ UNCHANGED <<pc, claimVars, merged, articles, queries, byURL, fetches, passages>>

-----------------------------------------------------------------------------
(* sourcesForClaim *)

Overlap(c, s) == LexicalScore(ClaimTerms[c], Terms[s[1]])

\* The claim's vector is missing when its embedding failed.
ScoreFor(c, embedded) ==
    [s \in index |-> Score(Overlap(c, s), IF embedded THEN Similarity[c][s[1]] ELSE 0)]

Retrieve(c) ==
    /\ ready
    /\ \E embedded \in BOOLEAN : \E best \in Best(index, ScoreFor(c, embedded)) :
          /\ Goto(c, "merged", IF best = {} THEN "refetch" ELSE "retrieved")
          /\ passages' = [passages EXCEPT ![c] = best]
    /\ UNCHANGED <<claimVars, merged, articles, queries, byURL, fetches, index, ready>>

\* FetchAll again, now without the run's cache: whatever the providers answer
\* this time.
Refetch(c) ==
    /\ Goto(c, "refetch", "refetched")
    /\ fetches' = [t \in Titles |-> fetches[t] + IF t \in Wanted[c] THEN 1 ELSE 0]
    /\ UNCHANGED <<claimVars, merged, articles, queries, byURL, done>>

FetchAll(c) ==
    \/ AllCached(c) \/ Request(c) \/ Reply(c) \/ AllStored(c) \/ Filter(c)
    \/ \E t \in Titles : LookUp(c, t)
    \/ \E s \in Articles : Store(c, s)
    \/ \E k \in Keys : Query(c, k)

Claim(c) ==
    \/ FetchAll(c) \/ AllMerged(c) \/ Retrieve(c) \/ Refetch(c)
    \/ \E s \in Sources : Merge(c, s)

Next == (\E c \in Claims : Claim(c)) \/ Index

Spec == Init /\ [][Next]_vars

-----------------------------------------------------------------------------
(* Properties *)

Gathered == UNION {found[c] : c \in Claims}

\* "results are merged by URL (longest body wins)" (README.md:82), for every
\* order of the goroutines and whoever fetched which copy: a source that a
\* claim kept is indexed once, with the longest body any claim kept of it.
LongestIsIndexed ==
    ready =>
        index = {s \in Gathered : s[2] >= MinBody
                                  /\ \A r \in Gathered : r[1] = s[1] => r[2] <= s[2]}

\* "If retrieval returns nothing (empty index or zero scores)" (README.md:88):
\* a claim goes back to the providers only if it shares no term with anything
\* that any claim of the run gathered, whether or not its embedding failed
\* and whatever the vectors say.
MatchedIsNotRefetched ==
    \A c \in Claims : pc[c] \in {"refetch", "refetched"} =>
        \A s \in Gathered :
            (s[2] >= MinBody /\ \A r \in Gathered : r[1] = s[1] => r[2] <= s[2])
            => Overlap(c, s) = 0

Overtakes(c, q, p) ==
    /\ Overlap(c, q) > Overlap(c, p)
    /\ Similarity[c][q[1]] >= Similarity[c][p[1]]

\* The scorer is not given a passage while one is left out that shares more
\* terms with the claim and is no less similar to it, if the vectors speak for
\* both or for neither.
BetterIsRetrieved ==
    \A c \in Claims : pc[c] = "retrieved" =>
        \A p \in passages[c], q \in index \ passages[c] :
            Overtakes(c, q, p)
            => Similarity[c][p[1]] <= 0 /\ Similarity[c][q[1]] > 0

\* The same of any two passages.
BetterIsAlwaysRetrieved ==
    \A c \in Claims : pc[c] = "retrieved" =>
        \A p \in passages[c], q \in index \ passages[c] : ~Overtakes(c, q, p)

\* "one Wikipedia/OpenAlex/Scholar/PubMed fetch per key" (README.md:13).
OneFetchPerKey ==
    \A t \in Titles : fetches[t] <= 1

-----------------------------------------------------------------------------
(* The inductive invariant. *)

\* FetchAll has returned for c, and all that it kept is merged.
Kept(c) == pc[c] \notin {"lookup", "request", "store", "filter"}
Over(c) == Kept(c) /\ pc[c] # "merge"

\* Nothing is found for a claim once its filter has run, as every query of its
\* own is answered; nothing is merged before.
FoundInv ==
    \A c \in Claims :
        /\ Kept(c) => \A k \in Asked[c] : answer[<<c, k>>] # NoEntry
        /\ ~Kept(c) => merged[c] = {}
        /\ Over(c) => merged[c] = found[c]

\* What the run's cache has of an article is no shorter than any copy that a
\* claim was given, whichever replies overlapped: a later claim is served as
\* well as the earlier ones were.
CopiesInv ==
    \A c \in Claims : \A s \in found[c] :
        s[1] \in Titles => s[2] <= articles[s[1]]

\* byURL holds the longest of the bodies merged so far.
LongestInv ==
    /\ \A c \in Claims : \A s \in merged[c] : s[2] <= byURL[s[1]]
    /\ \A u \in URLs :
          byURL[u] > 0 => \E c \in Claims : <<u, byURL[u]>> \in merged[c]

\* The index is made when all claims have merged, and before any retrieves.
IndexInv ==
    /\ ready => \A c \in Claims : Over(c)
    /\ ready => index = {s \in Sources : s[2] = byURL[s[1]] /\ s[2] >= MinBody}
    /\ \A c \in Claims : Over(c) /\ pc[c] # "merged" => ready

\* What a claim retrieved is still the best of the index.
RankInv ==
    \A c \in Claims : Over(c) /\ pc[c] # "merged" =>
        /\ \E embedded \in BOOLEAN : passages[c] \in Best(index, ScoreFor(c, embedded))
        /\ pc[c] # "retrieved" => passages[c] = {}

SourcesInv == TypeOK /\ FoundInv /\ LongestInv /\ IndexInv /\ RankInv

GatherInv == SourcesInv /\ CopiesInv
=============================================================================
