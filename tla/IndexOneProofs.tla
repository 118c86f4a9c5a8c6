--------------------------- MODULE IndexOneProofs ---------------------------
(***************************************************************************)
(* Proofs about the two halves of indexing a source: corpus.Split and the  *)
(* embedding cache, each a module with variables of its own.               *)
(***************************************************************************)
EXTENDS ChunkSplit, CorpusCache, WellFoundedInduction, TLAPS

-----------------------------------------------------------------------------
(* ChunkSplit loses nothing up to the overlap, for every text, size and    *)
(* overlap: IInv is inductive, because the next start is the overlap below *)
(* the end, so a window that ends beyond it begins at or after it.         *)


\* Where the next passage ends, and that the loop makes progress.
LEMMA EndBounds ==
    ASSUME SplitTypeOK
    PROVE  /\ end \in 0..len /\ end <= start + Size
           /\ end < len => end = start + Size
  <1> USE SplitAssumption DEF SplitTypeOK, end
  <1>1. len \in Nat /\ start \in Nat /\ start <= len
    OBVIOUS
  <1> QED BY <1>1

\* What Advance leaves: the frontier is the end of the passage just taken.
LEMMA AdvanceFacts ==
    ASSUME SplitTypeOK, ~done, start < len, Advance
    PROVE  /\ start' \in 0..len /\ done' \in BOOLEAN
           /\ len' = len /\ blank' = blank
           /\ ~done' => start' < len /\ start' # 0 /\ Frontier' < len
           /\ Frontier' = end
  <1> USE SplitAssumption
  <1>1. end \in 0..len /\ end <= start + Size /\ (end < len => end = start + Size)
    BY EndBounds
  <1>2. len \in Nat /\ start \in Nat /\ done = FALSE
    BY DEF SplitTypeOK
  <1>3. CASE end >= len
    <2>1. end = len /\ done' = TRUE /\ start' = start /\ len' = len /\ blank' = blank
      BY <1>1, <1>2, <1>3 DEF Advance, source
    <2> QED BY <2>1, <1>1, <1>2 DEF Frontier
  <1>4. CASE ~(end >= len)
    <2>1. /\ end = start + Size /\ start' = end - Overlap /\ done' = done
          /\ len' = len /\ blank' = blank
      BY <1>1, <1>2, <1>4 DEF Advance, source
    <2>2. start' \in 0..len /\ start' # 0 /\ start' < len /\ start' + Overlap = end
      BY <2>1, <1>1, <1>2, <1>4
    <2>3. CASE done'
      <3> QED BY <1>2, <2>1, <2>3
    <2>4. CASE ~done'
      <3>1. Frontier' = end
        BY <2>2, <2>4 DEF Frontier
      <3>2. end < len
        BY <1>1, <1>2, <1>4
      <3> QED BY <1>1, <1>2, <2>1, <2>2, <2>4, <3>1, <3>2
    <2> QED BY <2>3, <2>4
  <1> QED BY <1>3, <1>4

\* A short window that ends beyond the frontier begins within the passage.
LEMMA NewWindow ==
    ASSUME SplitTypeOK, ~done, NEW a \in 0..len, NEW b \in 0..len,
           b > Frontier, b - a <= Overlap + 1
    PROVE  start <= a
  <1> QED BY SplitAssumption DEF SplitTypeOK, Frontier

THEOREM InitSplit == SplitInit => IInv
  <1> SUFFICES ASSUME SplitInit PROVE IInv
    OBVIOUS
  <1>1. len \in Nat /\ start = 0 /\ chunks = <<>>
    BY SplitAssumption DEF SplitInit
  <1>2. SplitTypeOK
    BY <1>1, SplitAssumption DEF SplitInit, SplitTypeOK
  <1>3. PassagesFit
    BY <1>1 DEF PassagesFit
  <1>4. CASE len = 0
    <2>1. done
      BY <1>4 DEF SplitInit
    <2>2. Kept(Frontier)
      BY <2>1, <1>4 DEF Kept, Frontier
    <2> QED BY <1>1, <1>2, <1>3, <2>1, <2>2 DEF IInv
  <1>5. CASE len # 0
    <2>1. ~done
      BY <1>5 DEF SplitInit
    <2>2. Frontier = 0
      BY <2>1, <1>1 DEF Frontier
    <2>3. Kept(Frontier)
      BY <2>2, <1>1 DEF Kept
    <2> QED BY <1>1, <1>2, <1>3, <1>5, <2>1, <2>2, <2>3 DEF IInv
  <1> QED BY <1>4, <1>5

THEOREM StepSplit == IInv /\ [SplitNext]_splitVars => IInv'
  <1> SUFFICES ASSUME IInv, [SplitNext]_splitVars PROVE IInv'
    OBVIOUS
  <1> USE SplitAssumption
  <1>1. /\ SplitTypeOK /\ Kept(Frontier) /\ PassagesFit
        /\ len \in Nat /\ start \in Nat
        /\ ~done => start < len /\ Frontier < len
    BY DEF IInv, SplitTypeOK
  <1>2. CASE WholeText
    <2>1. /\ ~done /\ len <= Size /\ chunks' = <<<<0, len>>>> /\ done' = TRUE
          /\ len' = len /\ blank' = blank /\ start' = start
      BY <1>2 DEF WholeText, source
    <2>2. SplitTypeOK'
      BY <2>1, <1>1 DEF SplitTypeOK
    <2>3. Kept(Frontier)'
      <3>1. DOMAIN chunks' = {1} /\ chunks'[1] = <<0, len>>
        BY <2>1
      <3>2. \A a, b \in 0..len : Holds(a, b)'
        BY <3>1, <1>1 DEF Holds
      <3> QED BY <3>2, <2>1 DEF Kept
    <2>4. PassagesFit'
      <3>1. DOMAIN chunks' = {1} /\ chunks'[1] = <<0, len>>
        BY <2>1
      <3>2. 0 < len
        BY <1>1, <2>1
      <3> QED BY <3>1, <3>2, <2>1, <1>1 DEF PassagesFit
    <2> QED BY <2>1, <2>2, <2>3, <2>4 DEF IInv
  <1>3. CASE Piece
    <2>1. ~done /\ len > Size /\ Advance /\ start < len
      BY <1>1, <1>3 DEF Piece
    <2>2. PICK from \in 0..len, to \in 0..len :
             Trimmed(from, to) /\ chunks' = Append(chunks, <<from, to>>)
      BY <1>3 DEF Piece
    <2>3. /\ start' \in 0..len /\ done' \in BOOLEAN /\ len' = len /\ blank' = blank
          /\ ~done' => start' < len /\ start' # 0 /\ Frontier' < len
          /\ Frontier' = end
      BY <2>1, <1>1, AdvanceFacts
    <2>4. /\ Kept(Frontier)'
      <3>1. DEFINE F == Frontier
      <3>2. /\ \A a, b \in 0..len :
                  a < b /\ b <= F /\ b - a <= Overlap + 1
                  /\ a \notin blank /\ b - 1 \notin blank => Holds(a, b)'
            /\ \A a, b \in 0..len : from <= a /\ b <= to => Holds(a, b)'
        <4> HIDE DEF F
        <4>1. Kept(F)
          BY <1>1 DEF F
        <4>2. /\ Len(chunks') = Len(chunks) + 1 /\ Len(chunks) \in Nat
              /\ DOMAIN chunks = 1..Len(chunks) /\ DOMAIN chunks' = 1..Len(chunks')
              /\ \A k \in DOMAIN chunks : chunks'[k] = chunks[k]
              /\ chunks'[Len(chunks')] = <<from, to>>
          BY <1>1, <2>2 DEF SplitTypeOK
        <4>3. \A a, b : Holds(a, b) => Holds(a, b)'
          BY <4>2 DEF Holds
        <4>4. \A a, b \in 0..len : from <= a /\ b <= to => Holds(a, b)'
          BY <4>2 DEF Holds
        <4> QED BY <4>1, <4>3, <4>4 DEF Kept
      <3>3. ASSUME NEW a \in 0..len, NEW b \in 0..len, a < b, b <= end,
                   b - a <= Overlap + 1, a \notin blank, b - 1 \notin blank
            PROVE  Holds(a, b)'
        <4>1. CASE b <= F
          BY <4>1, <3>2, <3>3
        <4>2. CASE ~(b <= F)
          <5>1. F \in Int
            BY <1>1, <2>1 DEF Frontier
          <5>2. start <= a
            BY <4>2, <5>1, <1>1, <2>1, <3>3, NewWindow
          <5>3. a \in start..end-1 /\ b - 1 \in start..end-1
            BY <5>2, <3>3, <1>1, EndBounds
          <5>4. from <= a /\ b - 1 < to
            BY <5>3, <3>3, <2>2 DEF Trimmed
          <5>5. from <= a /\ b <= to
            BY <5>4, <3>3
          <5> QED BY <5>5, <3>2
        <4> QED BY <4>1, <4>2
      <3> QED BY <3>3, <2>3 DEF Kept
    <2>5. SplitTypeOK'
      <3>1. chunks' \in Seq((0..len) \X (0..len))
        BY <1>1, <2>2 DEF SplitTypeOK
      <3> QED BY <3>1, <2>3, <1>1 DEF SplitTypeOK
    <2>6. PassagesFit'
      <3>1. from < to /\ to - from <= Size
        BY <2>2, <1>1, EndBounds DEF Trimmed
      <3>2. /\ Len(chunks') = Len(chunks) + 1 /\ Len(chunks) \in Nat
            /\ DOMAIN chunks = 1..Len(chunks) /\ DOMAIN chunks' = 1..Len(chunks')
            /\ \A k \in DOMAIN chunks : chunks'[k] = chunks[k]
            /\ chunks'[Len(chunks')] = <<from, to>>
        BY <1>1, <2>2 DEF SplitTypeOK
      <3>3. ASSUME NEW k \in DOMAIN chunks'
            PROVE  chunks'[k][1] < chunks'[k][2] /\ chunks'[k][2] - chunks'[k][1] <= Size
        <4>1. CASE k = Len(chunks')
          BY <4>1, <3>1, <3>2
        <4>2. CASE k \in DOMAIN chunks
          BY <4>2, <3>2, <1>1 DEF PassagesFit
        <4> QED BY <4>1, <4>2, <3>2
      <3> QED BY <3>3 DEF PassagesFit
    <2> QED BY <2>1, <2>3, <2>4, <2>5, <2>6 DEF IInv
  <1>4. CASE BlankPiece
    <2>1. ~done /\ len > Size /\ Advance /\ start < len /\ chunks' = chunks
          /\ start..end-1 \subseteq blank
      BY <1>1, <1>4 DEF BlankPiece
    <2>2. /\ start' \in 0..len /\ done' \in BOOLEAN /\ len' = len /\ blank' = blank
          /\ ~done' => start' < len /\ start' # 0 /\ Frontier' < len
          /\ Frontier' = end
      BY <2>1, <1>1, AdvanceFacts
    <2>3. ASSUME NEW a \in 0..len, NEW b \in 0..len, a < b, b <= end,
                 b - a <= Overlap + 1, a \notin blank, b - 1 \notin blank
          PROVE  Holds(a, b)
      <3>1. CASE b <= Frontier
        BY <3>1, <2>3, <1>1 DEF Kept
      <3>2. CASE ~(b <= Frontier)
        <4>1. Frontier \in Int
          BY <1>1, <2>1 DEF Frontier
        <4>2. b > Frontier
          BY <3>2, <4>1, <2>3, <1>1
        <4>3. start <= a
          BY <4>2, <1>1, <2>1, <2>3, NewWindow
        <4>4. a \in start..end-1
          BY <4>3, <2>3, <1>1, EndBounds
        <4> QED BY <4>4, <2>1, <2>3
      <3> QED BY <3>1, <3>2
    <2>4. Kept(Frontier)'
      BY <2>1, <2>2, <2>3 DEF Kept, Holds
    <2>5. SplitTypeOK' /\ PassagesFit'
      BY <2>1, <2>2, <1>1 DEF SplitTypeOK, PassagesFit
    <2> QED BY <2>1, <2>2, <2>4, <2>5 DEF IInv
  <1>5. CASE UNCHANGED splitVars
    <2>1. /\ len' = len /\ blank' = blank /\ start' = start /\ chunks' = chunks
          /\ done' = done
      BY <1>5 DEF splitVars, source
    <2>2. Frontier' = Frontier
      BY <2>1 DEF Frontier
    <2>3. Kept(Frontier)'
      BY <2>1, <2>2, <1>1 DEF Kept, Holds
    <2> QED BY <2>1, <2>2, <2>3 DEF IInv, SplitTypeOK, PassagesFit
  <1> QED BY <1>2, <1>3, <1>4, <1>5 DEF SplitNext

\* The invariant of every execution of Split.
THEOREM SplitInvariant == SplitSpec => []IInv
  <1> QED BY InitSplit, StepSplit, PTL DEF SplitSpec

\* Nothing that is at most one byte longer than the overlap is lost at a
\* chunk boundary (Split and its TrimSpace, for every text and every size).
THEOREM NothingIsLost == SplitSpec => []FactsAreKept
  <1>1. IInv => FactsAreKept
    BY DEF IInv, FactsAreKept, Frontier
  <1> QED BY SplitInvariant, <1>1, PTL

\* No passage is empty or longer than the chunk size.
THEOREM PassagesAlwaysFit == SplitSpec => []PassagesFit
  <1>1. IInv => PassagesFit
    BY DEF IInv
  <1> QED BY SplitInvariant, <1>1, PTL

-----------------------------------------------------------------------------
(* The loop of Split ends. *)

\* The least of some numbers.
LEMMA Least ==
    ASSUME NEW S, S \subseteq Nat, S # {}
    PROVE  \E m \in S : \A i \in S : m <= i
<1>1. PICK m \in S : \A i \in S : ~(<<i, m>> \in OpToRel(<, Nat))
  BY NatLessThanWellFounded, WFMin
<1>2. ASSUME NEW i \in S
      PROVE  m <= i
  <2>1. ~(i < m)
    BY <1>1, <1>2 DEF OpToRel
  <2> QED
    BY <2>1
<1> QED
  BY <1>2

\* The greatest of some numbers below a bound.
LEMMA Greatest ==
    ASSUME NEW n \in Nat, NEW S \in SUBSET (0..n), S # {}
    PROVE  \E m \in S : \A i \in S : i <= m
<1> DEFINE T == {n - i : i \in S}
<1>1. T \subseteq Nat /\ T # {}
  <2>1. \A i \in S : n - i \in Nat
    OBVIOUS
  <2> QED
    BY <2>1
<1>2. PICK k \in T : \A l \in T : k <= l
  BY <1>1, Least
<1>3. PICK m \in S : k = n - m
  OBVIOUS
<1>4. ASSUME NEW i \in S
      PROVE  i <= m
  <2>1. n - m <= n - i
    BY <1>2, <1>3
  <2> QED
    BY <2>1
<1> QED
  BY <1>4

\* A loop that has not ended can take one of its three steps: there is a
\* passage unless the window is blank.
LoopGoesOn ==
    ~done => \/ len <= Size
             \/ start..end-1 \subseteq blank
             \/ \E from, to \in 0..len : Trimmed(from, to)

\* A window that is not blank has a first and a last byte that is not.
LEMMA SomethingToCut ==
    ASSUME SplitTypeOK, ~(start..end-1 \subseteq blank)
    PROVE  \E from, to \in 0..len : Trimmed(from, to)
<1> DEFINE S == (start..end-1) \ blank
<1>1. len \in Nat /\ start \in 0..len /\ end \in 0..len
  BY EndBounds, SplitAssumption DEF SplitTypeOK
<1>2. S \in SUBSET (0..len) /\ S \subseteq Nat /\ S # {}
  BY <1>1
<1>3. PICK from \in S : \A i \in S : from <= i
  BY <1>2, Least
<1>4. PICK last \in S : \A i \in S : i <= last
  BY <1>1, <1>2, Greatest
<1>5. from \in 0..len /\ last + 1 \in 0..len
  BY <1>1
<1>6. Trimmed(from, last + 1)
  BY <1>1, <1>3, <1>4 DEF Trimmed
<1> QED
  BY <1>5, <1>6

\* Split (chunk.go) is never without a next step before it returns.
THEOREM SplitNeverStuck == SplitSpec => []LoopGoesOn
<1>1. IInv => LoopGoesOn
  BY SomethingToCut DEF IInv, LoopGoesOn
<1> QED
  BY <1>1, SplitInvariant, PTL

\* Every step ends the loop or moves its start on, by at least one byte and
\* within the text: with SplitNeverStuck, Split returns after at most as many
\* steps as the text has bytes (Returns), whatever the text and the overlap.
THEOREM EveryStartIsNew ==
    SplitSpec => [][done' \/ (start < start' /\ start' < len)]_splitVars
<1>1. ASSUME IInv, SplitNext
      PROVE  done' \/ (start < start' /\ start' < len)
  <2>1. /\ SplitTypeOK /\ len \in Nat /\ start \in Nat
        /\ ~done => start < len /\ Frontier < len
    BY <1>1, SplitAssumption DEF IInv, SplitTypeOK
  <2>2. CASE WholeText
    BY <2>2 DEF WholeText
  <2>3. CASE ~done /\ Advance
    <3>1. end \in 0..len /\ (end < len => end = start + Size)
      BY <2>1, EndBounds
    <3>2. CASE end >= len
      BY <2>3, <3>2 DEF Advance
    <3>3. CASE ~(end >= len)
      BY <2>1, <2>3, <3>1, <3>3, SplitAssumption DEF Advance
    <3> QED
      BY <3>2, <3>3
  <2> QED
    BY <1>1, <2>2, <2>3 DEF SplitNext, Piece, BlankPiece
<1>2. IInv /\ [SplitNext]_splitVars => [done' \/ (start < start' /\ start' < len)]_splitVars
  BY <1>1
<1> QED
  BY <1>2, SplitInvariant, PTL DEF SplitSpec

-----------------------------------------------------------------------------
(* CorpusCache, for any number of runs and versions of the text: a run     *)
(* never has vectors of another text, and only two saves at the same time  *)
(* can damage the cache file.                                              *)


LEMMA InitCorpusInv == Init => CorpusInv
<1> SUFFICES ASSUME Init
             PROVE  CorpusInv
  OBVIOUS
<1>1. TypeOK
  BY DEF Init, TypeOK
<1>2. VectorInv
  BY DEF Init, VectorInv, Saving
<1>3. FreshInv /\ AloneInv
  BY CacheAssumption DEF Init, FreshInv, AloneInv, InSave, Inodes
<1> QED
  BY <1>1, <1>2, <1>3 DEF Init, CorpusInv, DamageNeedsOverlap

\* The steps of indexOne that touch no file.
LEMMA IndexInv ==
    ASSUME CorpusInv, NEW r \in Runs,
           \/ Chunk(r) \/ LoadHit(r) \/ LoadMiss(r) \/ Embed(r) \/ EmbedError(r)
           \/ SaveError(r)
    PROVE  CorpusInv'
<1> USE DEF Chunk, LoadHit, LoadMiss, Embed, EmbedError, SaveError, Goto, files
<1>1. TypeOK
  BY DEF CorpusInv
<1>2. TypeOK'
  BY <1>1 DEF TypeOK, Saving, Hit
<1>3. VectorInv'
  BY <1>1 DEF CorpusInv, TypeOK, VectorInv, Saving, Hit
<1>4. InSave' = InSave
  BY <1>1 DEF TypeOK, InSave
<1>5. FreshInv'
  BY <1>1, <1>4 DEF CorpusInv, TypeOK, FreshInv
<1>6. \A s \in InSave : pc'[s] = pc[s] /\ text'[s] = text[s]
  BY <1>1 DEF TypeOK, InSave
<1>7. AloneInv'
  BY <1>4, <1>6 DEF CorpusInv, AloneInv
<1>8. DamageNeedsOverlap'
  BY DEF CorpusInv, DamageNeedsOverlap
<1> QED
  BY <1>2, <1>3, <1>5, <1>7, <1>8 DEF CorpusInv

\* Opening truncates the temporary file, left behind or new; the inode is not
\* that of the cache file.
LEMMA OpenInv ==
    ASSUME CorpusInv, NEW r \in Runs, Open(r)
    PROVE  CorpusInv'
<1> DEFINE inode == IF tmp = NoFile THEN r ELSE tmp
<1>1. TypeOK /\ CacheAssumption
  BY CacheAssumption DEF CorpusInv, CacheAssumption
<1>2. /\ pc[r] = "save" /\ pc' = [pc EXCEPT ![r] = "opened"]
      /\ tmp' = inode /\ fd' = [fd EXCEPT ![r] = inode]
      /\ content' = [content EXCEPT ![inode] = NoText]
      /\ UNCHANGED <<article, text, vecs, path, needless>>
      /\ overlap' = (overlap \/ \E s \in Runs : pc[s] \in {"opened", "written"})
  BY DEF Open, Goto
<1>3. inode \in Inodes /\ inode # path
  BY <1>1, <1>2 DEF CorpusInv, TypeOK, FreshInv, Inodes, CacheAssumption
<1> HIDE DEF inode
<1>4. InSave' = InSave \cup {r} /\ r \notin InSave
  BY <1>1, <1>2 DEF TypeOK, InSave
<1>5. TypeOK'
  BY <1>1, <1>2, <1>3 DEF TypeOK, Saving
<1>6. VectorInv'
  BY <1>1, <1>2 DEF CorpusInv, TypeOK, VectorInv, Saving
<1>7. FreshInv'
  <2>1. ASSUME NEW s \in Runs, pc'[s] \in {"start", "load", "embed", "save"}
        PROVE  s \notin {path, inode}
    <3>1. s # r /\ pc[s] = pc'[s]
      BY <1>1, <1>2, <2>1 DEF TypeOK
    <3> QED
      BY <2>1, <3>1 DEF CorpusInv, FreshInv, inode
  <2>2. ASSUME NEW s \in InSave'
        PROVE  fd'[s] \in Inodes
    BY <1>1, <1>2, <1>3, <1>4 DEF CorpusInv, TypeOK, FreshInv, InSave
  <2> QED
    BY <1>2, <1>3, <2>1, <2>2 DEF FreshInv
<1>8. ~overlap' => InSave' = {r} /\ ~overlap
  BY <1>2, <1>4 DEF InSave
<1>9. AloneInv'
  <2>1. /\ fd'[r] = inode /\ tmp' = inode /\ inode # NoFile
        /\ pc'[r] = "opened" /\ content'[inode] = NoText
    BY <1>1, <1>2, <1>3 DEF TypeOK, Inodes, CacheAssumption
  <2> QED
    BY <1>8, <2>1 DEF AloneInv
<1>10. DamageNeedsOverlap'
  BY <1>1, <1>2, <1>3, <1>8 DEF CorpusInv, TypeOK, DamageNeedsOverlap
<1> QED
  BY <1>5, <1>6, <1>7, <1>9, <1>10 DEF CorpusInv

\* A write, whole or cut short, is to the temporary file unless saves overlap.
LEMMA WriteInv ==
    ASSUME CorpusInv, NEW r \in Runs, Write(r) \/ WriteError(r)
    PROVE  CorpusInv'
<1>1. TypeOK
  BY DEF CorpusInv
<1>2. /\ pc[r] = "opened"
      /\ \/ Write(r) /\ pc' = [pc EXCEPT ![r] = "written"]
         \/ WriteError(r) /\ pc' = [pc EXCEPT ![r] = "indexed"]
      /\ UNCHANGED <<article, text, vecs, path, tmp, fd, overlap, needless>>
  BY DEF Write, WriteError, Goto
<1>3. r \in InSave /\ InSave' \subseteq InSave
  BY <1>1, <1>2 DEF TypeOK, InSave
<1>4. PICK c \in {text[r], Garbage} : content' = [content EXCEPT ![fd[r]] = c]
  BY DEF Write, WriteError
<1>5. Write(r) /\ content[fd[r]] = NoText => content' = [content EXCEPT ![fd[r]] = text[r]]
  BY DEF Write
<1>6. TypeOK'
  BY <1>1, <1>2, <1>4 DEF TypeOK, Saving
<1>7. VectorInv'
  BY <1>1, <1>2 DEF CorpusInv, TypeOK, VectorInv, Saving
<1>8. FreshInv'
  BY <1>1, <1>2, <1>3 DEF CorpusInv, TypeOK, FreshInv
<1>9. AloneInv'
  <2> SUFFICES ASSUME ~overlap
               PROVE  AloneInv'
    BY <1>2 DEF AloneInv
  <2>1. /\ InSave = {r} /\ fd[r] = tmp /\ tmp # NoFile /\ tmp \in Inodes
        /\ content[tmp] = NoText
    BY <1>1, <1>2, <1>3 DEF CorpusInv, TypeOK, AloneInv
  <2>2. CASE Write(r)
    <3>1. content'[tmp] = text[r] /\ pc'[r] = "written"
      BY <1>1, <1>2, <1>5, <2>1, <2>2 DEF TypeOK, WriteError, Write, Goto
    <3> QED
      BY <1>2, <1>3, <2>1, <3>1 DEF AloneInv
  <2>3. CASE WriteError(r)
    <3>1. pc'[r] = "indexed"
      BY <1>1, <2>3 DEF TypeOK, WriteError, Goto
    <3>2. InSave' = {}
      BY <1>3, <2>1, <3>1 DEF InSave
    <3> QED
      BY <3>2 DEF AloneInv
  <2> QED
    BY <1>2, <2>2, <2>3
<1>10. DamageNeedsOverlap'
  <2> SUFFICES ASSUME ~overlap, path # NoFile
               PROVE  content'[path] = content[path]
    BY <1>2 DEF CorpusInv, DamageNeedsOverlap
  <2>1. fd[r] # path
    BY <1>3 DEF CorpusInv, FreshInv, AloneInv
  <2> QED
    BY <1>1, <1>4, <2>1 DEF TypeOK
<1> QED
  BY <1>6, <1>7, <1>8, <1>9, <1>10 DEF CorpusInv

\* The rename gives the cache file a whole text, unless saves overlap.
LEMMA RenameInv ==
    ASSUME CorpusInv, NEW r \in Runs, Rename(r)
    PROVE  CorpusInv'
<1> USE DEF Rename, Goto
<1>1. TypeOK
  BY DEF CorpusInv
<1>2. r \in InSave /\ InSave' = InSave \ {r}
  BY <1>1 DEF TypeOK, InSave
<1>3. TypeOK'
  BY <1>1 DEF TypeOK, Saving
<1>4. VectorInv'
  BY <1>1 DEF CorpusInv, TypeOK, VectorInv, Saving
<1>5. FreshInv'
  BY <1>1, <1>2, CacheAssumption DEF CorpusInv, TypeOK, FreshInv
<1>6. AloneInv' /\ DamageNeedsOverlap'
  <2> SUFFICES ASSUME ~overlap
               PROVE  AloneInv' /\ DamageNeedsOverlap'
    BY DEF AloneInv, DamageNeedsOverlap
  <2>1. InSave' = {}
    BY <1>2 DEF CorpusInv, AloneInv
  <2>2. tmp # NoFile /\ content[tmp] = text[r] /\ text[r] \in Versions
    BY <1>2 DEF CorpusInv, AloneInv, VectorInv
  <2> QED
    BY <2>1, <2>2 DEF CorpusInv, AloneInv, DamageNeedsOverlap
<1> QED
  BY <1>3, <1>4, <1>5, <1>6 DEF CorpusInv

\* A crash cuts writes short; nobody saves afterwards.
LEMMA CrashInv ==
    ASSUME CorpusInv, Crash
    PROVE  CorpusInv'
<1>1. TypeOK
  BY DEF CorpusInv
<1>2. PICK cut \in SUBSET {fd[r] : r \in {s \in Runs : pc[s] = "opened"}} :
         content' = [i \in Inodes |-> IF i \in cut THEN Garbage ELSE content[i]]
  BY DEF Crash
<1>3. /\ pc' = [r \in Runs |-> IF pc[r] \in {"start", "indexed"} THEN pc[r] ELSE "failed"]
      /\ UNCHANGED <<article, text, vecs, path, tmp, fd, overlap, needless>>
  BY DEF Crash
<1>4. InSave' = {}
  BY <1>3 DEF InSave
<1>5. TypeOK'
  BY <1>1, <1>2, <1>3 DEF TypeOK, Saving
<1>6. VectorInv'
  BY <1>3 DEF CorpusInv, VectorInv, Saving
<1>7. FreshInv'
  BY <1>3, <1>4 DEF CorpusInv, FreshInv
<1>8. AloneInv'
  BY <1>4 DEF AloneInv
<1>9. DamageNeedsOverlap'
  <2> SUFFICES ASSUME ~overlap, path # NoFile
               PROVE  content'[path] = content[path]
    BY <1>3 DEF CorpusInv, DamageNeedsOverlap
  <2>1. path \notin cut
    BY DEF CorpusInv, AloneInv, FreshInv, InSave
  <2> QED
    BY <1>1, <1>2, <2>1 DEF TypeOK
<1> QED
  BY <1>5, <1>6, <1>7, <1>8, <1>9 DEF CorpusInv

\* The invariant, for any runs and texts.
THEOREM CorpusInvariant == Spec => []CorpusInv
<1>1. CorpusInv /\ [Next]_vars => CorpusInv'
  <2> SUFFICES ASSUME CorpusInv, [Next]_vars
               PROVE  CorpusInv'
    OBVIOUS
  <2>1. CASE Edit \/ UNCHANGED vars
    BY <2>1 DEF Edit, vars, files, CorpusInv, TypeOK, VectorInv, FreshInv, AloneInv,
                DamageNeedsOverlap, InSave
  <2>2. ASSUME NEW r \in Runs, Step(r)
        PROVE  CorpusInv'
    BY <2>2, IndexInv, OpenInv, WriteInv, RenameInv DEF Step
  <2> QED
    BY <2>1, <2>2, CrashInv DEF Next
<1> QED
  BY <1>1, InitCorpusInv, PTL DEF Spec

\* No run ranks passages by the vectors of another text (index.go:91).
THEOREM VectorsAlwaysMatch == Spec => []VectorsMatchTexts
<1>1. CorpusInv => VectorsMatchTexts
  BY DEF CorpusInv, VectorInv, VectorsMatchTexts
<1> QED
  BY <1>1, CorpusInvariant, PTL

\* Crashes and failed writes alone never damage the cache file (store.go:66).
THEOREM OnlyOverlapDamages == Spec => []DamageNeedsOverlap
BY CorpusInvariant, PTL DEF CorpusInv
=============================================================================
