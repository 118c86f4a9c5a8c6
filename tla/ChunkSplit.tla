----------------------------- MODULE ChunkSplit -----------------------------
(***************************************************************************)
(* corpus.Split: a text is cut into overlapping passages.  The text is its *)
(* length in bytes and the offsets of its blanks; a passage is the pair of *)
(* its first offset and the offset after its last one.                     *)
(***************************************************************************)
EXTENDS Integers, Sequences

CONSTANTS
    Lengths,    \* the lengths a trimmed text may have
    Size,       \* DefaultChunkSize, 750 in the code
    Overlap     \* DefaultChunkOverlap, 150

\* What ChunkSource passes, the only caller.  (A size up to 150 with an
\* overlap out of range is replaced by an overlap above the size.)
ASSUME SplitAssumption ==
    /\ Lengths \subseteq Nat
    /\ Size \in Nat /\ Overlap \in Nat /\ Overlap < Size

VARIABLES
    len,        \* len(text)
    blank,      \* offsets that strings.TrimSpace removes at an end
    start,      \* the loop's start
    chunks,     \* the passages so far
    done        \* Split has returned

source == <<len, blank>>
splitVars == <<source, start, chunks, done>>

SplitTypeOK ==
    /\ len \in Lengths /\ blank \subseteq 0..len-1
    /\ start \in 0..len
    /\ chunks \in Seq((0..len) \X (0..len))
    /\ done \in BOOLEAN

\* The text was trimmed; an empty one has no passages.
SplitInit ==
    /\ len \in Lengths
    /\ blank \in SUBSET (0..len-1)
    /\ len > 0 => 0 \notin blank /\ len - 1 \notin blank
    /\ start = 0
    /\ chunks = <<>>
    /\ done = (len = 0)

\* A text that fits is its only passage.
WholeText ==
    /\ ~done /\ len <= Size
    /\ chunks' = <<<<0, len>>>>
    /\ done' = TRUE
    /\ UNCHANGED <<source, start>>

\* Mutant of end: one byte too many.
endPast == IF start + Size > len THEN len ELSE start + Size + 1

end == IF start + Size > len THEN len ELSE start + Size

\* Mutant of Advance: passages are laid end to end.
AdvanceWhole ==
    /\ UNCHANGED source
    /\ IF end >= len THEN done' = TRUE /\ UNCHANGED start
                     ELSE start' = end /\ UNCHANGED done

\* The loop's end, or its next start.
Advance ==
    /\ UNCHANGED source
    /\ IF end >= len THEN done' = TRUE /\ UNCHANGED start
                     ELSE start' = end - Overlap /\ UNCHANGED done

\* from..to-1 is what TrimSpace leaves of start..end-1.
Trimmed(from, to) ==
    /\ start <= from /\ from < to /\ to <= end
    /\ from \notin blank /\ to - 1 \notin blank
    /\ \A i \in start..end-1 : i < from \/ i >= to => i \in blank

Piece ==
    /\ ~done /\ len > Size
    /\ \E from, to \in 0..len :
          Trimmed(from, to) /\ chunks' = Append(chunks, <<from, to>>)
    /\ Advance

\* Mutant of BlankPiece: the loop continues without a new start.
BlankPieceAgain ==
    /\ ~done /\ len > Size
    /\ start..end-1 \subseteq blank
    /\ UNCHANGED splitVars

BlankPiece ==
    /\ ~done /\ len > Size
    /\ start..end-1 \subseteq blank
    /\ UNCHANGED chunks
    /\ Advance

SplitNext == WholeText \/ Piece \/ BlankPiece

SplitSpec == SplitInit /\ [][SplitNext]_splitVars

FairSplit == SplitSpec /\ WF_splitVars(SplitNext)

-----------------------------------------------------------------------------
(* Properties *)

Holds(a, b) == \E k \in DOMAIN chunks : chunks[k][1] <= a /\ b <= chunks[k][2]

\* The windows whose end is at most e and that are at most one longer than
\* the overlap are each within one passage.
Kept(e) ==
    \A a, b \in 0..len :
        a < b /\ b <= e /\ b - a <= Overlap + 1 /\ a \notin blank /\ b - 1 \notin blank
            => Holds(a, b)

\* "so facts spanning chunk boundaries are not lost" (README.md:83): whatever
\* is not longer than the overlap is found whole in some passage, blanks and
\* skipped passages notwithstanding.
FactsAreKept == done => Kept(len)

\* A passage is never empty and never longer than the size the embedding and
\* the prompt are laid out for.
PassagesFit ==
    \A k \in DOMAIN chunks :
        chunks[k][1] < chunks[k][2] /\ chunks[k][2] - chunks[k][1] <= Size

\* Up to where the text is kept while the loop runs.
Frontier == IF done THEN len ELSE IF start = 0 THEN 0 ELSE start + Overlap

\* The inductive invariant: a running loop has text left, and what the next
\* overlap begins with has been kept.
IInv ==
    /\ SplitTypeOK
    /\ ~done => start < len /\ Frontier < len
    /\ done \/ len > Size \/ start = 0
    /\ Kept(Frontier)
    /\ PassagesFit

\* Split returns: every start is beyond the one before.
Returns == <>done
=============================================================================
