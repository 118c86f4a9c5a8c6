---------------------------- MODULE CorpusCache ----------------------------
(***************************************************************************)
(* The embedding cache on disk (retrieval/store.go) as Index.indexOne uses *)
(* it, for one source URL.  Every run of an analysis has its own Index;    *)
(* all runs share the directory, and every save of a URL goes through the  *)
(* same temporary file.  A file is an inode that a rename moves: a run     *)
(* that still holds it open goes on writing wherever it is now.            *)
(***************************************************************************)
EXTENDS FiniteSets

CONSTANTS
    Runs,       \* analysis runs that index the URL, once each
    Versions,   \* texts the source may have
    Cut,        \* those with a chunk border inside a multi-byte character
    NoText,     \* nothing chunked, no vectors, an empty file
    Garbage,    \* the content of a file that is not one whole write
    NoFile      \* no file under a path

ASSUME CacheAssumption ==
    /\ Cut \subseteq Versions
    /\ NoFile \notin Runs
    /\ NoText \notin Versions /\ Garbage \notin Versions

VARIABLES
    article,    \* the text the provider serves at present
    pc,         \* pc[r]: where indexOne is in run r
    text,       \* text[r]: the version that r chunked
    vecs,       \* vecs[r]: the version whose embeddings r indexed
    content,    \* content[i]: what is in the inode that run i created
    path,       \* the inode of the cache file
    tmp,        \* the inode of the temporary file
    fd,         \* fd[r]: the inode that r writes to
    overlap,    \* auxiliary: two runs have been saving at the same time
    needless    \* auxiliary: the runs that embedded what the file held

files == <<content, path, tmp, fd>>
vars == <<article, pc, text, vecs, files, overlap, needless>>

Inodes == Runs
Saving == {"save", "opened", "written"}

TypeOK ==
    /\ article \in Versions
    /\ pc \in [Runs -> {"start", "load", "embed", "indexed", "failed"} \cup Saving]
    /\ text \in [Runs -> Versions \cup {NoText}]
    /\ vecs \in [Runs -> Versions \cup {NoText}]
    /\ content \in [Inodes -> Versions \cup {NoText, Garbage}]
    /\ {path, tmp} \subseteq Inodes \cup {NoFile}
    /\ fd \in [Runs -> Inodes \cup {NoFile}]
    /\ overlap \in BOOLEAN /\ needless \subseteq Runs

Init ==
    /\ article \in Versions
    /\ pc = [r \in Runs |-> "start"]
    /\ text = [r \in Runs |-> NoText]
    /\ vecs = [r \in Runs |-> NoText]
    /\ content = [i \in Inodes |-> NoText]
    /\ path = NoFile /\ tmp = NoFile
    /\ fd = [r \in Runs |-> NoFile]
    /\ overlap = FALSE /\ needless = {}

Goto(r, from, to) == pc[r] = from /\ pc' = [pc EXCEPT ![r] = to]

-----------------------------------------------------------------------------
(* indexOne *)

\* The provider changes the text.
Edit ==
    /\ article' \in Versions \ {article}
    /\ UNCHANGED <<pc, text, vecs, files, overlap, needless>>

Chunk(r) ==
    /\ Goto(r, "start", "load")
    /\ text' = [text EXCEPT ![r] = article]
    /\ UNCHANGED <<article, vecs, files, overlap, needless>>

\* What encoding/json returns for the chunk texts that were saved: a cut
\* character is two invalid pieces, each of which comes back as U+FFFD.
Whole == [v \in Versions |-> v \notin Cut]

OnDisk == IF path = NoFile THEN NoText ELSE content[path]

\* Mutant of Hit: any readable file with the URL will do.
HitAnyText(r) == OnDisk \notin {NoText, Garbage} /\ Whole[text[r]]

\* Mutant of Hit: a file that is there is a hit.
HitAnyFile(r) == OnDisk # NoText

\* Load, and the comparison of the cached chunk texts with the new ones.
Hit(r) == OnDisk = text[r] /\ Whole[text[r]]

LoadHit(r) ==
    /\ Goto(r, "load", "indexed")
    /\ Hit(r)
    /\ vecs' = [vecs EXCEPT ![r] = OnDisk]
    /\ UNCHANGED <<article, text, files, overlap, needless>>

LoadMiss(r) ==
    /\ Goto(r, "load", "embed")
    /\ ~Hit(r)
    /\ needless' = IF OnDisk = text[r] THEN needless \cup {r} ELSE needless
    /\ UNCHANGED <<article, text, vecs, files, overlap>>

Embed(r) ==
    /\ Goto(r, "embed", "save")
    /\ vecs' = [vecs EXCEPT ![r] = text[r]]
    /\ UNCHANGED <<article, text, files, overlap, needless>>

\* The service fails, which ends the run, or returns fewer vectors than it
\* was given texts, which the copy into the cache entry does not survive.
EmbedError(r) ==
    /\ Goto(r, "embed", "failed")
    /\ UNCHANGED <<article, text, vecs, files, overlap, needless>>

-----------------------------------------------------------------------------
(* Save; its error is ignored, and the run goes on with its vectors. *)

\* os.WriteFile, first half: the file is created, or truncated.
Open(r) ==
    /\ Goto(r, "save", "opened")
    /\ LET inode == IF tmp = NoFile THEN r ELSE tmp
       IN  /\ tmp' = inode
           /\ fd' = [fd EXCEPT ![r] = inode]
           /\ content' = [content EXCEPT ![inode] = NoText]
    /\ overlap' = (overlap \/ \E s \in Runs : pc[s] \in {"opened", "written"})
    /\ UNCHANGED <<article, text, vecs, path, needless>>

\* Second half: one write at offset 0.  If another run has written to the
\* inode meanwhile, the end of a longer text may stick out.
Write(r) ==
    /\ Goto(r, "opened", "written")
    /\ \E c \in IF content[fd[r]] = NoText THEN {text[r]} ELSE {text[r], Garbage} :
          content' = [content EXCEPT ![fd[r]] = c]
    /\ UNCHANGED <<article, text, vecs, path, tmp, fd, overlap, needless>>

\* Mutant of WriteError: the error of the write is not looked at.
WriteErrorIgnored(r) ==
    /\ Goto(r, "opened", "written")
    /\ content' = [content EXCEPT ![fd[r]] = Garbage]
    /\ UNCHANGED <<article, text, vecs, path, tmp, fd, overlap, needless>>

WriteError(r) ==
    /\ Goto(r, "opened", "indexed")
    /\ content' = [content EXCEPT ![fd[r]] = Garbage]
    /\ UNCHANGED <<article, text, vecs, path, tmp, fd, overlap, needless>>

\* MkdirAll or the open fails.
SaveError(r) ==
    /\ Goto(r, "save", "indexed")
    /\ UNCHANGED <<article, text, vecs, files, overlap, needless>>

\* Nothing is under the temporary name when another run has renamed it; the
\* rename may fail for other reasons, and then leaves it there.
Rename(r) ==
    /\ Goto(r, "written", "indexed")
    /\ \/ tmp # NoFile /\ path' = tmp /\ tmp' = NoFile
       \/ UNCHANGED <<path, tmp>>
    /\ UNCHANGED <<article, text, vecs, content, fd, overlap, needless>>

\* The server stops; files stay, a write may have been cut short.
Crash ==
    /\ \E r \in Runs : pc[r] \notin {"start", "indexed", "failed"}
    /\ pc' = [r \in Runs |-> IF pc[r] \in {"start", "indexed"} THEN pc[r] ELSE "failed"]
    /\ \E cut \in SUBSET {fd[r] : r \in {s \in Runs : pc[s] = "opened"}} :
          content' = [i \in Inodes |-> IF i \in cut THEN Garbage ELSE content[i]]
    /\ UNCHANGED <<article, text, vecs, path, tmp, fd, overlap, needless>>

Step(r) ==
    \/ Chunk(r) \/ LoadHit(r) \/ LoadMiss(r) \/ Embed(r) \/ EmbedError(r)
    \/ Open(r) \/ Write(r) \/ WriteError(r) \/ SaveError(r) \/ Rename(r)

Next == (\E r \in Runs : Step(r)) \/ Edit \/ Crash

Spec == Init /\ [][Next]_vars

-----------------------------------------------------------------------------
(* Properties *)

\* A run never ranks passages by the vectors of another text: what races,
\* crashes and edits leave in the file is either rejected or what the run
\* has chunked itself.
VectorsMatchTexts ==
    \A r \in Runs : pc[r] = "indexed" => vecs[r] = text[r]

\* A crash or a failed write alone never damages the cache file: that takes
\* two runs that save the same URL at the same time, through one temporary
\* name.
DamageNeedsOverlap ==
    ~overlap => path = NoFile \/ content[path] \in Versions

\* "skip re-embed on unchanged text" (README.md:12): a text that is in the
\* cache file is not embedded again.
UnchangedIsNotEmbedded ==
    needless = {}

-----------------------------------------------------------------------------
(* The inductive invariant. *)

InSave == {r \in Runs : pc[r] \in {"opened", "written"}}

\* What a run has chunked, and that its vectors are of that from when it has
\* any, whether or not they can be saved.
VectorInv ==
    \A r \in Runs :
        /\ pc[r] \notin {"start", "failed"} => text[r] \in Versions
        /\ pc[r] \in {"indexed"} \cup Saving => vecs[r] = text[r]

\* A run creates its inode when it opens the temporary file, not before, and
\* no inode has both names.
FreshInv ==
    /\ tmp # NoFile => tmp # path
    /\ \A r \in Runs :
          /\ pc[r] \in {"start", "load", "embed", "save"} => r \notin {path, tmp}
          /\ r \in InSave => fd[r] \in Inodes

\* As long as no two runs have been saving at the same time, whoever saves
\* writes to the temporary file.
AloneInv ==
    ~overlap =>
        /\ \A r, s \in InSave : r = s
        /\ \A r \in InSave :
              /\ fd[r] = tmp /\ tmp # NoFile
              /\ content[tmp] = IF pc[r] = "opened" THEN NoText ELSE text[r]

CorpusInv ==
    /\ TypeOK
    /\ VectorInv
    /\ FreshInv
    /\ AloneInv
    /\ DamageNeedsOverlap
=============================================================================
