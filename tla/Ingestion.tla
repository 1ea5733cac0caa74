------------------------------ MODULE Ingestion ------------------------------
(***************************************************************************)
(* One upload: the document is cut into overlapping chunks, each chunk is  *)
(* scanned for injection patterns, and all are embedded and stored.        *)
(*                                                                         *)
(* The chunker joins the paragraphs again with the separator they were     *)
(* split at, so the chunk it builds is a stretch of the text that ends     *)
(* where the next paragraph starts: `lo' is its first position and `pos'   *)
(* (char_pos) its end.  A character is its position; all that matters of   *)
(* it is whether strip() would remove it.  The offsets and page numbers a  *)
(* chunk is labelled with are left out.                                    *)
(***************************************************************************)
EXTENDS Integers, Sequences

CONSTANTS
    ChunkSize, ChunkOverlap,    \* 512 and 50 characters
    Documents                   \* texts: sequences of paragraphs

\* A paragraph: its length and the offsets of its printable characters.
Paragraph == [len : Nat, ink : SUBSET Nat]
Separator == 2      \* "\n\n"

ASSUME SizesAssumption == ChunkSize \in Nat /\ ChunkOverlap \in Nat
ASSUME DocumentsAssumption ==
    /\ Documents \subseteq Seq(Paragraph)
    /\ \A d \in Documents : \A n \in 1..Len(d) : \A i \in d[n].ink : i < d[n].len

VARIABLES
    pc,         \* the next step of the upload
    doc,        \* the text uploaded
    k,          \* the next paragraph
    lo, pos,    \* the chunk under construction
    ink,        \* the printable positions read so far
    longest,    \* the longest paragraph read so far
    chunks,     \* the chunks, as [first, end] positions
    planted,    \* an injection pattern in the text, from and to; << >>: none
    flagged,    \* the chunks flagged by the scan
    stored      \* the chunks of this document in the vector store

loop == <<k, lo, pos, ink, longest, chunks>>
vars == <<pc, doc, loop, planted, flagged, stored>>

Steps == {"upload", "chunking", "scan", "embed", "add", "done", "refused", "failed"}
Chunk == [lo : Nat, hi : Nat]
Covers(c, a, b) == c.lo <= a /\ b < c.hi

TypeOK ==
    /\ pc \in Steps /\ doc \in Documents
    /\ k \in 1..(Len(doc) + 1)
    /\ lo \in Nat /\ pos \in Nat /\ lo <= pos /\ longest \in Nat
    /\ ink \subseteq 0..(pos - 1)
    /\ chunks \subseteq Chunk /\ flagged \subseteq chunks /\ stored \subseteq chunks
    /\ planted \in {<< >>} \cup (ink \X ink)

Init ==
    /\ pc = "upload" /\ doc \in Documents
    /\ k = 1 /\ lo = 0 /\ pos = 0 /\ ink = {} /\ longest = 0
    /\ chunks = {} /\ planted = << >> /\ flagged = {} /\ stored = {}

Goto(step) == pc' = step /\ UNCHANGED <<doc, planted>>

-----------------------------------------------------------------------------
\* The endpoints refuse a matter the user is not in and a file that cannot be
\* read.
Upload ==
    /\ pc = "upload"
    /\ \E step \in {"chunking", "refused", "failed"} : Goto(step)
    /\ UNCHANGED <<loop, flagged, stored>>

\* Does the paragraph still fit in the chunk?
FitsBare(len) == pos - lo + len <= ChunkSize    \* mutant
Fits(len) == pos - lo + len + Separator <= ChunkSize

\* A chunk of white space is dropped.
Flush == IF \E p \in ink : lo <= p THEN chunks \cup {[lo |-> lo, hi |-> pos]} ELSE chunks

\* Where the next chunk starts: current_chunk[-chunk_overlap:] of the last.
NoOverlap == pos                         \* mutant
Unclamped == pos - ChunkOverlap         \* mutant
OverlapStart == IF pos - ChunkOverlap < lo THEN lo ELSE pos - ChunkOverlap

\* One turn of the loop of chunk_document.
NextParagraph ==
    /\ pc = "chunking" /\ k <= Len(doc)
    /\ LET para == doc[k] IN
       /\ IF Fits(para.len)
          THEN UNCHANGED <<lo, chunks>>
          ELSE chunks' = Flush /\ lo' = OverlapStart
       /\ pos' = pos + para.len + Separator
       /\ ink' = ink \cup {pos + i : i \in para.ink}
       /\ longest' = IF para.len > longest THEN para.len ELSE longest
    /\ k' = k + 1
    /\ UNCHANGED <<pc, doc, planted, flagged, stored>>

\* "Don't forget the last chunk"
Forget == chunks    \* mutant
LastChunk == Flush

ChunksReady ==
    /\ pc = "chunking" /\ k > Len(doc)
    /\ chunks' = LastChunk
    /\ Goto("scan")
    /\ UNCHANGED <<k, lo, pos, ink, longest, flagged, stored>>

\* Each chunk is scanned by itself: a pattern is found where a chunk holds the
\* whole of it.  The text may hold one anywhere, from a printable character to
\* another.
Scan ==
    /\ pc = "scan"
    /\ \E p \in {<< >>} \cup {w \in ink \X ink : w[1] <= w[2]} :
          /\ planted' = p
          /\ flagged' = IF p = << >> THEN {} ELSE {c \in chunks : Covers(c, p[1], p[2])}
    /\ pc' = "embed"
    /\ UNCHANGED <<doc, loop, stored>>

\* One call embeds all chunks; it may raise, and does for an empty document.
Embed ==
    /\ pc = "embed"
    /\ \/ chunks # {} /\ Goto("add")
       \/ Goto("failed")
    /\ UNCHANGED <<loop, flagged, stored>>

\* One call adds all chunks, flagged or not; it may raise.
AddChunks ==
    /\ pc = "add"
    /\ \/ Goto("done") /\ stored' = chunks
       \/ Goto("failed") /\ UNCHANGED stored
    /\ UNCHANGED <<loop, flagged>>

\* The request is answered.
Answered == pc \in {"done", "refused", "failed"} /\ UNCHANGED vars

Next ==
    \/ Upload \/ NextParagraph \/ ChunksReady
    \/ Scan \/ Embed \/ AddChunks \/ Answered

Spec == Init /\ [][Next]_vars

-----------------------------------------------------------------------------
(***************************************************************************)
(* Properties.                                                             *)
(***************************************************************************)

\* As soon as any chunk of a document is stored, and so whenever its ingestion
\* succeeds or fails, every printable character is in a stored chunk, however the
\* paragraphs fall on the chunk boundaries (chunk_document, ingest_document).
Kept == pc = "done" \/ stored # {}
NothingIsLost ==
    Kept => \A p \in ink : \E c \in stored : Covers(c, p, p)

\* Cutting the text hides no pattern: one that is no longer than the overlap,
\* and one character more, is whole in some stored chunk, which is flagged,
\* also when it runs across the end of chunks and paragraphs.
PatternsAreSeen ==
    Kept /\ planted # << >> /\ planted[2] - planted[1] <= ChunkOverlap =>
        flagged \cap stored # {}

\* A chunk is larger than ChunkSize only if some paragraph leaves no room for
\* the overlap: cutting never piles up short paragraphs (chunk_document).
OversizeIsAParagraph ==
    \A c \in chunks :
        c.hi - c.lo > ChunkSize => ChunkOverlap + longest + Separator > ChunkSize

(***************************************************************************)
(* The inductive invariant.                                                *)
(***************************************************************************)
\* Nothing is read before the upload is accepted.
StartInv == pc = "upload" => ink = {}

\* The chunk under construction reaches back over the overlap, or to the start.
TailInv == lo = 0 \/ lo + ChunkOverlap <= pos

\* Two printable characters no further apart than the overlap share a chunk, or
\* will share the one under construction.
Shared(a, b) == \E c \in chunks : Covers(c, a, b)
WindowInv ==
    \A a, b \in ink : a <= b /\ b - a <= ChunkOverlap =>
        Shared(a, b) \/ (pc \in {"upload", "chunking"} /\ lo <= a)

ScanInv ==
    /\ stored = IF pc = "done" THEN chunks ELSE {}
    /\ planted # << >> =>
          /\ planted[1] <= planted[2]
          /\ flagged = {c \in chunks : Covers(c, planted[1], planted[2])}
          /\ pc \notin {"upload", "chunking", "scan"}
    /\ pc \in {"upload", "chunking", "scan"} => flagged = {}

SizeInv ==
    pos - lo > ChunkSize => ChunkOverlap + longest + Separator > ChunkSize

IInv == StartInv /\ TailInv /\ WindowInv /\ ScanInv /\ SizeInv /\ OversizeIsAParagraph
=============================================================================
