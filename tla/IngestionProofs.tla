--------------------------- MODULE IngestionProofs ---------------------------
(***************************************************************************)
(* Proofs about Ingestion for any document and any chunk size and overlap: *)
(* the type invariant, that no text is lost, and that no pattern is hidden *)
(* by the way the text is cut.                                             *)
(***************************************************************************)
EXTENDS Ingestion, TLAPS

\* The paragraph about to be read.
LEMMA ParagraphTypes ==
    ASSUME TypeOK, k <= Len(doc)
    PROVE  /\ doc[k].len \in Nat
           /\ \A i \in doc[k].ink : i \in Nat /\ i < doc[k].len
<1>1. doc \in Seq(Paragraph) /\ k \in 1..Len(doc)
  BY DocumentsAssumption DEF TypeOK
<1>2. doc[k] \in Paragraph
  BY <1>1
<1>. QED
  BY <1>1, <1>2, DocumentsAssumption DEF Paragraph, TypeOK

LEMMA FlushTypes ==
    ASSUME TypeOK
    PROVE  Flush \subseteq Chunk /\ chunks \subseteq Flush
BY DEF TypeOK, Flush, Chunk

LEMMA TypeInit == Init => TypeOK
<1>. SUFFICES ASSUME Init PROVE TypeOK
  OBVIOUS
<1>1. doc \in Seq(Paragraph)
  BY DocumentsAssumption DEF Init
<1>2. 1 \in 1..(Len(doc) + 1)
  BY <1>1
<1>. QED
  BY <1>2 DEF Init, TypeOK, Steps

LEMMA TypeStep == TypeOK /\ [Next]_vars => TypeOK'
<1>. SUFFICES ASSUME TypeOK, [Next]_vars PROVE TypeOK'
  OBVIOUS
<1>0. doc \in Seq(Paragraph)
  BY DocumentsAssumption DEF TypeOK
<1>. USE DEF TypeOK, Steps, loop, Goto
<1>1. CASE Upload
  BY <1>1 DEF Upload
<1>2. CASE NextParagraph
  <2>. DEFINE para == doc[k]
  <2>1. para.len \in Nat /\ \A i \in para.ink : i \in Nat /\ i < para.len
    BY <1>2, ParagraphTypes DEF NextParagraph
  <2>2. chunks \subseteq chunks' /\ chunks' \subseteq Chunk
    BY <1>2, FlushTypes DEF NextParagraph
  <2>3. /\ pos' = pos + para.len + 2 /\ k' = k + 1 /\ k <= Len(doc)
        /\ ink' = ink \cup {pos + i : i \in para.ink}
        /\ longest' = IF para.len > longest THEN para.len ELSE longest
        /\ lo' = lo \/ lo' = OverlapStart
        /\ UNCHANGED <<pc, doc, planted, flagged, stored>>
    BY <1>2 DEF NextParagraph, Separator
  <2>. HIDE DEF para
  <2>4. ink' \subseteq 0..(pos' - 1)
    <3>1. SUFFICES ASSUME NEW p \in ink' PROVE p \in 0..(pos' - 1)
      OBVIOUS
    <3>2. CASE p \in ink
      <4>1. p \in 0..(pos - 1) /\ pos \in Nat
        BY <3>2
      <4>. QED
        BY <4>1, <2>1, <2>3
    <3>3. CASE p \in {pos + i : i \in para.ink}
      <4>1. PICK i \in para.ink : p = pos + i
        BY <3>3
      <4>2. i \in Nat /\ i < para.len /\ pos \in Nat /\ para.len \in Nat
        BY <2>1
      <4>3. pos' = pos + para.len + 2
        BY <2>3
      <4>. QED
        BY <4>1, <4>2, <4>3
    <3>. QED
      BY <2>3, <3>1, <3>2, <3>3
  <2>5. lo' \in Nat /\ lo' <= pos' /\ pos' \in Nat /\ longest' \in Nat
    BY <2>1, <2>3, SizesAssumption, SMTT(30) DEF OverlapStart
  <2>6. k' \in 1..(Len(doc) + 1)
    BY <2>3, <1>0
  <2>. QED
    BY <2>2, <2>3, <2>4, <2>5, <2>6
<1>3. CASE ChunksReady
  BY <1>3, FlushTypes DEF ChunksReady, LastChunk
<1>4. CASE Scan
  BY <1>4 DEF Scan
<1>5. CASE Embed
  BY <1>5 DEF Embed
<1>6. CASE AddChunks
  BY <1>6 DEF AddChunks
<1>7. CASE UNCHANGED vars
  BY <1>7 DEF vars
<1>. QED
  BY <1>1, <1>2, <1>3, <1>4, <1>5, <1>6, <1>7 DEF Next, Answered

\* In every reachable state, the chunk under construction is a stretch of the
\* text read so far, and what is flagged or stored is a chunk.
THEOREM TypeCorrect == Spec => []TypeOK
<1>. QED
  BY TypeInit, TypeStep, PTL DEF Spec

-----------------------------------------------------------------------------
\* What the chunk under construction holds is in a chunk once it is flushed.
LEMMA FlushCovers ==
    ASSUME TypeOK, NEW a \in ink, NEW b \in ink, a <= b, lo <= a
    PROVE  \E c \in Flush : Covers(c, a, b)
<1>1. [lo |-> lo, hi |-> pos] \in Flush
  BY DEF Flush
<1>2. Covers([lo |-> lo, hi |-> pos], a, b)
  BY DEF Covers, TypeOK
<1>. QED
  BY <1>1, <1>2

LEMMA SafeInit == Init => IInv
<1>. SUFFICES ASSUME Init PROVE IInv
  OBVIOUS
<1>1. StartInv /\ TailInv /\ WindowInv /\ OversizeIsAParagraph
  BY DEF Init, StartInv, TailInv, WindowInv, OversizeIsAParagraph
<1>2. ScanInv
  BY DEF Init, ScanInv
<1>3. SizeInv
  BY SizesAssumption DEF Init, SizeInv
<1>. QED
  BY <1>1, <1>2, <1>3 DEF IInv

\* A step of the loop.
LEMMA LoopStep ==
    ASSUME TypeOK, IInv, NextParagraph
    PROVE  IInv'
<1>. USE DEF IInv
<1>. DEFINE para == doc[k]
<1>1. para.len \in Nat /\ \A i \in para.ink : i \in Nat /\ i < para.len
  BY ParagraphTypes DEF NextParagraph
<1>2. /\ pos' = pos + para.len + 2 /\ pc = "chunking"
      /\ ink' = ink \cup {pos + i : i \in para.ink}
      /\ longest' = IF para.len > longest THEN para.len ELSE longest
      /\ UNCHANGED <<pc, doc, planted, flagged, stored>>
      /\ \/ pos - lo + para.len + 2 <= ChunkSize /\ UNCHANGED <<lo, chunks>>
         \/ chunks' = Flush /\ lo' = OverlapStart
  BY DEF NextParagraph, Separator, Fits
<1>. HIDE DEF para
<1>3. /\ lo \in Nat /\ pos \in Nat /\ lo <= pos /\ longest \in Nat /\ pos' \in Nat /\ lo' \in Nat
      /\ ink \subseteq 0..(pos - 1) /\ chunks \subseteq Chunk /\ longest' \in Nat
  BY <1>1, <1>2, SizesAssumption, SMTT(30) DEF TypeOK, OverlapStart
<1>0. StartInv'
  BY <1>2 DEF StartInv
<1>4. TailInv'
  BY <1>1, <1>2, <1>3, SizesAssumption DEF TailInv, OverlapStart
<1>5. ASSUME NEW a \in ink', NEW b \in ink', a <= b, b - a <= ChunkOverlap
      PROVE  Shared(a, b)' \/ lo' <= a
  <2>1. a \in Nat /\ b \in Nat
    BY <1>1, <1>2, <1>3
  <2>2. CASE b >= pos
    BY <1>2, <1>3, <1>5, <2>1, <2>2, SizesAssumption DEF TailInv, OverlapStart
  <2>3. CASE b < pos
    <3>1. a \in ink /\ b \in ink
      BY <1>1, <1>2, <1>3, <1>5, <2>1, <2>3
    <3>2. Shared(a, b) \/ lo <= a
      BY <1>5, <3>1 DEF WindowInv
    <3>3. CASE UNCHANGED <<lo, chunks>>
      BY <3>2, <3>3 DEF Shared
    <3>4. CASE chunks' = Flush
      <4>1. chunks \subseteq Flush
        BY FlushTypes
      <4>. QED
        BY <1>5, <3>1, <3>2, <3>4, <4>1, FlushCovers DEF Shared
    <3>. QED
      BY <1>2, <3>3, <3>4
  <2>. QED
    BY <1>3, <2>1, <2>2, <2>3
<1>6. WindowInv'
  BY <1>2, <1>5 DEF WindowInv
<1>7. ScanInv'
  <2>1. planted = << >> /\ flagged = {} /\ pc # "done"
    BY <1>2 DEF ScanInv
  <2>. QED
    BY <1>2, <2>1 DEF ScanInv
<1>8. SizeInv'
  BY <1>1, <1>2, <1>3, SizesAssumption DEF SizeInv, OverlapStart, Separator
<1>9. OversizeIsAParagraph'
  <2>1. \A c \in chunks' : c \in chunks \/ c = [lo |-> lo, hi |-> pos]
    BY <1>2 DEF Flush
  <2>. QED
    BY <1>1, <1>2, <1>3, <2>1, SizesAssumption DEF SizeInv, OversizeIsAParagraph, Separator
<1>. QED
  BY <1>0, <1>4, <1>6, <1>7, <1>8, <1>9

LEMMA SafeStep == TypeOK /\ IInv /\ [Next]_vars => IInv'
<1>. SUFFICES ASSUME TypeOK, IInv, [Next]_vars PROVE IInv'
  OBVIOUS
<1>. USE DEF IInv, loop, Goto
<1>1. CASE Upload
  <2>1. StartInv' /\ TailInv' /\ SizeInv' /\ OversizeIsAParagraph'
    BY <1>1 DEF Upload, StartInv, TailInv, SizeInv, OversizeIsAParagraph
  <2>2. ScanInv'
    BY <1>1 DEF Upload, ScanInv
  <2>3. WindowInv'
    BY <1>1 DEF Upload, StartInv, WindowInv, Shared
  <2>. QED
    BY <2>1, <2>2, <2>3
<1>2. CASE NextParagraph
  BY <1>2, LoopStep
<1>3. CASE ChunksReady
  <2>. USE DEF ChunksReady, LastChunk
  <2>1. StartInv' /\ TailInv' /\ SizeInv'
    BY <1>3 DEF StartInv, TailInv, SizeInv
  <2>2. ASSUME NEW a \in ink, NEW b \in ink, a <= b, b - a <= ChunkOverlap
        PROVE  \E c \in Flush : Covers(c, a, b)
    <3>1. Shared(a, b) \/ lo <= a
      BY <2>2 DEF WindowInv
    <3>. QED
      BY <2>2, <3>1, FlushCovers, FlushTypes DEF Shared
  <2>3. WindowInv'
    BY <1>3, <2>2 DEF WindowInv, Shared
  <2>4. ScanInv'
    BY <1>3 DEF ScanInv
  <2>5. OversizeIsAParagraph'
    BY <1>3 DEF OversizeIsAParagraph, SizeInv, Flush, TypeOK
  <2>. QED
    BY <2>1, <2>3, <2>4, <2>5
<1>4. CASE Scan
  <2>1. StartInv' /\ TailInv' /\ SizeInv' /\ WindowInv' /\ OversizeIsAParagraph'
    BY <1>4 DEF Scan, StartInv, TailInv, WindowInv, SizeInv, OversizeIsAParagraph, Shared
  <2>2. ScanInv'
    BY <1>4 DEF Scan, ScanInv
  <2>. QED
    BY <2>1, <2>2
<1>5. CASE Embed
  BY <1>5 DEF Embed, StartInv, TailInv, WindowInv, ScanInv, SizeInv, OversizeIsAParagraph, Shared
<1>6. CASE AddChunks
  BY <1>6 DEF AddChunks, StartInv, TailInv, WindowInv, ScanInv, SizeInv, OversizeIsAParagraph, Shared
<1>7. CASE UNCHANGED vars
  BY <1>7 DEF vars, StartInv, TailInv, WindowInv, ScanInv, SizeInv, OversizeIsAParagraph, Shared
<1>. QED
  BY <1>1, <1>2, <1>3, <1>4, <1>5, <1>6, <1>7 DEF Next, Answered

LEMMA Invariance == Spec => [](TypeOK /\ IInv)
<1>. QED
  BY TypeInit, TypeStep, SafeInit, SafeStep, PTL DEF Spec

\* Every printable character of a stored document is in a stored chunk.
THEOREM TextIsKept == Spec => []NothingIsLost
<1>1. TypeOK /\ IInv => NothingIsLost
  BY SizesAssumption DEF TypeOK, IInv, WindowInv, ScanInv, Shared, Kept, NothingIsLost
<1>. QED
  BY <1>1, Invariance, PTL

\* A pattern no longer than the overlap (and one character) is flagged in some
\* stored chunk, wherever the text is cut.
THEOREM NoPatternIsCut == Spec => []PatternsAreSeen
<1>1. TypeOK /\ IInv => PatternsAreSeen
  BY DEF TypeOK, IInv, WindowInv, ScanInv, Shared, Kept, PatternsAreSeen
<1>. QED
  BY <1>1, Invariance, PTL

\* Only a long paragraph makes a chunk exceed the chunk size.
THEOREM OversizeNeedsLongParagraph == Spec => []OversizeIsAParagraph
<1>1. IInv => OversizeIsAParagraph
  BY DEF IInv
<1>. QED
  BY <1>1, Invariance, PTL
=============================================================================
