SPECIFICATION Spec
CONSTANTS
  ChunkSize = 6
  ChunkOverlap = 3
  MaxParagraphs = 3
  MaxLen = 3
  Documents <- MCDocuments
INVARIANTS TypeOK NothingIsLost PatternsAreSeen OversizeIsAParagraph
