---------------------------- MODULE MCIngestion ----------------------------
(* Documents of up to three short paragraphs, empty and blank ones too, for *)
(* a chunker with chunks of six characters.                                 *)
EXTENDS Ingestion

CONSTANTS MaxParagraphs, MaxLen

Paragraphs == UNION {[len : {n}, ink : SUBSET (0..(n - 1))] : n \in 0..MaxLen}
MCDocuments == UNION {[1..n -> Paragraphs] : n \in 1..MaxParagraphs}
=============================================================================
