--------------------------- MODULE MCQueryService ---------------------------
(* Values of QueryService's constants for TLC: two spellings of one query, *)
(* one document per matter.  Requests may be exchanged.                    *)
EXTENDS QueryService, TLC

CONSTANTS u1, u2, s1, d1, d2, q1, q2, q3

MCMatterOf == [d \in Docs |-> IF d = d1 THEN "m" ELSE "n"]
MCNormal == [x \in Texts |-> IF x = "ASK" THEN "ask" ELSE x]
Interchangeable == Permutations(Queries)
=============================================================================
