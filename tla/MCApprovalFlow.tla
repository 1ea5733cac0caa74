--------------------------- MODULE MCApprovalFlow ---------------------------
(* Values of ApprovalFlow's constants for TLC: two or three traces, one of *)
(* which repeats another's call.                                           *)
EXTENDS ApprovalFlow

CONSTANTS t1, t2, t3

Two == {t1, t2}
Three == {t1, t2, t3}
MCTools == {"citation_lookup", "document_export", "legal_web_search"}
MCAllowed == {"citation_lookup", "document_export"}
MCQueries == {"q", "r"}

Lookups(t) == [tool |-> "citation_lookup", query |-> "q"]

\* t1 and t2 propose the same call.
SameCall == [t \in Traces |-> Lookups(t)]
\* t3 proposes another call of the same tool.
ThreeCalls ==
    [t \in Traces |-> IF t = t3 THEN [tool |-> "citation_lookup", query |-> "r"]
                                ELSE Lookups(t)]
=============================================================================
