----------------------------- MODULE MCPipeline -----------------------------
(* Values of Pipeline's constants for TLC: one chunk per kind of text that  *)
(* a scan treats differently, one of them outside the user's matters when   *)
(* the user may read only the first.                                        *)
EXTENDS AuditTrace

CONSTANTS c1, c2, c3, w1

MCChunks == {c1, c2, c3}
MCFewChunks == {c1, c2}
MCWebChunks == {w1}
MCMatters == {"m", "n"}
MCMatterOf == [c \in Chunks |-> IF c = c2 THEN "n" ELSE "m"]
MCKindOf ==
    [c \in Items |-> CASE c = c1 -> "plain" [] c = c2 -> "many_signals"
                       [] OTHER -> "one_signal"]
=============================================================================
