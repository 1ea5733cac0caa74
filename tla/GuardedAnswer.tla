---------------------------- MODULE GuardedAnswer ----------------------------
(***************************************************************************)
(* What one query run promises about the material it works with, with      *)
(* nothing said of paths, scans, models or audit records: a draft cites    *)
(* only material that was cleared, is judged once, leads to a finished     *)
(* answer only if the judgement did not refuse it, and waits for a tool    *)
(* only if the judgement trusted it.                                       *)
(***************************************************************************)
CONSTANT Items      \* the chunks that a run may come across

VARIABLES
    cleared,    \* the material released for reading
    cited,      \* the material the draft rests on
    judged,     \* "no", "trusted", "doubted" (passed, not trusted) or "refused"
    asked,      \* a tool call has been requested
    outcome     \* "open", "complete", "awaiting_approval" or "failed"

vars == <<cleared, cited, judged, asked, outcome>>

Init == cleared = {} /\ cited = {} /\ judged = "no" /\ asked = FALSE /\ outcome = "open"

Clear ==
    /\ cited = {} /\ judged = "no" /\ outcome = "open"
    /\ cleared' \in SUBSET Items
    /\ UNCHANGED <<cited, judged, asked, outcome>>

Draft ==
    /\ cited = {} /\ judged = "no" /\ outcome = "open"
    /\ cited' \in SUBSET cleared
    /\ UNCHANGED <<cleared, judged, asked, outcome>>

Judge ==
    /\ judged = "no" /\ outcome = "open"
    /\ judged' \in {"trusted", "doubted", "refused"}
    /\ UNCHANGED <<cleared, cited, asked, outcome>>

Ask ==
    /\ judged \in {"trusted", "doubted"} /\ ~asked /\ outcome = "open"
    /\ asked' = TRUE
    /\ UNCHANGED <<cleared, cited, judged, outcome>>

Settle ==
    /\ outcome = "open"
    /\ \/ outcome' = "failed"
       \/ outcome' = "complete" /\ judged \in {"trusted", "doubted"} /\ ~asked
       \/ outcome' = "awaiting_approval" /\ judged = "trusted" /\ asked
    /\ UNCHANGED <<cleared, cited, judged, asked>>

Next == Clear \/ Draft \/ Judge \/ Ask \/ Settle

Spec == Init /\ [][Next]_vars
=============================================================================
