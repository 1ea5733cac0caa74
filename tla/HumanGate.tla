------------------------------ MODULE HumanGate ------------------------------
(***************************************************************************)
(* What the approval gate promises about one tool request per trace, with  *)
(* nothing said of contexts, caches, routes or crashes: a human decides a  *)
(* pending request once, the tool is called at most once and only after an *)
(* approval, and what is on record about the call is what happened.        *)
(***************************************************************************)
EXTENDS Naturals

CONSTANT Traces

VARIABLES
    gate,   \* "none", "pending", "approved" or "rejected"
    runs,   \* calls of the tool handler
    told    \* the result on record, "none" without one

vars == <<gate, runs, told>>

Init ==
    /\ gate = [t \in Traces |-> "none"]
    /\ runs = [t \in Traces |-> 0]
    /\ told = [t \in Traces |-> "none"]

Ask(t) ==
    /\ gate[t] = "none"
    /\ gate' = [gate EXCEPT ![t] = "pending"]
    /\ UNCHANGED <<runs, told>>

Decide(t, decision) ==
    /\ gate[t] = "pending"
    /\ gate' = [gate EXCEPT ![t] = decision]
    /\ UNCHANGED <<runs, told>>

Run(t) ==
    /\ gate[t] = "approved" /\ runs[t] = 0
    /\ runs' = [runs EXCEPT ![t] = 1]
    /\ UNCHANGED <<gate, told>>

\* A call is reported after it, a refused call only if there was none, a
\* rejection only if the human rejected.
Truthful(t, result) ==
    \/ result \in {"executed", "error"} /\ gate[t] = "approved" /\ runs[t] = 1
    \/ result \in {"duplicate", "denied"} /\ gate[t] = "approved" /\ runs[t] = 0
    \/ result = "rejected_by_human" /\ gate[t] = "rejected"

Record(t, result) ==
    /\ told[t] = "none"
    /\ Truthful(t, result)
    /\ told' = [told EXCEPT ![t] = result]
    /\ UNCHANGED <<gate, runs>>

\* Old records are purged.
Forget ==
    /\ \E old \in SUBSET Traces :
          told' = [t \in Traces |-> IF t \in old THEN "none" ELSE told[t]]
    /\ UNCHANGED <<gate, runs>>

Next ==
    \/ \E t \in Traces :
          \/ Ask(t) \/ Run(t)
          \/ \E d \in {"approved", "rejected"} : Decide(t, d)
          \/ \E r \in {"executed", "error", "duplicate", "denied",
                       "rejected_by_human"} : Record(t, r)
    \/ Forget

Spec == Init /\ [][Next]_vars
=============================================================================
