----------------------------- MODULE AuditTrace -----------------------------
(***************************************************************************)
(* What GET /audit/trace/{trace_id} tells of a run of Pipeline: the view   *)
(* that TraceReconstructor.reconstruct folds out of the envelopes the run  *)
(* has in audit_log.  It is a function of the log alone, and may be asked  *)
(* for at any moment: during the run, after it, or after a crash.          *)
(*                                                                         *)
(* The log of Pipeline is a set.  The order of its rows reaches the view   *)
(* only in the verdict, which is that of the last scan that is not clean:  *)
(* here that of any of them.                                               *)
(***************************************************************************)
EXTENDS Pipeline

SearchTool == "legal_web_search"
Tools == {SearchTool, "another_tool"}

OfType(entries, type) == {e \in entries : e.type = type}

\* The verdicts a trace may show: that of a scan with a risk, "clean" if there
\* is none.
BlockedOnly(entries) ==                                          \* mutant
    {e.says : e \in OfType(entries, "injection_scan_result")} \cap {"blocked"}
Risks(entries) ==
    {e.says : e \in OfType(entries, "injection_scan_result")} \cap {"suspicious", "blocked"}
ShownVerdicts(entries) == IF Risks(entries) = {} THEN {"clean"} ELSE Risks(entries)

\* A web chunk among the retrieved ones, or a request for the search tool.
WebInTrace(entries, tool) ==
    \/ \E e \in OfType(entries, "retrieval_result") : e.about \cap WebChunks # {}
    \/ tool = SearchTool /\ OfType(entries, "tool_action_request") # {}

\* The path the router recorded; without its record, what the others suggest.
\* `tool' is the tool that the run's request names, if it has one.
RecordedPaths(entries) == {e.says : e \in OfType(entries, "router_decision")}
RetrievalFirst(entries, tool) ==                                 \* mutant
    IF OfType(entries, "retrieval_result") # {} THEN {"pipeline"}
    ELSE IF WebInTrace(entries, tool) THEN {"websearch_llm"} ELSE {"direct_llm"}
InferredPaths(entries, tool) ==
    IF WebInTrace(entries, tool) THEN {"websearch_llm"}
    ELSE IF OfType(entries, "retrieval_result") # {} THEN {"pipeline"} ELSE {"direct_llm"}
ShownPaths(entries, tool) ==
    IF RecordedPaths(entries) # {} THEN RecordedPaths(entries) ELSE InferredPaths(entries, tool)

\* One untrusted row, and the run is.
OverallTrust(entries) ==
    IF \E e \in entries : e.trust = "untrusted" THEN "untrusted" ELSE "trusted"

\* The views of a log; a log without rows has none (404).  The summary of each
\* row is left out.
Reconstruct(entries, tool) ==
    {[verdict |-> v, risk |-> Risks(entries) # {}, path |-> p, trust |-> OverallTrust(entries)] :
        v \in ShownVerdicts(entries), p \in ShownPaths(entries, tool)}

Views == IF audit = {} THEN {} ELSE UNION {Reconstruct(audit, tool) : tool \in Tools}

-----------------------------------------------------------------------------
(***************************************************************************)
(* Properties.                                                             *)
(***************************************************************************)
Risky(i) == scans[i] \in {"suspicious", "blocked"}

\* The trace accuses nobody falsely: a verdict it shows is that of a chunk of
\* the run.  While the log has lost nothing it also hides no chunk: the risk is
\* shown from the moment the scans are there, whichever scan comes last in the
\* log (TraceReconstructor.reconstruct, the injection_scan_result branch).
TraceTellsRisk ==
    \A v \in Views :
        /\ v.risk => \E c \in Items : Risky(c) /\ scans[c] = v.verdict
        /\ audit = log /\ (\E c \in Items : Risky(c)) => v.risk

\* The path shown is the one the run took, also when the router's record was
\* lost: then if the retrieval was recorded and found something, and the run
\* asks for no tool (the inference of execution_path in reconstruct).
TraceTellsPath ==
    \A v \in Views :
        \/ RecordedPaths(audit) # {}
        \/ ~request /\ \E e \in OfType(audit, "retrieval_result") : e.about # {}
        => v.path = path

\* Every attempt is visible: a blocked text of a run, the user's own query
\* included, shows as a risk in its trace (tests/test_e2e_injection.py, "All
\* attempts are visible in the audit log").
AttemptsAreVisible ==
    \A v \in Views : pc = "done" /\ audit = log
        /\ (\E i \in Items \cup {UserQuery} : scans[i] = "blocked") => v.risk

(***************************************************************************)
(* The inductive invariant behind TraceTellsRisk and TraceTellsPath: each  *)
(* envelope of the message log says of the run what the context says.      *)
(***************************************************************************)
RoutedInv ==
    /\ pc = "route" => log = {}
    /\ \A e \in OfType(log, "router_decision") : e.says = path

FoundInv ==
    /\ pc \in {"route", "retrieve", "search"} => OfType(log, "retrieval_result") = {}
    /\ \A e \in OfType(log, "retrieval_result") : e.about = retrieved

ScannedInv ==
    /\ pc \in Early =>
          OfType(log, "injection_scan_result") = {} /\ \A c \in Items : scans[c] = "none"
    /\ \A e \in OfType(log, "injection_scan_result") :
          \E c \in Items : e.about = {c} /\ e.says = scans[c]
    /\ \A c \in Items : scans[c] # "none" =>
          Env("injection_scan_result", {c}, scans[c], "untrusted") \in log

TraceInv == RoutedInv /\ FoundInv /\ ScannedInv
=============================================================================
