-------------------------- MODULE AuditTraceProofs --------------------------
(* Proofs about AuditTrace: the trace view of a run is true of the run, for *)
(* any chunks, policy, model answers and lost audit writes.                 *)
EXTENDS AuditTrace, PipelineProofs

LEMMA TraceInit == Init => TraceInv
BY DEF Init, TraceInv, RoutedInv, FoundInv, ScannedInv, OfType, Early, Items

\* An action that keeps the path, the retrieval, the scans of the chunks and the
\* envelopes about them, and goes on to a later stage, keeps the invariant.
LEMMA TraceQuiet ==
    ASSUME TypeOK, TraceInv,
           log \subseteq log',
           OfType(log', "router_decision") = OfType(log, "router_decision"),
           OfType(log', "retrieval_result") = OfType(log, "retrieval_result"),
           OfType(log', "injection_scan_result") = OfType(log, "injection_scan_result"),
           path' = path, retrieved' = retrieved,
           \A c \in Items : scans'[c] = scans[c],
           pc' = "route" => pc = "route" /\ log' = log,
           pc' \in {"route", "retrieve", "search"} => pc \in {"route", "retrieve", "search"},
           pc' \in Early => pc \in Early
    PROVE  TraceInv'
<1>1. RoutedInv'
  BY DEF TraceInv, RoutedInv
<1>2. FoundInv'
  BY DEF TraceInv, FoundInv
<1>3. ScannedInv'
  <2>1. Items' = Items
    BY DEF Items
  <2>. QED BY <2>1 DEF TraceInv, ScannedInv
<1>. QED BY <1>1, <1>2, <1>3 DEF TraceInv

\* An envelope of another type adds none of a given type.
LEMMA OtherType ==
    ASSUME NEW S, NEW e, NEW type, e.type # type
    PROVE  OfType(S \cup {e}, type) = OfType(S, type)
BY DEF OfType

LEMMA TraceRoute == ASSUME TypeOK, IInv, TraceInv, Route PROVE TraceInv'
<1>1. PICK p \in Paths :
        /\ path' = p /\ log' = {Env("router_decision", {}, p, "trusted")}
        /\ pc' \in {"retrieve", "scan_query", "search"}
  BY LogFacts DEF Route, Enter, TypeOK, TraceInv, RoutedInv
<1>2. scans' = scans /\ retrieved' = retrieved /\ pc \in Early
  BY DEF Route, Early
<1>3. RoutedInv' /\ FoundInv'
  BY <1>1 DEF RoutedInv, FoundInv, OfType, Env
<1>4. ScannedInv'
  <2>1. OfType(log', "injection_scan_result") = {}
    BY <1>1 DEF OfType, Env
  <2>2. \A c \in Items : scans'[c] = "none"
    BY <1>2 DEF TraceInv, ScannedInv
  <2>. QED BY <2>1, <2>2 DEF ScannedInv, Items
<1>. QED BY <1>3, <1>4 DEF TraceInv

LEMMA TraceGotChunks ==
    ASSUME TypeOK, IInv, TraceInv, NEW found, GotChunks(found), pc \in {"retrieve", "search"}
    PROVE  TraceInv'
<1>1. log' = log \cup {Env("retrieval_result", found, "found", "untrusted")}
  BY LogFacts DEF GotChunks, TypeOK
<1>2. /\ scans' = scans /\ retrieved' = found /\ path' = path
      /\ pc' = "scan_query" /\ pc \in Early
  BY DEF GotChunks, Enter, Early
<1>3. RoutedInv' /\ FoundInv'
  BY <1>1, <1>2 DEF TraceInv, RoutedInv, FoundInv, OfType, Env
<1>4. ScannedInv'
  <2>1. OfType(log', "injection_scan_result") = {}
    BY <1>1, <1>2 DEF TraceInv, ScannedInv, OfType, Env
  <2>2. \A c \in Items : scans'[c] = "none"
    BY <1>2 DEF TraceInv, ScannedInv
  <2>. QED BY <2>1, <2>2 DEF ScannedInv, Items
<1>. QED BY <1>3, <1>4 DEF TraceInv

LEMMA TraceScanChunks == ASSUME TypeOK, IInv, TraceInv, ScanChunks PROVE TraceInv'
<1>. DEFINE Scan(c, v) == Env("injection_scan_result", {c}, v, "untrusted")
<1>1. PICK replies \in [retrieved -> ClassifierReplies] :
        LET v == [c \in retrieved |-> ScanResult(KindOf[c], replies[c])] IN
        /\ scans' = [i \in DOMAIN scans |-> IF i \in retrieved THEN v[i] ELSE scans[i]]
        /\ Log({Scan(c, v[c]) : c \in retrieved})
  BY DEF ScanChunks
<1>. DEFINE v == [c \in retrieved |-> ScanResult(KindOf[c], replies[c])]
<1>2. log' = log \cup {Scan(c, v[c]) : c \in retrieved}
  BY <1>1, LogFacts DEF TypeOK
<1>3. path' = path /\ retrieved' = retrieved /\ pc' \notin Early /\ pc = "scan_chunks" /\ pc \in Early
  BY DEF ScanChunks, GiveUp, Enter, Early
<1>4. retrieved \subseteq Items /\ Items \subseteq DOMAIN scans
  BY DEF TypeOK
<1>5. \A c \in Items : scans'[c] = IF c \in retrieved THEN v[c] ELSE "none"
  BY <1>1, <1>3, <1>4 DEF TraceInv, ScannedInv
<1>. HIDE DEF v
<1>6. RoutedInv'
  BY <1>2, <1>3 DEF TraceInv, RoutedInv, OfType, Env, Early
<1>7. FoundInv'
  BY <1>2, <1>3 DEF TraceInv, FoundInv, OfType, Env, Early
<1>8. ASSUME NEW e \in OfType(log', "injection_scan_result")
      PROVE  \E c \in Items : e.about = {c} /\ e.says = scans'[c]
  <2>1. PICK c \in retrieved : e = Scan(c, v[c])
    BY <1>2, <1>3, <1>8 DEF TraceInv, ScannedInv, OfType
  <2>. QED BY <1>4, <1>5, <2>1 DEF Env
<1>9. ASSUME NEW c \in Items, scans'[c] # "none"
      PROVE  Env("injection_scan_result", {c}, scans'[c], "untrusted") \in log'
  BY <1>2, <1>5, <1>9
<1>10. ScannedInv'
  BY <1>3, <1>8, <1>9 DEF ScannedInv, Items
<1>. QED BY <1>6, <1>7, <1>10 DEF TraceInv

LEMMA TraceStep == TypeOK /\ IInv /\ TraceInv /\ [Next]_vars => TraceInv'
<1>. SUFFICES ASSUME TypeOK, IInv, TraceInv, [Next]_vars PROVE TraceInv'
  OBVIOUS
<1>1. ASSUME Retrieve PROVE TraceInv'
  BY <1>1, TraceGotChunks DEF Retrieve
<1>2. ASSUME Search PROVE TraceInv'
  BY <1>2, TraceGotChunks DEF Search
<1>3. ASSUME ScanQuery PROVE TraceInv'
  <2>1. PICK w : scans' = [scans EXCEPT ![UserQuery] = w]
    BY <1>3 DEF ScanQuery
  <2>2. \A c \in Items : scans'[c] = scans[c]
    BY <2>1, ItemsAssumption DEF TypeOK
  <2>3. log' = log /\ path' = path /\ retrieved' = retrieved
    BY <1>3 DEF ScanQuery, trail
  <2>4. pc \in Early /\ pc' \notin {"route", "retrieve", "search"}
    BY <1>3 DEF ScanQuery, GiveUp, Enter, Early
  <2>. QED BY <2>2, <2>3, <2>4, TraceQuiet
<1>4. ASSUME Analyze PROVE TraceInv'
  <2>1. PICK about : Log({Env("analysis_result", about, "draft", "untrusted")})
    BY <1>4 DEF Analyze
  <2>. DEFINE e == Env("analysis_result", about, "draft", "untrusted")
  <2>2. log' = log \cup {e} /\ e.type = "analysis_result"
    BY <2>1, LogFacts DEF TypeOK, Env
  <2>3. path' = path /\ retrieved' = retrieved /\ scans' = scans /\ pc' = "validate"
    BY <1>4 DEF Analyze, Enter
  <2>. HIDE DEF e
  <2>4. /\ OfType(log', "router_decision") = OfType(log, "router_decision")
        /\ OfType(log', "retrieval_result") = OfType(log, "retrieval_result")
        /\ OfType(log', "injection_scan_result") = OfType(log, "injection_scan_result")
    BY <2>2, OtherType
  <2>5. pc' \notin Early /\ pc' \notin {"route", "retrieve", "search"}
    BY <2>3 DEF Early
  <2>. QED BY <2>2, <2>3, <2>4, <2>5, TraceQuiet
<1>5. ASSUME Validate PROVE TraceInv'
  <2>1. PICK r : Log({Env("validation_verdict", {}, Validated(r).notes, Validated(r).trust)})
    BY <1>5 DEF Validate
  <2>. DEFINE e == Env("validation_verdict", {}, Validated(r).notes, Validated(r).trust)
  <2>2. log' = log \cup {e} /\ e.type = "validation_verdict"
    BY <2>1, LogFacts DEF TypeOK, Env
  <2>3. path' = path /\ retrieved' = retrieved /\ scans' = scans /\ pc' = "decide"
    BY <1>5 DEF Validate
  <2>. HIDE DEF e
  <2>4. /\ OfType(log', "router_decision") = OfType(log, "router_decision")
        /\ OfType(log', "retrieval_result") = OfType(log, "retrieval_result")
        /\ OfType(log', "injection_scan_result") = OfType(log, "injection_scan_result")
    BY <2>2, OtherType
  <2>5. pc' \notin Early /\ pc' \notin {"route", "retrieve", "search"}
    BY <2>3 DEF Early
  <2>. QED BY <2>2, <2>3, <2>4, <2>5, TraceQuiet
<1>6. ASSUME AskForTool PROVE TraceInv'
  <2>1. /\ path' = path /\ retrieved' = retrieved /\ scans' = scans
        /\ pc' \notin Early /\ pc' \notin {"route", "retrieve", "search"}
    BY <1>6 DEF AskForTool, GiveUp, Enter, AfterRequest, Early
  <2>. DEFINE e == Env("tool_action_request", analysis.cited, "request", verdict.trust)
  <2>2. log' = log \/ log' = log \cup {e}
    BY <1>6, LogFacts DEF AskForTool, trail, TypeOK
  <2>3. e.type = "tool_action_request"
    BY DEF Env
  <2>. HIDE DEF e
  <2>4. /\ OfType(log', "router_decision") = OfType(log, "router_decision")
        /\ OfType(log', "retrieval_result") = OfType(log, "retrieval_result")
        /\ OfType(log', "injection_scan_result") = OfType(log, "injection_scan_result")
    BY <2>2, <2>3, OtherType
  <2>. QED BY <2>1, <2>2, <2>4, TraceQuiet
<1>7. ASSUME Reject \/ Complete \/ Enqueue \/ Raise \/ Respond \/ SaveRaises \/ UNCHANGED vars
      PROVE  TraceInv'
  <2>1. path' = path /\ retrieved' = retrieved /\ scans' = scans /\ log' = log
    BY <1>7 DEF Reject, Complete, Enqueue, Raise, Respond, SaveRaises, vars, trail
  <2>2. pc' = pc \/ pc' \in {"respond", "done"}
    BY <1>7 DEF Reject, Complete, Enqueue, Raise, Respond, SaveRaises, vars, GiveUp, Enter
  <2>3. /\ pc' = "route" => pc = "route" /\ log' = log
        /\ pc' \in {"route", "retrieve", "search"} => pc \in {"route", "retrieve", "search"}
        /\ pc' \in Early => pc \in Early
    BY <2>1, <2>2 DEF Early
  <2>. QED BY <2>1, <2>3, TraceQuiet
<1>. QED
  BY <1>1, <1>2, <1>3, <1>4, <1>5, <1>6, <1>7, TraceRoute, TraceScanChunks DEF Next

LEMMA TraceInvariance == Spec => [](TypeOK /\ IInv /\ TraceInv)
BY TraceInit, TraceStep, Invariance, PTL DEF Spec

-----------------------------------------------------------------------------
\* A row of the audit log is one of the message log.
LEMMA ViewFacts ==
    ASSUME TypeOK, NEW v \in Views
    PROVE  \E tool \in Tools : v \in Reconstruct(audit, tool)
BY DEF Views

\* The trace names no risk that the run had not, and hides none of a chunk's
\* while the log is whole.
THEOREM TraceRiskIsTrue == Spec => []TraceTellsRisk
<1>1. TypeOK /\ TraceInv => TraceTellsRisk
  <2>. SUFFICES ASSUME TypeOK, TraceInv, NEW v \in Views
                PROVE  /\ v.risk => \E c \in Items : Risky(c) /\ scans[c] = v.verdict
                       /\ audit = log /\ (\E c \in Items : Risky(c)) => v.risk
    BY DEF TraceTellsRisk
  <2>1. v.risk = (Risks(audit) # {}) /\ v.verdict \in ShownVerdicts(audit)
    BY ViewFacts DEF Reconstruct
  <2>2. ASSUME v.risk PROVE \E c \in Items : Risky(c) /\ scans[c] = v.verdict
    <3>1. v.verdict \in Risks(audit)
      BY <2>1, <2>2 DEF ShownVerdicts
    <3>2. PICK e \in OfType(audit, "injection_scan_result") : e.says = v.verdict
      BY <3>1 DEF Risks
    <3>3. e \in OfType(log, "injection_scan_result")
      BY <3>2 DEF OfType, TypeOK
    <3>4. PICK c \in Items : e.says = scans[c]
      BY <3>3 DEF TraceInv, ScannedInv
    <3>. QED BY <3>1, <3>2, <3>4 DEF Risks, Risky
  <2>3. ASSUME audit = log, NEW c \in Items, Risky(c) PROVE v.risk
    <3>. DEFINE e == Env("injection_scan_result", {c}, scans[c], "untrusted")
    <3>1. e \in log
      BY <2>3 DEF TraceInv, ScannedInv, Risky
    <3>2. e \in OfType(audit, "injection_scan_result") /\ e.says = scans[c]
      BY <2>3, <3>1 DEF OfType, Env
    <3>3. scans[c] \in Risks(audit)
      BY <2>3, <3>2 DEF Risks, Risky
    <3>. QED BY <2>1, <3>3
  <2>. QED BY <2>2, <2>3
<1>. QED BY <1>1, TraceInvariance, PTL

\* The trace names the path of the run, also from the retrieval alone.
THEOREM TracePathIsTrue == Spec => []TraceTellsPath
<1>1. TypeOK /\ IInv /\ TraceInv => TraceTellsPath
  <2>. SUFFICES ASSUME TypeOK, IInv, TraceInv, NEW v \in Views,
                       \/ RecordedPaths(audit) # {}
                       \/ ~request /\ \E e \in OfType(audit, "retrieval_result") : e.about # {}
                PROVE  v.path = path
    BY DEF TraceTellsPath
  <2>1. PICK tool \in Tools : v.path \in ShownPaths(audit, tool)
    BY ViewFacts DEF Reconstruct
  <2>2. audit \subseteq log
    BY DEF TypeOK
  <2>3. CASE RecordedPaths(audit) # {}
    <3>1. v.path \in RecordedPaths(audit)
      BY <2>1, <2>3 DEF ShownPaths
    <3>. QED BY <2>2, <3>1 DEF RecordedPaths, OfType, TraceInv, RoutedInv
  <2>4. CASE RecordedPaths(audit) = {}
    <3>1. v.path \in InferredPaths(audit, tool)
      BY <2>1, <2>4 DEF ShownPaths
    <3>2. /\ ~request /\ retrieved # {} /\ OfType(audit, "retrieval_result") # {}
          /\ \A e \in OfType(audit, "retrieval_result") : e.about = retrieved
      BY <2>2, <2>4 DEF OfType, TraceInv, FoundInv
    <3>3. OfType(audit, "tool_action_request") = {}
      BY <2>2, <3>2 DEF OfType, IInv, LogInv
    <3>4. WebInTrace(audit, tool) <=> retrieved \cap WebChunks # {}
      BY <3>2, <3>3 DEF WebInTrace
    <3>5. retrieved \subseteq Chunks \cup WebChunks
      BY DEF TypeOK, Items
    <3>6. CASE retrieved \cap WebChunks # {}
      BY <3>1, <3>4, <3>6 DEF InferredPaths, IInv, RetrievedInv
    <3>7. CASE retrieved \cap WebChunks = {}
      BY <3>1, <3>2, <3>4, <3>5, <3>7 DEF InferredPaths, IInv, RetrievedInv
    <3>. QED BY <3>6, <3>7
  <2>. QED BY <2>3, <2>4
<1>. QED BY <1>1, TraceInvariance, PTL
=============================================================================
