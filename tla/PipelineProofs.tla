--------------------------- MODULE PipelineProofs ---------------------------
(***************************************************************************)
(* Proofs about Pipeline for any sets of chunks and matters, any policy    *)
(* and any way the classifier's calls end: the type invariant, the safety  *)
(* properties of a run, and that it keeps the promise of GuardedAnswer.    *)
(***************************************************************************)
EXTENDS Pipeline, TLAPS

LEMMA AnalysisFacts ==
    /\ NoAnalysis \in Analysis /\ NoAnalysis.cited = {} /\ NoAnalysis.draft = "none"
    /\ NoVerdict \in Verdict /\ NoVerdict.notes = "none"
BY DEF NoAnalysis, Analysis, NoVerdict, Verdict

\* What the classifier returns is a verdict.
LEMMA ScanTypes ==
    ASSUME NEW kind \in Kinds, NEW r \in ClassifierReplies
    PROVE  /\ r # "raised" => MergedScan(kind, r) \in Verdicts
           /\ ScanResult(kind, r) \in Verdicts
BY RepliesAssumption
   DEF Kinds, Replies, MergedScan, ScanResult, MoreSevere, HeuristicScan, LlmScan, Verdicts

\* The LLM scan cannot lower a verdict of the deterministic scan.
LEMMA ScanIsMonotonic ==
    ASSUME NEW kind \in Kinds, NEW r \in ClassifierReplies, r # "raised",
           HeuristicScan(kind) = "blocked"
    PROVE  ScanResult(kind, r) = "blocked"
BY RepliesAssumption
   DEF Kinds, Replies, MergedScan, ScanResult, MoreSevere, HeuristicScan, LlmScan, Severity

\* What the validator returns is a verdict with a note.
LEMMA ValidatedTypes ==
    ASSUME TypeOK, NEW r \in ValidatorReplies
    PROVE  /\ Validated(r) \in Verdict /\ Validated(r).notes # "none"
           /\ Validated(r).notes \in {"no_claims", "deterministic"} =>
                 Validated(r).trust = "trusted" \/ Fails(Validated(r))
BY DEF Validated, Verdict, ValidatorReplies, AsBool, Truthy, Fails

LEMMA LogFacts ==
    ASSUME NEW E, audit \subseteq log, Log(E)
    PROVE  audit' \subseteq log' /\ log' = log \cup E
BY DEF Log

-----------------------------------------------------------------------------
LEMMA TypeInit == Init => TypeOK
BY AnalysisFacts
   DEF Init, TypeOK, Steps, Paths, States, AllowedTransitions, Verdicts

LEMMA TypeStep == TypeOK /\ [Next]_vars => TypeOK'
<1>. SUFFICES ASSUME TypeOK, [Next]_vars PROVE TypeOK'
  OBVIOUS
<1>. USE DEF TypeOK, States, AllowedTransitions, Steps, Paths, run, answer, trail
<1>1. CASE Route
  <2>1. PICK p \in Paths : Log({Env("router_decision", {}, p, "trusted")}) /\ path' = p
          /\ \/ p = "pipeline" /\ Enter("retrieving", "retrieve")
             \/ p = "direct_llm" /\ Enter("classifying", "scan_query")
             \/ p = "websearch_llm" /\ Enter(state, "search")
    BY <1>1 DEF Route
  <2>2. audit' \subseteq log'
    BY <2>1, LogFacts
  <2>3. pc' \in Steps /\ state' \in States /\ error' \in BOOLEAN
    BY <2>1 DEF Enter
  <2>. QED BY <1>1, <2>1, <2>2, <2>3 DEF Route
<1>2. ASSUME NEW found \in SUBSET Items, GotChunks(found) PROVE TypeOK'
  <2>1. audit' \subseteq log'
    BY <1>2, LogFacts DEF GotChunks
  <2>. QED BY <1>2, <2>1 DEF GotChunks, Enter
<1>3. CASE ScanQuery
  <2>1. PICK r \in ClassifierReplies \ {"raised"} :
          /\ scans' = [scans EXCEPT ![UserQuery] = MergedScan(query.kind, r)]
          /\ IF MergedScan(query.kind, r) = "blocked" THEN GiveUp ELSE Enter(state, "scan_chunks")
    BY <1>3 DEF ScanQuery
  <2>2. scans' \in [Items \cup {UserQuery} -> Verdicts \cup {"none"}]
    BY <2>1, ScanTypes
  <2>3. pc' \in Steps /\ state' \in States /\ error' \in BOOLEAN
    BY <2>1 DEF Enter, GiveUp
  <2>. QED BY <1>3, <2>2, <2>3 DEF ScanQuery
<1>4. CASE ScanChunks
  <2>. DEFINE V(replies) == [c \in retrieved |-> ScanResult(KindOf[c], replies[c])]
              Kept(replies) == {c \in retrieved : Passes(V(replies)[c])}
              Envs(replies) == {Env("injection_scan_result", {c}, V(replies)[c], "untrusted")
                                  : c \in retrieved}
  <2>1. PICK replies \in [retrieved -> ClassifierReplies] :
          /\ scans' = [i \in DOMAIN scans |-> IF i \in retrieved THEN V(replies)[i] ELSE scans[i]]
          /\ Log(Envs(replies))
          /\ clean' = Kept(replies)
          /\ IF OutOfChunks(Kept(replies)) THEN GiveUp ELSE Enter("analyzing", "analyze")
    BY <1>4 DEF ScanChunks
  <2>2. \A c \in retrieved : V(replies)[c] \in Verdicts
    BY ItemsAssumption, ScanTypes
  <2>3. scans' \in [Items \cup {UserQuery} -> Verdicts \cup {"none"}]
    BY <2>1, <2>2
  <2>4. audit' \subseteq log'
    BY <2>1, LogFacts
  <2>5. pc' \in Steps /\ state' \in States /\ error' \in BOOLEAN
    BY <2>1 DEF Enter, GiveUp
  <2>. QED BY <1>4, <2>1, <2>3, <2>4, <2>5 DEF ScanChunks
<1>5. CASE Analyze
  <2>1. PICK ids \in SUBSET Items, asks \in BOOLEAN, draft \in {"empty", "plain"} :
          /\ analysis' = [draft |-> Banner(draft), cited |-> KeptIds(ids), asks |-> asks]
          /\ Log({Env("analysis_result", KeptIds(ids), "draft", "untrusted")})
    BY <1>5 DEF Analyze
  <2>2. analysis' \in Analysis
    BY <2>1 DEF Analysis, Banner, KeptIds
  <2>3. audit' \subseteq log'
    BY <2>1, LogFacts
  <2>. QED BY <1>5, <2>2, <2>3 DEF Analyze, Enter
<1>6. CASE Validate
  <2>1. PICK r \in ValidatorReplies :
          /\ verdict' = Validated(r)
          /\ Log({Env("validation_verdict", {}, Validated(r).notes, Validated(r).trust)})
    BY <1>6 DEF Validate
  <2>2. audit' \subseteq log' /\ verdict' \in Verdict
    BY <2>1, LogFacts, ValidatedTypes
  <2>. QED BY <1>6, <2>2 DEF Validate
<1>7. CASE Reject \/ Raise
  BY <1>7 DEF Reject, Raise, GiveUp
<1>8. CASE Complete \/ Enqueue
  BY <1>8 DEF Complete, Enqueue, Enter
<1>9. CASE AskForTool
  <2>1. audit' \subseteq log'
    BY <1>9, LogFacts DEF AskForTool
  <2>2. pc' \in Steps /\ state' \in States /\ error' \in BOOLEAN
    BY <1>9 DEF AskForTool, Enter, GiveUp, AfterRequest
  <2>. QED BY <1>9, <2>1, <2>2 DEF AskForTool
<1>10. CASE Respond \/ SaveRaises
  BY <1>10 DEF Respond, SaveRaises, Cached, Answer
<1>11. CASE UNCHANGED vars
  BY <1>11 DEF vars
<1>. QED
  BY <1>1, <1>2, <1>3, <1>4, <1>5, <1>6, <1>7, <1>8, <1>9, <1>10, <1>11
     DEF Next, Retrieve, Search, Retrievable, Items

\* In every state the variables have their types, and the audit log holds
\* only envelopes of the message log.
THEOREM TypeCorrect == Spec => []TypeOK
BY TypeInit, TypeStep, PTL DEF Spec

-----------------------------------------------------------------------------
(***************************************************************************)
(* The inductive invariant.  Only the steps that fill a part of the        *)
(* context have something to show; the others keep every part.             *)
(***************************************************************************)
LEMMA InvInit == Init => IInv
BY AnalysisFacts
   DEF Init, IInv, RetrievedInv, CleanInv, DraftInv, StateInv, LogInv, EndIsValidated,
       Early, Drafting, Unjudged, Env

\* Steps that touch neither the material nor the log.
LEMMA InvQuiet ==
    ASSUME TypeOK, IInv,
           Reject \/ Complete \/ Enqueue \/ Raise \/ Respond \/ SaveRaises
    PROVE  IInv'
<1>. USE DEF TypeOK, IInv, run, answer, trail, Early, Drafting, Unjudged
<1>1. UNCHANGED <<permitted, path, retrieved, scans, clean, analysis, verdict, request, log, audit>>
  BY DEF Reject, Complete, Enqueue, Raise, Respond, SaveRaises
<1>2. pc' \in {"respond", "done"} /\ pc \notin {"route", "done"}
  BY DEF Reject, Complete, Enqueue, Raise, Respond, SaveRaises, Enter, GiveUp
<1>3. RetrievedInv'
  BY <1>1, <1>2 DEF RetrievedInv
<1>4. CleanInv'
  BY <1>1, <1>2 DEF CleanInv, Acceptable
<1>5. LogInv'
  BY <1>1, <1>2 DEF LogInv, Env
<1>6. DraftInv'
  BY <1>1, <1>2 DEF DraftInv, Fails
<1>7. StateInv'
  BY <1>1, <1>2 DEF StateInv, Reject, Complete, Enqueue, Raise, Respond, SaveRaises,
     Enter, GiveUp, Cached
<1>8. EndIsValidated'
  <2>1. CASE Complete
    <3>1. state' = "complete" /\ cacheable' = cacheable /\ ~request /\ pc = "decide"
      BY <2>1 DEF Complete, Enter, DraftInv
    <3>2. verdict.notes # "none" /\ Passing(verdict)
      BY <2>1, <3>1 DEF Complete, DraftInv, Fails, Passing, Verdict
    <3>3. verdict.trust = "trusted" \/ verdict.notes = "llm"
      BY <2>1, <3>2 DEF Complete, DraftInv, Verdict
    <3>. QED BY <1>1, <3>1, <3>2, <3>3 DEF EndIsValidated, Passing
  <2>2. CASE Reject \/ Raise
    BY <1>1, <2>2 DEF Reject, Raise, GiveUp, EndIsValidated, StateInv
  <2>3. CASE Enqueue \/ Respond \/ SaveRaises
    <3>1. state' = state /\ (cacheable' => cacheable \/ state = "complete")
      BY <2>3 DEF Enqueue, Respond, SaveRaises, Enter, Cached
    <3>. QED BY <1>1, <3>1 DEF EndIsValidated, Passing
  <2>. QED BY <2>1, <2>2, <2>3
<1>. QED BY <1>3, <1>4, <1>5, <1>6, <1>7, <1>8

LEMMA InvRoute == ASSUME TypeOK, IInv, Route PROVE IInv'
<1>. USE DEF TypeOK, IInv, run, answer, Early, Drafting, Unjudged
<1>1. PICK p \in Paths : Log({Env("router_decision", {}, p, "trusted")}) /\ path' = p
        /\ \/ p = "pipeline" /\ Enter("retrieving", "retrieve")
           \/ p = "direct_llm" /\ Enter("classifying", "scan_query")
           \/ p = "websearch_llm" /\ Enter(state, "search")
  BY DEF Route
<1>2. \/ pc' = "retrieve" /\ path' = "pipeline" /\ state' = "retrieving"
      \/ pc' = "scan_query" /\ state' = "classifying"
      \/ pc' = "search" /\ path' = "websearch_llm" /\ state' = "received"
  BY <1>1 DEF Enter, Paths, Route, StateInv
<1>3. UNCHANGED <<permitted, retrieved, scans, clean, analysis, verdict, request, cacheable>>
  BY DEF Route
<1>4. retrieved = {} /\ clean = {} /\ pc = "route" /\ ~request /\ verdict = NoVerdict
      /\ analysis = NoAnalysis
  BY DEF Route, RetrievedInv, CleanInv, DraftInv
<1>5. LogInv'
  BY <1>1, <1>2, <1>3, <1>4, LogFacts, AnalysisFacts DEF LogInv, Env
<1>. QED BY <1>2, <1>3, <1>4, <1>5, AnalysisFacts
     DEF RetrievedInv, CleanInv, DraftInv, StateInv, EndIsValidated

LEMMA InvGotChunks ==
    ASSUME TypeOK, IInv, Retrieve \/ Search
    PROVE  IInv'
<1>. USE DEF TypeOK, IInv, run, answer, Early, Drafting, Unjudged
<1>1. PICK found \in SUBSET Items :
        /\ GotChunks(found)
        /\ \A c \in found :
              /\ c \in Chunks => path = "pipeline" /\ MatterOf[c] \in permitted
              /\ c \in WebChunks => path = "websearch_llm"
  BY ItemsAssumption DEF Retrieve, Search, Retrievable, Items, RetrievedInv
<1>2. retrieved = {} /\ clean = {} /\ ~request /\ verdict = NoVerdict
      /\ analysis = NoAnalysis /\ pc \in {"retrieve", "search"}
  BY DEF Retrieve, Search, RetrievedInv, CleanInv, DraftInv
<1>3. /\ retrieved' = found /\ pc' = "scan_query" /\ state' = "classifying"
      /\ UNCHANGED <<permitted, path, scans, clean, analysis, verdict, request, cacheable>>
      /\ Log({Env("retrieval_result", found, "found", "untrusted")})
  BY <1>1 DEF GotChunks, Enter
<1>4. LogInv'
  BY <1>1, <1>2, <1>3, LogFacts, AnalysisFacts DEF LogInv, Env
<1>. QED BY <1>1, <1>2, <1>3, <1>4, AnalysisFacts
     DEF RetrievedInv, CleanInv, DraftInv, StateInv, EndIsValidated

LEMMA InvScanQuery == ASSUME TypeOK, IInv, ScanQuery PROVE IInv'
<1>. USE DEF TypeOK, IInv, run, answer, trail, Early, Drafting, Unjudged
<1>1. retrieved' = retrieved /\ clean = {} /\ ~request /\ verdict = NoVerdict
      /\ analysis = NoAnalysis /\ pc = "scan_query" /\ state = "classifying"
  BY DEF ScanQuery, CleanInv, DraftInv, StateInv
<1>2. /\ UNCHANGED <<permitted, path, clean, analysis, verdict, request, cacheable, log, audit>>
      /\ \/ pc' = "respond" /\ state' = "failed"
         \/ pc' = "scan_chunks" /\ state' = "classifying"
  BY <1>1 DEF ScanQuery, GiveUp, Enter
<1>. QED BY <1>1, <1>2, AnalysisFacts
     DEF RetrievedInv, CleanInv, DraftInv, StateInv, EndIsValidated, LogInv, Env

LEMMA InvScanChunks == ASSUME TypeOK, IInv, ScanChunks PROVE IInv'
<1>. USE DEF TypeOK, IInv, run, answer, Early, Drafting, Unjudged
<1>. DEFINE V(replies) == [c \in retrieved |-> ScanResult(KindOf[c], replies[c])]
            Kept(replies) == {c \in retrieved : Passes(V(replies)[c])}
            Envs(replies) == {Env("injection_scan_result", {c}, V(replies)[c], "untrusted")
                                : c \in retrieved}
<1>1. PICK replies \in [retrieved -> ClassifierReplies] :
        /\ scans' = [i \in DOMAIN scans |-> IF i \in retrieved THEN V(replies)[i] ELSE scans[i]]
        /\ Log(Envs(replies))
        /\ clean' = Kept(replies)
        /\ IF OutOfChunks(Kept(replies)) THEN GiveUp ELSE Enter("analyzing", "analyze")
  BY DEF ScanChunks
<1>2. clean = {} /\ ~request /\ verdict = NoVerdict /\ analysis = NoAnalysis
      /\ pc = "scan_chunks"
  BY DEF ScanChunks, CleanInv, DraftInv
<1>3. /\ UNCHANGED <<permitted, path, retrieved, analysis, verdict, request, cacheable>>
      /\ \/ pc' = "respond" /\ state' = "failed"
         \/ pc' = "analyze" /\ state' = "analyzing"
  BY <1>1 DEF ScanChunks, GiveUp, Enter
<1>4. \A c \in retrieved : scans'[c] = V(replies)[c] /\ V(replies)[c] \in Verdicts
  BY <1>1, ItemsAssumption, ScanTypes
<1>5. CleanInv'
  BY <1>1, <1>3, <1>4 DEF CleanInv, Passes, Acceptable, Verdicts
<1>6. \A c \in clean' : Env("injection_scan_result", {c}, scans'[c], "untrusted") \in log'
  <2>1. Envs(replies) \subseteq log' /\ clean' \subseteq retrieved
    <3>1. clean' \subseteq retrieved
      BY <1>1
    <3>. HIDE DEF Envs
    <3>. QED BY <1>1, <3>1, LogFacts
  <2>2. ASSUME NEW c \in retrieved
        PROVE  Env("injection_scan_result", {c}, scans'[c], "untrusted") \in Envs(replies)
    <3>1. scans'[c] = V(replies)[c]
      BY <1>4
    <3>. HIDE DEF V
    <3>. QED BY <3>1
  <2>. HIDE DEF Envs
  <2>. QED BY <2>1, <2>2
<1>7. LogInv'
  <2>1. \A q \in log' : q.type = "tool_action_request" => q \in log
    BY <1>1, LogFacts DEF Env
  <2>2. log \subseteq log'
    BY <1>1, LogFacts DEF LogInv
  <2>. QED BY <1>2, <1>3, <1>6, <2>1, <2>2, AnalysisFacts DEF LogInv
<1>. QED BY <1>2, <1>3, <1>5, <1>7, AnalysisFacts
     DEF RetrievedInv, DraftInv, StateInv, EndIsValidated

LEMMA InvAnalyze == ASSUME TypeOK, IInv, Analyze PROVE IInv'
<1>. USE DEF TypeOK, IInv, run, answer, Early, Drafting, Unjudged
<1>1. PICK ids \in SUBSET Items, asks \in BOOLEAN, draft \in {"empty", "plain"} :
        /\ analysis' = [draft |-> Banner(draft), cited |-> KeptIds(ids), asks |-> asks]
        /\ Log({Env("analysis_result", KeptIds(ids), "draft", "untrusted")})
  BY DEF Analyze
<1>2. /\ analysis'.cited \subseteq clean /\ analysis'.cited = KeptIds(ids)
      /\ analysis'.draft # "none"
  BY <1>1 DEF KeptIds, Banner
<1>3. /\ UNCHANGED <<permitted, path, retrieved, scans, clean, verdict, request, cacheable>>
      /\ pc' = "validate" /\ state' = "validating" /\ pc = "analyze"
  BY DEF Analyze, Enter
<1>4. ~request /\ verdict = NoVerdict /\ analysis = NoAnalysis
  BY <1>3 DEF DraftInv
<1>5. LogInv'
  BY <1>1, <1>2, <1>3, <1>4, LogFacts, AnalysisFacts DEF LogInv, Env
<1>. QED BY <1>2, <1>3, <1>4, <1>5, AnalysisFacts
     DEF RetrievedInv, CleanInv, DraftInv, StateInv, EndIsValidated

LEMMA InvValidate == ASSUME TypeOK, IInv, Validate PROVE IInv'
<1>. USE DEF TypeOK, IInv, run, answer, Early, Drafting, Unjudged
<1>1. PICK r \in ValidatorReplies :
        /\ verdict' = Validated(r)
        /\ Log({Env("validation_verdict", {}, Validated(r).notes, Validated(r).trust)})
  BY DEF Validate
<1>2. /\ UNCHANGED <<permitted, path, state, retrieved, scans, clean, analysis, request, cacheable>>
      /\ pc' = "decide" /\ pc = "validate"
  BY DEF Validate
<1>3. verdict'.notes # "none" /\ ~request /\ verdict.notes = "none"
  BY <1>1, <1>2, ValidatedTypes, AnalysisFacts DEF DraftInv
<1>4. LogInv'
  <2>1. Env("validation_verdict", {}, verdict'.notes, verdict'.trust) \in log'
    BY <1>1, LogFacts
  <2>2. \A q \in log' : q.type = "tool_action_request" => q \in log
    BY <1>1, LogFacts DEF Env
  <2>3. log \subseteq log'
    BY <1>1, LogFacts DEF LogInv
  <2>. QED BY <1>2, <1>3, <2>1, <2>2, <2>3 DEF LogInv
<1>5. verdict'.notes \in {"no_claims", "deterministic"} =>
          verdict'.trust = "trusted" \/ Fails(verdict')
  BY <1>1, ValidatedTypes
<1>6. DraftInv'
  BY <1>2, <1>3, <1>5 DEF DraftInv, Fails
<1>7. StateInv' /\ EndIsValidated'
  BY <1>2 DEF StateInv, EndIsValidated
<1>. QED BY <1>2, <1>4, <1>6, <1>7
     DEF RetrievedInv, CleanInv, Acceptable

LEMMA InvAskForTool == ASSUME TypeOK, IInv, AskForTool PROVE IInv'
<1>. USE DEF TypeOK, IInv, run, answer, trail, Early, Drafting, Unjudged
<1>1. /\ UNCHANGED <<permitted, path, retrieved, scans, clean, analysis, verdict, cacheable>>
      /\ request' = TRUE /\ pc = "decide" /\ analysis.asks /\ ~Fails(verdict)
  BY DEF AskForTool
<1>2. CASE Crosses(verdict)
  <2>1. verdict.trust = "trusted"
    BY <1>2 DEF Crosses
  <2>2. /\ Log({Env("tool_action_request", analysis.cited, "request", "trusted")})
        /\ state' = "awaiting_approval" /\ pc' \in {"enqueue", "respond"}
    BY <1>1, <1>2, <2>1 DEF AskForTool, Enter, AfterRequest
  <2>3. LogInv'
    BY <1>1, <2>1, <2>2, LogFacts DEF LogInv, Env
  <2>. QED BY <1>1, <2>1, <2>2, <2>3
       DEF RetrievedInv, CleanInv, Acceptable, DraftInv, StateInv, EndIsValidated, Fails, Passing
<1>3. CASE ~Crosses(verdict)
  <2>1. state' = "failed" /\ pc' = "respond" /\ UNCHANGED <<log, audit>>
    BY <1>1, <1>3 DEF AskForTool, GiveUp
  <2>2. LogInv'
    BY <1>1, <2>1 DEF LogInv, DraftInv, Env
  <2>. QED BY <1>1, <2>1, <2>2
       DEF RetrievedInv, CleanInv, Acceptable, DraftInv, StateInv, EndIsValidated, Fails
<1>. QED BY <1>2, <1>3

LEMMA InvStep == TypeOK /\ IInv /\ [Next]_vars => IInv'
<1>1. TypeOK /\ IInv /\ UNCHANGED vars => IInv'
  BY DEF vars, run, trail, answer, IInv, RetrievedInv, CleanInv, Acceptable, DraftInv, StateInv,
         LogInv, EndIsValidated, Fails, Passing, Env
<1>. QED
  BY <1>1, InvQuiet, InvRoute, InvGotChunks, InvScanQuery, InvScanChunks, InvAnalyze,
     InvValidate, InvAskForTool DEF Next

\* The inductive invariant holds in every state.
THEOREM Invariance == Spec => [](TypeOK /\ IInv)
BY TypeInit, TypeStep, InvInit, InvStep, PTL DEF Spec

-----------------------------------------------------------------------------
\* Whatever the models answer, a draft rests only on chunks that the user may
\* read and that came through the injection scan.
THEOREM DraftsAreCleared == Spec => []CitedIsCleared
<1>1. IInv => CitedIsCleared
  BY DEF IInv, RetrievedInv, CleanInv, DraftInv, CitedIsCleared, Cleared
<1>. QED BY <1>1, Invariance, PTL

\* A run that waits for approval or completed passed both checks, one that
\* waits is trusted, and only a completed one is cached.
THEOREM EndsAreValidated == Spec => []EndIsValidated
<1>1. IInv => EndIsValidated
  BY DEF IInv
<1>. QED BY <1>1, Invariance, PTL

\* When no audit write is lost, the audit log alone justifies a tool request.
THEOREM RequestsAreJustified == Spec => []AuditJustifiesRequest
<1>1. TypeOK /\ IInv => AuditJustifiesRequest
  <2>. SUFFICES ASSUME TypeOK, IInv, audit = log,
                       NEW q \in audit, q.type = "tool_action_request"
                PROVE  /\ q.trust = "trusted"
                       /\ \E v \in audit : v.type = "validation_verdict" /\ v.trust = "trusted"
                       /\ \E a \in audit : a.type = "analysis_result" /\ a.about = q.about
                       /\ \A c \in q.about :
                             /\ \E s \in audit : s.type = "injection_scan_result" /\ s.about = {c}
                                                 /\ s.says \in Acceptable
                             /\ \E r \in audit : r.type = "retrieval_result" /\ c \in r.about
    BY DEF AuditJustifiesRequest
  <2>1. /\ request /\ analysis # NoAnalysis
        /\ q = Env("tool_action_request", analysis.cited, "request", "trusted")
    BY DEF IInv, LogInv
  <2>2. q.trust = "trusted" /\ q.about = analysis.cited
    BY <2>1 DEF Env
  <2>3. \E v \in audit : v.type = "validation_verdict" /\ v.trust = "trusted"
    <3>1. verdict.notes # "none" /\ verdict.trust = "trusted"
      BY <2>1 DEF IInv, DraftInv, LogInv
    <3>2. Env("validation_verdict", {}, verdict.notes, verdict.trust) \in audit
      BY <2>1, <3>1 DEF IInv, LogInv
    <3>. QED BY <3>1, <3>2 DEF Env
  <2>4. \E a \in audit : a.type = "analysis_result" /\ a.about = q.about
    <3>1. Env("analysis_result", analysis.cited, "draft", "untrusted") \in audit
      BY <2>1 DEF IInv, LogInv
    <3>. QED BY <2>2, <3>1 DEF Env
  <2>5. ASSUME NEW c \in q.about
        PROVE  /\ \E s \in audit : s.type = "injection_scan_result" /\ s.about = {c}
                                   /\ s.says \in Acceptable
               /\ \E r \in audit : r.type = "retrieval_result" /\ c \in r.about
    <3>1. c \in clean /\ c \in retrieved /\ scans[c] \in Acceptable
      BY <2>2 DEF IInv, DraftInv, CleanInv
    <3>2. /\ Env("injection_scan_result", {c}, scans[c], "untrusted") \in audit
          /\ Env("retrieval_result", retrieved, "found", "untrusted") \in audit
      BY <2>1, <3>1 DEF IInv, LogInv
    <3>. QED BY <3>1, <3>2 DEF Env
  <2>. QED BY <2>2, <2>3, <2>4, <2>5
<1>. QED BY <1>1, Invariance, PTL

-----------------------------------------------------------------------------
(***************************************************************************)
(* What the deterministic scan blocks is never cited.                      *)
(***************************************************************************)
BlockedInv ==
    \A c \in clean : HeuristicScan(KindOf[c]) = "blocked" =>
        scans[c] = "suspicious" /\ "raised" \in ClassifierReplies

LEMMA BlockedStep ==
    ASSUME TypeOK, IInv, BlockedInv, [Next]_vars
    PROVE  BlockedInv'
<1>1. CASE clean' = clean /\ scans' = scans
  BY <1>1 DEF BlockedInv
<1>2. CASE ScanQuery
  BY <1>2 DEF ScanQuery, IInv, CleanInv, Early, BlockedInv
<1>3. CASE ScanChunks
  <2>. DEFINE V(replies) == [c \in retrieved |-> ScanResult(KindOf[c], replies[c])]
  <2>1. PICK replies \in [retrieved -> ClassifierReplies] :
          /\ clean' = {c \in retrieved : Passes(V(replies)[c])}
          /\ scans' = [i \in DOMAIN scans |-> IF i \in retrieved THEN V(replies)[i] ELSE scans[i]]
    BY <1>3 DEF ScanChunks
  <2>2. ASSUME NEW c \in clean', HeuristicScan(KindOf[c]) = "blocked"
        PROVE  scans'[c] = "suspicious" /\ "raised" \in ClassifierReplies
    <3>1. c \in retrieved /\ Passes(V(replies)[c]) /\ c \in DOMAIN scans
      BY <2>1 DEF TypeOK
    <3>2. V(replies)[c] = ScanResult(KindOf[c], replies[c]) /\ scans'[c] = V(replies)[c]
      BY <2>1, <3>1
    <3>3. KindOf[c] \in Kinds /\ replies[c] \in ClassifierReplies
      BY <3>1, ItemsAssumption DEF TypeOK
    <3>4. replies[c] = "raised"
      BY <2>2, <3>1, <3>2, <3>3, ScanIsMonotonic DEF Passes
    <3>. QED BY <3>2, <3>3, <3>4 DEF ScanResult
  <2>. QED BY <2>2 DEF BlockedInv
<1>. QED
  BY <1>1, <1>2, <1>3 DEF Next, vars, Route, Retrieve, Search, GotChunks, Analyze,
     Validate, Reject, Complete, AskForTool, Enqueue, Raise, Respond, SaveRaises

\* Whatever the LLM scan says, a text that the deterministic scan blocks is
\* cited only if its scan raised, and then it is marked suspicious.
THEOREM BlockedIsNeverCited == Spec => []BlockedTextStaysOut
<1>1. Init => BlockedInv
  BY DEF Init, BlockedInv
<1>2. IInv /\ BlockedInv => BlockedTextStaysOut
  BY DEF IInv, DraftInv, BlockedInv, BlockedTextStaysOut
<1>3. TypeOK /\ IInv /\ BlockedInv /\ [Next]_vars => BlockedInv'
  BY BlockedStep
<1>. QED BY <1>1, <1>2, <1>3, Invariance, PTL DEF Spec

-----------------------------------------------------------------------------
LEMMA FlagStep ==
    ASSUME TypeOK, IInv, SuspiciousIsFlagged, [Next]_vars
    PROVE  SuspiciousIsFlagged'
<1>1. CASE analysis' = analysis /\ scans' = scans
  BY <1>1 DEF SuspiciousIsFlagged
<1>2. CASE ScanQuery \/ ScanChunks
  <2>1. pc \in Drafting /\ analysis' = analysis
    BY <1>2 DEF ScanQuery, ScanChunks, Drafting, Early
  <2>2. analysis'.cited = {}
    BY <2>1 DEF IInv, DraftInv, NoAnalysis
  <2>. QED BY <2>2 DEF SuspiciousIsFlagged
<1>3. CASE Analyze
  <2>. SUFFICES ASSUME Policy = "flag_in_answer", NEW c \in analysis'.cited,
                       scans'[c] = "suspicious"
                PROVE  analysis'.draft \in {"flagged", "empty"}
    BY DEF SuspiciousIsFlagged
  <2>1. PICK ids \in SUBSET Items, asks \in BOOLEAN, draft \in {"empty", "plain"} :
          analysis' = [draft |-> Banner(draft), cited |-> KeptIds(ids), asks |-> asks]
    BY <1>3 DEF Analyze
  <2>2. scans' = scans /\ c \in Items
    BY <1>3, <2>1 DEF Analyze, KeptIds
  <2>3. analysis'.draft = Banner(draft) /\ scans[c] = "suspicious"
    BY <2>1, <2>2
  <2>. QED BY <2>2, <2>3 DEF Banner
<1>. QED
  BY <1>1, <1>2, <1>3 DEF Next, vars, Route, Retrieve, Search, GotChunks, Validate,
     Reject, Complete, AskForTool, Enqueue, Raise, Respond, SaveRaises

\* Under flag_in_answer every draft on a suspicious chunk carries the warning,
\* at every moment of the run.
THEOREM SuspiciousDraftsWarn == Spec => []SuspiciousIsFlagged
<1>1. Init => SuspiciousIsFlagged
  BY DEF Init, NoAnalysis, SuspiciousIsFlagged
<1>. QED BY <1>1, FlagStep, Invariance, PTL DEF Spec

-----------------------------------------------------------------------------
\* The state moves along ALLOWED_TRANSITIONS; a terminal state is final.
THEOREM StatesFollowGraph == Spec => FollowsGraph
<1>1. TypeOK /\ IInv /\ [Next]_vars =>
        [state' # state => \/ state' \in AllowedTransitions[state]
                           \/ state = "received" /\ state' = "failed" /\ error']_vars
  <2>. SUFFICES ASSUME TypeOK, IInv, Next, state' # state
                PROVE  \/ state' \in AllowedTransitions[state]
                       \/ state = "received" /\ state' = "failed" /\ error'
    BY DEF vars
  <2>1. pc # "done" /\ pc # "respond"
    BY DEF Next, Route, Retrieve, Search, GotChunks, ScanQuery, ScanChunks, Analyze, Validate,
       Reject, Complete, AskForTool, Enqueue, Raise, Respond, SaveRaises
  <2>2. CASE GiveUp
    BY <2>1, <2>2 DEF GiveUp, IInv, StateInv, TypeOK, Steps, AllowedTransitions
  <2>3. CASE ~GiveUp
    <3>. USE <2>3 DEF IInv, StateInv, AllowedTransitions, Enter
    <3>1. CASE Route
      BY <3>1 DEF Route
    <3>2. CASE Retrieve \/ Search
      <4>1. state' = "classifying" /\ pc \in {"retrieve", "search"}
        BY <3>2 DEF Retrieve, Search, GotChunks
      <4>. QED BY <4>1
    <3>3. CASE ScanQuery \/ ScanChunks
      <4>1. \/ pc = "scan_query" /\ state' = state
            \/ pc = "scan_chunks" /\ state' = "analyzing"
        BY <3>3 DEF ScanQuery, ScanChunks
      <4>. QED BY <4>1
    <3>4. CASE Analyze
      BY <3>4 DEF Analyze
    <3>5. CASE Complete \/ AskForTool
      BY <3>5 DEF Complete, AskForTool
    <3>6. CASE Validate \/ Reject \/ Enqueue \/ Raise
      BY <3>6 DEF Validate, Reject, Enqueue, Raise
    <3>. QED BY <2>1, <3>1, <3>2, <3>3, <3>4, <3>5, <3>6 DEF Next, Respond, SaveRaises
  <2>. QED BY <2>2, <2>3
<1>. QED BY <1>1, Invariance, PTL DEF Spec, FollowsGraph

-----------------------------------------------------------------------------
(***************************************************************************)
(* The refinement.                                                         *)
(***************************************************************************)
LEMMA PromiseInit == Init => Promise!Init
BY AnalysisFacts DEF Init, Promise!Init

LEMMA PromiseStep ==
    ASSUME TypeOK, IInv, IInv', TypeOK', [Next]_vars
    PROVE  [Promise!Next]_(Promise!vars)
<1>. USE DEF Promise!Next, Promise!vars
<1>1. CASE UNCHANGED <<clean, analysis, verdict, request, state, pc>>
  BY <1>1
<1>2. CASE Route \/ Retrieve \/ Search \/ ScanQuery \/ Reject \/ Complete \/ Enqueue \/ Raise
  <2>1. UNCHANGED <<clean, analysis, verdict, request>> /\ pc # "done" /\ pc' # "done"
    BY <1>2 DEF Route, Retrieve, Search, GotChunks, ScanQuery, Reject, Complete, Enqueue, Raise,
       Enter, GiveUp
  <2>. QED BY <2>1
<1>3. CASE ScanChunks
  <2>1. UNCHANGED <<analysis, verdict, request>> /\ pc # "done" /\ pc' # "done"
    BY <1>3 DEF ScanChunks, Enter, GiveUp
  <2>2. analysis.cited = {} /\ verdict.notes = "none"
    BY <1>3, AnalysisFacts DEF ScanChunks, IInv, DraftInv, Early, Drafting, Unjudged
  <2>3. clean' \subseteq Items
    BY DEF TypeOK
  <2>4. Promise!Clear
    BY <2>1, <2>2, <2>3 DEF Promise!Clear
  <2>. QED BY <2>4
<1>4. CASE Analyze
  <2>1. UNCHANGED <<clean, verdict, request>> /\ pc # "done" /\ pc' # "done"
    BY <1>4 DEF Analyze, Enter
  <2>2. analysis.cited = {} /\ verdict.notes = "none" /\ analysis'.cited \subseteq clean
    BY <1>4, <2>1, AnalysisFacts DEF Analyze, IInv, DraftInv, Early, Drafting, Unjudged
  <2>3. Promise!Draft
    BY <2>1, <2>2 DEF Promise!Draft
  <2>. QED BY <2>3
<1>5. CASE Validate
  <2>1. UNCHANGED <<clean, analysis, request>> /\ pc # "done" /\ pc' # "done"
    BY <1>5 DEF Validate
  <2>2. verdict.notes = "none"
    BY <1>5, AnalysisFacts DEF Validate, IInv, DraftInv, Early, Drafting, Unjudged
  <2>3. verdict'.notes # "none"
    BY <1>5, ValidatedTypes DEF Validate
  <2>4. Promise!Judge
    BY <2>1, <2>2, <2>3 DEF Promise!Judge
  <2>. QED BY <2>4
<1>6. CASE AskForTool
  <2>1. UNCHANGED <<clean, analysis, verdict>> /\ pc # "done" /\ pc' # "done" /\ request'
    BY <1>6 DEF AskForTool, Enter, GiveUp, AfterRequest
  <2>2. verdict.notes # "none" /\ Passing(verdict) /\ ~request
    BY <1>6 DEF AskForTool, IInv, DraftInv, Fails, Passing
  <2>3. request' = TRUE /\ request = FALSE
    BY <1>6, <2>2 DEF AskForTool, TypeOK
  <2>4. Promise!Ask
    BY <2>1, <2>2, <2>3 DEF Promise!Ask
  <2>. QED BY <2>4
<1>7. CASE Respond \/ SaveRaises
  <2>1. /\ UNCHANGED <<clean, analysis, verdict, request, state>>
        /\ pc = "respond" /\ pc' = "done"
    BY <1>7 DEF Respond, SaveRaises
  <2>2. /\ state \in {"failed", "complete", "awaiting_approval"}
        /\ state \in {"awaiting_approval", "complete"} =>
              verdict.notes # "none" /\ Passing(verdict)
        /\ state = "awaiting_approval" => request /\ verdict.trust = "trusted"
        /\ state = "complete" => ~request
    BY <2>1 DEF IInv, StateInv, EndIsValidated
  <2>3. Promise!Settle
    BY <2>1, <2>2 DEF Promise!Settle, TypeOK
  <2>. QED BY <2>3
<1>. QED BY <1>1, <1>2, <1>3, <1>4, <1>5, <1>6, <1>7 DEF Next, vars

\* A run keeps the promise of GuardedAnswer: what it cites was cleared, it is
\* judged once, and only a trusted draft completes or asks for a tool.
THEOREM RunKeepsPromise == Spec => ImplementsGuardedAnswer
BY PromiseInit, PromiseStep, TypeInit, TypeStep, InvInit, InvStep, PTL
   DEF Spec, ImplementsGuardedAnswer, Promise!Spec
=============================================================================
