------------------------------ MODULE Pipeline ------------------------------
(***************************************************************************)
(* One query run: submit_query and Pipeline.run, from the router to the    *)
(* reply, with the agents it calls.                                        *)
(*                                                                         *)
(* `pc' names the call the run is waiting for.  A run writes nothing       *)
(* durable but its audit records until submit_query saves its context, so  *)
(* a crash only stops it, and what the audit log holds then is what it     *)
(* holds in some state below.  What the models answer, which chunks match, *)
(* and which audit writes fail is left open.                               *)
(*                                                                         *)
(* A text is abstracted to its kind: what the deterministic scan finds.    *)
(***************************************************************************)
EXTENDS Naturals

CONSTANTS
    Chunks,             \* chunks of the vector store
    WebChunks,          \* chunks a web search may return
    UserQuery,          \* the pseudo chunk "user_query" of the query scan
    Matters,
    MatterOf,           \* the matter of a chunk of the vector store
    KindOf,             \* the kind of a chunk's text
    Policy,             \* settings.suspicious_chunk_policy
    ClassifierReplies,  \* how the classifier's LLM scan may end
    AuditMayFail        \* whether an audit write may raise

Items == Chunks \cup WebChunks
\* No signal; one; two or more or a system, xml marker; a hidden codepoint.
Kinds == {"plain", "one_signal", "many_signals", "unicode"}
Replies == {"clean", "suspicious", "blocked", "unparsable", "failed", "raised"}

ASSUME ItemsAssumption ==
    /\ Chunks \cap WebChunks = {} /\ UserQuery \notin Items
    /\ MatterOf \in [Chunks -> Matters] /\ KindOf \in [Items -> Kinds]
ASSUME PolicyAssumption == Policy \in {"pass_through", "flag_in_answer", "quarantine"}
ASSUME RepliesAssumption ==
    /\ ClassifierReplies \subseteq Replies /\ "failed" \in ClassifierReplies
    /\ AuditMayFail \in BOOLEAN

VARIABLES
    query,      \* the text of the query: [kind, affirmative, greeting]
    permitted,  \* the matters of the authenticated user when the query came in
    pc,
    path,       \* ctx.execution_path
    state,      \* ctx.state
    retrieved,  \* the chunks of ctx.retrieval_result
    scans,      \* ctx.scan_results: the verdict per scanned text
    clean,      \* ctx.clean_chunks
    analysis,   \* ctx.analysis_result
    verdict,    \* ctx.validation_verdict
    request,    \* ctx.tool_action_request is set
    queued,     \* the approval queue has a row for the run
    error,      \* ctx.error is set
    log,        \* ctx.message_log
    audit,      \* the envelopes of the run in audit_log
    reply,      \* what submit_query answered
    cacheable   \* the response was put into the query cache

run    == <<query, permitted>>
trail  == <<log, audit>>
answer == <<reply, cacheable>>
vars   == <<run, pc, path, state, retrieved, scans, clean, analysis, verdict,
            request, queued, error, trail, answer>>

-----------------------------------------------------------------------------
(***************************************************************************)
(* InjectionClassifier.                                                    *)
(***************************************************************************)
Verdicts == {"clean", "suspicious", "blocked"}
Severity(v) == CASE v = "clean" -> 0 [] v = "suspicious" -> 1 [] v = "blocked" -> 2
MoreSevere(v, w) == IF Severity(v) >= Severity(w) THEN v ELSE w

HeuristicScan(kind) ==
    CASE kind = "plain" -> "clean" [] kind = "one_signal" -> "suspicious"
      [] OTHER -> "blocked"

\* An answer that does not parse counts as suspicious; without an answer only
\* the heuristic verdict is left.
LlmScan(r) ==
    CASE r = "unparsable" -> "suspicious" [] r = "failed" -> "clean" [] OTHER -> r

LlmDecides(kind, r) == IF kind = "unicode" THEN "blocked" ELSE LlmScan(r)   \* mutant
MergedScan(kind, r) ==
    IF kind = "unicode" THEN "blocked" ELSE MoreSevere(HeuristicScan(kind), LlmScan(r))

\* The gather of the chunk scans turns an exception into a suspicious result.
ScanResult(kind, r) == IF r = "raised" THEN "suspicious" ELSE MergedScan(kind, r)

\* The scans whose chunk goes on to the analysis agent.
QuarantineOnly(v) == Policy = "quarantine" => v # "suspicious"    \* mutant
Passes(v) ==
    /\ v # "blocked"
    /\ Policy = "quarantine" => v # "suspicious"

-----------------------------------------------------------------------------
(***************************************************************************)
(* AnalysisAgent.  The LLM may cite any ids; only those of clean chunks    *)
(* are kept, and none for a greeting.  Failing, the agent falls back on a  *)
(* draft without claims or actions, one of the results below.              *)
(***************************************************************************)
NoAnalysis == [draft |-> "none", cited |-> {}, asks |-> FALSE]
Analysis == [draft : {"none", "empty", "plain", "flagged"}, cited : SUBSET Items,
             asks : BOOLEAN]

AllCited(ids) == ids      \* mutant
KeptIds(ids) == IF query.greeting THEN {} ELSE ids \cap clean

\* Under flag_in_answer a draft is marked when anything scanned is suspicious.
QueryBanner(draft) == IF scans[UserQuery] = "suspicious" THEN "flagged" ELSE draft   \* mutant
Banner(draft) ==
    IF Policy = "flag_in_answer" /\ draft = "plain"
       /\ \E i \in Items \cup {UserQuery} : scans[i] = "suspicious"
    THEN "flagged" ELSE draft

-----------------------------------------------------------------------------
(***************************************************************************)
(* ValidatorAgent: no claims pass without a call; a call that fails, or an *)
(* answer that does not parse into a verdict, leaves the check that every  *)
(* cited chunk exists.  The trust level is decided on the JSON values as   *)
(* they came, the flags of the verdict are what pydantic makes of them: a  *)
(* text like "false" or "no" counts as true for the one and becomes FALSE  *)
(* for the other.                                                          *)
(***************************************************************************)
Flags == {"true", "false", "false_text"}
Truthy(f) == f # "false"
AsBool(f) == f = "true"

NoVerdict == [grounded |-> FALSE, unauthorized |-> FALSE, trust |-> "untrusted",
              notes |-> "none"]
Verdict == [grounded : BOOLEAN, unauthorized : BOOLEAN, trust : {"trusted", "untrusted"},
            notes : {"none", "no_claims", "llm", "deterministic"}]
ValidatorReplies == [grounded : Flags, unauthorized : Flags, parses : BOOLEAN]

Validated(r) ==
    LET found == analysis.cited \subseteq clean IN
    IF analysis.cited = {}
    THEN [grounded |-> TRUE, unauthorized |-> FALSE, trust |-> "trusted", notes |-> "no_claims"]
    ELSE IF r.parses
    THEN [grounded |-> found /\ AsBool(r.grounded), unauthorized |-> AsBool(r.unauthorized),
          trust |-> IF found /\ Truthy(r.grounded) /\ ~Truthy(r.unauthorized)
                    THEN "trusted" ELSE "untrusted",
          notes |-> "llm"]
    ELSE [grounded |-> found, unauthorized |-> FALSE,
          trust |-> IF found THEN "trusted" ELSE "untrusted", notes |-> "deterministic"]

-----------------------------------------------------------------------------
(***************************************************************************)
(* Envelopes: of which type, about which chunks, saying what, how trusted. *)
(***************************************************************************)
Env(type, about, says, trust) ==
    [type |-> type, about |-> about, says |-> says, trust |-> trust]

LogToAuditOnly(envelopes) == log' = log /\ audit' = audit \cup envelopes   \* mutant

\* Appended to the message log and written to the audit log; a write that
\* raises is swallowed.
Log(envelopes) ==
    /\ log' = log \cup envelopes
    /\ \E lost \in SUBSET envelopes :
          /\ AuditMayFail \/ lost = {}
          /\ audit' = audit \cup (envelopes \ lost)

AllowedTransitions ==
    [received |-> {"retrieving", "classifying"},
     retrieving |-> {"classifying", "failed"},
     classifying |-> {"analyzing", "failed"},
     analyzing |-> {"validating", "failed"},
     validating |-> {"complete", "awaiting_approval", "failed"},
     awaiting_approval |-> {"executing_tool", "complete", "failed"},
     executing_tool |-> {"complete", "failed"},
     complete |-> {}, failed |-> {}]
States == DOMAIN AllowedTransitions
Terminal == {"complete", "failed"}
Paths == {"pipeline", "direct_llm", "websearch_llm"}

Steps == {"route", "retrieve", "search", "scan_query", "scan_chunks", "analyze",
          "validate", "decide", "enqueue", "respond", "done"}

\* The run goes on in a state, or gives up with an error.  The check of
\* transition_to never fires: FollowsGraph is about just that.
Enter(s, step) == state' = s /\ pc' = step /\ UNCHANGED error
GiveUp == state' = "failed" /\ error' = TRUE /\ pc' = "respond"

TypeOK ==
    /\ query \in [kind : Kinds, affirmative : BOOLEAN, greeting : BOOLEAN]
    /\ permitted \subseteq Matters
    /\ pc \in Steps /\ path \in Paths /\ state \in States
    /\ retrieved \subseteq Items /\ clean \subseteq Items
    /\ scans \in [Items \cup {UserQuery} -> Verdicts \cup {"none"}]
    /\ analysis \in Analysis /\ verdict \in Verdict
    /\ request \in BOOLEAN /\ queued \in BOOLEAN /\ error \in BOOLEAN
    /\ audit \subseteq log
    /\ reply \in {"none", "draft", "awaiting", "stopped", "completed", "raised"}
    /\ cacheable \in BOOLEAN

\* An affirmative is one of a few bare words: no greeting, nothing to find.
Init ==
    /\ query \in {q \in [kind : Kinds, affirmative : BOOLEAN, greeting : BOOLEAN] :
                     q.affirmative => q.kind = "plain" /\ ~q.greeting}
    /\ permitted \in SUBSET Matters
    /\ pc = "route" /\ path = "pipeline" /\ state = "received"
    /\ retrieved = {} /\ clean = {}
    /\ scans = [i \in Items \cup {UserQuery} |-> "none"]
    /\ analysis = NoAnalysis /\ verdict = NoVerdict
    /\ request = FALSE /\ queued = FALSE /\ error = FALSE
    /\ log = {} /\ audit = {}
    /\ reply = "none" /\ cacheable = FALSE

-----------------------------------------------------------------------------
\* The router's LLM picks a path, PIPELINE when it fails; a bare affirmative
\* goes to DIRECT_LLM.  The first stage of the path begins.
Route ==
    /\ pc = "route"
    /\ \E p \in Paths :
          /\ query.affirmative => p = "direct_llm"
          /\ path' = p
          /\ Log({Env("router_decision", {}, p, "trusted")})
          /\ \/ p = "pipeline"      /\ Enter("retrieving", "retrieve")
             \/ p = "direct_llm"    /\ Enter("classifying", "scan_query")
             \/ p = "websearch_llm" /\ Enter(state, "search")
    /\ UNCHANGED <<run, retrieved, scans, clean, analysis, verdict, request, queued, answer>>

\* The where-filter of the vector store query; without a matter, an embedding
\* or a match the result is empty.
Unfiltered == Chunks    \* mutant
Retrievable == {c \in Chunks : MatterOf[c] \in permitted}

GotChunks(found) ==
    /\ retrieved' = found
    /\ Log({Env("retrieval_result", found, "found", "untrusted")})
    /\ Enter("classifying", "scan_query")
    /\ UNCHANGED <<run, path, scans, clean, analysis, verdict, request, queued, answer>>

Retrieve == pc = "retrieve" /\ \E found \in SUBSET Retrievable : GotChunks(found)
Search   == pc = "search" /\ \E found \in SUBSET WebChunks : GotChunks(found)

\* The scan of the query is kept, and not logged.
ScanQuery ==
    /\ pc = "scan_query"
    /\ \E r \in ClassifierReplies \ {"raised"} :
          LET v == MergedScan(query.kind, r) IN
          /\ scans' = [scans EXCEPT ![UserQuery] = v]
          /\ IF v = "blocked" THEN GiveUp ELSE Enter(state, "scan_chunks")
    /\ UNCHANGED <<run, path, retrieved, clean, analysis, verdict, request, queued, trail, answer>>

(***************************************************************************)
(* The scans of all chunks are gathered.  The run fails if chunks were     *)
(* found and none is clean, or (the check after the stage) if a web search *)
(* left none.                                                              *)
(***************************************************************************)
OutOfChunks(kept) == kept = {} /\ (retrieved # {} \/ path = "websearch_llm")

ScanChunks ==
    /\ pc = "scan_chunks"
    /\ \E replies \in [retrieved -> ClassifierReplies] :
          LET v == [c \in retrieved |-> ScanResult(KindOf[c], replies[c])]
              kept == {c \in retrieved : Passes(v[c])}
          IN
          /\ scans' = [i \in DOMAIN scans |-> IF i \in retrieved THEN v[i] ELSE scans[i]]
          /\ Log({Env("injection_scan_result", {c}, v[c], "untrusted") : c \in retrieved})
          /\ clean' = kept
          /\ IF OutOfChunks(kept) THEN GiveUp ELSE Enter("analyzing", "analyze")
    /\ UNCHANGED <<run, path, retrieved, analysis, verdict, request, queued, answer>>

Analyze ==
    /\ pc = "analyze"
    /\ \E ids \in SUBSET Items, asks \in BOOLEAN, draft \in {"empty", "plain"} :
          /\ analysis' = [draft |-> Banner(draft), cited |-> KeptIds(ids), asks |-> asks]
          /\ Log({Env("analysis_result", KeptIds(ids), "draft", "untrusted")})
    /\ Enter("validating", "validate")
    /\ UNCHANGED <<run, path, retrieved, scans, clean, verdict, request, queued, answer>>

Validate ==
    /\ pc = "validate"
    /\ \E r \in ValidatorReplies :
          /\ verdict' = Validated(r)
          /\ Log({Env("validation_verdict", {}, Validated(r).notes, Validated(r).trust)})
    /\ pc' = "decide"
    /\ UNCHANGED <<run, path, state, retrieved, scans, clean, analysis, request,
                   queued, error, answer>>

\* A verdict that fails ends the run.
Fails(v) == ~v.grounded \/ v.unauthorized

\* assert_no_untrusted_to_tool_exec, assert_validated_before_privileged
ChecksFlagsOnly(v) == v.grounded /\ ~v.unauthorized    \* mutant
Crosses(v) == v.trust = "trusted" /\ v.grounded /\ ~v.unauthorized

Reject ==
    /\ pc = "decide" /\ Fails(verdict)
    /\ GiveUp
    /\ UNCHANGED <<run, path, retrieved, scans, clean, analysis, verdict, request,
                   queued, trail, answer>>

Complete ==
    /\ pc = "decide" /\ ~Fails(verdict) /\ ~analysis.asks
    /\ Enter("complete", "respond")
    /\ UNCHANGED <<run, path, retrieved, scans, clean, analysis, verdict, request,
                   queued, trail, answer>>

NeverEnqueue(p) == "respond"    \* mutant
AfterRequest(p) == IF p = "pipeline" THEN "enqueue" ELSE "respond"

\* The request is built, checked against the trust boundary, logged with the
\* trust of the verdict, and waits; the PIPELINE path goes on to enqueue it.  A
\* request that may not cross stays in the context of the failed run.
AskForTool ==
    /\ pc = "decide" /\ ~Fails(verdict) /\ analysis.asks
    /\ request' = TRUE
    /\ IF Crosses(verdict)
       THEN /\ Log({Env("tool_action_request", analysis.cited, "request", verdict.trust)})
            /\ Enter("awaiting_approval", AfterRequest(path))
       ELSE GiveUp /\ UNCHANGED trail
    /\ UNCHANGED <<run, path, retrieved, scans, clean, analysis, verdict, queued, answer>>

Enqueue ==
    /\ pc = "enqueue"
    /\ queued' = TRUE
    /\ Enter(state, "respond")
    /\ UNCHANGED <<run, path, retrieved, scans, clean, analysis, verdict, request,
                   trail, answer>>

\* Mutant: the save and the answer are inside the try block too.
RaiseAnywhere ==
    /\ pc # "done"
    /\ GiveUp
    /\ UNCHANGED <<run, path, retrieved, scans, clean, analysis, verdict, request,
                   queued, trail, answer>>

\* A store, or the parsing of a search result, may raise; run() catches it and
\* forces FAILED.  The calls of the models are caught by the agents themselves.
Raise ==
    /\ pc \in {"retrieve", "search", "enqueue"}
    /\ GiveUp
    /\ UNCHANGED <<run, path, retrieved, scans, clean, analysis, verdict, request,
                   queued, trail, answer>>

\* submit_query: the context is saved, the answer built from whatever draft
\* there is, and a COMPLETE response cached.
Cached(s) == s = "complete"

Answer ==
    IF analysis.draft \in {"plain", "flagged"} THEN "draft"
    ELSE IF state = "awaiting_approval" THEN "awaiting"
    ELSE IF error THEN "stopped" ELSE "completed"

Respond ==
    /\ pc = "respond" /\ pc' = "done"
    /\ reply' = Answer
    /\ cacheable' = Cached(state)
    /\ UNCHANGED <<run, path, state, retrieved, scans, clean, analysis, verdict,
                   request, queued, error, trail>>

\* context_store.save raises: no answer.
SaveRaises ==
    /\ pc = "respond" /\ pc' = "done"
    /\ reply' = "raised"
    /\ UNCHANGED <<run, path, state, retrieved, scans, clean, analysis, verdict,
                   request, queued, error, trail, cacheable>>

Next ==
    \/ Route \/ Retrieve \/ Search \/ ScanQuery \/ ScanChunks \/ Analyze \/ Validate
    \/ Reject \/ Complete \/ AskForTool \/ Enqueue \/ Raise \/ Respond \/ SaveRaises

Spec == Init /\ [][Next]_vars

\* Every call returns or raises: the clients' calls end in an answer or an
\* exception, and the event loop resumes the run.
FairSpec == Spec /\ WF_vars(Next)

-----------------------------------------------------------------------------
(***************************************************************************)
(* Properties.                                                             *)
(***************************************************************************)

Acceptable == IF Policy = "quarantine" THEN {"clean"} ELSE {"clean", "suspicious"}

\* What may be cited: a chunk of a permitted matter, or of the web on the web
\* path, with a scan that passes the policy.
Cleared(c) ==
    /\ c \in Chunks => path = "pipeline" /\ MatterOf[c] \in permitted
    /\ c \in WebChunks => path = "websearch_llm"
    /\ scans[c] \in Acceptable

\* Whatever the models answer, a draft rests only on chunks that the user may
\* read and that came through the injection scan (the where-filter of the
\* vector store, _stage_classify and AnalysisAgent._parse_response).
CitedIsCleared == \A c \in analysis.cited : Cleared(c)

\* A text that the deterministic scan blocks is cited only if its scan raised,
\* and is then marked suspicious, whatever the LLM scan says or however it
\* fails (InjectionClassifier.scan takes the more severe verdict; the gather of
\* _stage_classify turns an exception into a suspicious result).
BlockedTextStaysOut ==
    \A c \in analysis.cited : HeuristicScan(KindOf[c]) = "blocked" =>
        scans[c] = "suspicious" /\ "raised" \in ClassifierReplies

\* Both checks of the validator are passed.
Passing(v) == v.grounded /\ ~v.unauthorized

\* A context that waits for approval or completed passed both checks of the
\* validator; one that waits is trusted and asks for a tool, one that completed
\* asks for nothing, and lacks the trust only if a validating model answered.
\* Only a completed run is cached (_stage_validate, submit_query).
EndIsValidated ==
    /\ state \in {"awaiting_approval", "complete"} =>
          verdict.notes # "none" /\ Passing(verdict)
    /\ state = "awaiting_approval" => request /\ analysis.asks /\ verdict.trust = "trusted"
    /\ state = "complete" => ~request /\ (verdict.trust = "trusted" \/ verdict.notes = "llm")
    /\ cacheable => state = "complete"

\* What the audit log alone shows of a tool request if it has lost nothing:
\* there is a trusted verdict, an analysis that cites the originating chunks,
\* and for each of them a scan that lets it pass and a retrieval.
AuditJustifiesRequest ==
    audit = log => \A q \in audit : q.type = "tool_action_request" =>
        /\ q.trust = "trusted"
        /\ \E v \in audit : v.type = "validation_verdict" /\ v.trust = "trusted"
        /\ \E a \in audit : a.type = "analysis_result" /\ a.about = q.about
        /\ \A c \in q.about :
              /\ \E s \in audit : s.type = "injection_scan_result" /\ s.about = {c}
                                  /\ s.says \in Acceptable
              /\ \E r \in audit : r.type = "retrieval_result" /\ c \in r.about

\* The state moves along ALLOWED_TRANSITIONS and a terminal state is final;
\* the forced FAILED of run() goes beyond the graph only from RECEIVED, when a
\* web search raises.
FollowsGraph ==
    [][state' # state => \/ state' \in AllowedTransitions[state]
                         \/ state = "received" /\ state' = "failed" /\ error']_vars

\* Under flag_in_answer, a draft the user may see that rests on a suspicious
\* chunk carries the warning (_stage_analyze).
SuspiciousIsFlagged ==
    Policy = "flag_in_answer" =>
        \A c \in analysis.cited : scans[c] = "suspicious" => analysis.draft \in {"flagged", "empty"}

\* Every run ends, and one of the PIPELINE path that ends waiting for approval
\* has its row in the queue: nothing else would ever resume it.
RunEnds ==
    <>(pc = "done" /\ (path = "pipeline" /\ state = "awaiting_approval" => queued))

Promise == INSTANCE GuardedAnswer
    WITH cleared <- clean, cited <- analysis.cited,
         judged <- IF verdict.notes = "none" THEN "no"
                   ELSE IF ~Passing(verdict) THEN "refused"
                   ELSE IF verdict.trust = "trusted" THEN "trusted" ELSE "doubted",
         asked <- request,
         outcome <- IF pc = "done" THEN state ELSE "open"
\* The run keeps the promise of GuardedAnswer.
ImplementsGuardedAnswer == Promise!Spec

\* Only a draft that is grounded, without an unauthorized action, reaches the
\* user (the design document on the validator's verdict).
ShownIsValidated == reply = "draft" => Passing(verdict)

(***************************************************************************)
(* The inductive invariant behind the safety properties.                   *)
(***************************************************************************)
Early     == {"route", "retrieve", "search", "scan_query", "scan_chunks"}
Drafting  == Early \cup {"analyze"}
Unjudged  == Drafting \cup {"validate"}

\* What has been retrieved may be read on this path.
RetrievedInv ==
    /\ \A c \in retrieved :
          /\ c \in Chunks => path = "pipeline" /\ MatterOf[c] \in permitted
          /\ c \in WebChunks => path = "websearch_llm"
    /\ pc \in {"route", "retrieve", "search"} => retrieved = {}
    /\ pc = "retrieve" => path = "pipeline"
    /\ pc = "search" => path = "websearch_llm"

\* What is clean has been retrieved and scanned, and was audited so.
CleanInv ==
    /\ clean \subseteq retrieved
    /\ \A c \in clean : scans[c] \in Acceptable
    /\ pc \in Early => clean = {}

\* Drafts, verdicts and requests appear in this order and rest on what is
\* clean.
DraftInv ==
    /\ analysis.cited \subseteq clean
    /\ pc \in Drafting => analysis = NoAnalysis
    /\ pc \in Unjudged => verdict = NoVerdict
    /\ pc \in Unjudged \cup {"decide"} => ~request
    /\ pc = "decide" => verdict.notes # "none"
    /\ request => verdict.notes # "none" /\ ~Fails(verdict) /\ pc \in {"enqueue", "respond", "done"}
    /\ verdict.notes \in {"no_claims", "deterministic"} => verdict.trust = "trusted" \/ Fails(verdict)

\* Where the run waits decides its state.
StateInv ==
    /\ pc \in {"route", "search"} => state = "received"
    /\ pc = "retrieve" => state = "retrieving"
    /\ pc \in {"scan_query", "scan_chunks"} => state = "classifying"
    /\ pc = "analyze" => state = "analyzing"
    /\ pc \in {"validate", "decide"} => state = "validating"
    /\ pc = "enqueue" => state = "awaiting_approval"
    /\ pc \in {"respond", "done"} => state \in {"failed", "complete", "awaiting_approval"}
    /\ pc # "done" => ~cacheable
    /\ cacheable => state = "complete"

\* Every envelope that the request will rest on is in the message log.
LogInv ==
    /\ retrieved # {} => Env("retrieval_result", retrieved, "found", "untrusted") \in log
    /\ \A c \in clean :
          Env("injection_scan_result", {c}, scans[c], "untrusted") \in log
    /\ analysis # NoAnalysis =>
          Env("analysis_result", analysis.cited, "draft", "untrusted") \in log
    /\ verdict.notes # "none" =>
          Env("validation_verdict", {}, verdict.notes, verdict.trust) \in log
    /\ pc \in {"validate", "decide"} => analysis # NoAnalysis
    /\ \A q \in log : q.type = "tool_action_request" =>
          request /\ analysis # NoAnalysis /\ verdict.trust = "trusted"
          /\ q = Env("tool_action_request", analysis.cited, "request", "trusted")

IInv == RetrievedInv /\ CleanInv /\ DraftInv /\ StateInv /\ LogInv /\ EndIsValidated
=============================================================================
