---------------------------- MODULE ApprovalFlow ----------------------------
(***************************************************************************)
(* The human-approval gate of the legal RAG service: the tail of a query   *)
(* run that asks for a tool call, the approval_queue table, the            *)
(* pipeline_contexts table with its in-memory cache, the approve and       *)
(* reject routes, and the tool-exec agent they resume.                     *)
(*                                                                         *)
(* One uvicorn process runs one event loop, and no handler of this part    *)
(* suspends between its first and its last store access (the SQLite calls  *)
(* are synchronous and the deployed tools never await), so one handler     *)
(* runs at a time.  It commits to SQLite several times, though, and the    *)
(* process may die between two commits: `pc' names the next commit of the  *)
(* handler in progress, and only that commit or Restart may follow.        *)
(*                                                                         *)
(* A run enqueues at most one request, so a row of approval_queue is       *)
(* identified by its trace.                                                *)
(***************************************************************************)
EXTENDS Naturals, FiniteSets

CONSTANTS
    Traces,         \* trace ids, one per query run
    NoTrace,        \* "no handler in progress"
    ApproveRoutes,  \* the approve endpoints in use: "form", "api", "trace"
    Paths,          \* execution paths the router may pick
    Tools,          \* tool names the analysis agent may propose
    Allowed,        \* the tools registered with the tool-exec agent
    Queries,        \* user queries: the only parameter a tool call carries
    CallOf,         \* the call a trace proposes: [tool, query]
    RateLimit,      \* calls per tool and process lifetime
    MaxCache,       \* capacity of the context cache
    MaxRestarts,    \* bound on process restarts
    MaxFaults       \* bound on SQLite writes that raise

Call == [tool : Tools, query : Queries]

ASSUME TracesAssumption == NoTrace \notin Traces /\ IsFiniteSet(Traces)
ASSUME RoutesAssumption == ApproveRoutes \subseteq {"form", "api", "trace"}
ASSUME PathsAssumption  == Paths \subseteq {"pipeline", "direct", "web"}
ASSUME CallsAssumption  == Allowed \subseteq Tools /\ CallOf \in [Traces -> Call]
ASSUME BoundsAssumption ==
    /\ RateLimit \in Nat /\ MaxCache \in Nat \ {0}
    /\ MaxRestarts \in Nat /\ MaxFaults \in Nat

VARIABLES
    queue,      \* approval_queue: the status of the trace's row, "none" without one
    db,         \* pipeline_contexts: the stored context, NoCtx without a row
    audit,      \* audit_log: the tool envelopes logged for the trace
    invoked,    \* how often the tool handler was called for the trace
    done,       \* the traces for which the tool handler returned normally
    started,    \* the traces whose run has happened (a uuid is never reused)
    mem,        \* the context object of the trace in this process
    cached,     \* the traces in the context store's in-memory cache
    seen,       \* _idempotency_keys of the tool-exec agent
    remaining,  \* _rate_limits of the tool-exec agent
    pc, op, cur,    \* the handler in progress: next commit, endpoint, trace
    reply,      \* how the last finished request was answered
    restarts, faults

durable  == <<queue, db, audit, invoked, done, started>>
agent    == <<seen, remaining>>
handler  == <<pc, op, cur>>
bounds   == <<restarts, faults>>
vars     == <<durable, mem, cached, agent, handler, reply, bounds>>

Statuses == {"none", "pending", "approved", "rejected"}
States   == {"absent", "awaiting_approval", "executing_tool", "complete", "failed"}
Terminal == {"complete", "failed"}
\* status and summary of a ToolActionResult, as far as they can be told apart
Results  == {"none", "executed", "duplicate", "error", "denied", "rejected_by_human"}

Context  == [state : States, result : Results]
Ctx(s, r) == [state |-> s, result |-> r]
NoCtx     == Ctx("absent", "none")
Present(c) == c.state # "absent"

IdRoutes == ApproveRoutes \ {"trace"}

Steps   == {"idle", "enqueue", "resume", "log_result", "save"}
Ops     == {"none", "submit", "reject"} \cup ApproveRoutes
Replies == {"none", "ok", "not_found", "bad_request", "no_context",
            "decision_only", "raised", "fallback_raised"}

TypeOK ==
    /\ queue \in [Traces -> Statuses]
    /\ db \in [Traces -> Context]
    /\ mem \in [Traces -> Context]
    /\ audit \in [Traces -> SUBSET {"request", "result"}]
    /\ invoked \in [Traces -> Nat]
    /\ started \subseteq Traces /\ cached \subseteq Traces /\ done \subseteq Traces
    /\ seen \subseteq Call
    /\ remaining \in [Allowed -> 0..RateLimit]
    /\ pc \in Steps /\ op \in Ops /\ cur \in Traces \cup {NoTrace}
    /\ pc # "idle" => cur \in Traces
    /\ reply \in Replies
    /\ restarts \in 0..MaxRestarts /\ faults \in 0..MaxFaults

Init ==
    /\ queue = [t \in Traces |-> "none"]
    /\ db = [t \in Traces |-> NoCtx]
    /\ audit = [t \in Traces |-> {}]
    /\ invoked = [t \in Traces |-> 0]
    /\ done = {} /\ started = {}
    /\ mem = [t \in Traces |-> NoCtx]
    /\ cached = {}
    /\ seen = {}
    /\ remaining = [u \in Allowed |-> RateLimit]
    /\ pc = "idle" /\ op = "none" /\ cur = NoTrace
    /\ reply = "none"
    /\ restarts = 0 /\ faults = 0

-----------------------------------------------------------------------------
Begin(o, t, step) == pc = "idle" /\ pc' = step /\ op' = o /\ cur' = t
Finish(r) == pc' = "idle" /\ op' = "none" /\ cur' = NoTrace /\ reply' = r
Goto(step) == pc' = step /\ UNCHANGED <<op, cur, reply>>

\* One SQLite write of the handler raises.
Fault == faults < MaxFaults /\ faults' = faults + 1
NoFault == UNCHANGED faults

(***************************************************************************)
(* PipelineContextStore.  The cache holds references: `mem[t]' is the one  *)
(* object that a handler changes and that later lookups return.  A full    *)
(* cache drops an entry; the code drops the least recently used one, here  *)
(* it may be any other.                                                    *)
(***************************************************************************)
Put(t, ctx) ==
    \E victims \in SUBSET (cached \ {t}) :
        /\ Cardinality(victims) =
             IF t \notin cached /\ Cardinality(cached) >= MaxCache THEN 1 ELSE 0
        /\ cached' = (cached \ victims) \cup {t}
        /\ mem' = [u \in Traces |-> IF u = t THEN ctx
                                    ELSE IF u \in victims THEN NoCtx ELSE mem[u]]

\* What context_store.get returns: the cached object, else the stored row.
Lookup(t) == IF t \in cached THEN mem[t] ELSE db[t]

-----------------------------------------------------------------------------
(***************************************************************************)
(* The end of Pipeline.run in submit_query: the run failed, completed, or  *)
(* asks for a tool call.  The request is logged (a failing audit write is  *)
(* swallowed); only the PIPELINE path goes on to _stage_tool_exec, which   *)
(* enqueues it.                                                            *)
(***************************************************************************)
RunEnds(t, end) ==
    /\ t \notin started
    /\ Begin("submit", t, "save")
    /\ started' = started \cup {t}
    /\ mem' = [mem EXCEPT ![t] = Ctx(end, "none")]
    /\ UNCHANGED <<queue, db, audit, invoked, done, cached, agent, reply, bounds>>

\* Only the PIPELINE path ends in _stage_tool_exec.
NeverEnqueue(path) == "save"    \* mutant
AfterRequest(path) == IF path = "pipeline" THEN "enqueue" ELSE "save"

RunAsksForTool(t, path) ==
    /\ t \notin started
    /\ Begin("submit", t, AfterRequest(path))
    /\ started' = started \cup {t}
    /\ mem' = [mem EXCEPT ![t] = Ctx("awaiting_approval", "none")]
    /\ \/ NoFault /\ audit' = [audit EXCEPT ![t] = @ \cup {"request"}]
       \/ Fault /\ UNCHANGED audit
    /\ UNCHANGED <<queue, db, invoked, done, cached, agent, reply, restarts>>

\* Mutant: the row is committed before the write that raises.
EnqueueKeepsRow ==
    /\ pc = "enqueue"
    /\ queue' = [queue EXCEPT ![cur] = "pending"]
    /\ \/ NoFault /\ UNCHANGED mem
       \/ Fault /\ mem' = [mem EXCEPT ![cur].state = "failed"]
    /\ Goto("save")
    /\ UNCHANGED <<db, audit, invoked, done, started, cached, agent, restarts>>

\* approval_gate.enqueue commits the pending row; if it raises, run() forces
\* the context into FAILED.
Enqueue ==
    /\ pc = "enqueue"
    /\ \/ NoFault /\ queue' = [queue EXCEPT ![cur] = "pending"] /\ UNCHANGED mem
       \/ Fault /\ mem' = [mem EXCEPT ![cur].state = "failed"] /\ UNCHANGED queue
    /\ Goto("save")
    /\ UNCHANGED <<db, audit, invoked, done, started, cached, agent, restarts>>

\* ON CONFLICT(trace_id) DO UPDATE
InsertOrIgnore(row, ctx) == IF Present(row) THEN row ELSE ctx   \* mutant
Upsert(row, ctx) == ctx

\* context_store.save: the cache is updated before the row is written, so a
\* write that raises leaves the two apart.
Save ==
    /\ pc = "save"
    /\ Put(cur, mem[cur])
    /\ \/ NoFault /\ db' = [db EXCEPT ![cur] = Upsert(@, mem[cur])] /\ Finish("ok")
       \/ Fault /\ UNCHANGED db /\ Finish("raised")
    /\ UNCHANGED <<queue, audit, invoked, done, started, agent, restarts>>

-----------------------------------------------------------------------------
(***************************************************************************)
(* The decision: the conditional UPDATE of approve / reject.  A request    *)
(* that is not pending is answered 404 or 400 and changes nothing.         *)
(***************************************************************************)
\* WHERE approval_id = ? AND status = 'pending'
AnyRow(status) == status # "none"   \* mutant
Updatable(status) == status = "pending"

Decide(o, t, status) ==
    /\ Updatable(queue[t])
    /\ queue' = [queue EXCEPT ![t] = status]
    /\ Begin(o, t, "resume")
    /\ UNCHANGED <<db, audit, invoked, done, started, mem, cached, agent, reply, bounds>>

Refuse(t) ==
    /\ pc = "idle"
    /\ ~Updatable(queue[t])
    /\ reply' = IF queue[t] = "none" THEN "not_found" ELSE "bad_request"
    /\ UNCHANGED <<durable, mem, cached, agent, handler, bounds>>

ApproveById(r, t) == Decide(r, t, "approved")
Reject(t)         == Decide("reject", t, "rejected")

\* approve_by_trace_api approves the row if it is pending and goes on
\* whatever approve() answered.
ApproveByTrace(t) ==
    /\ "trace" \in ApproveRoutes
    /\ queue' = [queue EXCEPT ![t] = IF Updatable(@) THEN "approved" ELSE @]
    /\ Begin("trace", t, "resume")
    /\ UNCHANGED <<db, audit, invoked, done, started, mem, cached, agent, reply, bounds>>

-----------------------------------------------------------------------------
(***************************************************************************)
(* After the decision the handler looks the context up.                    *)
(***************************************************************************)
\* No context.  The form route answers 404, the JSON routes answer 200
\* without executing; the trace route rebuilds a context in RECEIVED, whose
\* transition to AWAITING_APPROVAL raises.
ResumeMissing ==
    /\ pc = "resume" /\ ~Present(Lookup(cur))
    /\ Finish(CASE op = "form"   -> "no_context"
                [] op = "trace"  -> IF queue[cur] = "none" THEN "not_found"
                                    ELSE "fallback_raised"
                [] OTHER         -> "decision_only")
    /\ UNCHANGED <<durable, mem, cached, agent, bounds>>

\* execute_approved_tool on a context that is not AWAITING_APPROVAL raises
\* InvalidTransition and changes nothing but the cache.
ResumeRaises ==
    /\ pc = "resume" /\ op \in ApproveRoutes
    /\ Present(Lookup(cur)) /\ Lookup(cur).state # "awaiting_approval"
    /\ Put(cur, Lookup(cur))
    /\ Finish("raised")
    /\ UNCHANGED <<durable, agent, bounds>>

(***************************************************************************)
(* ToolExecAgent.execute: allowlist, rate limit, idempotency key, then the *)
(* handler.  `result' is what it returns.  A handler that raises has been  *)
(* called and counted against the limit, but its key is not recorded.      *)
(***************************************************************************)
AllowlistOnly(t) == CallOf[t].tool \notin Allowed   \* mutant
Left(tool) == IF tool \in Allowed THEN remaining[tool] ELSE 0
Denied(t) == Left(CallOf[t].tool) = 0
Duplicate(t) == CallOf[t] \in seen

KeyBeforeCall(t, result) == {CallOf[t]}    \* mutant
KeyRecorded(t, result) == IF result = "executed" THEN {CallOf[t]} ELSE {}

RefundsErrors(t, result) ==    \* mutant
    /\ remaining' = [remaining EXCEPT ![CallOf[t].tool] =
                         IF result = "executed" THEN @ - 1 ELSE @]
    /\ invoked' = [invoked EXCEPT ![t] = @ + 1]
    /\ seen' = seen \cup KeyRecorded(t, result)
    /\ done' = IF result = "executed" THEN done \cup {t} ELSE done
CallHandler(t, result) ==
    /\ remaining' = [remaining EXCEPT ![CallOf[t].tool] = @ - 1]
    /\ invoked' = [invoked EXCEPT ![t] = @ + 1]
    /\ seen' = seen \cup KeyRecorded(t, result)
    /\ done' = IF result = "executed" THEN done \cup {t} ELSE done

Execute(t, result) ==
    \/ Denied(t) /\ result = "denied" /\ UNCHANGED <<invoked, done, agent>>
    \/ /\ ~Denied(t) /\ Duplicate(t)
       /\ result = "duplicate" /\ UNCHANGED <<invoked, done, agent>>
    \/ /\ ~Denied(t) /\ ~Duplicate(t)
       /\ result \in {"executed", "error"} /\ CallHandler(t, result)

ResumeTool ==
    /\ pc = "resume" /\ op \in ApproveRoutes
    /\ Lookup(cur).state = "awaiting_approval"
    /\ \E result \in Results :
          Execute(cur, result) /\ Put(cur, Ctx("executing_tool", result))
    /\ Goto("log_result")
    /\ UNCHANGED <<queue, db, audit, started, bounds>>

\* The result envelope is logged (or the failure swallowed); COMPLETE.
LogResult ==
    /\ pc = "log_result"
    /\ \/ NoFault /\ audit' = [audit EXCEPT ![cur] = @ \cup {"result"}]
       \/ Fault /\ UNCHANGED audit
    /\ mem' = [mem EXCEPT ![cur].state = "complete"]
    /\ Goto("save")
    /\ UNCHANGED <<queue, db, invoked, done, started, cached, agent, restarts>>

RejectedOpen(ctx) == Ctx(ctx.state, "rejected_by_human")    \* mutant
Rejected(ctx) == Ctx("complete", "rejected_by_human")

\* The reject handlers store a result and complete the context; on a context
\* already terminal the result is set and then the transition raises.
ResumeReject ==
    /\ pc = "resume" /\ op = "reject" /\ Present(Lookup(cur))
    /\ IF Lookup(cur).state \in Terminal
       THEN Put(cur, Ctx(Lookup(cur).state, "rejected_by_human")) /\ Finish("raised")
       ELSE Put(cur, Rejected(Lookup(cur))) /\ Goto("save")
    /\ UNCHANGED <<durable, agent, bounds>>

-----------------------------------------------------------------------------
EvictAnything(ctx) == TRUE    \* mutant
Evictable(ctx) == ctx.state \in Terminal

\* The process dies, at any commit, and comes back: memory is lost, the rate
\* limits are fresh, and evict_old deletes terminal rows old enough.
Restart ==
    /\ restarts < MaxRestarts
    /\ restarts' = restarts + 1
    /\ \E old \in SUBSET {t \in Traces : Evictable(db[t])} :
          db' = [t \in Traces |-> IF t \in old THEN NoCtx ELSE db[t]]
    /\ mem' = [t \in Traces |-> NoCtx]
    /\ cached' = {}
    /\ seen' = {}
    /\ remaining' = [u \in Allowed |-> RateLimit]
    /\ Finish("none")
    /\ UNCHANGED <<queue, audit, invoked, done, started, faults>>

Continue ==
    \/ Enqueue \/ Save \/ ResumeMissing \/ ResumeRaises
    \/ ResumeTool \/ LogResult \/ ResumeReject

Request(t) ==
    \/ \E end \in Terminal : RunEnds(t, end)
    \/ \E path \in Paths : RunAsksForTool(t, path)
    \/ \E r \in IdRoutes : ApproveById(r, t)
    \/ Reject(t)
    \/ Refuse(t)
    \/ ApproveByTrace(t)

Next == Continue \/ Restart \/ \E t \in Traces : Request(t)

Spec == Init /\ [][Next]_vars

\* The event loop runs a handler it has begun to its end.  Nobody has to send
\* a request, and nothing has to fail.
FairSpec == Spec /\ WF_vars(Continue)

-----------------------------------------------------------------------------
(***************************************************************************)
(* Properties.                                                             *)
(***************************************************************************)

\* A tool is called only for a trace whose queue row a human has approved
\* (approval/queue.py: a request "must pass through this queue before the
\* tool-exec agent executes it").
GatedExecution == \A t \in Traces : invoked[t] > 0 => queue[t] = "approved"

\* A tool request is carried out at most once, whatever is retried and
\* however often the process restarts (the write tool has an idempotency key).
AtMostOnce == \A t \in Traces : invoked[t] <= 1

\* What is left of GatedExecution for requests of the PIPELINE path on every
\* route: a tool is called only after a human decided, and against the decision
\* only where a stop or a failed write kept a rejection from the context.
CallsFollowDecisions ==
    \A t \in Traces : invoked[t] > 0 =>
        queue[t] = "approved" \/ (queue[t] = "rejected" /\ restarts + faults > 0)

\* What is left of AtMostOnce on every route: a tool is called once, and once
\* more at most for each restart and for each write that failed.
RepeatsAreExcused == \A t \in Traces : invoked[t] <= 1 + restarts + faults

\* Each call of a tool costs one of its calls, whether it fails or not, and a
\* duplicate costs none: no process makes more than RateLimit calls, and none
\* is lost while it lives (ToolExecAgent.execute, steps 3 to 5).
Calls(tool) == UNION {{t} \X (1..invoked[t]) : t \in {u \in Traces : CallOf[u].tool = tool}}
LimitIsKept ==
    \A tool \in Allowed :
        LET spent == Cardinality(Calls(tool)) + remaining[tool] IN
        /\ spent <= RateLimit * (1 + restarts)
        /\ restarts = 0 => spent = RateLimit

\* "Duplicate call - previously executed successfully" is only reported when
\* the same call has returned normally for some trace, in this process or, for
\* a stored report, in an earlier one (ToolExecAgent.execute, step 4).
DuplicateWasExecuted ==
    \A t \in Traces : \A ctx \in {db[t], mem[t]} :
        ctx.result = "duplicate" =>
            \E u \in done : CallOf[u] = CallOf[t]

\* Whatever crashes and write errors come between the commits of enqueue and
\* save, a row that approvers still see as pending never belongs to a context
\* that is finished or running: it waits, or was lost.
PendingStaysOpen ==
    \A t \in Traces : queue[t] = "pending" =>
        \A ctx \in {db[t], mem[t]} : ctx.state \in {"absent", "awaiting_approval"}

\* A row that approvers see as pending has its context in the store, or is the
\* one that the handler in progress is about to save; each restart and each
\* failed write orphans one row at most (Pipeline._stage_tool_exec commits the
\* row before submit_query saves the context; evict_old spares what waits).
Unbacked == {t \in Traces :
    queue[t] = "pending" /\ ~Present(db[t]) /\ ~(pc # "idle" /\ t = cur)}
PendingIsBacked == Cardinality(Unbacked) <= restarts + faults

\* Between requests, every context that waits for approval has a pending row,
\* so list_pending shows it to the approvers; it has a decided one only where a
\* stop or a failed write came between the decision and the save.
AwaitingIsListed ==
    pc = "idle" => \A t \in Traces : Lookup(t).state = "awaiting_approval" =>
        queue[t] = "pending" \/ (queue[t] # "none" /\ restarts + faults > 0)

\* Between requests, the cached context of a trace is the stored one, so an
\* eviction or a restart loses nothing; each failed write sets one context
\* apart at most (PipelineContextStore.save and get).
CacheMatchesStore ==
    pc = "idle" => Cardinality({t \in cached : mem[t] # db[t]}) <= faults

\* A request that was decided ends with its context in a terminal state, unless
\* the process dies or a write fails on the way (the approve and reject handlers
\* run to their save).
DecidedIsSettled ==
    \A t \in Traces :
        queue[t] \in {"approved", "rejected"} ~>
            db[t].state \in Terminal \/ restarts + faults > 0

\* Seen through the queue, the tool handler and the stored results, the flow is
\* the abstract gate.
Gate == INSTANCE HumanGate
            WITH gate <- queue, runs <- invoked,
                 told <- [t \in Traces |-> db[t].result]
ImplementsHumanGate == Gate!Spec

(***************************************************************************)
(* The inductive invariant behind GatedExecution, AtMostOnce and the       *)
(* refinement: when requests are approved by id, and on every route as     *)
(* long as nothing is disturbed and what waits is listed.                  *)
(***************************************************************************)
\* A trace whose run has not ended has left nothing behind.
FreshInv ==
    \A t \in Traces \ started :
        queue[t] = "none" /\ invoked[t] = 0 /\ db[t] = NoCtx

\* A context, cached or stored, agrees with the queue and the calls made.
Agrees(t, ctx) ==
    /\ ctx.result # "none" => Gate!Truthful(t, ctx.result)
    /\ queue[t] = "pending" => ctx.state \in {"absent", "awaiting_approval"}
ContextInv == \A t \in Traces : Agrees(t, mem[t]) /\ Agrees(t, db[t])

\* What the handler in progress knows before its next commit: in particular,
\* one that is about to execute the tool is the first that ever got there.
HandlerInv ==
    /\ pc = "enqueue" =>
          /\ cur \in started /\ queue[cur] = "none" /\ db[cur] = NoCtx
          /\ mem[cur] = Ctx("awaiting_approval", "none")
    /\ pc = "resume" =>
          \/ /\ \/ op = "reject" /\ queue[cur] = "rejected"
                \/ op \in IdRoutes /\ queue[cur] = "approved" /\ invoked[cur] = 0
             /\ mem[cur].result = "none" /\ db[cur].result = "none"
          \/ /\ op = "trace"
             /\ Lookup(cur).state = "awaiting_approval" =>
                   queue[cur] = "approved" /\ invoked[cur] = 0 /\ db[cur].result = "none"
    /\ pc = "log_result" => queue[cur] = "approved"
    /\ pc \in {"log_result", "save"} => cur \in started /\ db[cur].result = "none"

GateInv == GatedExecution /\ AtMostOnce

IInv == FreshInv /\ ContextInv /\ HandlerInv /\ GateInv

(***************************************************************************)
(* The inductive invariants on every route, the trace endpoint included.   *)
(***************************************************************************)
Open(ctx) == ctx.state \in {"absent", "awaiting_approval"}

\* A handler that decides or executes has left the row no longer pending.
OpenInv ==
    /\ \A t \in Traces \ started : queue[t] = "none" /\ db[t] = NoCtx /\ mem[t] = NoCtx
    /\ PendingStaysOpen
    /\ pc = "enqueue" =>
          /\ cur \in started /\ queue[cur] = "none" /\ db[cur] = NoCtx
          /\ mem[cur].state = "awaiting_approval"
    /\ pc = "resume" =>
          /\ queue[cur] # "pending"
          /\ op = "reject" => Open(mem[cur]) /\ Open(db[cur])
    /\ pc = "log_result" => queue[cur] # "pending"
    /\ pc \in {"log_result", "save"} => cur \in started

\* Until a write fails only the handler in progress is ahead of the store ...
MatchInv ==
    \A t \in cached : mem[t] = db[t] \/ (pc \notin {"idle", "resume"} /\ t = cur)

\* ... and a stored context that waits is listed, or is the one whose decision
\* is being carried out.
ListInv ==
    /\ \A t \in Traces : db[t].state = "awaiting_approval" =>
          queue[t] = "pending" \/ (pc \in {"resume", "log_result", "save"} /\ t = cur)
    /\ pc = "save" /\ mem[cur].state = "awaiting_approval" => queue[cur] = "pending"

\* Requests of the pipeline: what waits has a row, and until the first stop or
\* failed write a pending one.
Quiet == restarts = 0 /\ faults = 0
WaitInv ==
    /\ \A t \in Traces : \A ctx \in {db[t], mem[t]} :
          ctx.state = "awaiting_approval" =>
             queue[t] # "none" \/ (pc = "enqueue" /\ t = cur)
    /\ Quiet => MatchInv /\ ListInv

\* The traces whose cached context is not the stored one, but for the handler
\* that is about to save.
Apart == {t \in cached : mem[t] # db[t] /\ ~(pc \notin {"idle", "resume"} /\ t = cur)}
ApartInv == Cardinality(Apart) <= faults

\* Who is about to save has something to save.
BackedInv ==
    /\ PendingIsBacked
    /\ pc = "save" => Present(mem[cur])

\* A handler that is about to call a tool was told to, or finds a context that
\* a rejection did not reach.
Follows(t) == queue[t] = "approved" \/ (queue[t] = "rejected" /\ restarts + faults > 0)
FollowInv ==
    /\ CallsFollowDecisions
    /\ pc = "resume" /\ op \in ApproveRoutes /\ Lookup(cur).state = "awaiting_approval" =>
          Follows(cur)

\* A context that waits, and may therefore be executed, has not used up what
\* restarts and failed writes allow; but for the one being executed, whose
\* stored row still waits.
Excused(t) == invoked[t] <= restarts + faults
ExcuseInv ==
    /\ RepeatsAreExcused
    /\ \A t \in Traces \ started : invoked[t] = 0
    /\ \A t \in Traces : mem[t].state = "awaiting_approval" => Excused(t)
    /\ \A t \in Traces : db[t].state = "awaiting_approval" =>
          Excused(t) \/ (pc \in {"log_result", "save"} /\ t = cur)
=============================================================================
