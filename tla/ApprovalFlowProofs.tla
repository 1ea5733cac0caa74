------------------------- MODULE ApprovalFlowProofs -------------------------
(***************************************************************************)
(* Proofs about ApprovalFlow for any set of traces, tools, queries and     *)
(* bounds, with every restart and failed write.  On every route: the type  *)
(* invariant, that duplicates were executed, that a pending request stays  *)
(* open and keeps its context, how far the cache may differ from the       *)
(* store, how often a tool is called and what a limit allows.  For         *)
(* requests of the pipeline, on every route: that what waits is listed,    *)
(* and that calls follow the decisions.  When requests are approved by id  *)
(* (the trace endpoint is not in use), or if nothing disturbs the process: *)
(* that a tool runs at most once and only after an approval, and that the  *)
(* flow implements HumanGate.                                              *)
(***************************************************************************)
EXTENDS ApprovalFlow, FiniteSetTheorems, TLAPS

LEMMA ContextFacts ==
    /\ NoCtx \in Context
    /\ NoCtx.result = "none" /\ NoCtx.state = "absent"
    /\ \A s \in States, r \in Results :
          Ctx(s, r) \in Context /\ Ctx(s, r).state = s /\ Ctx(s, r).result = r
BY DEF NoCtx, Ctx, Context, States, Results

\* What the cache does to the contexts: the saved one is there, every other is
\* unchanged or forgotten.
LEMMA PutFacts ==
    ASSUME TypeOK, NEW t \in Traces, NEW ctx \in Context, Put(t, ctx)
    PROVE  /\ mem' \in [Traces -> Context] /\ cached' \subseteq Traces
           /\ mem'[t] = ctx
           /\ \A u \in Traces \ {t} : mem'[u] = mem[u] \/ mem'[u] = NoCtx
BY ContextFacts DEF Put, TypeOK

LEMMA LookupFacts ==
    ASSUME TypeOK, NEW t \in Traces
    PROVE  Lookup(t) \in Context /\ (Lookup(t) = mem[t] \/ Lookup(t) = db[t])
BY DEF Lookup, TypeOK

-----------------------------------------------------------------------------
LEMMA ExecuteTypes ==
    ASSUME TypeOK, NEW t \in Traces, NEW r \in Results, Execute(t, r)
    PROVE  /\ invoked' \in [Traces -> Nat] /\ done' \subseteq Traces
           /\ seen' \subseteq Call /\ remaining' \in [Allowed -> 0..RateLimit]
<1>. USE CallsAssumption, BoundsAssumption DEF TypeOK
<1>1. CASE UNCHANGED <<invoked, done, agent>>
  BY <1>1 DEF agent
<1>2. CASE ~Denied(t) /\ CallHandler(t, r)
  <2>1. CallOf[t].tool \in Allowed /\ remaining[CallOf[t].tool] # 0
    BY <1>2 DEF Denied, Left
  <2>2. remaining' \in [Allowed -> 0..RateLimit]
    BY <1>2, <2>1 DEF CallHandler
  <2>3. CallOf[t] \in Call
    OBVIOUS
  <2>4. seen' \subseteq Call
    BY <1>2, <2>3 DEF CallHandler, KeyRecorded
  <2>5. invoked' \in [Traces -> Nat] /\ done' \subseteq Traces
    BY <1>2 DEF CallHandler
  <2>. QED BY <2>2, <2>4, <2>5
<1>. QED BY <1>1, <1>2 DEF Execute

LEMMA TypeInit == Init => TypeOK
BY ContextFacts, BoundsAssumption
   DEF Init, TypeOK, Statuses, Steps, Ops, Replies

LEMMA TypeRequest ==
    ASSUME TypeOK, NEW t \in Traces, Request(t)
    PROVE  TypeOK'
<1>. USE ContextFacts, RoutesAssumption, BoundsAssumption
     DEF TypeOK, Statuses, Steps, Ops, Replies, bounds, handler, durable, agent, Begin
<1>1. ASSUME NEW end \in Terminal, RunEnds(t, end) PROVE TypeOK'
  <2>1. Ctx(end, "none") \in Context
    BY <1>1 DEF Terminal, States, Results
  <2>. QED BY <1>1, <2>1 DEF RunEnds
<1>2. ASSUME NEW path \in Paths, RunAsksForTool(t, path) PROVE TypeOK'
  <2>1. Ctx("awaiting_approval", "none") \in Context
    BY DEF States, Results
  <2>2. faults' \in 0..MaxFaults
    BY <1>2 DEF RunAsksForTool, Fault, NoFault
  <2>. QED BY <1>2, <2>1, <2>2 DEF RunAsksForTool, AfterRequest
<1>3. ASSUME NEW r \in IdRoutes, ApproveById(r, t) PROVE TypeOK'
  BY <1>3 DEF ApproveById, Decide, IdRoutes
<1>4. CASE Reject(t)
  BY <1>4 DEF Reject, Decide
<1>5. CASE Refuse(t)
  BY <1>5 DEF Refuse
<1>6. CASE ApproveByTrace(t)
  BY <1>6 DEF ApproveByTrace
<1>. QED BY <1>1, <1>2, <1>3, <1>4, <1>5, <1>6 DEF Request

LEMMA TypeContinue ==
    ASSUME TypeOK, Continue
    PROVE  TypeOK'
<1>. USE BoundsAssumption
     DEF TypeOK, Statuses, Steps, Ops, Replies, bounds, handler, durable, agent, Goto, Finish
<1>1. cur \in Traces
  BY DEF Continue, Enqueue, Save, ResumeMissing, ResumeRaises, ResumeTool,
         LogResult, ResumeReject
<1>2. CASE Enqueue
  <2>1. mem' \in [Traces -> Context]
    BY <1>1, <1>2 DEF Enqueue, Context, States
  <2>. QED BY <1>1, <1>2, <2>1 DEF Enqueue, Fault, NoFault
<1>3. CASE Save
  <2>1. mem' \in [Traces -> Context] /\ cached' \subseteq Traces
    BY <1>1, <1>3, PutFacts DEF Save
  <2>. QED BY <1>1, <1>3, <2>1 DEF Save, Fault, NoFault, Upsert
<1>4. CASE ResumeMissing
  BY <1>4 DEF ResumeMissing
<1>5. CASE ResumeRaises
  <2>1. mem' \in [Traces -> Context] /\ cached' \subseteq Traces
    BY <1>1, <1>5, PutFacts, LookupFacts DEF ResumeRaises
  <2>. QED BY <1>5, <2>1 DEF ResumeRaises
<1>6. CASE ResumeTool
  <2>1. PICK r \in Results : Execute(cur, r) /\ Put(cur, Ctx("executing_tool", r))
    BY <1>6 DEF ResumeTool
  <2>2. Ctx("executing_tool", r) \in Context
    BY ContextFacts DEF States
  <2>3. mem' \in [Traces -> Context] /\ cached' \subseteq Traces
    BY <1>1, <2>1, <2>2, PutFacts
  <2>4. /\ invoked' \in [Traces -> Nat] /\ done' \subseteq Traces
        /\ seen' \subseteq Call /\ remaining' \in [Allowed -> 0..RateLimit]
    BY <1>1, <2>1, ExecuteTypes
  <2>. QED BY <1>1, <1>6, <2>3, <2>4 DEF ResumeTool
<1>7. CASE LogResult
  <2>1. mem' \in [Traces -> Context]
    BY <1>1, <1>7 DEF LogResult, Context, States
  <2>. QED BY <1>1, <1>7, <2>1 DEF LogResult, Fault, NoFault
<1>8. CASE ResumeReject
  <2>1. /\ Ctx(Lookup(cur).state, "rejected_by_human") \in Context
        /\ Rejected(Lookup(cur)) \in Context
    BY <1>1, LookupFacts DEF Context, Ctx, Rejected, States, Results
  <2>2. mem' \in [Traces -> Context] /\ cached' \subseteq Traces
    BY <1>1, <1>8, <2>1, PutFacts DEF ResumeReject
  <2>. QED BY <1>1, <1>8, <2>2 DEF ResumeReject
<1>. QED BY <1>2, <1>3, <1>4, <1>5, <1>6, <1>7, <1>8 DEF Continue

LEMMA TypeRestart ==
    ASSUME TypeOK, Restart
    PROVE  TypeOK'
BY ContextFacts, BoundsAssumption
   DEF TypeOK, Restart, Finish, Statuses, Steps, Ops, Replies

LEMMA TypeStep == TypeOK /\ [Next]_vars => TypeOK'
<1>1. TypeOK /\ UNCHANGED vars => TypeOK'
  BY DEF TypeOK, vars, durable, agent, handler, bounds
<1>. QED BY <1>1, TypeRequest, TypeContinue, TypeRestart DEF Next

\* In every state the variables have their types: the rate limits never go
\* below zero, and a handler in progress has a trace.
THEOREM TypeCorrect == Spec => []TypeOK
BY TypeInit, TypeStep, PTL DEF Spec

-----------------------------------------------------------------------------
(***************************************************************************)
(* Duplicates.  A key is recorded only once its call returned normally, so *)
(* what the agent has seen, and every context that says "duplicate", has   *)
(* such a call behind it.  This holds on every route.                      *)
(***************************************************************************)
Backed(call) == \E u \in done : CallOf[u] = call

DupInv == DuplicateWasExecuted /\ \A call \in seen : Backed(call)

LEMMA DupInit == Init => DupInv
BY ContextFacts DEF Init, DupInv, DuplicateWasExecuted

\* Contexts that are not duplicates, or were there before, keep the invariant.
LEMMA DupKept ==
    ASSUME TypeOK, DupInv, done \subseteq done', \A call \in seen' : Backed(call)',
           \A t \in Traces :
              \/ mem'[t].result # "duplicate" \/ Backed(CallOf[t])'
              \/ mem'[t].result \in {mem[t].result, db[t].result},
           \A t \in Traces : db'[t].result \in {"none", db[t].result, mem[t].result}
    PROVE  DupInv'
<1>1. \A t \in Traces : mem'[t].result = "duplicate" => Backed(CallOf[t])'
  BY DEF DupInv, DuplicateWasExecuted, Backed
<1>2. \A t \in Traces : db'[t].result = "duplicate" => Backed(CallOf[t])'
  BY DEF DupInv, DuplicateWasExecuted, Backed
<1>. QED BY <1>1, <1>2 DEF DupInv, DuplicateWasExecuted, Backed

LEMMA DupStep == TypeOK /\ DupInv /\ [Next]_vars => DupInv'
<1>. SUFFICES ASSUME TypeOK, DupInv, [Next]_vars PROVE DupInv'
  OBVIOUS
<1>. USE ContextFacts
<1>a. (\A call \in seen : Backed(call)) /\ db \in [Traces -> Context] /\ mem \in [Traces -> Context]
  BY DEF DupInv, TypeOK
<1>b. ASSUME UNCHANGED <<done, seen>> PROVE \A call \in seen' : Backed(call)'
  BY <1>a, <1>b DEF Backed
<1>1. ASSUME NEW t \in Traces, Request(t) PROVE DupInv'
  <2>1. UNCHANGED <<done, seen, db>>
    BY <1>1 DEF Request, RunEnds, RunAsksForTool, ApproveById, Reject, Decide, Refuse,
                ApproveByTrace, agent, durable
  <2>2. \A u \in Traces : mem'[u].result \in {"none", mem[u].result}
    BY <1>1, <1>a DEF Request, RunEnds, RunAsksForTool, ApproveById, Reject, Decide, Refuse,
                ApproveByTrace, Terminal, States, Results
  <2>. QED BY <1>b, <2>1, <2>2, DupKept
<1>2. ASSUME Enqueue PROVE DupInv'
  <2>1. \A u \in Traces : mem'[u].result = mem[u].result
    BY <1>2, <1>a DEF Enqueue, Context
  <2>. QED BY <1>2, <1>b, <2>1, DupKept DEF Enqueue, agent
<1>c. cur \in Traces \/ pc = "idle"
  BY DEF TypeOK
<1>3. ASSUME Save PROVE DupInv'
  <2>1. cur \in Traces /\ Put(cur, mem[cur]) /\ mem[cur] \in Context
    BY <1>3, <1>a, <1>c DEF Save
  <2>2. \A u \in Traces : mem'[u].result \in {"none", mem[u].result}
    BY <2>1, PutFacts
  <2>3. \A u \in Traces : db'[u].result \in {db[u].result, mem[u].result}
    BY <1>3, <1>a DEF Save, Upsert
  <2>. QED BY <1>3, <1>b, <2>2, <2>3, DupKept DEF Save, agent
<1>4. ASSUME ResumeMissing PROVE DupInv'
  BY <1>4, <1>b, DupKept DEF ResumeMissing, durable, agent
<1>5. ASSUME ResumeRaises PROVE DupInv'
  <2>1. cur \in Traces /\ Put(cur, Lookup(cur))
    BY <1>5, <1>c DEF ResumeRaises
  <2>2. \A u \in Traces : mem'[u].result \in {"none", mem[u].result, db[u].result}
    BY <2>1, LookupFacts, PutFacts
  <2>. QED BY <1>5, <1>b, <2>2, DupKept DEF ResumeRaises, durable, agent
<1>6. ASSUME ResumeTool PROVE DupInv'
  <2>1. PICK r \in Results : Execute(cur, r) /\ Put(cur, Ctx("executing_tool", r))
    BY <1>6 DEF ResumeTool
  <2>2. cur \in Traces /\ Ctx("executing_tool", r) \in Context
        /\ Ctx("executing_tool", r).result = r
    BY <1>6, <1>c DEF ResumeTool, States
  <2>3. /\ done \subseteq done' /\ \A call \in seen' : Backed(call)'
        /\ r = "duplicate" => \E u \in done' : CallOf[u] = CallOf[cur]
    <3>1. CASE UNCHANGED <<invoked, done, agent>> /\ (r = "duplicate" => CallOf[cur] \in seen)
      BY <3>1, <1>a, <1>b DEF agent, Backed
    <3>2. CASE r # "duplicate" /\ CallHandler(cur, r)
      <4>1. done \subseteq done' /\ seen' = seen \cup KeyRecorded(cur, r)
            /\ (r = "executed" => cur \in done')
        BY <3>2 DEF CallHandler
      <4>. QED BY <2>2, <3>2, <4>1, <1>a DEF KeyRecorded, Backed
    <3>. QED BY <2>1, <3>1, <3>2 DEF Execute, Duplicate
  <2>4. \A u \in Traces : u = cur \/ mem'[u].result \in {"none", mem[u].result}
    BY <2>1, <2>2, PutFacts
  <2>5. mem'[cur].result = r
    BY <2>1, <2>2, PutFacts
  <2>6. \A u \in Traces : \/ mem'[u].result # "duplicate" \/ Backed(CallOf[u])'
                           \/ mem'[u].result \in {mem[u].result, db[u].result}
    BY <2>3, <2>4, <2>5 DEF Backed
  <2>. QED BY <1>6, <2>3, <2>6, DupKept DEF ResumeTool
<1>7. ASSUME LogResult PROVE DupInv'
  <2>1. \A u \in Traces : mem'[u].result = mem[u].result
    BY <1>7, <1>a DEF LogResult, Context
  <2>. QED BY <1>7, <1>b, <2>1, DupKept DEF LogResult, agent
<1>8. ASSUME ResumeReject PROVE DupInv'
  <2>1. cur \in Traces /\ Lookup(cur) \in Context
    BY <1>8, <1>c, LookupFacts DEF ResumeReject
  <2>2. PICK s \in States : Put(cur, Ctx(s, "rejected_by_human"))
    <3>1. Lookup(cur).state \in States
      BY <2>1 DEF Context
    <3>. QED BY <1>8, <3>1 DEF ResumeReject, Rejected, States
  <2>3. \A u \in Traces : mem'[u].result \in {"none", "rejected_by_human", mem[u].result}
    BY <2>1, <2>2, PutFacts DEF Results
  <2>. QED BY <1>8, <1>b, <2>3, DupKept DEF ResumeReject, durable, agent
<1>9. ASSUME Restart PROVE DupInv'
  <2>1. \A u \in Traces : db'[u].result \in {"none", db[u].result} /\ mem'[u].result = "none"
    BY <1>9 DEF Restart
  <2>. QED BY <1>9, <2>1, DupKept DEF Restart
<1>10. ASSUME UNCHANGED vars PROVE DupInv'
  BY <1>10, <1>b, DupKept DEF vars, durable, agent
<1>. QED BY <1>1, <1>2, <1>3, <1>4, <1>5, <1>6, <1>7, <1>8, <1>9, <1>10 DEF Next, Continue

\* On every route, also on the trace endpoint, and through restarts, a call is
\* reported as a duplicate only if it was carried out before.
THEOREM DuplicatesAreTrue == Spec => []DuplicateWasExecuted
<1>1. DupInv => DuplicateWasExecuted
  BY DEF DupInv
<1>. QED BY <1>1, DupInit, DupStep, TypeCorrect, PTL DEF Spec

-----------------------------------------------------------------------------
(***************************************************************************)
(* Pending rows and the context store, on every route: a pending row has   *)
(* an open context (OpenInv); without write errors the cache agrees with   *)
(* the store (MatchInv); and in an undisturbed process whose requests come *)
(* from the pipeline, what waits is listed (ListInv).                      *)
(***************************************************************************)
LEMMA OpenInit == Init => OpenInv /\ MatchInv /\ ListInv
BY ContextFacts DEF Init, OpenInv, MatchInv, ListInv, PendingStaysOpen

LEMMA OpenRequest ==
    ASSUME TypeOK, OpenInv, NEW t \in Traces, Request(t)
    PROVE  OpenInv'
<1>. USE DEF TypeOK, OpenInv, PendingStaysOpen, Open, Begin
<1>1. ASSUME NEW end \in Terminal, RunEnds(t, end) PROVE OpenInv'
  BY <1>1 DEF RunEnds
<1>2. ASSUME NEW path \in Paths, RunAsksForTool(t, path) PROVE OpenInv'
  <2>1. Ctx("awaiting_approval", "none").state = "awaiting_approval"
    BY DEF Ctx
  <2>. QED BY <1>2, <2>1 DEF RunAsksForTool, AfterRequest
<1>3. ASSUME NEW o, NEW d \in {"approved", "rejected"}, Decide(o, t, d) PROVE OpenInv'
  BY <1>3 DEF Decide, Updatable
<1>4. CASE Refuse(t)
  BY <1>4 DEF Refuse, durable, handler
<1>5. CASE ApproveByTrace(t)
  <2>1. /\ queue' = [queue EXCEPT ![t] = IF queue[t] = "pending" THEN "approved" ELSE queue[t]]
        /\ UNCHANGED <<db, mem, started>> /\ pc' = "resume" /\ op' = "trace" /\ cur' = t
    BY <1>5 DEF ApproveByTrace, Updatable
  <2>2. queue'[t] # "pending" /\ \A u \in Traces : queue'[u] = "pending" => queue[u] = "pending"
    BY <2>1
  <2>3. \A u \in Traces \ started : queue'[u] = "none"
    BY <2>1
  <2>. QED BY <2>1, <2>2, <2>3
<1>. QED BY <1>1, <1>2, <1>3, <1>4, <1>5 DEF Request, ApproveById, Reject

\* A handler step that leaves the queue alone: contexts of other traces are
\* kept or forgotten, those of the current one may close once it is decided.
LEMMA OpenKept ==
    ASSUME TypeOK, OpenInv, UNCHANGED <<queue, started>>, cur \in Traces,
           \A t \in Traces \ {cur} :
              mem'[t] \in {mem[t], NoCtx} /\ db'[t] \in {db[t], NoCtx},
           \/ cur \in started
           \/ mem'[cur] = NoCtx /\ db'[cur] = NoCtx,
           queue[cur] = "pending" =>
              mem'[cur] \in {mem[cur], NoCtx} /\ db'[cur] \in {mem[cur], db[cur], NoCtx}
    PROVE  /\ PendingStaysOpen'
           /\ \A t \in Traces \ started' : queue'[t] = "none" /\ db'[t] = NoCtx /\ mem'[t] = NoCtx
BY ContextFacts DEF OpenInv, PendingStaysOpen

LEMMA OpenContinue ==
    ASSUME TypeOK, OpenInv, Continue
    PROVE  OpenInv'
<1>. USE DEF Goto, Finish
<1>1. /\ cur \in Traces /\ mem \in [Traces -> Context] /\ db \in [Traces -> Context]
      /\ mem[cur] \in Context
  BY DEF TypeOK, Continue, Enqueue, Save, ResumeMissing, ResumeRaises, ResumeTool,
         LogResult, ResumeReject
<1>2. CASE Enqueue
  <2>1. /\ cur \in started /\ queue[cur] = "none" /\ db[cur] = NoCtx
        /\ mem[cur].state = "awaiting_approval"
        /\ UNCHANGED <<db, started, cur>> /\ pc' = "save"
    BY <1>2 DEF Enqueue, OpenInv
  <2>2. CASE queue' = [queue EXCEPT ![cur] = "pending"] /\ UNCHANGED mem
    BY <1>1, <2>1, <2>2, ContextFacts DEF TypeOK, OpenInv, PendingStaysOpen
  <2>3. CASE mem' = [mem EXCEPT ![cur].state = "failed"] /\ UNCHANGED queue
    BY <1>1, <2>1, <2>3, OpenKept DEF OpenInv
  <2>. QED BY <1>2, <2>2, <2>3 DEF Enqueue
<1>3. CASE Save
  <2>1. /\ mem'[cur] = mem[cur]
        /\ \A u \in Traces \ {cur} : mem'[u] = mem[u] \/ mem'[u] = NoCtx
    BY <1>1, <1>3, PutFacts DEF Save
  <2>2. db' = [db EXCEPT ![cur] = mem[cur]] \/ UNCHANGED db
    BY <1>3 DEF Save, Upsert
  <2>3. UNCHANGED <<queue, started>> /\ pc' = "idle" /\ cur \in started
    BY <1>3 DEF Save, OpenInv
  <2>4. /\ \A u \in Traces \ {cur} : db'[u] = db[u]
        /\ db'[cur] \in {mem[cur], db[cur]}
    BY <1>1, <2>2
  <2>. QED BY <1>1, <2>1, <2>3, <2>4, OpenKept DEF OpenInv
<1>4. CASE ResumeMissing
  BY <1>1, <1>4 DEF ResumeMissing, durable, OpenInv, PendingStaysOpen
<1>5. CASE ResumeRaises
  <2>1. UNCHANGED <<queue, started, db>> /\ pc' = "idle" /\ queue[cur] # "pending"
    BY <1>5 DEF ResumeRaises, durable, OpenInv
  <2>2. /\ mem'[cur] = Lookup(cur)
        /\ \A u \in Traces \ {cur} : mem'[u] = mem[u] \/ mem'[u] = NoCtx
    BY <1>1, <1>5, PutFacts, LookupFacts DEF ResumeRaises
  <2>3. cur \in started
    BY <1>1, <1>5, ContextFacts DEF ResumeRaises, Lookup, Present, OpenInv
  <2>. QED BY <1>1, <2>1, <2>2, <2>3, OpenKept DEF OpenInv
<1>6. CASE ResumeTool
  <2>1. /\ UNCHANGED <<queue, started, db, cur>> /\ pc' = "log_result"
        /\ queue[cur] # "pending"
    BY <1>6 DEF ResumeTool, OpenInv
  <2>2. cur \in started
    BY <1>1, <1>6, ContextFacts DEF ResumeTool, Lookup, OpenInv
  <2>3. PICK r \in Results : Put(cur, Ctx("executing_tool", r))
    BY <1>6 DEF ResumeTool
  <2>4. \A u \in Traces \ {cur} : mem'[u] = mem[u] \/ mem'[u] = NoCtx
    BY <1>1, <2>3, PutFacts, ContextFacts DEF States
  <2>. QED BY <1>1, <2>1, <2>2, <2>4, OpenKept DEF OpenInv
<1>7. CASE LogResult
  <2>1. /\ UNCHANGED <<queue, started, db, cur>> /\ pc' = "save"
        /\ queue[cur] # "pending" /\ cur \in started
        /\ mem' = [mem EXCEPT ![cur].state = "complete"]
    BY <1>7 DEF LogResult, OpenInv
  <2>2. \A u \in Traces \ {cur} : mem'[u] = mem[u]
    BY <1>1, <2>1
  <2>. QED BY <1>1, <2>1, <2>2, OpenKept DEF OpenInv
<1>8. CASE ResumeReject
  <2>1. UNCHANGED <<queue, started, db>> /\ queue[cur] # "pending"
    BY <1>8 DEF ResumeReject, durable, OpenInv
  <2>2. cur \in started
    BY <1>1, <1>8, ContextFacts DEF ResumeReject, Lookup, Present, OpenInv
  <2>3. PICK s \in States : Put(cur, Ctx(s, "rejected_by_human"))
    BY <1>1, <1>8, LookupFacts DEF ResumeReject, Rejected, Context, States
  <2>4. \A u \in Traces \ {cur} : mem'[u] = mem[u] \/ mem'[u] = NoCtx
    BY <1>1, <2>3, PutFacts, ContextFacts DEF Results
  <2>5. pc' = "idle" \/ (pc' = "save" /\ cur' = cur)
    BY <1>8 DEF ResumeReject
  <2>. QED BY <1>1, <2>1, <2>2, <2>4, <2>5, OpenKept DEF OpenInv
<1>. QED BY <1>2, <1>3, <1>4, <1>5, <1>6, <1>7, <1>8 DEF Continue

LEMMA OpenStep == TypeOK /\ OpenInv /\ [Next]_vars => OpenInv'
<1>1. ASSUME OpenInv, Restart PROVE OpenInv'
  <2>1. /\ UNCHANGED <<queue, started>> /\ pc' = "idle"
        /\ \A t \in Traces : mem'[t] = NoCtx /\ (db'[t] = db[t] \/ db'[t] = NoCtx)
    BY <1>1 DEF Restart, Finish
  <2>. QED BY <1>1, <2>1, ContextFacts DEF OpenInv, PendingStaysOpen
<1>2. ASSUME OpenInv, UNCHANGED vars PROVE OpenInv'
  BY <1>2 DEF vars, durable, handler, OpenInv, PendingStaysOpen, Open
<1>. QED BY <1>1, <1>2, OpenRequest, OpenContinue DEF Next

LEMMA OpenCorrect == Spec => []OpenInv
BY OpenInit, OpenStep, TypeCorrect, PTL DEF Spec

\* On every route and through restarts and write errors, a row that is still
\* pending never belongs to a context that was executed, completed or failed.
THEOREM PendingIsOpen == Spec => []PendingStaysOpen
<1>1. OpenInv => PendingStaysOpen
  BY DEF OpenInv
<1>. QED BY <1>1, OpenCorrect, PTL

\* What the cache does to its entries: the saved one enters it, the others are
\* unchanged or leave it.
LEMMA PutCache ==
    ASSUME TypeOK, NEW t \in Traces, NEW ctx \in Context, Put(t, ctx)
    PROVE  /\ cached' \subseteq cached \cup {t} /\ t \in cached' /\ mem'[t] = ctx
           /\ \A u \in cached' \ {t} : u \in cached /\ mem'[u] = mem[u]
BY DEF Put, TypeOK

LEMMA MatchStep ==
    ASSUME TypeOK, OpenInv, MatchInv, [Next]_vars, faults' = 0
    PROVE  MatchInv'
<1>a. /\ mem \in [Traces -> Context] /\ db \in [Traces -> Context] /\ cached \subseteq Traces
      /\ ~Fault
  BY BoundsAssumption DEF TypeOK, Fault
<1>b. pc # "idle" => cur \in Traces
  BY DEF TypeOK
<1>. USE DEF MatchInv, Goto, Finish, Begin
<1>1. ASSUME NEW t \in Traces, Request(t) PROVE MatchInv'
  <2>1. CASE UNCHANGED <<mem, db, cached>> /\ pc = "idle"
    BY <2>1
  <2>2. ASSUME NEW s \in {"save", "enqueue"}, NEW ctx, mem' = [mem EXCEPT ![t] = ctx],
               Begin("submit", t, s), UNCHANGED <<db, cached>>
        PROVE  MatchInv'
    BY <1>a, <2>2
  <2>. QED BY <1>1, <2>1, <2>2
           DEF Request, RunEnds, RunAsksForTool, AfterRequest, ApproveById, Reject,
               Decide, Refuse, ApproveByTrace, durable
<1>2. CASE Enqueue
  BY <1>a, <1>2 DEF Enqueue
<1>3. CASE Save
  <2>1. cur \in Traces /\ Put(cur, mem[cur]) /\ mem[cur] \in Context
    BY <1>3, <1>a, <1>b DEF Save
  <2>2. db' = [db EXCEPT ![cur] = mem[cur]]
    BY <1>3, <1>a DEF Save, Upsert
  <2>3. \A u \in cached' \ {cur} : u \in cached /\ mem'[u] = mem[u] /\ mem'[cur] = mem[cur]
    BY <2>1, PutCache
  <2>4. \A u \in cached' \ {cur} : mem'[u] = db'[u]
    BY <1>a, <1>3, <2>2, <2>3 DEF Save
  <2>5. mem'[cur] = db'[cur]
    BY <1>a, <2>1, <2>2, PutCache
  <2>. QED BY <2>4, <2>5
<1>4. CASE ResumeMissing
  BY <1>4 DEF ResumeMissing, durable
<1>5. CASE ResumeRaises
  <2>1. /\ cur \in Traces /\ Put(cur, Lookup(cur)) /\ Lookup(cur) \in Context
        /\ db' = db /\ pc = "resume"
    BY <1>5, <1>b, LookupFacts DEF ResumeRaises, durable
  <2>2. Lookup(cur) = db[cur]
    BY <2>1 DEF Lookup
  <2>. QED BY <2>1, <2>2, PutCache
<1>6. CASE ResumeTool
  <2>1. PICK r \in Results : Put(cur, Ctx("executing_tool", r))
    BY <1>6 DEF ResumeTool
  <2>2. cur \in Traces /\ Ctx("executing_tool", r) \in Context
        /\ db' = db /\ pc = "resume" /\ pc' = "log_result" /\ cur' = cur
    BY <1>6, <1>b, ContextFacts DEF ResumeTool, States
  <2>. QED BY <2>1, <2>2, PutCache
<1>7. CASE LogResult
  BY <1>7, <1>a DEF LogResult
<1>8. CASE ResumeReject
  <2>1. /\ cur \in Traces /\ Lookup(cur) \in Context /\ Open(Lookup(cur))
        /\ db' = db /\ pc = "resume"
    BY <1>8, <1>b, LookupFacts DEF ResumeReject, durable, OpenInv
  <2>2. Rejected(Lookup(cur)) \in Context
    BY ContextFacts DEF Rejected, States, Results
  <2>3. Put(cur, Rejected(Lookup(cur))) /\ pc' = "save" /\ cur' = cur
    BY <1>8, <2>1 DEF ResumeReject, Open, Terminal
  <2>. QED BY <2>1, <2>2, <2>3, PutCache
<1>9. CASE Restart
  BY <1>9 DEF Restart
<1>10. CASE UNCHANGED vars
  BY <1>10 DEF vars, durable, handler
<1>. QED BY <1>1, <1>2, <1>3, <1>4, <1>5, <1>6, <1>7, <1>8, <1>9, <1>10 DEF Next, Continue

\* Every request comes from the pipeline path.
PipelineOnly == Paths = {"pipeline"}

LEMMA ListStep ==
    ASSUME PipelineOnly, TypeOK, OpenInv, MatchInv, ListInv, [Next]_vars, Quiet'
    PROVE  ListInv'
<1>a. /\ mem \in [Traces -> Context] /\ db \in [Traces -> Context] /\ cached \subseteq Traces
      /\ queue \in [Traces -> Statuses] /\ ~Fault
  BY BoundsAssumption DEF TypeOK, Fault, Quiet
<1>b. pc # "idle" => cur \in Traces
  BY DEF TypeOK
<1>c. pc \in {"idle", "resume"} => \A t \in Traces : Lookup(t) = db[t]
  BY DEF MatchInv, Lookup
<1>. USE DEF ListInv, Goto, Finish, Begin
<1>1. ASSUME NEW t \in Traces, Request(t) PROVE ListInv'
  <2>0. pc = "idle" /\ db' = db
    BY <1>1 DEF Request, RunEnds, RunAsksForTool, ApproveById, Reject, Decide, Refuse,
                ApproveByTrace, durable
  <2>1. ASSUME NEW end \in Terminal, RunEnds(t, end) PROVE ListInv'
    <3>1. mem'[t].state # "awaiting_approval" /\ cur' = t
      BY <1>a, <2>1 DEF RunEnds, Ctx, Terminal
    <3>. QED BY <2>0, <2>1, <3>1 DEF RunEnds
  <2>2. ASSUME NEW path \in Paths, RunAsksForTool(t, path) PROVE ListInv'
    <3>1. pc' = "enqueue"
      BY <2>2 DEF RunAsksForTool, AfterRequest, PipelineOnly
    <3>. QED BY <2>0, <2>2, <3>1 DEF RunAsksForTool
  <2>3. ASSUME pc' = "resume", cur' = t, \A u \in Traces \ {t} : queue'[u] = queue[u]
        PROVE  ListInv'
    BY <2>0, <2>3
  <2>4. CASE Refuse(t)
    BY <2>0, <2>4 DEF Refuse, durable, handler
  <2>. QED BY <1>1, <1>a, <2>1, <2>2, <2>3, <2>4
           DEF Request, ApproveById, Reject, Decide, ApproveByTrace
<1>2. CASE Enqueue
  <2>1. queue' = [queue EXCEPT ![cur] = "pending"] /\ UNCHANGED <<db, cur>> /\ pc' = "save"
        /\ cur \in Traces
    BY <1>a, <1>b, <1>2 DEF Enqueue
  <2>. QED BY <1>a, <1>2, <2>1 DEF Enqueue
<1>3. CASE Save
  <2>1. db' = [db EXCEPT ![cur] = mem[cur]] /\ queue' = queue /\ pc' = "idle" /\ pc = "save"
    BY <1>3, <1>a DEF Save, Upsert
  <2>. QED BY <1>a, <1>b, <2>1
<1>4. CASE ResumeMissing
  <2>1. db[cur].state = "absent" /\ UNCHANGED <<db, queue>> /\ pc = "resume" /\ pc' = "idle"
    BY <1>4, <1>b, <1>c DEF ResumeMissing, durable, Present
  <2>. QED BY <2>1
<1>5. CASE ResumeRaises
  <2>1. /\ db[cur].state # "awaiting_approval" /\ UNCHANGED <<db, queue>>
        /\ pc = "resume" /\ pc' = "idle"
    BY <1>5, <1>b, <1>c DEF ResumeRaises, durable
  <2>. QED BY <2>1
<1>6. CASE ResumeTool
  BY <1>6 DEF ResumeTool
<1>7. CASE LogResult
  <2>1. mem'[cur].state = "complete" /\ UNCHANGED <<db, queue, cur>> /\ pc' = "save"
    BY <1>a, <1>b, <1>7 DEF LogResult, Context
  <2>. QED BY <1>7, <2>1 DEF LogResult
<1>8. CASE ResumeReject
  <2>1. /\ cur \in Traces /\ Open(Lookup(cur)) /\ UNCHANGED <<db, queue>> /\ pc = "resume"
    BY <1>8, <1>b, LookupFacts DEF ResumeReject, durable, OpenInv
  <2>2. Put(cur, Rejected(Lookup(cur))) /\ pc' = "save" /\ cur' = cur
    BY <1>8, <2>1 DEF ResumeReject, Open, Terminal
  <2>3. Rejected(Lookup(cur)) \in Context /\ Rejected(Lookup(cur)).state = "complete"
    BY ContextFacts DEF Rejected, States, Results
  <2>4. mem'[cur].state = "complete"
    BY <2>1, <2>2, <2>3, PutFacts
  <2>. QED BY <2>1, <2>2, <2>4
<1>9. ~Restart
  BY BoundsAssumption DEF Restart, Quiet, TypeOK
<1>10. CASE UNCHANGED vars
  BY <1>10 DEF vars, durable, handler
<1>. QED BY <1>1, <1>2, <1>3, <1>4, <1>5, <1>6, <1>7, <1>8, <1>9, <1>10 DEF Next, Continue

\* What waits has a row: it got one before it was saved, and keeps it.
LEMMA RowStep ==
    ASSUME PipelineOnly, TypeOK, OpenInv, WaitInv, [Next]_vars
    PROVE  \A t \in Traces : \A ctx \in {db'[t], mem'[t]} :
              ctx.state = "awaiting_approval" =>
                 queue'[t] # "none" \/ (pc' = "enqueue" /\ t = cur')
<1>. DEFINE Waits(t) == db[t].state = "awaiting_approval" \/ mem[t].state = "awaiting_approval"
<1>. DEFINE Listed(t) == queue[t] # "none" \/ (pc = "enqueue" /\ t = cur)
<1>. SUFFICES ASSUME NEW t \in Traces, Waits(t)' PROVE Listed(t)'
  OBVIOUS
<1>1. Waits(t) => Listed(t)
  BY DEF WaitInv
<1>2. /\ mem \in [Traces -> Context] /\ db \in [Traces -> Context]
      /\ queue \in [Traces -> Statuses] /\ (pc # "idle" => cur \in Traces)
  BY DEF TypeOK
<1>3. ASSUME NEW u \in Traces, Request(u) PROVE Listed(t)'
  <2>1. queue'[t] # "none" \/ queue[t] = "none"
    BY <1>2, <1>3 DEF Request, RunEnds, RunAsksForTool, ApproveById, Reject, Decide, Refuse,
                      ApproveByTrace, durable, Updatable
  <2>2. ASSUME NEW end \in Terminal, RunEnds(u, end) PROVE Listed(t)'
    <3>1. Ctx(end, "none").state # "awaiting_approval"
      BY DEF Ctx, Terminal
    <3>. QED BY <1>1, <1>2, <2>2, <3>1 DEF RunEnds, Begin
  <2>3. ASSUME NEW path \in Paths, RunAsksForTool(u, path) PROVE Listed(t)'
    BY <1>1, <1>2, <2>3 DEF RunAsksForTool, Begin, AfterRequest, PipelineOnly
  <2>4. CASE UNCHANGED <<db, mem>> /\ pc = "idle"
    BY <1>1, <2>1, <2>4
  <2>. QED BY <1>3, <2>2, <2>3, <2>4
           DEF Request, ApproveById, Reject, Decide, Refuse, ApproveByTrace, durable, Begin
<1>4. CASE Enqueue
  <2>1. cur \in Traces /\ db' = db
    BY <1>2, <1>4 DEF Enqueue
  <2>2. CASE queue' = [queue EXCEPT ![cur] = "pending"] /\ UNCHANGED mem
    BY <1>1, <1>2, <2>1, <2>2
  <2>3. CASE mem' = [mem EXCEPT ![cur].state = "failed"] /\ UNCHANGED queue
    <3>1. mem'[cur].state # "awaiting_approval" /\ (t # cur => mem'[t] = mem[t])
      BY <1>2, <2>1, <2>3 DEF Context
    <3>2. db[cur] = NoCtx
      BY <1>4 DEF Enqueue, OpenInv
    <3>. QED BY <1>1, <2>1, <2>3, <3>1, <3>2, ContextFacts
  <2>. QED BY <1>4, <2>2, <2>3 DEF Enqueue
\* The other steps of a handler leave the queue alone, and make nothing wait.
<1>5. ASSUME queue' = queue, pc # "enqueue", cur \in Traces,
             mem'[t].state = "awaiting_approval" => Waits(t),
             db'[t].state = "awaiting_approval" => Waits(t)
      PROVE  Listed(t)'
  BY <1>1, <1>5
<1>. HIDE DEF Listed
<1>6. CASE Save
  <2>1. mem'[t] = mem[t] \/ mem'[t] = NoCtx
    BY <1>2, <1>6, PutFacts DEF Save
  <2>2. db'[t] = db[t] \/ db'[t] = mem[t]
    BY <1>2, <1>6 DEF Save, Upsert
  <2>. QED BY <1>2, <1>5, <1>6, <2>1, <2>2, ContextFacts DEF Save
<1>7. CASE ResumeMissing
  BY <1>2, <1>5, <1>7 DEF ResumeMissing, durable
<1>8. CASE ResumeRaises
  <2>1. mem'[t] \in {mem[t], db[t], NoCtx}
    BY <1>2, <1>8, PutFacts, LookupFacts DEF ResumeRaises
  <2>. QED BY <1>2, <1>5, <1>8, <2>1, ContextFacts DEF ResumeRaises, durable
<1>9. CASE ResumeTool
  <2>1. PICK r \in Results : Put(cur, Ctx("executing_tool", r))
    BY <1>9 DEF ResumeTool
  <2>2. mem'[t].state = "executing_tool" \/ mem'[t] \in {mem[t], NoCtx}
    BY <1>2, <1>9, <2>1, PutFacts, ContextFacts DEF States, ResumeTool
  <2>. QED BY <1>2, <1>5, <1>9, <2>2, ContextFacts DEF ResumeTool
<1>10. CASE LogResult
  <2>1. mem'[t].state = "complete" \/ mem'[t] = mem[t]
    BY <1>2, <1>10 DEF LogResult, Context
  <2>. QED BY <1>2, <1>5, <1>10, <2>1 DEF LogResult
<1>11. CASE ResumeReject
  <2>1. PICK s \in States : Put(cur, Ctx(s, "rejected_by_human")) /\ s \in Terminal
    BY <1>2, <1>11, LookupFacts DEF ResumeReject, Rejected, Context, States, Terminal
  <2>2. mem'[t].state \in Terminal \/ mem'[t] \in {mem[t], NoCtx}
    BY <1>2, <1>11, <2>1, PutFacts, ContextFacts DEF Results, ResumeReject
  <2>. QED BY <1>2, <1>5, <1>11, <2>2, ContextFacts DEF ResumeReject, durable, Terminal
<1>12. CASE Restart
  <2>1. queue' = queue /\ mem'[t] = NoCtx /\ (db'[t] = db[t] \/ db'[t] = NoCtx)
    BY <1>12 DEF Restart
  <2>2. db[t].state = "awaiting_approval"
    BY <2>1, ContextFacts
  <2>3. ~(pc = "enqueue" /\ t = cur)
    BY <2>2, ContextFacts DEF OpenInv
  <2>. QED BY <1>1, <2>1, <2>2, <2>3 DEF Listed
<1>13. CASE UNCHANGED vars
  BY <1>1, <1>13 DEF vars, durable, handler, Listed
<1>. QED BY <1>3, <1>4, <1>6, <1>7, <1>8, <1>9, <1>10, <1>11, <1>12, <1>13 DEF Next, Continue

LEMMA CountersGrow ==
    ASSUME TypeOK, [Next]_vars
    PROVE  /\ restarts \in Nat /\ faults \in Nat
           /\ restarts' \in {restarts, restarts + 1} /\ faults' \in {faults, faults + 1}
<1>1. restarts \in Nat /\ faults \in Nat
  BY BoundsAssumption DEF TypeOK
<1>2. restarts' \in {restarts, restarts + 1} /\ faults' \in {faults, faults + 1}
  BY DEF Next, Continue, Request, RunEnds, RunAsksForTool, ApproveById, Reject, Decide, Refuse,
         ApproveByTrace, Enqueue, Save, ResumeMissing, ResumeRaises, ResumeTool, LogResult,
         ResumeReject, Restart, Fault, NoFault, bounds, vars
<1>. QED BY <1>1, <1>2

LEMMA QuietBefore == ASSUME TypeOK, [Next]_vars, Quiet' PROVE Quiet
BY CountersGrow DEF Quiet

LEMMA WaitCorrect == ASSUME PipelineOnly PROVE Spec => []WaitInv
<1>1. Init => WaitInv
  BY OpenInit, ContextFacts DEF Init, WaitInv
<1>2. TypeOK /\ OpenInv /\ WaitInv /\ [Next]_vars => WaitInv'
  <2>. SUFFICES ASSUME TypeOK, OpenInv, WaitInv, [Next]_vars PROVE WaitInv'
    OBVIOUS
  <2>1. Quiet' => MatchInv' /\ ListInv'
    BY QuietBefore, MatchStep, ListStep DEF WaitInv, Quiet
  <2>. QED BY <2>1, RowStep DEF WaitInv
<1>. QED BY <1>1, <1>2, OpenCorrect, TypeCorrect, PTL DEF Spec

\* Requests of the pipeline, on every route: between requests a context that
\* waits for approval is listed to the approvers, unless a stop or a failed write
\* cut its decision from it; even then it has a row.
THEOREM WaitingIsListed == ASSUME PipelineOnly PROVE Spec => []AwaitingIsListed
<1>1. TypeOK /\ WaitInv => AwaitingIsListed
  <2>. SUFFICES ASSUME TypeOK, WaitInv, pc = "idle", NEW t \in Traces,
                       Lookup(t).state = "awaiting_approval"
                PROVE  queue[t] = "pending" \/ (queue[t] # "none" /\ restarts + faults > 0)
    BY DEF AwaitingIsListed
  <2>1. queue[t] # "none"
    BY DEF WaitInv, Lookup
  <2>2. CASE Quiet
    BY <2>2 DEF WaitInv, MatchInv, ListInv, Lookup
  <2>3. CASE ~Quiet
    BY <2>1, <2>3, BoundsAssumption DEF Quiet, TypeOK
  <2>. QED BY <2>2, <2>3
<1>. QED BY <1>1, WaitCorrect, TypeCorrect, PTL

\* One process life without write errors, every request from the pipeline path.
Undisturbed == MaxFaults = 0 /\ MaxRestarts = 0 /\ PipelineOnly

\* There, what waits is pending.
Listed == pc = "idle" => \A t \in Traces : Lookup(t).state = "awaiting_approval" =>
                                              queue[t] = "pending"

LEMMA ListedCorrect == ASSUME Undisturbed PROVE Spec => []Listed
<1>1. TypeOK /\ AwaitingIsListed => Listed
  BY DEF TypeOK, Undisturbed, AwaitingIsListed, Listed
<1>2. Spec => []AwaitingIsListed
  BY WaitingIsListed DEF Undisturbed
<1>. QED BY <1>1, <1>2, TypeCorrect, PTL

-----------------------------------------------------------------------------
(***************************************************************************)
(* The inductive invariant of the gate.  The trace endpoint executes       *)
(* whatever waits, so it is safe as long as what waits is pending, which   *)
(* needs an undisturbed process; approval by id needs nothing.             *)
(***************************************************************************)
ById == "trace" \notin ApproveRoutes

LEMMA InvInit == Init => IInv
BY ContextFacts
   DEF Init, IInv, FreshInv, ContextInv, Agrees, HandlerInv, GateInv,
       GatedExecution, AtMostOnce

\* A handler step that leaves the queue and the calls alone keeps every context
\* in agreement, if each is kept, forgotten or replaced by one that agrees.
LEMMA ContextStep ==
    ASSUME IInv, UNCHANGED <<queue, invoked>>,
           \A t \in Traces :
              /\ mem'[t] \in {mem[t], db[t], NoCtx} \/ Agrees(t, mem'[t])
              /\ db'[t] \in {mem[t], db[t], NoCtx} \/ Agrees(t, db'[t])
    PROVE  ContextInv'
<1>. SUFFICES ASSUME NEW t \in Traces
              PROVE  Agrees(t, mem[t])' /\ Agrees(t, db[t])'
  BY DEF ContextInv
<1>1. ASSUME NEW ctx \in {mem[t], db[t], NoCtx} PROVE Agrees(t, ctx)
  BY ContextFacts DEF IInv, ContextInv, Agrees
<1>2. Agrees(t, mem'[t]) /\ Agrees(t, db'[t])
  BY <1>1
<1>. QED BY <1>2 DEF Agrees, Gate!Truthful

LEMMA InvRequest ==
    ASSUME ById \/ Listed, TypeOK, IInv, NEW t \in Traces, Request(t)
    PROVE  IInv'
<1>. USE DEF TypeOK, IInv, FreshInv, HandlerInv, GateInv, GatedExecution,
             AtMostOnce, Begin, agent
<1>1. ASSUME NEW end \in Terminal, RunEnds(t, end) PROVE IInv'
  <2>1. mem' = [mem EXCEPT ![t] = Ctx(end, "none")] /\ UNCHANGED <<queue, db, invoked>>
    BY <1>1 DEF RunEnds
  <2>2. ContextInv'
    BY <1>1, <2>1, ContextFacts
       DEF RunEnds, ContextInv, Agrees, Terminal, States, Results, Gate!Truthful
  <2>. QED BY <1>1, <2>2, ContextFacts DEF RunEnds
<1>2. ASSUME NEW path \in Paths, RunAsksForTool(t, path) PROVE IInv'
  <2>1. mem' = [mem EXCEPT ![t] = Ctx("awaiting_approval", "none")]
        /\ UNCHANGED <<queue, db, invoked>>
    BY <1>2 DEF RunAsksForTool
  <2>2. ContextInv'
    BY <1>2, <2>1, ContextFacts
       DEF RunAsksForTool, ContextInv, Agrees, States, Results, Gate!Truthful
  <2>. QED BY <1>2, <2>1, <2>2, ContextFacts DEF RunAsksForTool, AfterRequest
<1>3. ASSUME NEW o \in IdRoutes \cup {"reject"}, NEW d \in {"approved", "rejected"},
             Decide(o, t, d), o = "reject" <=> d = "rejected"
      PROVE  IInv'
  <2>1. /\ queue[t] = "pending" /\ queue' = [queue EXCEPT ![t] = d]
        /\ UNCHANGED <<db, mem, invoked, started>>
        /\ pc' = "resume" /\ op' = o /\ cur' = t
    BY <1>3 DEF Decide, Updatable
  <2>2. mem[t].result = "none" /\ db[t].result = "none"
    BY <2>1 DEF ContextInv, Agrees, Gate!Truthful
  <2>3. ContextInv'
    BY <2>1, <2>2 DEF ContextInv, Agrees, Gate!Truthful
  <2>4. invoked[t] = 0
    BY <2>1
  <2>. QED BY <1>3, <2>1, <2>2, <2>3, <2>4 DEF IdRoutes
<1>4. CASE Refuse(t)
  <2>1. ContextInv'
    BY <1>4, ContextStep DEF Refuse, durable
  <2>. QED BY <1>4, <2>1 DEF Refuse, durable, handler
<1>5. ASSUME NEW r \in IdRoutes, ApproveById(r, t) PROVE IInv'
  <2>1. r # "reject"
    BY RoutesAssumption DEF IdRoutes
  <2>. QED BY <1>3, <1>5, <2>1 DEF ApproveById
<1>6. CASE Reject(t)
  BY <1>3, <1>6 DEF Reject
<1>7. CASE ApproveByTrace(t)
  <2>1. /\ queue' = [queue EXCEPT ![t] = IF queue[t] = "pending" THEN "approved" ELSE queue[t]]
        /\ UNCHANGED <<db, mem, cached, invoked, started>>
        /\ pc = "idle" /\ pc' = "resume" /\ op' = "trace" /\ cur' = t
    BY <1>7 DEF ApproveByTrace, Updatable
  <2>2. Lookup(t).state = "awaiting_approval" => queue[t] = "pending"
    BY <1>7, <2>1 DEF Listed, ApproveByTrace, ById
  <2>3. CASE queue[t] = "pending"
    <3>1. mem[t].result = "none" /\ db[t].result = "none" /\ invoked[t] = 0
      BY <2>3 DEF ContextInv, Agrees, Gate!Truthful
    <3>2. ContextInv'
      BY <2>1, <2>3, <3>1 DEF ContextInv, Agrees, Gate!Truthful
    <3>. QED BY <2>1, <2>3, <3>1, <3>2
  <2>4. CASE queue[t] # "pending"
    <3>1. queue' = queue
      BY <2>1, <2>4
    <3>2. ContextInv'
      BY <2>1, <3>1, ContextStep
    <3>3. Lookup(t)' = Lookup(t)
      BY <2>1 DEF Lookup
    <3>. QED BY <2>1, <2>2, <2>4, <3>1, <3>2, <3>3
  <2>. QED BY <2>3, <2>4
<1>. QED BY <1>1, <1>2, <1>4, <1>5, <1>6, <1>7 DEF Request

\* The one execution: the tool is called, if at all, for a trace that was
\* approved and for which it was never called.
LEMMA ExecuteFacts ==
    ASSUME TypeOK, NEW t \in Traces, NEW r \in Results, Execute(t, r),
           queue[t] = "approved", invoked[t] = 0
    PROVE  /\ \/ invoked' = invoked
              \/ invoked' = [invoked EXCEPT ![t] = 1]
           /\ r # "none"
           /\ r \in {"executed", "error"} => invoked'[t] = 1
           /\ r \in {"duplicate", "denied"} => invoked'[t] = 0
           /\ r # "rejected_by_human"
BY DEF Execute, CallHandler, TypeOK, agent

LEMMA InvResumeTool ==
    ASSUME TypeOK, IInv, ResumeTool
    PROVE  IInv'
<1>1. /\ cur \in Traces /\ op \in ApproveRoutes
      /\ op # "reject" /\ queue[cur] = "approved" /\ invoked[cur] = 0
      /\ db[cur].result = "none" /\ cur \in started
  BY RoutesAssumption DEF ResumeTool, TypeOK, IInv, HandlerInv, FreshInv
<1>2. PICK r \in Results : Execute(cur, r) /\ Put(cur, Ctx("executing_tool", r))
  BY DEF ResumeTool
<1>3. Ctx("executing_tool", r) \in Context /\ Ctx("executing_tool", r).result = r
  BY ContextFacts DEF States
<1>4. /\ mem'[cur].result = r
      /\ \A u \in Traces \ {cur} : mem'[u] = mem[u] \/ mem'[u] = NoCtx
  BY <1>1, <1>2, <1>3, PutFacts
<1>5. /\ invoked' = invoked \/ invoked' = [invoked EXCEPT ![cur] = 1]
      /\ r # "none" /\ r # "rejected_by_human"
      /\ r \in {"executed", "error"} => invoked'[cur] = 1
      /\ r \in {"duplicate", "denied"} => invoked'[cur] = 0
  BY <1>1, <1>2, ExecuteFacts
<1>6. UNCHANGED <<queue, db, started>> /\ pc' = "log_result" /\ cur' = cur
  BY DEF ResumeTool, Goto
<1>7. ContextInv'
  <2>1. ASSUME NEW u \in Traces, u # cur PROVE Agrees(u, mem[u])' /\ Agrees(u, db[u])'
    <3>1. invoked'[u] = invoked[u]
      BY <1>5, <2>1 DEF TypeOK
    <3>. QED BY <1>4, <1>6, <2>1, <3>1, ContextFacts
             DEF IInv, ContextInv, Agrees, Gate!Truthful
  <2>2. Agrees(cur, mem[cur])'
    <3>1. r \in {"executed", "error", "duplicate", "denied"}
      BY <1>5 DEF Results
    <3>. QED BY <1>1, <1>4, <1>5, <1>6, <3>1 DEF Agrees, Gate!Truthful
  <2>3. Agrees(cur, db[cur])'
    BY <1>1, <1>6 DEF Agrees
  <2>. QED BY <1>1, <1>6, <2>1, <2>2, <2>3 DEF ContextInv
<1>8. FreshInv' /\ GateInv'
  BY <1>1, <1>5, <1>6
     DEF TypeOK, IInv, FreshInv, GateInv, GatedExecution, AtMostOnce
<1>9. HandlerInv'
  BY <1>1, <1>6 DEF HandlerInv
<1>. QED BY <1>7, <1>8, <1>9 DEF IInv

LEMMA InvContinue ==
    ASSUME TypeOK, IInv, Continue
    PROVE  IInv'
<1>. USE DEF Goto, Finish
<1>1. cur \in Traces
  BY DEF TypeOK, Continue, Enqueue, Save, ResumeMissing, ResumeRaises, ResumeTool,
         LogResult, ResumeReject
<1>2. CASE Enqueue
  <2>1. /\ cur \in started /\ queue[cur] = "none" /\ db[cur] = NoCtx
        /\ mem[cur] = Ctx("awaiting_approval", "none")
        /\ UNCHANGED <<db, invoked, started, cur>> /\ pc' = "save"
    BY <1>2 DEF Enqueue, IInv, HandlerInv
  <2>2. /\ mem[cur].state = "awaiting_approval" /\ mem[cur].result = "none"
        /\ db[cur].state = "absent" /\ db[cur].result = "none"
    BY <2>1, ContextFacts DEF States, Results
  <2>3. CASE queue' = [queue EXCEPT ![cur] = "pending"] /\ UNCHANGED mem
    BY <1>1, <2>1, <2>2, <2>3
       DEF TypeOK, IInv, FreshInv, ContextInv, Agrees, HandlerInv, GateInv,
           GatedExecution, AtMostOnce, Gate!Truthful
  <2>4. CASE mem' = [mem EXCEPT ![cur].state = "failed"] /\ UNCHANGED queue
    <3>1. mem'[cur].result = "none" /\ \A u \in Traces \ {cur} : mem'[u] = mem[u]
      BY <1>1, <2>2, <2>4 DEF TypeOK, Context
    <3>. QED BY <1>1, <2>1, <2>2, <2>4, <3>1
             DEF TypeOK, IInv, FreshInv, ContextInv, Agrees, HandlerInv, GateInv,
                 GatedExecution, AtMostOnce, Gate!Truthful
  <2>. QED BY <1>2, <2>3, <2>4 DEF Enqueue
<1>3. CASE Save
  <2>1. /\ mem'[cur] = mem[cur]
        /\ \A u \in Traces \ {cur} : mem'[u] = mem[u] \/ mem'[u] = NoCtx
    BY <1>1, <1>3, PutFacts DEF Save, TypeOK
  <2>2. db' = [db EXCEPT ![cur] = mem[cur]] \/ UNCHANGED db
    BY <1>3 DEF Save, Upsert
  <2>3. UNCHANGED <<queue, invoked, started>> /\ pc' = "idle" /\ cur \in started
    BY <1>3 DEF Save, IInv, HandlerInv
  <2>4. ContextInv'
    BY <1>1, <2>1, <2>2, <2>3, ContextStep DEF TypeOK
  <2>. QED BY <1>1, <2>2, <2>3, <2>4
           DEF TypeOK, IInv, FreshInv, HandlerInv, GateInv, GatedExecution, AtMostOnce
<1>4. CASE ResumeMissing
  <2>1. UNCHANGED <<queue, invoked, started, db, mem>> /\ pc' = "idle"
    BY <1>4 DEF ResumeMissing, durable
  <2>. QED BY <2>1, ContextStep
           DEF IInv, FreshInv, HandlerInv, GateInv, GatedExecution, AtMostOnce
<1>5. CASE ResumeRaises
  <2>1. UNCHANGED <<queue, invoked, started, db>> /\ pc' = "idle"
    BY <1>5 DEF ResumeRaises, durable
  <2>2. /\ mem'[cur] = Lookup(cur)
        /\ \A u \in Traces \ {cur} : mem'[u] = mem[u] \/ mem'[u] = NoCtx
    BY <1>1, <1>5, PutFacts, LookupFacts DEF ResumeRaises
  <2>3. ContextInv'
    BY <1>1, <2>1, <2>2, ContextStep, LookupFacts
  <2>. QED BY <2>1, <2>3
           DEF IInv, FreshInv, HandlerInv, GateInv, GatedExecution, AtMostOnce
<1>6. CASE ResumeTool
  BY <1>6, InvResumeTool
<1>7. CASE LogResult
  <2>1. /\ UNCHANGED <<queue, invoked, started, db, cur>> /\ pc' = "save"
        /\ queue[cur] = "approved" /\ db[cur].result = "none" /\ cur \in started
    BY <1>7 DEF LogResult, IInv, HandlerInv
  <2>2. /\ mem'[cur].result = mem[cur].result
        /\ \A u \in Traces \ {cur} : mem'[u] = mem[u]
    BY <1>1, <1>7 DEF LogResult, TypeOK, Context
  <2>3. Agrees(cur, mem'[cur])
    BY <1>1, <2>1, <2>2 DEF IInv, ContextInv, Agrees
  <2>4. ContextInv'
    BY <2>1, <2>2, <2>3, ContextStep
  <2>. QED BY <2>1, <2>4
           DEF IInv, FreshInv, HandlerInv, GateInv, GatedExecution, AtMostOnce
<1>8. CASE ResumeReject
  <2>1. /\ UNCHANGED <<queue, invoked, started, db>>
        /\ queue[cur] = "rejected" /\ db[cur].result = "none" /\ cur \in started
    BY <1>1, <1>8, RoutesAssumption
       DEF ResumeReject, durable, IInv, HandlerInv, FreshInv, IdRoutes
  <2>2. PICK s \in States : Put(cur, Ctx(s, "rejected_by_human"))
    BY <1>1, <1>8, LookupFacts DEF ResumeReject, Rejected, Context, States
  <2>3. /\ mem'[cur].result = "rejected_by_human"
        /\ \A u \in Traces \ {cur} : mem'[u] = mem[u] \/ mem'[u] = NoCtx
    BY <1>1, <2>2, PutFacts, ContextFacts DEF Results
  <2>4. Agrees(cur, mem'[cur])
    BY <2>1, <2>3 DEF Agrees, Gate!Truthful
  <2>5. ContextInv'
    BY <2>1, <2>3, <2>4, ContextStep
  <2>6. pc' = "idle" \/ (pc' = "save" /\ cur' = cur)
    BY <1>8 DEF ResumeReject
  <2>. QED BY <2>1, <2>5, <2>6
           DEF IInv, FreshInv, HandlerInv, GateInv, GatedExecution, AtMostOnce
<1>. QED BY <1>2, <1>3, <1>4, <1>5, <1>6, <1>7, <1>8 DEF Continue

LEMMA InvRestart ==
    ASSUME TypeOK, IInv, Restart
    PROVE  IInv'
<1>1. /\ UNCHANGED <<queue, invoked, started>> /\ pc' = "idle"
      /\ \A t \in Traces : mem'[t] = NoCtx /\ (db'[t] = db[t] \/ db'[t] = NoCtx)
  BY DEF Restart, Finish
<1>2. ContextInv'
  BY <1>1, ContextStep
<1>. QED BY <1>1, <1>2
         DEF IInv, FreshInv, HandlerInv, GateInv, GatedExecution, AtMostOnce

LEMMA InvStep == (ById \/ Listed) /\ TypeOK /\ IInv /\ [Next]_vars => IInv'
<1>1. ASSUME IInv, UNCHANGED vars PROVE IInv'
  BY <1>1, ContextStep
     DEF vars, durable, handler, IInv, FreshInv, HandlerInv, Lookup, GateInv,
         GatedExecution, AtMostOnce
<1>. QED BY <1>1, InvRequest, InvContinue, InvRestart DEF Next

LEMMA InvCorrect == ASSUME ById \/ Undisturbed PROVE Spec => []IInv
<1>1. Spec => [](ById \/ Listed)
  <2>1. CASE ById
    BY <2>1, PTL
  <2>2. CASE Undisturbed
    <3>1. Spec => []Listed
      BY <2>2, ListedCorrect
    <3>. QED BY <3>1, PTL
  <2>. QED BY <2>1, <2>2
<1>. QED BY <1>1, InvInit, InvStep, TypeCorrect, PTL DEF Spec

LEMMA GateFacts == TypeOK /\ IInv => GatedExecution /\ AtMostOnce
BY DEF TypeOK, IInv, GateInv, GatedExecution, AtMostOnce

\* The tool is called only for approved requests: with approval by id whatever
\* restarts and write errors happen, and on every route while nothing disturbs
\* the process ...
THEOREM ToolIsGated == ASSUME ById \/ Undisturbed PROVE Spec => []GatedExecution
BY GateFacts, InvCorrect, TypeCorrect, PTL

\* ... and at most once for each: a second approval by id finds no pending row,
\* though the idempotency keys are lost with the process, and a second one by
\* trace finds a context that no longer waits.
THEOREM CallsAtMostOnce == ASSUME ById \/ Undisturbed PROVE Spec => []AtMostOnce
BY GateFacts, InvCorrect, TypeCorrect, PTL

-----------------------------------------------------------------------------
(***************************************************************************)
(* Refinement: every step of the flow is a step of the abstract gate.      *)
(***************************************************************************)
Told == [t \in Traces |-> db[t].result]

LEMMA RefineInit == Init => Gate!Init
BY ContextFacts DEF Init, Gate!Init

\* Steps that touch neither the queue, the tool nor the table are invisible.
LEMMA RefineStutter ==
    ASSUME UNCHANGED <<queue, invoked, db>>
    PROVE  UNCHANGED Gate!vars
BY DEF Gate!vars

LEMMA RefineEnqueue ==
    ASSUME TypeOK, IInv, Enqueue
    PROVE  [Gate!Next]_Gate!vars
<1>1. cur \in Traces /\ queue[cur] = "none" /\ UNCHANGED <<db, invoked>>
  BY DEF Enqueue, TypeOK, IInv, HandlerInv
<1>2. CASE queue' = [queue EXCEPT ![cur] = "pending"]
  <2>1. Gate!Ask(cur)
    BY <1>1, <1>2 DEF Gate!Ask
  <2>. QED BY <1>1, <2>1 DEF Gate!Next
<1>3. CASE UNCHANGED queue
  BY <1>1, <1>3, RefineStutter
<1>. QED BY <1>2, <1>3 DEF Enqueue

LEMMA RefineDecide ==
    ASSUME NEW t \in Traces, NEW o, NEW d \in {"approved", "rejected"}, Decide(o, t, d)
    PROVE  Gate!Next
<1>1. Gate!Decide(t, d)
  BY DEF Decide, Updatable, Gate!Decide
<1>. QED BY <1>1 DEF Gate!Next

\* A save records the result of the trace for the first time, truthfully.
LEMMA RefineSave ==
    ASSUME TypeOK, IInv, Save
    PROVE  [Gate!Next]_Gate!vars
<1>1. /\ cur \in Traces /\ db[cur].result = "none" /\ UNCHANGED <<queue, invoked>>
      /\ Agrees(cur, mem[cur]) /\ mem[cur].result \in Results
  BY DEF Save, TypeOK, IInv, HandlerInv, ContextInv, Context
<1>2. CASE UNCHANGED db
  BY <1>1, <1>2, RefineStutter
<1>3. CASE db' = [db EXCEPT ![cur] = mem[cur]]
  <2>1. /\ db'[cur] = mem[cur] /\ \A t \in Traces \ {cur} : db'[t] = db[t]
    BY <1>1, <1>3 DEF TypeOK
  <2>2. CASE mem[cur].result = "none"
    BY <1>1, <2>1, <2>2 DEF Gate!vars
  <2>3. CASE mem[cur].result # "none"
    <3>1. PICK r \in {"executed", "error", "duplicate", "denied",
                      "rejected_by_human"} : r = mem[cur].result
      BY <1>1, <2>3 DEF Results
    <3>2. Gate!Truthful(cur, r)
      BY <1>1, <2>3, <3>1 DEF Agrees
    <3>3. Gate!Record(cur, r)
      BY <1>1, <2>1, <3>1, <3>2 DEF Gate!Record
    <3>. QED BY <1>1, <3>3 DEF Gate!Next
  <2>. QED BY <2>2, <2>3
<1>. QED BY <1>2, <1>3 DEF Save, Upsert

LEMMA RefineResumeTool ==
    ASSUME TypeOK, IInv, ResumeTool
    PROVE  [Gate!Next]_Gate!vars
<1>1. /\ cur \in Traces /\ queue[cur] = "approved" /\ invoked[cur] = 0
      /\ UNCHANGED <<queue, db>>
  BY RoutesAssumption DEF ResumeTool, TypeOK, IInv, HandlerInv
<1>2. PICK r \in Results : Execute(cur, r)
  BY DEF ResumeTool
<1>3. invoked' = invoked \/ invoked' = [invoked EXCEPT ![cur] = 1]
  BY <1>1, <1>2, ExecuteFacts
<1>4. CASE invoked' = [invoked EXCEPT ![cur] = 1]
  <2>1. Gate!Run(cur)
    BY <1>1, <1>4 DEF Gate!Run
  <2>. QED BY <1>1, <2>1 DEF Gate!Next
<1>. QED BY <1>1, <1>3, <1>4, RefineStutter

LEMMA RefineRestart ==
    ASSUME Restart
    PROVE  Gate!Next
<1>1. PICK old \in SUBSET Traces :
         db' = [t \in Traces |-> IF t \in old THEN NoCtx ELSE db[t]]
  BY DEF Restart
<1>2. Told' = [t \in Traces |-> IF t \in old THEN "none" ELSE Told[t]]
  BY <1>1, ContextFacts DEF Told
<1>3. Gate!Forget
  BY <1>2 DEF Gate!Forget, Told, Restart
<1>. QED BY <1>3 DEF Gate!Next

LEMMA RefineStep ==
    TypeOK /\ IInv /\ [Next]_vars => [Gate!Next]_Gate!vars
<1>. SUFFICES ASSUME TypeOK, IInv, [Next]_vars
              PROVE  [Gate!Next]_Gate!vars
  OBVIOUS
<1>1. ASSUME NEW t \in Traces, Request(t) PROVE [Gate!Next]_Gate!vars
  <2>1. ASSUME NEW end \in Terminal, RunEnds(t, end) PROVE [Gate!Next]_Gate!vars
    BY <2>1, RefineStutter DEF RunEnds
  <2>2. ASSUME NEW path \in Paths, RunAsksForTool(t, path)
        PROVE  [Gate!Next]_Gate!vars
    BY <2>2, RefineStutter DEF RunAsksForTool
  <2>3. ASSUME NEW r \in IdRoutes, ApproveById(r, t) PROVE [Gate!Next]_Gate!vars
    BY <2>3, RefineDecide DEF ApproveById
  <2>4. CASE Reject(t)
    BY <2>4, RefineDecide DEF Reject
  <2>5. CASE Refuse(t)
    BY <2>5, RefineStutter DEF Refuse, durable
  <2>6. CASE ApproveByTrace(t)
    <3>1. CASE queue[t] = "pending"
      <4>1. Gate!Decide(t, "approved")
        BY <2>6, <3>1 DEF ApproveByTrace, Updatable, Gate!Decide
      <4>. QED BY <4>1 DEF Gate!Next
    <3>2. CASE queue[t] # "pending"
      <4>1. UNCHANGED <<queue, invoked, db>>
        BY <2>6, <3>2 DEF ApproveByTrace, Updatable, TypeOK
      <4>. QED BY <4>1, RefineStutter
    <3>. QED BY <3>1, <3>2
  <2>. QED BY <1>1, <2>1, <2>2, <2>3, <2>4, <2>5, <2>6 DEF Request
<1>2. ASSUME Continue PROVE [Gate!Next]_Gate!vars
  <2>1. CASE ResumeMissing \/ ResumeRaises \/ LogResult \/ ResumeReject
    BY <2>1, RefineStutter
       DEF ResumeMissing, ResumeRaises, LogResult, ResumeReject, durable
  <2>. QED BY <1>2, <2>1, RefineEnqueue, RefineSave, RefineResumeTool DEF Continue
<1>3. CASE Restart
  BY <1>3, RefineRestart
<1>4. CASE UNCHANGED vars
  BY <1>4, RefineStutter DEF vars, durable
<1>. QED BY <1>1, <1>2, <1>3, <1>4 DEF Next

\* With approval by id the flow, with its caches, restarts and write errors,
\* implements the abstract gate: one decision per request, at most one call and
\* only after approval, truthful records.  So it does with the trace endpoint,
\* in a process that nothing disturbs.
THEOREM FlowImplementsGate == ASSUME ById \/ Undisturbed PROVE Spec => ImplementsHumanGate
BY RefineInit, RefineStep, InvCorrect, TypeCorrect, PTL
   DEF Spec, ImplementsHumanGate, Gate!Spec

-----------------------------------------------------------------------------
(***************************************************************************)
(* How often a tool is called on every route.  OpenInv says that a trace   *)
(* whose run has not ended has no context.                                 *)
(***************************************************************************)
LEMMA ExcuseInit == Init => ExcuseInv
BY ContextFacts, BoundsAssumption DEF Init, ExcuseInv, RepeatsAreExcused, Excused

\* What more restarts and failed writes excuse.
LEMMA StillExcused ==
    ASSUME NEW r \in Nat, NEW f \in Nat, NEW s \in Nat, NEW g \in Nat, NEW n \in Nat,
           r + f <= s + g, n <= 1 + r + f
    PROVE  n <= 1 + s + g
OBVIOUS

LEMMA OneMoreFault ==
    ASSUME NEW r \in Nat, NEW f \in Nat, NEW g \in {f, f + 1}
    PROVE  g \in Nat /\ r + f <= r + g
OBVIOUS

\* A step without a call, that lets no context wait but those that did, and
\* forgets no restart and no failed write.
LEMMA ExcuseKept ==
    ASSUME TypeOK, ExcuseInv, invoked' = invoked, started \subseteq started',
           restarts' \in Nat, faults' \in Nat, restarts + faults <= restarts' + faults',
           \A t \in Traces : mem'[t].state = "awaiting_approval" => Excused(t)',
           \A t \in Traces : db'[t].state = "awaiting_approval" =>
              Excused(t)' \/ (pc' \in {"log_result", "save"} /\ t = cur')
    PROVE  ExcuseInv'
<1>1. \A t \in Traces : invoked[t] \in Nat
  BY DEF TypeOK
<1>a. restarts \in Nat /\ faults \in Nat
  BY BoundsAssumption DEF TypeOK
<1>2. \A t \in Traces : invoked'[t] <= 1 + restarts' + faults'
  <2>. SUFFICES ASSUME NEW t \in Traces PROVE invoked[t] <= 1 + restarts' + faults'
    OBVIOUS
  <2>1. invoked[t] <= 1 + restarts + faults
    BY DEF ExcuseInv, RepeatsAreExcused
  <2>2. invoked[t] \in Nat
    BY <1>1
  <2>. QED BY <1>a, <2>1, <2>2, StillExcused
<1>. QED BY <1>2 DEF ExcuseInv, RepeatsAreExcused

LEMMA ExcuseRequest ==
    ASSUME TypeOK, OpenInv, ExcuseInv, NEW t \in Traces, Request(t)
    PROVE  ExcuseInv'
<1>1. restarts \in Nat /\ faults \in Nat /\ \A u \in Traces : invoked[u] \in Nat
  BY BoundsAssumption DEF TypeOK
<1>2. mem \in [Traces -> Context] /\ started \subseteq Traces
  BY DEF TypeOK
<1>3. ASSUME NEW s \in States, t \notin started, mem' = [mem EXCEPT ![t] = Ctx(s, "none")],
             started' = started \cup {t}, UNCHANGED <<invoked, db, restarts>>,
             pc = "idle", faults' \in {faults, faults + 1}
      PROVE  ExcuseInv'
  <2>1. invoked[t] = 0
    BY <1>3 DEF ExcuseInv
  <2>2. \A u \in Traces : mem'[u].state = "awaiting_approval" => Excused(u)'
    BY <1>1, <1>2, <1>3, <2>1 DEF ExcuseInv, Excused
  <2>3. \A u \in Traces : db'[u].state = "awaiting_approval" => Excused(u)'
    BY <1>1, <1>3 DEF ExcuseInv, Excused
  <2>4. faults' \in Nat /\ restarts' \in Nat /\ restarts + faults <= restarts' + faults'
    BY <1>1, <1>3, OneMoreFault
  <2>. QED BY <1>3, <2>2, <2>3, <2>4, ExcuseKept
<1>4. ASSUME NEW end \in Terminal, RunEnds(t, end) PROVE ExcuseInv'
  BY <1>3, <1>4 DEF RunEnds, Begin, bounds, Terminal, States
<1>5. ASSUME NEW path \in Paths, RunAsksForTool(t, path) PROVE ExcuseInv'
  BY <1>3, <1>5 DEF RunAsksForTool, Begin, Fault, NoFault, States
<1>6. ASSUME UNCHANGED <<db, invoked, started, mem, bounds>>, pc = "idle" PROVE ExcuseInv'
  BY <1>6 DEF ExcuseInv, RepeatsAreExcused, Excused, bounds
<1>7. ASSUME NEW o, NEW d, Decide(o, t, d) PROVE ExcuseInv'
  BY <1>6, <1>7 DEF Decide, Begin
<1>8. CASE Refuse(t) \/ ApproveByTrace(t)
  BY <1>6, <1>8 DEF Refuse, ApproveByTrace, Begin, durable
<1>. QED BY <1>4, <1>5, <1>7, <1>8 DEF Request, ApproveById, Reject

LEMMA ExcuseContinue ==
    ASSUME TypeOK, OpenInv, ExcuseInv, Continue
    PROVE  ExcuseInv'
<1>0. /\ cur \in Traces /\ mem \in [Traces -> Context] /\ db \in [Traces -> Context]
      /\ mem[cur] \in Context
  BY DEF TypeOK, Continue, Enqueue, Save, ResumeMissing, ResumeRaises, ResumeTool,
         LogResult, ResumeReject
<1>. PICK c \in Traces : c = cur
  BY <1>0
<1>1. /\ c = cur /\ mem \in [Traces -> Context] /\ db \in [Traces -> Context]
      /\ mem[c] \in Context
  BY <1>0
<1>2. restarts \in Nat /\ faults \in Nat /\ \A u \in Traces : invoked[u] \in Nat
  BY BoundsAssumption DEF TypeOK
<1>3. NoCtx.state = "absent"
  BY ContextFacts
\* One more failed write excuses at least what was excused before.
<1>4. ASSUME UNCHANGED <<invoked, started, restarts>>, faults' \in {faults, faults + 1},
             \A u \in Traces \ {c} : mem'[u] \in {mem[u], NoCtx} /\ db'[u] = db[u],
             mem'[c].state = "awaiting_approval" => Excused(c)',
             db'[c].state = "awaiting_approval" =>
                Excused(c)' \/ (pc' \in {"log_result", "save"} /\ cur' = cur)
      PROVE  ExcuseInv'
  <2>1. \A u \in Traces : Excused(u) => Excused(u)'
    BY <1>2, <1>4 DEF Excused
  <2>2. \A u \in Traces : mem'[u].state = "awaiting_approval" => Excused(u)'
    BY <1>3, <1>4, <2>1 DEF ExcuseInv
  <2>3. \A u \in Traces : db'[u].state = "awaiting_approval" =>
           Excused(u)' \/ (pc' \in {"log_result", "save"} /\ u = cur')
    BY <1>1, <1>4, <2>1 DEF ExcuseInv
  <2>4. faults' \in Nat /\ restarts' \in Nat /\ restarts + faults <= restarts' + faults'
    BY <1>2, <1>4, OneMoreFault
  <2>. QED BY <1>4, <2>2, <2>3, <2>4, ExcuseKept
<1>5. /\ mem[c].state = "awaiting_approval" => Excused(c)
      /\ pc \notin {"log_result", "save"} /\ db[c].state = "awaiting_approval" => Excused(c)
      /\ invoked[c] <= 1 + restarts + faults
  BY <1>1 DEF ExcuseInv, RepeatsAreExcused
<1>6. CASE Enqueue
  <2>1. /\ UNCHANGED <<invoked, started, restarts, db, cur>> /\ pc' = "save"
        /\ faults' \in {faults, faults + 1}
        /\ mem' = mem \/ mem' = [mem EXCEPT ![c].state = "failed"]
    BY <1>1, <1>6 DEF Enqueue, Fault, NoFault, Goto
  <2>2. mem'[c].state = "awaiting_approval" => mem[c].state = "awaiting_approval"
    BY <1>1, <2>1 DEF Context
  <2>3. mem'[c].state = "awaiting_approval" => Excused(c)'
    BY <1>2, <1>5, <2>1, <2>2 DEF Excused
  <2>. QED BY <1>1, <1>4, <2>1, <2>3
<1>7. CASE Save
  <2>1. /\ mem'[c] = mem[c]
        /\ \A u \in Traces \ {c} : mem'[u] = mem[u] \/ mem'[u] = NoCtx
    BY <1>1, <1>7, PutFacts DEF Save
  <2>2. /\ UNCHANGED <<invoked, started, restarts>> /\ pc' = "idle"
        /\ \/ faults' = faults /\ db' = [db EXCEPT ![c] = mem[c]]
           \/ faults' = faults + 1 /\ db' = db
    BY <1>1, <1>7 DEF Save, Upsert, Finish, Fault, NoFault
  <2>3. mem[c].state = "awaiting_approval" => Excused(c)'
    BY <1>2, <1>5, <2>2 DEF Excused
  <2>4. CASE faults' = faults /\ db' = [db EXCEPT ![c] = mem[c]]
    <3>1. db'[c] = mem[c] /\ \A u \in Traces \ {c} : db'[u] = db[u]
      BY <1>1, <2>4
    <3>. QED BY <1>4, <2>1, <2>2, <2>3, <2>4, <3>1
  <2>5. CASE faults' = faults + 1 /\ db' = db
    <3>1. Excused(c)'
      BY <1>2, <1>5, <2>2, <2>5 DEF Excused
    <3>. QED BY <1>4, <2>1, <2>2, <2>5, <3>1
  <2>. QED BY <2>2, <2>4, <2>5
<1>8. CASE ResumeMissing
  <2>1. UNCHANGED <<invoked, started, restarts, faults, db, mem>> /\ pc' = "idle"
        /\ pc = "resume"
    BY <1>1, <1>8 DEF ResumeMissing, durable, bounds, Finish
  <2>2. Excused(c) => Excused(c)'
    BY <2>1 DEF Excused
  <2>. QED BY <1>4, <1>5, <2>1, <2>2
\* What the handler looks up is the object or the row, and the row is not yet ahead.
<1>9. pc = "resume" /\ Lookup(c).state = "awaiting_approval" => Excused(c)
  BY <1>1, <1>5, LookupFacts
<1>10. CASE ResumeRaises
  <2>1. /\ mem'[c] = Lookup(c) /\ Lookup(c).state # "awaiting_approval"
        /\ \A u \in Traces \ {c} : mem'[u] = mem[u] \/ mem'[u] = NoCtx
    BY <1>1, <1>10, PutFacts, LookupFacts DEF ResumeRaises
  <2>2. UNCHANGED <<invoked, started, restarts, faults, db>> /\ pc' = "idle" /\ pc = "resume"
    BY <1>1, <1>10 DEF ResumeRaises, durable, bounds, Finish
  <2>3. Excused(c) => Excused(c)'
    BY <2>2 DEF Excused
  <2>. QED BY <1>4, <1>5, <2>1, <2>2, <2>3
<1>11. CASE LogResult
  <2>1. /\ UNCHANGED <<invoked, started, restarts, db, cur>> /\ pc' = "save"
        /\ faults' \in {faults, faults + 1} /\ mem' = [mem EXCEPT ![c].state = "complete"]
    BY <1>1, <1>11 DEF LogResult, Fault, NoFault, Goto
  <2>2. mem'[c].state # "awaiting_approval" /\ \A u \in Traces \ {c} : mem'[u] = mem[u]
    BY <1>1, <2>1 DEF Context
  <2>. QED BY <1>4, <2>1, <2>2
<1>12. CASE ResumeReject
  <2>1. PICK s \in States : /\ Put(c, Ctx(s, "rejected_by_human"))
                            /\ s \in Terminal
    BY <1>1, <1>12, LookupFacts DEF ResumeReject, Rejected, Context, States, Terminal
  <2>2. /\ mem'[c].state # "awaiting_approval"
        /\ \A u \in Traces \ {c} : mem'[u] = mem[u] \/ mem'[u] = NoCtx
    BY <1>1, <2>1, PutFacts, ContextFacts DEF Results, Terminal
  <2>3. UNCHANGED <<invoked, started, restarts, faults, db>> /\ pc = "resume"
        /\ (pc' = "idle" \/ cur' = cur)
    BY <1>1, <1>12 DEF ResumeReject, durable, bounds, Finish, Goto
  <2>4. Excused(c) => Excused(c)'
    BY <2>3 DEF Excused
  <2>. QED BY <1>4, <1>5, <2>2, <2>3, <2>4
\* The call uses up what the waiting context was excused for.
<1>13. CASE ResumeTool
  <2>1. PICK r \in Results : Execute(c, r) /\ Put(c, Ctx("executing_tool", r))
    BY <1>1, <1>13 DEF ResumeTool
  <2>2. /\ mem'[c].state # "awaiting_approval"
        /\ \A u \in Traces \ {c} : mem'[u] = mem[u] \/ mem'[u] = NoCtx
    BY <1>1, <2>1, PutFacts, ContextFacts DEF States
  <2>3. /\ UNCHANGED <<started, restarts, faults, db, cur>> /\ pc' = "log_result" /\ pc = "resume"
        /\ Lookup(c).state = "awaiting_approval"
    BY <1>1, <1>13 DEF ResumeTool, bounds, Goto
  <2>4. /\ invoked'[c] \in {invoked[c], invoked[c] + 1}
        /\ \A u \in Traces \ {c} : invoked'[u] = invoked[u]
    BY <1>1, <2>1 DEF Execute, CallHandler, TypeOK
  <2>5. invoked[c] <= restarts + faults /\ c \in started
    BY <1>1, <1>3, <1>9, <2>3 DEF Excused, Lookup, OpenInv
  <2>6. RepeatsAreExcused'
    BY <1>1, <1>2, <2>3, <2>4, <2>5 DEF RepeatsAreExcused, ExcuseInv
  <2>. QED BY <1>1, <1>3, <2>2, <2>3, <2>4, <2>5, <2>6 DEF ExcuseInv, Excused
<1>. QED BY <1>6, <1>7, <1>8, <1>10, <1>11, <1>12, <1>13 DEF Continue

\* A restart excuses one more call of every trace.
LEMMA ExcuseRestart == ASSUME TypeOK, ExcuseInv, Restart PROVE ExcuseInv'
<1>1. restarts \in Nat /\ faults \in Nat /\ \A u \in Traces : invoked[u] \in Nat
  BY BoundsAssumption DEF TypeOK
<1>2. restarts' = restarts + 1 /\ UNCHANGED <<invoked, started, faults>>
  BY DEF Restart
<1>3. \A u \in Traces : Excused(u)'
  BY <1>1, <1>2 DEF ExcuseInv, RepeatsAreExcused, Excused
<1>4. faults' \in Nat /\ restarts' \in Nat /\ restarts + faults <= restarts' + faults'
  BY <1>1, <1>2
<1>. QED BY <1>2, <1>3, <1>4, ExcuseKept

LEMMA ExcuseStep == TypeOK /\ OpenInv /\ ExcuseInv /\ [Next]_vars => ExcuseInv'
<1>1. ASSUME ExcuseInv, UNCHANGED vars PROVE ExcuseInv'
  BY <1>1 DEF vars, durable, handler, bounds, ExcuseInv, RepeatsAreExcused, Excused
<1>. QED BY <1>1, ExcuseRequest, ExcuseContinue, ExcuseRestart DEF Next

\* On every route and path, with any number of restarts and failed writes: a tool
\* is called once for a trace, and once more at most for each of them.  Where the
\* process neither restarts nor loses a write, that is AtMostOnce.
THEOREM CallsAreCounted == Spec => []RepeatsAreExcused
<1>1. ExcuseInv => RepeatsAreExcused
  BY DEF ExcuseInv
<1>. QED BY <1>1, ExcuseInit, ExcuseStep, OpenCorrect, TypeCorrect, PTL DEF Spec

-----------------------------------------------------------------------------
(***************************************************************************)
(* Calls and decisions, for requests of the pipeline on every route.  A    *)
(* decision is never changed, and the trace endpoint, which executes       *)
(* whatever waits, finds a waiting context with a decided row only where   *)
(* something was disturbed (AwaitingIsListed).                             *)
(***************************************************************************)
LEMMA FollowInit == Init => FollowInv
BY DEF Init, FollowInv, CallsFollowDecisions

\* What was decided stays decided, and a disturbance is not forgotten.
LEMMA FollowsKept ==
    ASSUME TypeOK, OpenInv, [Next]_vars, NEW t \in Traces, Follows(t)
    PROVE  Follows(t)'
<1>1. queue \in [Traces -> Statuses] /\ queue[t] \in {"approved", "rejected"}
  BY DEF TypeOK, Follows
<1>2. queue'[t] = queue[t]
  <2>1. CASE Enqueue
    <3>1. queue[cur] = "none" /\ (queue' = queue \/ queue' = [queue EXCEPT ![cur] = "pending"])
      BY <2>1 DEF Enqueue, OpenInv
    <3>. QED BY <1>1, <3>1
  <2>2. CASE Save \/ ResumeMissing \/ ResumeRaises \/ ResumeTool \/ LogResult \/ ResumeReject
             \/ Restart \/ UNCHANGED vars
    BY <2>2 DEF Save, ResumeMissing, ResumeRaises, ResumeTool, LogResult, ResumeReject,
                Restart, vars, durable
  <2>3. ASSUME NEW u \in Traces, Request(u) PROVE queue'[t] = queue[t]
    BY <1>1, <2>3 DEF Request, RunEnds, RunAsksForTool, ApproveById, Reject, Decide, Refuse,
                      ApproveByTrace, durable, Updatable
  <2>. QED BY <2>1, <2>2, <2>3 DEF Next, Continue
<1>. QED BY <1>2, CountersGrow DEF Follows

LEMMA FollowStep ==
    ASSUME TypeOK, OpenInv, AwaitingIsListed, FollowInv, [Next]_vars
    PROVE  FollowInv'
<1>1. /\ queue \in [Traces -> Statuses] /\ (pc # "idle" => cur \in Traces)
      /\ invoked \in [Traces -> Nat]
  BY DEF TypeOK
<1>2. \A t \in Traces : invoked[t] > 0 => Follows(t)'
  BY FollowsKept DEF FollowInv, CallsFollowDecisions, Follows
<1>3. ASSUME invoked' = invoked, pc' # "resume" PROVE FollowInv'
  BY <1>2, <1>3 DEF FollowInv, CallsFollowDecisions, Follows
<1>4. ASSUME NEW t \in Traces, Request(t) PROVE FollowInv'
  <2>1. invoked' = invoked
    BY <1>4 DEF Request, RunEnds, RunAsksForTool, ApproveById, Reject, Decide, Refuse,
                ApproveByTrace, durable
  <2>2. ASSUME NEW o, NEW d, Decide(o, t, d), d = "approved" \/ o = "reject" PROVE FollowInv'
    <3>1. queue'[t] = d /\ cur' = t /\ op' = o
      BY <1>1, <2>2 DEF Decide, Begin
    <3>2. o = "reject" => o \notin ApproveRoutes
      BY RoutesAssumption
    <3>. QED BY <1>2, <2>1, <2>2, <3>1, <3>2 DEF FollowInv, CallsFollowDecisions, Follows
  <2>3. CASE ApproveByTrace(t)
    <3>1. /\ pc = "idle" /\ cur' = t /\ UNCHANGED <<cached, mem, db, restarts, faults>>
          /\ queue' = [queue EXCEPT ![t] = IF queue[t] = "pending" THEN "approved" ELSE queue[t]]
      BY <2>3 DEF ApproveByTrace, Begin, Updatable, bounds
    <3>2. Lookup(t)' = Lookup(t)
      BY <3>1 DEF Lookup
    <3>3. Lookup(t).state = "awaiting_approval" =>
             queue[t] = "pending" \/ (queue[t] # "none" /\ restarts + faults > 0)
      BY <3>1 DEF AwaitingIsListed
    <3>4. Lookup(t).state = "awaiting_approval" => Follows(t)'
      BY <1>1, <3>1, <3>3 DEF Follows, Statuses
    <3>. QED BY <1>2, <2>1, <3>1, <3>2, <3>4 DEF FollowInv, CallsFollowDecisions, Follows
  <2>4. CASE Refuse(t)
    BY <1>2, <2>4 DEF Refuse, durable, handler, bounds, FollowInv, CallsFollowDecisions,
                      Follows, Lookup
  <2>5. ASSUME NEW path \in Paths, RunAsksForTool(t, path) PROVE FollowInv'
    BY <1>3, <2>5 DEF RunAsksForTool, Begin, AfterRequest
  <2>6. ASSUME NEW end \in Terminal, RunEnds(t, end) PROVE FollowInv'
    BY <1>3, <2>6 DEF RunEnds, Begin
  <2>. QED BY <1>4, <2>2, <2>3, <2>4, <2>5, <2>6 DEF Request, ApproveById, Reject
<1>5. CASE ResumeTool
  <2>1. PICK r \in Results : Execute(cur, r)
    BY <1>5 DEF ResumeTool
  <2>2. cur \in Traces /\ Follows(cur)
    BY <1>1, <1>5 DEF ResumeTool, FollowInv
  <2>3. \A t \in Traces : invoked'[t] = invoked[t] \/ t = cur
    BY <1>1, <2>1 DEF Execute, CallHandler
  <2>4. Follows(cur) => \A t \in Traces : t = cur => Follows(t)'
    BY FollowsKept
  <2>5. \A t \in Traces : invoked'[t] > 0 => Follows(t)'
    BY <1>2, <2>2, <2>3, <2>4
  <2>. QED BY <1>5, <2>5 DEF ResumeTool, Goto, FollowInv, CallsFollowDecisions, Follows
<1>6. CASE Enqueue \/ Save \/ ResumeMissing \/ ResumeRaises \/ LogResult \/ ResumeReject \/ Restart
  BY <1>3, <1>6 DEF Enqueue, Save, ResumeMissing, ResumeRaises, LogResult, ResumeReject,
                    Restart, durable, Goto, Finish
<1>7. CASE UNCHANGED vars
  BY <1>2, <1>7 DEF vars, durable, handler, bounds, FollowInv, CallsFollowDecisions,
                    Follows, Lookup
<1>. QED BY <1>4, <1>5, <1>6, <1>7 DEF Next, Continue

\* Requests of the pipeline, on every route and whatever is disturbed: a tool is
\* called only after a human decided, and against a rejection only where a stop
\* or a failed write kept it from the context.
THEOREM DecisionsAreFollowed == ASSUME PipelineOnly PROVE Spec => []CallsFollowDecisions
<1>1. FollowInv => CallsFollowDecisions
  BY DEF FollowInv
<1>. QED BY <1>1, FollowInit, FollowStep, WaitingIsListed, OpenCorrect, TypeCorrect, PTL DEF Spec

-----------------------------------------------------------------------------
(***************************************************************************)
(* Counting: cached contexts apart from the store, pending rows without a  *)
(* context, and the calls that a limit allows.                             *)
(***************************************************************************)
\* A set that gains one element at most, where a counter gains one, and none
\* where it gains none, stays within the counter.
LEMMA StillCounted ==
    ASSUME NEW S, NEW U, NEW c, NEW n \in Nat, NEW m \in Nat, IsFiniteSet(S),
           Cardinality(S) <= n,
           \/ U \subseteq S /\ n <= m
           \/ U \subseteq S \cup {c} /\ m = n + 1
    PROVE  IsFiniteSet(U) /\ Cardinality(U) <= m
<1>1. Cardinality(S) \in Nat
  BY FS_CardinalityType
<1>2. CASE U \subseteq S /\ n <= m
  <2>1. IsFiniteSet(U) /\ Cardinality(U) <= Cardinality(S)
    BY <1>2, FS_Subset
  <2>2. Cardinality(U) \in Nat
    BY <2>1, FS_CardinalityType
  <2>. QED BY <1>1, <1>2, <2>1, <2>2
<1>3. CASE U \subseteq S \cup {c} /\ m = n + 1
  <2>1. IsFiniteSet(S \cup {c}) /\ Cardinality(S \cup {c}) <= Cardinality(S) + 1
    BY <1>1, FS_AddElement
  <2>2. IsFiniteSet(U) /\ Cardinality(U) <= Cardinality(S \cup {c})
    BY <1>3, <2>1, FS_Subset
  <2>3. Cardinality(U) \in Nat /\ Cardinality(S \cup {c}) \in Nat
    BY <2>1, <2>2, FS_CardinalityType
  <2>. QED BY <1>1, <1>3, <2>1, <2>2, <2>3
<1>. QED BY <1>2, <1>3

LEMMA ApartFinite == TypeOK => IsFiniteSet(Apart) /\ IsFiniteSet(Unbacked)
<1>. SUFFICES ASSUME TypeOK PROVE IsFiniteSet(Apart) /\ IsFiniteSet(Unbacked)
  OBVIOUS
<1>1. Apart \in SUBSET Traces /\ Unbacked \in SUBSET Traces
  BY DEF TypeOK, Apart, Unbacked
<1>. QED BY <1>1, TracesAssumption, FS_Subset

LEMMA ApartInit == Init => ApartInv /\ BackedInv
<1>. SUFFICES ASSUME Init PROVE ApartInv /\ BackedInv
  OBVIOUS
<1>1. Apart = {} /\ Unbacked = {}
  BY DEF Init, Apart, Unbacked
<1>2. Cardinality({}) = 0
  BY FS_EmptySet
<1>. QED BY <1>1, <1>2 DEF Init, ApartInv, BackedInv, PendingIsBacked

LEMMA ApartStep ==
    ASSUME TypeOK, OpenInv, ApartInv, [Next]_vars
    PROVE  ApartInv'
<1>1. /\ mem \in [Traces -> Context] /\ db \in [Traces -> Context] /\ cached \subseteq Traces
      /\ (pc # "idle" => cur \in Traces)
  BY DEF TypeOK
<1>2. faults \in Nat /\ faults' \in Nat /\ faults <= faults'
  BY CountersGrow
<1>3. ASSUME Apart' \subseteq Apart PROVE ApartInv'
  BY <1>2, <1>3, ApartFinite, StillCounted DEF ApartInv
<1>4. ASSUME NEW t \in Traces, Request(t) PROVE Apart' \subseteq Apart
  <2>1. CASE UNCHANGED <<mem, db, cached>> /\ pc = "idle"
    BY <2>1 DEF Apart
  <2>2. ASSUME NEW s \in {"save", "enqueue"}, NEW ctx, mem' = [mem EXCEPT ![t] = ctx],
               Begin("submit", t, s), UNCHANGED <<db, cached>>
        PROVE  Apart' \subseteq Apart
    BY <1>1, <2>2 DEF Apart, Begin
  <2>. QED BY <1>4, <2>1, <2>2
           DEF Request, RunEnds, RunAsksForTool, AfterRequest, ApproveById, Reject,
               Decide, Refuse, ApproveByTrace, durable, Begin
<1>5. CASE Enqueue \/ LogResult
  <2>1. /\ cur \in Traces /\ cur' = cur /\ pc' = "save" /\ pc \in {"enqueue", "log_result"}
        /\ UNCHANGED <<db, cached>>
        /\ \/ mem' = mem
           \/ mem' = [mem EXCEPT ![cur].state = "failed"]
           \/ mem' = [mem EXCEPT ![cur].state = "complete"]
    BY <1>1, <1>5 DEF Enqueue, LogResult, Goto
  <2>. QED BY <1>1, <2>1, <1>3 DEF Apart
\* What a handler puts into the cache before its save may differ from the row.
<1>6. ASSUME NEW ctx \in Context, pc = "resume", Put(cur, ctx), db' = db,
             \/ pc' \in {"log_result", "save"} /\ cur' = cur
             \/ pc' = "idle" /\ ctx = Lookup(cur)
      PROVE  ApartInv'
  <2>1. /\ mem'[cur] = ctx
        /\ \A u \in cached' \ {cur} : u \in cached /\ mem'[u] = mem[u]
    BY <1>1, <1>6, PutCache
  <2>2. \A u \in Apart' : u # cur => u \in Apart
    BY <1>6, <2>1 DEF Apart
  <2>3. cur \in Apart' => cur \in Apart
    BY <1>1, <1>6, <2>1 DEF Apart, Lookup
  <2>. QED BY <1>3, <2>2, <2>3
<1>7. CASE Save
  <2>1. /\ cur \in Traces /\ pc = "save" /\ pc' = "idle" /\ mem'[cur] = mem[cur]
        /\ \A u \in cached' \ {cur} : u \in cached /\ mem'[u] = mem[u]
    BY <1>1, <1>7, PutCache DEF Save, Finish
  <2>2. \A u \in Traces \ {cur} : db'[u] = db[u]
    BY <1>1, <1>7 DEF Save
  <2>3. Apart' \subseteq Apart \cup {cur}
    BY <2>1, <2>2, <1>1 DEF Apart, Save, Put
  <2>4. CASE NoFault /\ db' = [db EXCEPT ![cur] = mem[cur]]
    <3>1. cur \notin Apart'
      BY <1>1, <2>1, <2>4 DEF Apart
    <3>. QED BY <1>3, <2>3, <3>1
  <2>5. CASE Fault
    <3>1. faults' = faults + 1
      BY <2>5 DEF Fault
    <3>. QED BY <1>2, <2>3, <3>1, ApartFinite, StillCounted DEF ApartInv
  <2>. QED BY <1>7, <2>4, <2>5 DEF Save, Upsert
<1>8. CASE ResumeMissing
  BY <1>3, <1>8 DEF ResumeMissing, durable, Finish, Apart
<1>9. CASE ResumeRaises
  <2>1. Lookup(cur) \in Context
    BY <1>1, <1>9, LookupFacts DEF ResumeRaises
  <2>. QED BY <1>6, <1>9, <2>1 DEF ResumeRaises, Finish, durable
<1>10. CASE ResumeTool
  <2>1. PICK r \in Results : Put(cur, Ctx("executing_tool", r))
    BY <1>10 DEF ResumeTool
  <2>2. Ctx("executing_tool", r) \in Context
    BY ContextFacts DEF States
  <2>. QED BY <1>6, <1>10, <2>1, <2>2 DEF ResumeTool, Goto
<1>11. CASE ResumeReject
  <2>1. Lookup(cur) \in Context /\ Open(Lookup(cur))
    BY <1>1, <1>11, LookupFacts DEF ResumeReject, OpenInv
  <2>2. Put(cur, Rejected(Lookup(cur))) /\ pc' = "save" /\ cur' = cur /\ db' = db /\ pc = "resume"
    BY <1>11, <2>1 DEF ResumeReject, Open, Terminal, Goto, durable
  <2>3. Rejected(Lookup(cur)) \in Context
    BY ContextFacts DEF Rejected, States, Results
  <2>. QED BY <1>6, <2>2, <2>3
<1>12. CASE Restart
  BY <1>3, <1>12 DEF Restart, Apart
<1>13. CASE UNCHANGED vars
  BY <1>3, <1>13 DEF vars, durable, handler, Apart
<1>. QED BY <1>3, <1>4, <1>5, <1>7, <1>8, <1>9, <1>10, <1>11, <1>12, <1>13 DEF Next, Continue

\* On every route and through restarts: between requests the cache holds what is
\* stored, but for one context at most for each write that failed.
THEOREM CacheIsStored == Spec => []CacheMatchesStore
<1>1. ApartInv => CacheMatchesStore
  BY DEF ApartInv, Apart, CacheMatchesStore
<1>. QED BY <1>1, ApartInit, ApartStep, OpenCorrect, TypeCorrect, PTL DEF Spec

LEMMA BackedStep ==
    ASSUME TypeOK, OpenInv, BackedInv, [Next]_vars
    PROVE  BackedInv'
<1>1. /\ mem \in [Traces -> Context] /\ db \in [Traces -> Context]
      /\ queue \in [Traces -> Statuses] /\ (pc # "idle" => cur \in Traces)
  BY DEF TypeOK
<1>2. /\ restarts + faults \in Nat /\ restarts' + faults' \in Nat
      /\ restarts + faults <= restarts' + faults'
  BY CountersGrow
<1>3. ASSUME Unbacked' \subseteq Unbacked PROVE PendingIsBacked'
  BY <1>2, <1>3, ApartFinite, StillCounted DEF BackedInv, PendingIsBacked
\* The row of the handler in progress loses what should have backed it.
<1>4. ASSUME Unbacked' \subseteq Unbacked \cup {cur},
             restarts' + faults' = restarts + faults + 1
      PROVE  PendingIsBacked'
  BY <1>2, <1>4, ApartFinite, StillCounted DEF BackedInv, PendingIsBacked
<1>5. ASSUME NEW t \in Traces, Request(t) PROVE BackedInv'
  <2>1. db' = db /\ pc = "idle" /\ \A u \in Traces : queue'[u] = "pending" => queue[u] = "pending"
    BY <1>1, <1>5 DEF Request, RunEnds, RunAsksForTool, ApproveById, Reject, Decide, Refuse,
                      ApproveByTrace, durable, Updatable, Begin
  <2>2. Unbacked' \subseteq Unbacked
    BY <2>1 DEF Unbacked
  <2>3. ASSUME NEW end \in Terminal, RunEnds(t, end) PROVE Present(mem[cur])'
    BY <1>1, <2>3 DEF RunEnds, Begin, Present, Ctx, Terminal
  <2>4. ASSUME NEW path \in Paths, RunAsksForTool(t, path) PROVE Present(mem[cur])'
    BY <1>1, <2>4 DEF RunAsksForTool, Begin, Present, Ctx
  <2>5. pc' = "save" => Present(mem[cur])'
    BY <1>5, <2>1, <2>3, <2>4
       DEF Request, ApproveById, Reject, Decide, Refuse, ApproveByTrace, Begin, handler
  <2>. QED BY <1>3, <2>2, <2>5 DEF BackedInv
\* A handler that decided has no pending row; one that goes on has its own.
<1>6. ASSUME db' = db, queue' = queue, pc # "idle",
             queue[cur] # "pending" \/ (pc' # "idle" /\ cur' = cur),
             pc' = "save" => cur' = cur /\ Present(mem'[cur])
      PROVE  BackedInv'
  <2>1. Unbacked' \subseteq Unbacked
    BY <1>6 DEF Unbacked
  <2>. QED BY <1>3, <1>6, <2>1 DEF BackedInv
<1>7. CASE Enqueue
  <2>1. /\ cur \in Traces /\ db' = db /\ pc = "enqueue" /\ pc' = "save" /\ cur' = cur
        /\ \A u \in Traces \ {cur} : queue'[u] = queue[u]
    BY <1>1, <1>7 DEF Enqueue, Goto
  <2>2. Unbacked' \subseteq Unbacked
    BY <2>1 DEF Unbacked
  <2>3. mem[cur].state = "awaiting_approval"
    BY <1>7 DEF Enqueue, OpenInv
  <2>4. Present(mem[cur])'
    BY <1>1, <1>7, <2>1, <2>3 DEF Enqueue, Context, Present
  <2>. QED BY <1>3, <2>2, <2>4 DEF BackedInv
<1>8. CASE Save
  <2>1. cur \in Traces /\ queue' = queue /\ pc = "save" /\ pc' = "idle" /\ Present(mem[cur])
    BY <1>1, <1>8 DEF Save, Finish, BackedInv
  <2>2. CASE db' = [db EXCEPT ![cur] = mem[cur]]
    <3>1. Unbacked' \subseteq Unbacked
      BY <1>1, <2>1, <2>2 DEF Unbacked
    <3>. QED BY <1>3, <2>1, <3>1 DEF BackedInv
  <2>3. CASE Fault /\ db' = db
    <3>1. restarts' + faults' = restarts + faults + 1
      BY <1>8, <2>3, CountersGrow DEF Save, Fault
    <3>2. Unbacked' \subseteq Unbacked \cup {cur}
      BY <2>1, <2>3 DEF Unbacked
    <3>. QED BY <1>4, <2>1, <3>1, <3>2 DEF BackedInv
  <2>. QED BY <1>8, <2>2, <2>3 DEF Save, Upsert
<1>9. CASE ResumeMissing \/ ResumeRaises
  BY <1>6, <1>9 DEF ResumeMissing, ResumeRaises, OpenInv, durable, Finish
<1>10. CASE ResumeTool
  BY <1>6, <1>10 DEF ResumeTool, OpenInv, Goto
<1>11. CASE LogResult
  <2>1. cur \in Traces /\ mem'[cur].state = "complete"
    BY <1>1, <1>11 DEF LogResult, Context
  <2>. QED BY <1>6, <1>11, <2>1 DEF LogResult, OpenInv, Goto, Present
<1>12. CASE ResumeReject
  <2>1. Lookup(cur) \in Context /\ Open(Lookup(cur)) /\ cur \in Traces
    BY <1>1, <1>12, LookupFacts DEF ResumeReject, OpenInv
  <2>2. Put(cur, Rejected(Lookup(cur))) /\ cur' = cur /\ db' = db /\ queue' = queue
        /\ pc = "resume"
    BY <1>12, <2>1 DEF ResumeReject, Open, Terminal, Goto, durable
  <2>3. /\ Rejected(Lookup(cur)) \in Context /\ Rejected(Lookup(cur)).state = "complete"
    BY ContextFacts DEF Rejected, States, Results
  <2>4. mem'[cur].state = "complete"
    BY <2>1, <2>2, <2>3, PutFacts
  <2>. QED BY <1>6, <2>2, <2>4 DEF OpenInv, Present
\* evict_old spares what a pending row needs; the row of the handler that died
\* may be left alone.
<1>13. CASE Restart
  <2>1. queue' = queue /\ pc' = "idle" /\ restarts' + faults' = restarts + faults + 1
    BY <1>13, CountersGrow DEF Restart, Finish
  <2>2. \A u \in Traces : queue[u] = "pending" => db'[u] = db[u]
    BY <1>13 DEF Restart, Evictable, OpenInv, PendingStaysOpen, Terminal
  <2>3. Unbacked' \subseteq Unbacked \cup {cur}
    BY <2>1, <2>2 DEF Unbacked
  <2>. QED BY <1>4, <2>1, <2>3 DEF BackedInv
<1>14. CASE UNCHANGED vars
  <2>1. Unbacked' \subseteq Unbacked
    BY <1>14 DEF vars, durable, handler, Unbacked
  <2>. QED BY <1>3, <1>14, <2>1 DEF vars, handler, BackedInv
<1>. QED BY <1>5, <1>7, <1>8, <1>9, <1>10, <1>11, <1>12, <1>13, <1>14 DEF Next, Continue

\* On every route: a row that approvers see has a context to decide about, but for
\* one at most for each restart and each failed write.
THEOREM RowsAreBacked == Spec => []PendingIsBacked
<1>1. BackedInv => PendingIsBacked
  BY DEF BackedInv
<1>. QED BY <1>1, ApartInit, BackedStep, OpenCorrect, TypeCorrect, PTL DEF Spec

\* The calls of a tool and what is left of its limit, in the two ways in which
\* a step can change them.
LEMMA OneCall ==
    ASSUME NEW n \in Nat, NEW l \in Nat, NEW k \in Nat, NEW r \in Nat, k > 0,
           n + k <= l * (1 + r), r = 0 => n + k = l
    PROVE  (n + 1) + (k - 1) <= l * (1 + r) /\ (r = 0 => (n + 1) + (k - 1) = l)
<1>1. (n + 1) + (k - 1) = n + k
  OBVIOUS
<1>. QED BY <1>1

LEMMA FreshLimit ==
    ASSUME NEW n \in Nat, NEW l \in Nat, NEW k \in Nat, NEW r \in Nat,
           n + k <= l * (1 + r)
    PROVE  n + l <= l * (1 + (r + 1)) /\ r + 1 # 0
<1>1. l * (1 + (r + 1)) = l * (1 + r) + l
  OBVIOUS
<1>2. l * (1 + r) \in Nat
  OBVIOUS
<1>. QED BY <1>1, <1>2

Within(tool) ==
    LET spent == Cardinality(Calls(tool)) + remaining[tool] IN
    /\ IsFiniteSet(Calls(tool))
    /\ spent <= RateLimit * (1 + restarts)
    /\ restarts = 0 => spent = RateLimit

LimitInv == \A tool \in Allowed : Within(tool)

LEMMA LimitInit == Init => LimitInv
<1>. SUFFICES ASSUME Init, NEW tool \in Allowed PROVE Within(tool)
  BY DEF LimitInv
<1>1. \A t \in Traces : {t} \X (1..invoked[t]) = {}
  BY DEF Init
<1>2. Calls(tool) = {}
  BY <1>1 DEF Calls
<1>3. IsFiniteSet(Calls(tool)) /\ Cardinality(Calls(tool)) = 0 /\ remaining[tool] = RateLimit
  BY <1>2, FS_EmptySet DEF Init
<1>. QED BY <1>3, BoundsAssumption DEF Within, Init

\* A call adds itself to the calls of its tool, and to no other's.
LEMMA CallsAfter ==
    ASSUME TypeOK, NEW t \in Traces, NEW tool, invoked' = [invoked EXCEPT ![t] = @ + 1]
    PROVE  /\ CallOf[t].tool = tool =>
                 /\ Calls(tool)' = Calls(tool) \cup {<<t, invoked[t] + 1>>}
                 /\ <<t, invoked[t] + 1>> \notin Calls(tool)
           /\ CallOf[t].tool # tool => Calls(tool)' = Calls(tool)
<1>. DEFINE of == {u \in Traces : CallOf[u].tool = tool}
<1>1. \A u \in Traces : invoked[u] \in Nat
  BY DEF TypeOK
<1>2. invoked'[t] = invoked[t] + 1 /\ \A u \in Traces \ {t} : invoked'[u] = invoked[u]
  BY DEF TypeOK
<1>3. 1..(invoked[t] + 1) = (1..invoked[t]) \cup {invoked[t] + 1}
  BY <1>1
<1>4. \A x : x \in Calls(tool) <=> \E u \in of : \E i \in 1..invoked[u] : x = <<u, i>>
  BY DEF Calls
<1>5. \A x : x \in Calls(tool)' <=> \E u \in of : \E i \in 1..invoked'[u] : x = <<u, i>>
  BY DEF Calls
<1>6. ASSUME t \notin of PROVE Calls(tool)' = Calls(tool)
  <2>1. \A u \in of : invoked'[u] = invoked[u]
    BY <1>2, <1>6
  <2>2. ASSUME NEW x PROVE x \in Calls(tool)' <=> x \in Calls(tool)
    BY <2>1, <1>4, <1>5
  <2>. QED BY <2>2
<1>7. ASSUME t \in of
      PROVE  /\ Calls(tool)' = Calls(tool) \cup {<<t, invoked[t] + 1>>}
             /\ <<t, invoked[t] + 1>> \notin Calls(tool)
  <2>1. ASSUME NEW x PROVE x \in Calls(tool)' <=> x \in Calls(tool) \cup {<<t, invoked[t] + 1>>}
    BY <1>2, <1>3, <1>4, <1>5, <1>7
  <2>2. invoked[t] + 1 \notin 1..invoked[t]
    BY <1>1
  <2>. QED BY <2>1, <2>2, <1>4
<1>. QED BY <1>6, <1>7

LEMMA LimitStep ==
    ASSUME TypeOK, LimitInv, [Next]_vars
    PROVE  LimitInv'
<1>. SUFFICES ASSUME NEW tool \in Allowed PROVE Within(tool)'
  BY DEF LimitInv
<1>1. /\ Within(tool) /\ restarts \in Nat /\ RateLimit \in Nat
      /\ remaining \in [Allowed -> 0..RateLimit] /\ (pc # "idle" => cur \in Traces)
  BY BoundsAssumption DEF TypeOK, LimitInv
<1>2. Cardinality(Calls(tool)) \in Nat /\ remaining[tool] \in Nat
  BY <1>1, FS_CardinalityType DEF Within
<1>3. ASSUME invoked' = invoked, remaining' = remaining, restarts' = restarts
      PROVE  Within(tool)'
  <2>1. Calls(tool)' = Calls(tool)
    BY <1>3 DEF Calls
  <2>. QED BY <1>1, <1>3, <2>1 DEF Within
<1>4. CASE ResumeTool
  <2>1. PICK r \in Results : Execute(cur, r)
    BY <1>4 DEF ResumeTool
  <2>2. cur \in Traces /\ restarts' = restarts
    BY <1>1, <1>4 DEF ResumeTool, bounds
  <2>3. CASE UNCHANGED <<invoked, done, agent>>
    BY <1>3, <2>2, <2>3 DEF agent
  <2>4. CASE ~Denied(cur) /\ CallHandler(cur, r)
    <3>. DEFINE u == CallOf[cur].tool
    <3>1. u \in Allowed /\ remaining[u] > 0
      BY <1>1, <2>4 DEF Denied, Left
    <3>2. /\ remaining' = [remaining EXCEPT ![u] = @ - 1]
          /\ invoked' = [invoked EXCEPT ![cur] = @ + 1]
      BY <2>4 DEF CallHandler
    <3>3. CASE u # tool
      <4>1. Calls(tool)' = Calls(tool)
        BY <2>2, <3>2, <3>3, CallsAfter
      <4>2. remaining'[tool] = remaining[tool]
        BY <1>1, <3>2, <3>3
      <4>. QED BY <1>1, <2>2, <4>1, <4>2 DEF Within
    <3>4. CASE u = tool
      <4>. PICK x : x = <<cur, invoked[cur] + 1>>
        OBVIOUS
      <4>1. Calls(tool)' = Calls(tool) \cup {x} /\ x \notin Calls(tool)
        BY <2>2, <3>2, <3>4, CallsAfter
      <4>2. /\ IsFiniteSet(Calls(tool)')
            /\ Cardinality(Calls(tool)') = Cardinality(Calls(tool)) + 1
        BY <1>1, <4>1, FS_AddElement DEF Within
      <4>3. remaining'[tool] = remaining[tool] - 1
        BY <1>1, <3>2, <3>4
      <4>4. /\ (Cardinality(Calls(tool)) + 1) + (remaining[tool] - 1) <= RateLimit * (1 + restarts)
            /\ restarts = 0 =>
                  (Cardinality(Calls(tool)) + 1) + (remaining[tool] - 1) = RateLimit
        BY <1>1, <1>2, <3>1, <3>4, OneCall DEF Within
      <4>. QED BY <2>2, <4>2, <4>3, <4>4 DEF Within
    <3>. QED BY <3>3, <3>4
  <2>. QED BY <2>1, <2>3, <2>4 DEF Execute
<1>5. CASE Restart
  <2>1. /\ remaining'[tool] = RateLimit /\ restarts' = restarts + 1 /\ invoked' = invoked
    BY <1>5 DEF Restart
  <2>2. Calls(tool)' = Calls(tool)
    BY <2>1 DEF Calls
  <2>3. /\ Cardinality(Calls(tool)) + RateLimit <= RateLimit * (1 + (restarts + 1))
        /\ restarts + 1 # 0
    BY <1>1, <1>2, FreshLimit DEF Within
  <2>. QED BY <1>1, <2>1, <2>2, <2>3 DEF Within
<1>6. ASSUME NEW t \in Traces, Request(t) PROVE Within(tool)'
  BY <1>3, <1>6 DEF Request, RunEnds, RunAsksForTool, ApproveById, Reject, Decide, Refuse,
                    ApproveByTrace, durable, agent, bounds
<1>7. CASE Enqueue \/ Save \/ ResumeMissing \/ ResumeRaises \/ LogResult \/ ResumeReject
  BY <1>3, <1>7 DEF Enqueue, Save, ResumeMissing, ResumeRaises, LogResult, ResumeReject,
                    durable, agent, bounds
<1>8. CASE UNCHANGED vars
  BY <1>3, <1>8 DEF vars, durable, agent, bounds
<1>. QED BY <1>4, <1>5, <1>6, <1>7, <1>8 DEF Next, Continue

\* On every route: no process calls a tool more often than its limit allows, a
\* call that fails counts like one that succeeds, and nothing else does.
THEOREM LimitHolds == Spec => []LimitIsKept
<1>1. LimitInv => LimitIsKept
  BY DEF LimitInv, Within, LimitIsKept
<1>. QED BY <1>1, LimitInit, LimitStep, TypeCorrect, PTL DEF Spec
=============================================================================
