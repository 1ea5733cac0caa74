# TLA+ models of the legal RAG service

A verification project kept beside the code of `Secured_Rag` (directory `src/`):
TLA+ modules translated from the source, TLC configurations that check them on
small instances, and TLAPS proofs of the properties that matter most.
`PROJECT.json` names, for every definition, the source lines it stands for.

## 1. The system

One Python process (`main.py`, FastAPI on uvicorn) with one event loop; one
SQLite file (`settings.sqlite_db_path`) with every table named below; a Chroma
vector store; language models, embeddings and web search behind HTTP; a React
client (`ui/src`) that calls the REST API.

Handlers are coroutines. They leave the loop only where they really wait: the
router's model call, `asyncio.to_thread` around the classifier, analysis,
validator and query-embedding calls, the `gather` of the chunk scans, the web
search. Every SQLite and Chroma call is synchronous, so a stretch of code
between two such waits is atomic for other handlers. It is not atomic for a
crash or a failed write, which can fall between any two commits.

### Components

| Component | Source | State | Operations | Module |
|---|---|---|---|---|
| approval gate | `approval/queue.py`, `approval/routes.py` | table `approval_queue` | enqueue; approve / reject by id (form, JSON); approve by trace | `ApprovalFlow`, abstract: `HumanGate` |
| tool-exec agent | `agents/tool_exec_agent.py` | rate limits, idempotency keys (memory) | execute | `ApprovalFlow` |
| context store | `orchestrator/context_store.py` | table `pipeline_contexts`, LRU cache | save, get, evict_old | `ApprovalFlow` |
| pipeline | `orchestrator/pipeline.py`, `trust_boundary.py` | one `PipelineContext` per run, audit rows | run and its stages | `Pipeline`, abstract: `GuardedAnswer` |
| agents | `agents/*.py`, `orchestrator/query_router.py` | none | route, retrieve, search, scan, analyze, validate | `Pipeline` |
| query endpoint, cache | `main.py`, `orchestrator/query_cache.py` | cache (memory) | submit_query; get, set, expiry | `QueryService`, `Pipeline` |
| chat sessions | `orchestrator/session_store.py` | tables `chat_sessions`, `chat_messages` | create, delete, add_message | `QueryService` |
| vector store | `vectorstore/store.py` | Chroma collection | add_chunks, query, delete_document | `QueryService`, `Ingestion` |
| ingestion | `vectorstore/ingest.py`, `/ingest` routes | none of its own | chunk, scan, embed, add | `Ingestion` |
| auth server | `auth/store.py`, `auth/routes.py` | tables `users`, `revoked_tokens` | signup, login, logout, me; admin change of matters | `SignIn`, `QueryService` |
| sign-in state of the browser | `ui/src/context/AuthContext.tsx`, `ui/src/lib/api.ts` | user, token, isLoading per tab; localStorage | automatic sign-in, login, signup, logout, 401 handling | `SignIn` |
| chat panel | `ui/src/App.tsx`, `ui/src/components/ConversationalChat.tsx` | sessions, active session, messages, draft, flags | open, create, delete, send, inline approve / reject | `ChatClient` |
| audit log and trace view | `audit/store.py`, `audit/trace.py` | table `audit_log` | append; get_trace, reconstruct | appends in `Pipeline`, `ApprovalFlow`; view in `AuditTrace` |
| prompts, tools, extractor, schemas, settings, other panels, old page, scripts | see `PROJECT.json` | none | pure, or forms over the API | no |

### How they interact

`submit_query` looks in the cache, awaits `Pipeline.run`, saves the context,
records the question and the answer in the session, fills the cache and
answers. A run that wants a tool enqueues a request and ends in
`AWAITING_APPROVAL`; nothing but a later approve or reject route resumes it, and
that route finds it through the context store. The routes decide the row, run
the tool, write the audit record and save the context, each with its own
commit. The browser tabs share nothing with each other but the stored token.

### What makes each part correct, and what is hard

- *Approval*: a tool is called only after a human approved it, once, and never
  after a rejection; a pending request stays executable; calls are within the
  limit. Hard because the row, the context, its cached object and the idempotency
  keys change at different moments, two of the four are lost at a restart, and three
  routes reach the tool.
- *Pipeline*: nothing the injection scan blocked, nothing of a foreign matter
  and nothing that fails validation may complete, be cached or ask for a tool.
  Hard because three paths share stages with early returns, every awaited call
  may fail, a failed scan is treated as a merely suspicious one, and a model's
  verdict is read twice, as it came and as it was parsed.
- *Queries*: answers are those of the asking user under the matters of the
  moment; conversations stay in order; deleted stays deleted. Hard because
  everything may change during the awaits.
- *Ingestion*: no text is lost and no pattern is hidden by cutting. Hard at the
  boundaries: the separator, the overlap, blank chunks, long paragraphs.
- *Sign-in*: the profile shown belongs to the token it is shown with, and
  sign-in comes to rest with the user signed in. Hard because each answer starts
  an effect that sends requests, and other tabs and logouts interfere.
- *Audit trace*: what the view says of a run is true of it, also from a log with
  holes. Hard because it guesses what is missing.
- *Chat*: the window shows the active session once everything has arrived, sends
  a text once, and does not stay busy. Hard because every handler goes on after
  an await with variables of the time of the click.

`PROJECT.json` lists the hazards one by one at their lines, with the properties
that cover them or the reason why none does.

## 2. The plan

| Step | Modules | State |
|---|---|---|
| 1 | `HumanGate`, `ApprovalFlow`: the gate, execution, restarts, faults; refinement | done, proved |
| 2 | `GuardedAnswer`, `Pipeline`: one run; refinement | done, proved except liveness |
| 3 | `AnswerService`, `QueryService`: concurrent queries over cache, sessions, documents; refinement | done, proved except liveness |
| 4 | `Ingestion`: chunker and scan | done, proved |
| 5 | `SignIn`: auth server and tabs | done, proved except liveness |
| 6 | `AuditTrace`: the view of `audit/trace.py` over the log that `Pipeline` writes | done, proved |
| 7 | `ChatClient`: the chat panel over the session API, with late, lost and refused answers, double sends and the inline approval | done, proved except liveness |

What would come next, in this order: the exact LRU order of the context cache
and the fields a reloaded context has lost, as a refinement of the any-eviction
store of `ApprovalFlow`; a composition of `QueryService` with the approval
routes, so that a query, its approval and the later `/result` are one behaviour.
Executions that overlap inside a tool handler are not on the list: neither of the
two registered handlers suspends, so the program cannot do it.

## 3. The modules

### ApprovalFlow (abstract: HumanGate)

| Model | Code |
|---|---|
| `queue[t]` | the row of trace `t` in `approval_queue`, or none |
| `db[t]`, `mem[t]`, `cached` | the row in `pipeline_contexts`, the cached object, the keys of the LRU cache; of a context only state and tool result |
| `seen`, `remaining` | `_idempotency_keys`, `_rate_limits` |
| `audit` | traces whose tool result was logged |
| `pc`, `op`, `cur`, `reply` | the handler in progress, its next durable commit, its trace, its answer |
| `invoked`, `done`, `started`, `restarts`, `faults` | history: handler calls, normal returns, runs begun; the two bounded counters |

A handler is cut where it commits, because only a crash can come between: the
steps are `enqueue`, `resume` (the tool call), `log_result`, `save`. `Restart`
may happen at any of them: it empties memory and runs `evict_old`, which may
delete any finished rows. A write may fail (`Fault`). One handler runs at
a time: between the decision and the save no handler suspends, since the
registered tools do not. The cache evicts *any* other entry, which covers every
LRU order. `RunAsksForTool` stands for a whole pipeline run that wants a tool
(detailed in `Pipeline`), `RunEnds` for one that does not.

The rules of the gate (`GatedExecution`, `AtMostOnce`, `HumanGate`) hold by id,
and with the trace endpoint only for pipeline requests while nothing is disturbed. In
general the module says what is left of them, and counts: a call
follows the decision unless a rejection did not reach the context
(`CallsFollowDecisions`); a repeated call (`RepeatsAreExcused`), a pending row without
context (`PendingIsBacked`), a cached context unlike its row (`CacheMatchesStore`) each
cost a restart or a failed write, and without one what waits is listed
(`AwaitingIsListed`). `LimitIsKept` is the accounting of the rate limit, per process life.

`HumanGate` says only: ask, decide a pending request once, run once and only
after approval, record truthfully, forget old records. The refinement maps
`gate`, `runs` and `told` to `queue`, `invoked` and the stored results.

### Pipeline (abstract: GuardedAnswer)

`pc` is the awaited call the run is in; `state` and `error` are those of the
context; `retrieved`, `scans`, `clean`, `analysis`, `verdict`, `request` its
data; `log` and `audit` the envelopes in memory and in the table; `queued`,
`cacheable`, `reply` what the run leaves behind. `AllowedTransitions` is
the code's table; no action refuses a move that is not in it, as `transition_to`
would, and `FollowsGraph` shows that none is tried, but for the forced FAILED of the
exception handler. Texts are of four kinds, by what the pattern scan finds
(nothing, one signal, several, unicode), and a model's reply is one of a few
outcomes, failure and nonsense included. The validator's flags arrive as JSON:
`verdict.trust` is decided on the values as they came (`Truthy`), the two Booleans are what pydantic
makes of them (`AsBool`), and the text "false" is true for the one and FALSE for the
other. Only the stores and the parsing of a search result raise (`Raise`): the agents
catch what their model calls throw. Which of the permitted chunks `top_k`
picks is any subset. The wiring is that of `main.py`: all agents present, the
gate configured. A crash needs no action: a run writes nothing durable before its
end but audit records and the approval row, so stopping is crashing.

`GuardedAnswer` promises: a draft cites only cleared material and is judged once; a run
completes unless the judgement refused the draft, be it trusting or doubting, and
waits for a tool only after a trusting one. *Doubted* is a verdict whose flags pass
and whose trust level does not.

### AuditTrace (extends Pipeline)

`Reconstruct` folds the audit log of a run into what `GET /audit/trace/{id}`
shows: verdict, risk, trust and path. `Views` are the answers it may give at the moment,
during the run, after it or after a crash: a set, because the log is a set in
`Pipeline` and the last verdict in its order is any of those in it, and because
the tool that a request names is not kept there. `TraceInv` says that each
envelope of the log says of the run what the context says.

### QueryService (abstract: AnswerService)

`runs[q]` is one request to `/query` and its stage; `cache` a set of entries
with key (user, matters, normalised text); `owner` and `messages` the two
chat tables, `deleted` the sessions somebody deleted; `docs`, `matters` the documents and the permissions. Requests
interleave at the router, retrieval and answering awaits; session
deletion, uploads and deletions of documents, changes of matters, expiry of
entries and restarts come in between. A write error makes the request fail with
what was written so far; a crash is `Restart`. `/query` takes any
session id, that of another user's session or of none too, and so does `Submit`; only
the ids of sessions still to be created are unguessable. A session is deleted by its
owner or by one of the `Auditors` (admins and Compliance Auditors).

`AnswerService` says what `/query` promises, without a cache, stages or documents
that come and go: a request is made once with the matters its user may read at
that moment; it is answered from documents of those matters, or with an answer
that was given before to the same user, with the same matters, for the same
question; a new answer and its question enter the conversation together, in the
step that gives it; only deletion erases. The refinement maps `asked[q]` to the
outside of `runs[q]` (`Outside`: what was asked, and whether it is open, answered,
failed or lost), `may`, `said` and `erased` to `matters`, `messages` and `deleted`.

### Ingestion

The chunker's string is always a stretch of the text, because it joins
paragraphs with the separator it split them at. So a chunk is an interval
`[lo, hi)`, a character its position, `ink` the positions of printable
characters (all `strip` looks at), and `planted` the interval of a pattern
somebody put into the text. One action per paragraph, one each for the scan,
the embedding call and the store. Refused uploads and failures of embedding or
store end with nothing stored. `Kept` is the moment from which a document can be found:
its ingestion is done, or something of it is stored, however the request ended.
Page and offset labels are left out.

### SignIn

Server: `registered`, `tokens` (a sequence of the accounts they were issued to;
a token is its index), `revoked`, `expired`. Browser: `user`, `token`,
`loading`, `gaveUp` per tab, and the shared `stored` token. `calls` are the
requests in flight; a request is handled in one step and delivered in another, so
answers arrive in any order, or are lost. Delivery runs the whole continuation
in `AuthContext`, including the effect that a change of `token` starts.
Passwords are right or wrong; the demo account has the password the page uses.

### ChatClient

Server: `rows` (sessions in the order of their last update), `owner`, `history`.
App: `list`, `active`. Panel: `shown`, `draft`, `submitting`, `executing`.
`calls` are the requests under way; each carries what its handler closed over
(`seen`, `was`: the list and active session of the click; `live`: whether its
panel is still mounted) and what its `finally` will do (`then`). A request is
handled in one step (`Handle`), refused or lost (`Refuse`, `Lose`), and its
answer delivered in another (`Deliver`), which runs the handler up to its next
await. An inline rejection reads the pending rows and posts; the panel changes nothing
between the two, so they are one request, which is refused as well where no row
matches. A text is a number; `runs[t]` counts how often the pipeline ran it, and
`blind` are the texts that were sent while no session was active. `disturbed` is
history: it says that something happened after which the window may legitimately
be behind the server (an answer lost or overtaken, or the user acting before
what he asked for has come). A query is one step of the server here; `QueryService`
and `ApprovalFlow` open it up.

## 4. The runs

| Run | Question | Checks |
|---|---|---|
| `approval_ids` | approval by id, through restarts, failed writes and evictions | `TypeOK`, `DuplicateWasExecuted`, `PendingStaysOpen`, `LimitIsKept`, refines `HumanGate` |
| `approval_trace` | all routes mixed, through restarts and failed writes | `CallsFollowDecisions`, `RepeatsAreExcused`, `PendingIsBacked`, `AwaitingIsListed`, `CacheMatchesStore`, `DecidedIsSettled` (liveness) |
| `approval_orphan` | *violated* `GatedExecution`: a request without a row | |
| `approval_twice` | *violated* `AtMostOnce`: restart after the call | |
| `pipeline_base` | the run under `flag_in_answer`, with scans that raise and audit writes that fail, and its trace | `TypeOK`, `CitedIsCleared`, `BlockedTextStaysOut`, `EndIsValidated`, `AuditJustifiesRequest`, `SuspiciousIsFlagged`, `TraceTellsRisk`, `TraceTellsPath`, `FollowsGraph`, `RunEnds` (liveness), refines `GuardedAnswer` |
| `pipeline_shown` | *violated* `ShownIsValidated`: a draft with citations that the validator refused | |
| `pipeline_attempts` | *violated* `AttemptsAreVisible`: the blocked query | |
| `query_shared` | concurrent queries | `TypeOK`, `AnswersAreAuthorized`, `TurnsStayTogether`, `RunIsRecorded`, refines `AnswerService` |
| `query_deleted` | *violated* `DeletedStaysDeleted`: a query in flight | |
| `ingest_chunks` | the chunker at its boundaries | `TypeOK`, `NothingIsLost`, `PatternsAreSeen`, `OversizeIsAParagraph` |
| `signin_tabs` | two tabs and a server | `TypeOK`, `ProfileIsOwn`, `SignedInAtRest`, `NewTokenIsAccepted`, `TabsComeToRest` (liveness) |
| `chat_window` | one window, its user and the network | `TypeOK`, `RestIsCoherent`, `SentOnce`, `BusyEnds` (liveness) |

Every property of a passing run has a mutant in `PROJECT.json`: a plausible
slip in one mapped definition under which TLC finds the property violated.

### Bounds, and why they are enough

- `approval_ids`: three traces, two of which repeat the same call, rate limit 2,
  so that the limit is met both by calls and by a duplicate; one cached context,
  so every second access is an eviction; one restart and one failed write, which
  combine with each other (1.0 million states). The properties relate one or two
  traces, and the theorems below drop the bounds.
- `approval_trace`: two traces that propose the same call, every route, one cached
  context, two restarts and two failed writes at any commits (1.0 million states), so
  that each bound of the form "at most as often as something was disturbed" is met
  and could be passed. Requests are of the pipeline path: those of the others have no
  row, which is what `approval_orphan` shows.
- `pipeline_*`: one chunk per kind that the scan treats differently, one in the
  second matter, one web chunk, every permission set and every classifier,
  analysis and validator reply (582 thousand states). The policy is
  `flag_in_answer`, which lets a suspicious chunk do most; the theorems hold under
  every policy. The router's record, the scans and the retrieval are lost from
  the log in every combination.
- `query_shared`: two users, one session, one matter, one document, two
  spellings of one query, two requests: the smallest with a hit by another
  spelling, a miss by another user, a change of matters between set and get, and
  two turns in one session (607 thousand states). The two requests may be exchanged, so TLC
  takes them up to symmetry: all properties of the run are safety properties, the
  refinement included, and none names a request.
- `ingest_chunks`: chunks of 6 with overlap 3 and documents of up to 3
  paragraphs of 0 to 3 characters, each printable or blank: short paragraphs
  that fill a chunk, paragraphs too long to follow the overlap, a chunk closed
  while shorter than the overlap, blank chunks at both ends, and up to two cuts
  (164 thousand states).
- `signin_tabs`: two tabs, the demo account and another, two requests in flight
  per tab and two steps by users, clock or network (1.3 million states). Two
  turns are a login in one tab and a loss, logout or expiry in the other.
- `chat_window`: two sessions, one of them from earlier or none; one text; three
  things the user does besides typing, two requests under way and one lost or
  refused answer (2.4 million states). Two requests are the least that can
  overtake each other; two sessions the least that can be confused; a double
  send takes two turns and a deletion in between the third. One answer that is
  lost leaves every handler at each of its awaits.

### Fairness, and why the code justifies it

- `ApprovalFlow`: weak fairness of `Continue` only: a handler the event loop has
  begun runs to its end. Nobody is obliged to send a request.
- `Pipeline`: weak fairness of `Next`: every awaited call returns or raises. The
  web search client has a timeout of 15 seconds; for the model and embedding
  calls the code sets none, so this is an assumption on the Mistral client. A request of
  `QueryService` waits for nothing else, so it states no liveness of its own.
- `SignIn`: weak fairness of `Network`: requests in flight are handled and
  answered, or rejected by the browser. Users do nothing for ever:
  `MaxTurns` bounds them, which is what "when the users stop" means in
  `TabsComeToRest`.
- `ChatClient`: the same for its `Network`. `fetch` has no timeout of its own; a
  connection that neither answers nor breaks is what the assumption excludes.

`CHECK_DEADLOCK FALSE` stands in the `Pipeline` runs, where one run ends, and in
`chat_window`, whose user has only so many turns. The other modules state where they rest (`Answered`, `AtRest`, an idle process).

## 5. The proofs

All proofs hold for every value of the constants that satisfies the named
assumptions of the module; the bounds of section 4 are constants, so the
theorems drop them.

| Module | Theorem | States |
|---|---|---|
| `ApprovalFlowProofs` | `TypeCorrect` | `TypeOK`, all routes |
| | `DuplicatesAreTrue`, `PendingIsOpen` | `DuplicateWasExecuted`, `PendingStaysOpen`; all routes, through restarts and failed writes |
| | `LimitHolds`, `RowsAreBacked`, `CacheIsStored`, `CallsAreCounted` | `LimitIsKept`, `PendingIsBacked`, `CacheMatchesStore`, `RepeatsAreExcused`; all routes and paths, through restarts and failed writes |
| | `WaitingIsListed`, `DecisionsAreFollowed` | `AwaitingIsListed`, `CallsFollowDecisions`; all routes, pipeline requests (`PipelineOnly`), through restarts and failed writes |
| | `ToolIsGated`, `CallsAtMostOnce` | `GatedExecution`, `AtMostOnce`; under `ById \/ Undisturbed` |
| | `FlowImplementsGate` | `Spec => Gate!Spec`; under `ById \/ Undisturbed` |
| `PipelineProofs` | `TypeCorrect`, `DraftsAreCleared`, `BlockedIsNeverCited`, `EndsAreValidated`, `RequestsAreJustified`, `SuspiciousDraftsWarn`, `StatesFollowGraph` | the safety properties of `pipeline_base`, under every policy |
| | `RunKeepsPromise` | `Spec => Promise!Spec` |
| `AuditTraceProofs` | `TraceRiskIsTrue`, `TracePathIsTrue` | `TraceTellsRisk`, `TraceTellsPath` |
| `QueryServiceProofs` | `TypeCorrect`, `AnswersRespectMatters`, `TurnsAreTogether`, `AnsweredIsRecorded` | `TypeOK`, `AnswersAreAuthorized`, `TurnsStayTogether`, `RunIsRecorded` |
| | `QueryImplementsService` | `Spec => Service!Spec` |
| `IngestionProofs` | `TypeCorrect`, `TextIsKept`, `NoPatternIsCut`, `OversizeNeedsLongParagraph` | every document, every size of chunk and overlap |
| `SignInProofs` | `TypeCorrect`, `ShownIsOwn`, `NewTokensWork`, `RestIsSignedIn` | any number of tabs and requests |
| `ChatClientProofs` | `TextsAreSentOnce` | `SentOnce`; any number of sessions, texts, turns, requests and faults |
| `ChatWindowProofs` | `ChatTypeCorrect`, `RestShowsTheSession` | `TypeOK`, `RestIsCoherent`; likewise |
| | `NoFlagIsStuck` | `RestIsIdle`; likewise |

**The gate.** Two hypotheses make it hold. `ById`: no request is approved through
the trace endpoint; then the process may restart anywhere and writes may fail.
`Undisturbed`: any endpoint, but no restart, no failed write, and requests of the
pipeline only. The gate is not inductive. Between the decision and the
save, the handler alone knows that it may execute: `HandlerInv` says which commit
it is at, that the row is approved and that the tool has not run. `ContextInv`
relates each stored and cached context to the row and to the number of calls; in
particular a context that waits belongs to a row that does not say more than it.
`FreshInv` covers traces whose run has not ended. The trace route executes
whatever waits, so its step keeps `HandlerInv` only while what waits is listed:
`AwaitingIsListed`, proved below, which under `Undisturbed` leaves a pending row only.
With neither hypothesis the gate fails, hence the violated runs.

**Approval on every route.** What survives the trace route needs weaker
invariants, each proved apart. `OpenInv`: a handler that decides or executes has left
its row no longer pending, so a pending row's context is untouched. `DupInv`: every
key the agent has seen has a normal return behind it. `WaitInv`: of the pipeline's
requests, a context that waits has a row; until the first stop or failed write only the
handler in progress is ahead of the store (`MatchInv`), and what waits is listed or is
the one whose decision is being carried out (`ListInv`). From it `FollowInv`: a handler
about to call a tool was told to, or finds a context that a rejection did not reach.

**What a disturbance costs.** `ApartInv` and `BackedInv` count traces rather than
exclude them: the set of cached contexts unlike their rows (`Apart`), and of pending rows
without a context (`Unbacked`), grows by one trace at most, in the step that fails or
stops, and the handler in progress is not yet in it. `LimitInv` counts calls: the calls
of a tool and what is left of its limit add up to the limit of this process life and at
most one limit for each life before; a call is a new element of `Calls`, so the proof is
by cardinality, without a sum.

**How often a tool runs.** `AtMostOnce` fails on the trace route (`approval_twice`),
and `RepeatsAreExcused` says by how much: never more calls than one plus the
restarts and failed writes so far, on every route and path. It needs no
hypothesis, and gives `AtMostOnce` back where nothing disturbs the process.
`ExcuseInv` adds why: a context that waits, in the cache or in the database, may
be executed once more, so its calls are one below the bound (`Excused`). The one
exception is the context just executed, whose stored row waits until the save;
if that save fails or the process stops before it, this is what excuses the next
call.

**One run.** `IInv` follows the data down the stages: what was retrieved may be
read (`RetrievedInv`), what is clean was retrieved and scanned (`CleanInv`),
draft, verdict and request rest on what is clean (`DraftInv`), the waiting point
determines the state (`StateInv`), and every envelope the request will rest on
is in the log (`LogInv`). `EndIsValidated` holds whatever the flags of a verdict were as
JSON: completing needs the two parsed flags to pass, asking needs the trust level as
well, and without it only a verdict of the model (`notes = "llm"`) gets that far.
`BlockedTextStaysOut` leaves one exception, and so does
its theorem: when a scan raises, `gather` turns a text the patterns would block
into a merely suspicious one (`pipeline.py:323`), and a citation of it is
possible.

**The trace.** `TraceInv` ties each envelope of the message log to the context:
the router's record to the path (`RoutedInv`), the retrieval to what was
retrieved (`FoundInv`), each scan to the verdict of its chunk, with none missing
(`ScannedInv`). The audit log is a subset of the message log (`TypeOK`), so what
the view folds out of it is true, and complete when nothing was lost.

**Queries.** An answer is authorised because its cache entry is under the
asker's key (`CacheInv`: what an entry cites lies within the matters of its
key) or because the run found only what its scope, read once, allows
(`FoundInv`). Changes of matters do not touch either. For the conversation,
`TurnInv` adds to the two properties that every message belongs to a request
that has ended: so nothing is ever added to a turn that is there.
For the refinement, `GivenInv` says that every cached response was the answer of
the request it was made for; `DoneStays`, that no step changes a request once it is
answered, so that the response stays given. A hit therefore repeats the answer of
a request that still shows it, though the entry, its documents and the session
may be gone by then. The stages of a run, the cache, sessions being created and
documents are stutters.

**Chunks.** `WindowInv` says that any window no longer than the overlap plus one
character, lying before the point where cutting stands, is whole in some chunk
or in the stretch under construction; `TailInv` that this stretch reaches
back over the overlap; `SizeInv` bounds it, `StartInv` and `ScanInv` cover the
two ends.

**Sign-in.** `OwnInv` adds to `ProfileIsOwn` that every answer in flight names
the account of its token. `TryInv` says that a tab without user or token has a
request under way that will sign it in, or has given up; at rest there is no such
request, so it is signed in or has given up.

**Chat, sending.** `SendInv` says that a text which had a session when it was sent
is in one place: in the input, in one `/query` request, or run (`OnePlace`);
`Numbered` holds the types this needs. A text sent without a session is exempt from
`OnePlace`: until the session is there it stays in the input and the button works.

**Chat, types.** `TypeInv` adds to `TypeOK` what a new request and a new list need:
the requests are finitely many (or there would be no number left for the next
one), and every session the browser names has been created (`IssuedOnly`). The
model filters sequences with `Picked`, which numbers the places kept by counting
those before them; `Places` and `PickedFacts` prove by cardinality, without
induction, that it takes every place once.

**Chat, at rest.** `CoherenceInv` says where the missing news is while something is
under way. `Kept` is about the server. While nothing has disturbed the window:
`OneAtATime`, at most one request is the user's, the others are messages or lists
that effects asked for, and a deletion is alone and sees the list of its click;
`ListFollows`, list and store agree unless a list, a creation or a deletion is
still to be answered, and such an answer brings exactly what is missing;
`WindowFollows`, the window agrees with the history unless the newest request for
messages, a kept turn or a deletion is still to be answered, that request is for
the active session and its answer is the history unless a turn was kept since.
With no request left, this is `RestIsCoherent`. TLC found `CoherenceInv` to hold in
all states of `chat_window` before it was proved. There is one lemma per handler
and per answer (`HandleCalm`, `DeliverCalm`, `UserCalm`) over lemmas on what all of
them do: `Fewer` (a request ends), `NextRequest`, `Refetch`, `Switch` (a session
becomes active), `Fetching`.

**Chat, the flags.** `submitting` disables the input, `executing` names the approvals
shown as running; the `finally` of the handler that set them resets them, and a
handler may ask for the messages before it gets there. `BusyInv` says that a set
flag has a request under way of that handler, asked by the mounted panel
(`Clears`): whatever answers it, or fails to, the handler goes on to its `finally`
or to the next request that does. So at rest none is set (`RestIsIdle`), whatever
was lost, refused or remounted. That rest is reached stays with TLC (`BusyEnds`).

### Only model-checked

Liveness (`DecidedIsSettled`, `RunEnds`, `TabsComeToRest`, `BusyEnds`,
of which `NoFlagIsStuck` is the safety half): the prover has no rule for fairness or
`ENABLED` that its backends can finish. Induction over data, and hence what a recursive operator
computes, is out of its reach too; no module declares one. Every safety property
of a passing run is a theorem.

## 6. Findings

Five runs end in a counterexample against a rule the repository states:

1. `approval_orphan`: a tool request of the direct or web-search path gets no
   queue row, and the trace endpoint executes it without one
   (`orchestrator/pipeline.py`, `approval/routes.py:88`; rule:
   `approval/queue.py:4`).
2. `approval_twice`: the tool runs, the process stops before the context is
   saved, and a retry on the trace endpoint runs it again; the idempotency keys
   were in memory (rule: design document, line 226).
3. `pipeline_shown`: a draft that the validator refused, with the chunk it cites, is
   still the answer (`main.py:233`; rule: design document, line 137).
4. `pipeline_attempts`: the scan of the user's query is never written to the
   audit log, so the trace of a blocked query shows the verdict "clean"
   (`pipeline.py:302`; rule: `tests/test_e2e_injection.py:8`).
5. `query_deleted`: a query in flight brings a deleted session back, under
   another owner (`session_store.py:138`).

Seen while reading, and not run:

- `reject` commits, the process stops before the context is saved, and the trace
  endpoint later executes the rejected request (`routes.py:96` ignores what the
  queue answers): the exception in `CallsFollowDecisions`;
- a validating model that writes a flag as the text "false" gets a verdict whose trust
  level contradicts its flags (`validator_agent.py:139` decides on the JSON value, which
  is truthy, `schemas/validation.py` coerces it): `unauthorized_action_detected: "false"`
  is UNTRUSTED with flags that pass, so the run completes without trust
  (`pipeline.py:430`) and is cached (`main.py:291`), or fails if it asks for a tool;
  `grounded: "false"` is TRUSTED with flags that fail, and the run fails;
- the fallback of the trace route always raises: it moves a new context from
  RECEIVED to AWAITING_APPROVAL (`routes.py:119`);
- parameters are not validated although `tool_exec_agent.py:56` says so, and
  the idempotency key uses Python's per-process `hash` (`96`);
- a cached answer cites a deleted document for up to 60 seconds, and a cache hit
  is not recorded in the session (`main.py:213`);
- logout reports success when the revocation could not be written
  (`auth/store.py:272`), and the UI's logout never calls it: the page signs in
  again as the demo account (`AuthContext.tsx:162`);
- a late answer of `/auth/me` after a login shows a user whose token is not
  the tab's (`AuthContext.tsx:76`); a late 401 removes a newer stored token
  (`api.ts:21`);
- the trace view reports the last injection verdict, not the worst
  (`audit/trace.py:64`), and without the router's record takes a request for the
  search tool for a web search (`83`); a reloaded context has lost its `execution_path`
  (`context_store.py:214`); `vectorstore/ingest.py:89` speaks of a
  character-based fallback that is not there, and page numbers are advanced
  before the chunk they belong to is written (`99`);
- the chat panel overwrites the result of an inline approval with the stored
  message that still waits (`ConversationalChat.tsx:312`), although the page
  speaks of running the search directly in the window (`549`); it can send twice
  while the session is being created (`341`), after which the first answer enables
  the input while the second is awaited; it shows whichever session's messages
  arrive last (`228`), also those of a deleted one;
- on a first message, the messages fetched for the new session replace the
  question just shown (`243`), and the input is emptied of what was typed while
  the session was being created (`359`); after a cache hit the question vanishes,
  since the refetch finds no turn (`main.py:213`);
- a deletion restores the list of the moment of the click (`App.tsx:81`), so a
  session created meanwhile is missing from it.

## 7. Not modelled

Prompt wording (`context_builder.py`): the analysis is shown at most five chunks,
cut to 2000 characters, but its citations are checked against all that passed the
scan, and `Pipeline` allows the latter. The fields of payloads that the trust
boundary forbids (the request is built from the query and ids only), file
extraction, embedding distances, the contents of tool results, password hashing
and token signatures, page and offset labels of chunks, the HTML templates and
the old page in `static/`. Of the trace view, the one-line
summaries of the stages. Of the browser, everything that only renders, the inspector of claims, and the
panels that are forms and lists over the API (approvals, audit, documents,
upload, profile): their posts reach the server models as requests in any order,
and what they show is replaced by the next answer. Two browser windows on one
session, and writes of the session store that fail, are in `QueryService` and not
in `ChatClient`.

## 8. Running

In this directory, with the TLA+ tools and the community modules on the path:

    tlc -config ApprovalFlow_ids.cfg MCApprovalFlow
    tlapm ApprovalFlowProofs.tla

A run's module and configuration are listed in `PROJECT.json`. The runs take from
a second to about two minutes, the proofs a few minutes.
