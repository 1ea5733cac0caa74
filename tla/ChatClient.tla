----------------------------- MODULE ChatClient -----------------------------
(***************************************************************************)
(* The chat of the browser: the session list of App.tsx, the panel of      *)
(* ConversationalChat.tsx, and the /sessions and /query requests they make *)
(* of the server.                                                          *)
(*                                                                         *)
(* An event handler runs up to its first await in one step; what follows   *)
(* an await is the step that delivers the answer, with the variables the   *)
(* handler closed over.  Requests are handled and answered in any order,   *)
(* refused, or lost before or after they are handled.  A query is one step *)
(* of the server here (QueryService has its own), and so is an approval    *)
(* (ApprovalFlow); writes of the session store do not fail.                *)
(***************************************************************************)
EXTENDS Naturals, Sequences, FiniteSets

CONSTANTS
    MaxSessions, \* bound: how many sessions are ever created
    MaxTexts,   \* bound: how many texts the user types
    MaxTurns,   \* bound: what else the user does
    MaxCalls,   \* bound: with so many requests under way, the user waits
    MaxFaults   \* bound: how many answers are refused or lost

ASSUME BoundsAssumption == {MaxSessions, MaxTexts, MaxTurns, MaxCalls, MaxFaults} \subseteq Nat

VARIABLES
    \* chat_sessions and chat_messages
    rows,       \* the sessions, last updated first
    owner,      \* whose a session is; "none" before it is created
    history,    \* the messages of a session
    \* App
    list,       \* sessions
    active,     \* activeSessionId
    \* ConversationalChat
    shown,      \* messages
    draft,      \* query: the number of the text typed, 0 when empty
    submitting, \* isSubmitting
    executing,  \* executingTraceId, if any
    \* requests and history
    calls,      \* requests under way
    typed,      \* texts typed so far
    runs,       \* how often the pipeline has run a text
    blind,      \* the texts sent while no session was active
    disturbed,  \* see Disturbs
    turns,      \* what the user has done so far
    faults      \* answers refused or lost so far

server == <<rows, owner, history, runs>>
app    == <<list, active>>
panel  == <<shown, draft, submitting, executing>>
user   == <<typed, blind, turns>>
vars   == <<server, app, panel, calls, user, disturbed, faults>>

-----------------------------------------------------------------------------
(***************************************************************************)
(* Messages and requests.  A run is named by the text it is for, and so is *)
(* its trace.  The text 0 is an older one.                                 *)
(***************************************************************************)
Sessions == 1..MaxSessions      \* in the order they are created
NoSession == 0
Texts == 1..MaxTexts
Message ==
    [text : 0..MaxTexts, by : {"user", "assistant"},
     status : {"sent", "complete", "awaiting", "failed"}, stored : BOOLEAN]
Msg(text, by, status, stored) ==
    [text |-> text, by |-> by, status |-> status, stored |-> stored]

Kinds == {"list", "create", "delete", "messages", "first", "query", "approve", "reject"}
\* What goes on after a request: nothing, or the finally of a handler.
Call ==
    [id : Nat, kind : Kinds, session : Sessions \cup {NoSession}, text : 0..MaxTexts,
     then : {"open", "send", "execute"},
     seen : Seq(Sessions), was : Sessions \cup {NoSession},     \* list and active as closed over
     live : BOOLEAN,                                            \* the panel is still mounted
     late : BOOLEAN,                                            \* messages were asked for since
     reply : {"none", "ok", "refused", "lost"},
     found : Seq(Sessions), data : Seq(Message)]

Members(seq) == {seq[i] : i \in DOMAIN seq}
\* The elements of a sequence at the places given, in their order.
Picked(seq, at) ==
    LET nth(n) == CHOOSE i \in at : Cardinality({k \in at : k <= i}) = n
    IN  [n \in 1..Cardinality(at) |-> seq[nth(n)]]
Without(seq, s) == Picked(seq, {i \in DOMAIN seq : seq[i] # s})
First(seq) == IF seq = <<>> THEN NoSession ELSE seq[1]

\* Requests of a kind are numbered to stay apart.
FreeId(cs, kind) ==
    CHOOSE n \in 1..(Cardinality(cs) + 1) : \A c \in cs : c.kind = kind => c.id # n

Ask(kind, s, text, then) ==
    [id |-> 0, kind |-> kind, session |-> s, text |-> text, then |-> then,
     seen |-> IF kind = "delete" THEN list ELSE <<>>,
     was |-> IF kind \in {"delete", "list"} THEN active ELSE NoSession,
     live |-> TRUE, late |-> FALSE, reply |-> "none", found |-> <<>>, data |-> <<>>]

\* The next request of the handler that waited for c.
AskAfter(c, kind, s) ==
    [c EXCEPT !.kind = kind, !.session = s, !.reply = "none", !.found = <<>>, !.data = <<>>]

Asked(cs, new) ==
    {IF new.kind = "messages" /\ c.kind = "messages" THEN [c EXCEPT !.late = TRUE] ELSE c : c \in cs}
    \cup {[new EXCEPT !.id = FreeId(cs, new.kind)]}

TypeOK ==
    /\ rows \in Seq(Sessions) /\ owner \in [Sessions -> {"none", "me", "default", "gone"}]
    /\ history \in [Sessions -> Seq(Message)]
    /\ \A s \in Sessions : owner[s] \in {"none", "gone"} => history[s] = <<>>
    /\ list \in Seq(Sessions) /\ active \in Sessions \cup {NoSession}
    /\ shown \in Seq(Message) /\ draft \in 0..MaxTexts
    /\ submitting \in BOOLEAN /\ executing \subseteq 0..MaxTexts
    /\ calls \subseteq Call
    /\ typed \in 0..MaxTexts /\ runs \in [Texts -> Nat] /\ blind \subseteq Texts
    /\ disturbed \in BOOLEAN /\ turns \in 0..MaxTurns /\ faults \in 0..MaxFaults

\* A session may be there from earlier, with a turn that waits for approval or not.
Old(status) == <<Msg(0, "user", "sent", TRUE), Msg(0, "assistant", status, TRUE)>>

\* The page is loaded: it asks for the list.
Init ==
    /\ \/ rows = <<>> /\ owner = [s \in Sessions |-> "none"] /\ history = [s \in Sessions |-> <<>>]
       \/ \E status \in {"complete", "awaiting"} :
             /\ 1 \in Sessions /\ rows = <<1>>
             /\ owner = [s \in Sessions |-> IF s = 1 THEN "me" ELSE "none"]
             /\ history = [s \in Sessions |-> IF s = 1 THEN Old(status) ELSE <<>>]
    /\ list = <<>> /\ active = NoSession
    /\ shown = <<>> /\ draft = 0 /\ submitting = FALSE /\ executing = {}
    /\ calls = Asked({}, Ask("list", NoSession, 0, "open"))
    /\ typed = 0 /\ runs = [t \in Texts |-> 0] /\ blind = {}
    /\ disturbed = FALSE /\ turns = 0 /\ faults = 0

-----------------------------------------------------------------------------
(***************************************************************************)
(* The server.                                                             *)
(***************************************************************************)
Mine == Picked(rows, {i \in DOMAIN rows : owner[rows[i]] = "me"})

Reply(c, reply, found, data) ==
    calls' = (calls \ {c}) \cup {[c EXCEPT !.reply = reply, !.found = found, !.data = data]}

HandleList(c) ==
    /\ c.kind = "list" /\ Reply(c, "ok", Mine, <<>>)
    /\ UNCHANGED server

\* Bound: once the ids have run out, the request is refused.
HandleCreate(c) ==
    /\ c.kind \in {"create", "first"}
    /\ \/ \E s \in Sessions :
             /\ owner[s] = "none" /\ \A x \in 1..(s - 1) : owner[x] # "none"
             /\ owner' = [owner EXCEPT ![s] = "me"] /\ rows' = <<s>> \o rows
             /\ Reply(c, "ok", <<s>>, <<>>)
       \/ /\ \A s \in Sessions : owner[s] # "none"
          /\ Reply(c, "refused", <<>>, <<>>) /\ UNCHANGED <<owner, rows>>
    /\ UNCHANGED <<history, runs>>

HandleDelete(c) ==
    /\ c.kind = "delete"
    /\ IF owner[c.session] = "me"
       THEN /\ owner' = [owner EXCEPT ![c.session] = "gone"]
            /\ rows' = Without(rows, c.session)
            /\ history' = [history EXCEPT ![c.session] = <<>>]
            /\ Reply(c, "ok", <<>>, <<>>)
       ELSE Reply(c, "refused", <<>>, <<>>) /\ UNCHANGED <<rows, owner, history>>
    /\ UNCHANGED runs

HandleMessages(c) ==
    /\ c.kind = "messages"
    /\ IF owner[c.session] = "me" THEN Reply(c, "ok", <<>>, history[c.session])
                                  ELSE Reply(c, "refused", <<>>, <<>>)
    /\ UNCHANGED server

\* Both messages of a turn are kept in the session, if there is one; a session
\* deleted meanwhile is created again, for the default user (add_message).
StaysGone(o) == o      \* mutant
Revived(o) == IF o = "gone" THEN "default" ELSE o
Keep(s, turn) ==
    IF s = NoSession THEN UNCHANGED <<rows, owner, history>>
    ELSE /\ history' = [history EXCEPT ![s] = @ \o turn]
         /\ rows' = <<s>> \o Without(rows, s)
         /\ owner' = [owner EXCEPT ![s] = Revived(@)]

\* The pipeline runs and the turn is kept; or its context cannot be saved; or
\* the answer comes from the query cache, and nothing is kept.
HandleQuery(c) ==
    /\ c.kind = "query"
    /\ \/ \E status \in {"complete", "awaiting"} :
             LET answer == Msg(c.text, "assistant", status, TRUE) IN
             /\ runs' = [runs EXCEPT ![c.text] = @ + 1]
             /\ Keep(c.session, <<Msg(c.text, "user", "sent", TRUE), answer>>)
             /\ Reply(c, "ok", <<>>, <<answer>>)
       \/ /\ runs' = [runs EXCEPT ![c.text] = @ + 1]
          /\ Reply(c, "refused", <<>>, <<>>)
          /\ UNCHANGED <<rows, owner, history>>
       \/ /\ Reply(c, "ok", <<>>, <<Msg(c.text, "assistant", "complete", TRUE)>>)
          /\ UNCHANGED server

\* POST /approvals/api/trace/{trace_id}/approve; or GET pending, then reject: one
\* call here, since the panel changes nothing between the two answers.  Nothing is
\* asked for again if the approval is refused, or if no pending row has the trace.
\* The message of the session stays as it is.
HandleDecision(c) ==
    /\ c.kind \in {"approve", "reject"}
    /\ \E r \in {"ok", "refused"} : Reply(c, r, <<>>, <<>>)
    /\ UNCHANGED server

Fault == faults < MaxFaults /\ faults' = faults + 1

Handle(c) ==
    /\ c.reply = "none"
    /\ \/ HandleList(c) \/ HandleCreate(c) \/ HandleDelete(c) \/ HandleMessages(c)
       \/ HandleQuery(c) \/ HandleDecision(c)
    /\ UNCHANGED <<app, panel, user, disturbed, faults>>

\* 401, 500 or 503.
Refuse(c) ==
    /\ c.reply = "none" /\ Fault
    /\ Reply(c, "refused", <<>>, <<>>)
    /\ UNCHANGED <<server, app, panel, user, disturbed>>

\* The connection breaks: fetch throws.
Lose(c) ==
    /\ c.reply # "lost" /\ Fault
    /\ Reply(c, "lost", <<>>, <<>>)
    /\ UNCHANGED <<server, app, panel, user, disturbed>>

-----------------------------------------------------------------------------
(***************************************************************************)
(* What follows an answer.                                                 *)
(***************************************************************************)
\* The finally of a handler of the mounted panel.
Finally(c) ==
    /\ submitting' = (submitting /\ ~(c.live /\ c.then = "send"))
    /\ executing' = IF c.live /\ c.then = "execute" THEN {} ELSE executing

\* A session becomes active; the effect on it asks for its messages.
Activate(s, cs) ==
    /\ active' = s
    /\ calls' = IF s \in {active, NoSession} THEN cs ELSE Asked(cs, Ask("messages", s, 0, "open"))

\* Without one, the effect empties the window.
Emptied(s) == IF s = NoSession /\ active # NoSession THEN <<>> ELSE shown

\* fetchMessages: whatever session is active by now.
GotMessages(c) ==
    /\ c.kind = "messages"
    /\ shown' = IF c.live /\ c.reply = "ok" THEN c.data ELSE shown
    /\ Finally(c)
    /\ calls' = calls \ {c}
    /\ UNCHANGED <<app, draft>>

\* fetchSessions
GotList(c) ==
    /\ c.kind = "list"
    /\ IF c.reply = "ok"
       THEN /\ list' = c.found
            /\ Activate(IF c.was = NoSession /\ c.found # <<>> THEN c.found[1] ELSE active,
                        calls \ {c})
       ELSE calls' = calls \ {c} /\ UNCHANGED app
    /\ UNCHANGED panel

\* handleCreateSession
Created(c) ==
    /\ c.kind = "create"
    /\ IF c.reply = "ok"
       THEN list' = c.found \o list /\ Activate(c.found[1], calls \ {c})
       ELSE calls' = calls \ {c} /\ UNCHANGED app
    /\ UNCHANGED panel

\* handleDeleteSession: the list and the active session are those of the click.
StaysActive(c) == active    \* mutant
NextActive(c) ==
    IF c.was = c.session THEN First(Without(c.seen, c.session)) ELSE active

Deleted(c) ==
    /\ c.kind = "delete"
    /\ IF c.reply = "ok"
       THEN /\ list' = Without(c.seen, c.session)
            /\ Activate(NextActive(c), calls \ {c})
            /\ shown' = Emptied(NextActive(c))
       ELSE calls' = calls \ {c} /\ UNCHANGED <<app, shown>>
    /\ UNCHANGED <<draft, submitting, executing>>

\* handleSend, from where the target session is known: the text is shown, and
\* posted.
KeptDraft == draft      \* mutant
LeftDraft == 0

Shows(text) ==
    /\ shown' = Append(shown, Msg(text, "user", "sent", FALSE))
    /\ draft' = LeftDraft /\ submitting' = TRUE
    /\ UNCHANGED executing

\* handleSend, once the session it created is there, or was refused.
CreatedFirst(c) ==
    /\ c.kind = "first"
    /\ IF c.reply = "lost" THEN calls' = calls \ {c} /\ UNCHANGED <<app, panel>>
       ELSE /\ IF c.live THEN Shows(c.text) ELSE UNCHANGED panel
            /\ IF c.reply = "ok"
               THEN /\ list' = c.found \o list
                    /\ Activate(c.found[1], Asked(calls \ {c}, AskAfter(c, "query", c.found[1])))
               ELSE calls' = Asked(calls \ {c}, AskAfter(c, "query", NoSession)) /\ UNCHANGED app

\* handleSend, after POST /query: the messages of the session are asked for, or
\* the answer or the error is shown.
Answered(c) ==
    /\ c.kind = "query"
    /\ LET refetch == c.reply = "ok" /\ c.session # NoSession
           says == IF c.reply = "ok" THEN [c.data[1] EXCEPT !.stored = FALSE]
                   ELSE Msg(c.text, "assistant", "failed", FALSE)
       IN
       /\ calls' = IF refetch THEN Asked(calls \ {c}, AskAfter(c, "messages", c.session))
                   ELSE calls \ {c}
       /\ shown' = IF refetch \/ c.reply = "lost" \/ ~c.live THEN shown ELSE Append(shown, says)
       /\ IF refetch THEN UNCHANGED <<submitting, executing>> ELSE Finally(c)
    /\ UNCHANGED <<app, draft>>

\* handleInlineApprove, handleInlineReject: an approval is written over every
\* waiting message; then the messages of the session of the click are asked for.
Approves(m, c) == m.by = "assistant" /\ (m.status = "awaiting" \/ m.text = c.text)
Decided(c) ==
    /\ c.kind \in {"approve", "reject"}
    /\ LET refetch == c.reply = "ok" /\ c.session # NoSession IN
       /\ calls' = IF refetch THEN Asked(calls \ {c}, AskAfter(c, "messages", c.session))
                   ELSE calls \ {c}
       /\ shown' = IF c.live /\ c.kind = "approve" /\ c.reply = "ok"
                   THEN [i \in DOMAIN shown |->
                           IF Approves(shown[i], c) THEN [shown[i] EXCEPT !.status = "complete"]
                           ELSE shown[i]]
                   ELSE shown
       /\ IF refetch THEN UNCHANGED <<submitting, executing>> ELSE Finally(c)
    /\ UNCHANGED <<app, draft>>

\* What may leave the window behind the server: an answer that is lost, a list
\* or messages that are refused, and messages that come before older ones.
Disturbs(c) ==
    \/ c.kind \in {"list", "create", "delete", "first", "query"} /\ c.reply = "lost"
    \/ c.kind = "list" /\ c.reply = "refused"
    \/ /\ c.kind = "messages" /\ c.live /\ ~c.late
       /\ c.reply # "ok" \/ \E d \in calls : d.kind = "messages" /\ d.live /\ d.late

Deliver(c) ==
    /\ c.reply # "none"
    /\ \/ GotMessages(c) \/ GotList(c) \/ Created(c) \/ Deleted(c) \/ CreatedFirst(c)
       \/ Answered(c) \/ Decided(c)
    /\ disturbed' = (disturbed \/ Disturbs(c))
    /\ UNCHANGED <<server, user, faults>>

-----------------------------------------------------------------------------
(***************************************************************************)
(* The user.                                                               *)
(***************************************************************************)
\* Something is under way, but for what the effects ask for.
Busy(kinds) == \E c \in calls : c.then # "open" \/ c.kind \notin kinds

Turn(kinds) ==
    /\ turns < MaxTurns /\ turns' = turns + 1 /\ Cardinality(calls) < MaxCalls
    /\ disturbed' = (disturbed \/ Busy(kinds))
    /\ UNCHANGED <<server, typed, faults>>

\* The input is disabled while a text is being sent.
Type ==
    /\ typed < MaxTexts /\ ~submitting
    /\ typed' = typed + 1 /\ draft' = typed + 1
    /\ UNCHANGED <<server, app, shown, submitting, executing, calls, blind, turns, disturbed, faults>>

\* The flag that stops a second send is set only with a session.
FlagFirst == TRUE            \* mutant
FlagOfFirst == submitting

Send ==
    /\ draft # 0 /\ ~submitting
    /\ Turn({"messages"})
    /\ IF active # NoSession
       THEN /\ Shows(draft)
            /\ calls' = Asked(calls, Ask("query", active, draft, "send"))
            /\ UNCHANGED blind
       ELSE /\ submitting' = FlagOfFirst
            /\ calls' = Asked(calls, Ask("first", NoSession, draft, "send"))
            /\ blind' = blind \cup {draft}
            /\ UNCHANGED <<shown, draft, executing>>
    /\ UNCHANGED app

Select(s) ==
    /\ s \in Members(list) /\ Turn({"messages"})
    /\ Activate(s, calls)
    /\ UNCHANGED <<list, panel, blind>>

NewChat ==
    /\ Turn({"messages"})
    /\ calls' = Asked(calls, Ask("create", NoSession, 0, "open"))
    /\ UNCHANGED <<app, panel, blind>>

Delete(s) ==
    /\ s \in Members(list) /\ Turn({})
    /\ calls' = Asked(calls, Ask("delete", s, 0, "open"))
    /\ UNCHANGED <<app, panel, blind>>

\* The buttons of a message that waits for approval.
Decide(kind, m) ==
    /\ m.by = "assistant" /\ m.status = "awaiting"
    /\ IF kind = "approve" THEN executing = {} ELSE m.text \notin executing
    /\ Turn({"messages"})
    /\ executing' = {m.text}
    /\ calls' = Asked(calls, Ask(kind, active, m.text, "execute"))
    /\ UNCHANGED <<app, shown, draft, submitting, blind>>

\* Signing in, or again: the effect on `user' asks for the list.
SignIn ==
    /\ Turn({"list", "messages"})
    /\ calls' = Asked(calls, Ask("list", NoSession, 0, "open"))
    /\ UNCHANGED <<app, panel, blind>>

\* To another tab of the application and back: a new panel.
Remount ==
    /\ Turn({"messages"})
    /\ shown' = <<>> /\ draft' = 0 /\ submitting' = FALSE /\ executing' = {}
    /\ LET left == {[c EXCEPT !.live = FALSE] : c \in calls} IN
       calls' = IF active = NoSession THEN left
                ELSE Asked(left, Ask("messages", active, 0, "open"))
    /\ UNCHANGED <<app, blind>>

Network == \E c \in calls : Handle(c) \/ Deliver(c)

Next ==
    \/ Network
    \/ \E c \in calls : Refuse(c) \/ Lose(c)
    \/ Type \/ Send \/ NewChat \/ SignIn \/ Remount
    \/ \E s \in Members(list) : Select(s) \/ Delete(s)
    \/ \E kind \in {"approve", "reject"}, m \in Members(shown) : Decide(kind, m)

Spec == Init /\ [][Next]_vars

\* Requests are handled and answered, as long as there are any.  The user owes
\* nothing.
FairSpec == Spec /\ WF_vars(Network)

-----------------------------------------------------------------------------
(***************************************************************************)
(* Properties.                                                             *)
(***************************************************************************)
Stored(messages) == Picked(messages, {i \in DOMAIN messages : messages[i].stored})

\* The messages of the active session.
Due == IF active = NoSession THEN <<>> ELSE history[active]

\* Once nothing is under way, the window shows the messages of the active
\* session, and the list shows the sessions of the user, the active one among
\* them.  That takes answers that arrive, the messages in order, and a user who
\* waits for what he asked for (ConversationalChat, App: nothing tells a late
\* answer from a timely one).
RestIsCoherent ==
    calls = {} /\ ~disturbed =>
        /\ Stored(shown) = Due
        /\ Members(list) = Members(Mine)
        /\ active = NoSession \/ active \in Members(list)

\* However answers are lost, late or refused, and whatever the user does, a text
\* is run at most once, unless there was no session to send it to: then the
\* button works until one is created (handleSend).
SentOnce == \A t \in Texts : runs[t] > 1 => t \in blind

\* When the user stops, the window comes to rest: the input is enabled again and
\* no approval is shown as running (the finally clauses of the handlers).
BusyEnds == <>[](calls = {} /\ ~submitting /\ executing = {})

\* Once nothing is under way, the input is enabled and no approval is shown as
\* running: whatever is lost, refused or remounted, no flag outlives the handler
\* that set it (the finally clauses).  This is the safety half of BusyEnds.
RestIsIdle == calls = {} => ~submitting /\ executing = {}

\* The inductive invariant behind it: a flag that is set will be cleared by a
\* request under way, whose handler belongs to the mounted panel and goes on to
\* its finally.
Clears(c, then) ==
    c.live /\ c.then = then /\ c.kind \in {"query", "approve", "reject", "messages"}
BusyInv ==
    /\ submitting => \E c \in calls : Clears(c, "send")
    /\ executing # {} => \E c \in calls : Clears(c, "execute")
    /\ \A c \in calls : c.kind = "first" => c.then = "send"

(***************************************************************************)
(* The inductive invariant behind SentOnce: a text that had a session when *)
(* it was sent is in one place, typed or posted or run.                    *)
(***************************************************************************)
Queries(t) == {c \in calls : c.kind = "query" /\ c.text = t}

Fields == {"id", "kind", "session", "text", "then", "seen", "was", "live", "late", "reply",
           "found", "data"}

Numbered ==
    /\ runs \in [Texts -> Nat] /\ typed \in 0..MaxTexts
    /\ draft \in 0..typed /\ blind \subseteq Texts
    /\ \A c \in calls :
          /\ DOMAIN c = Fields
          /\ c.kind \in {"first", "query"} => c.text \in 1..typed
          /\ c.kind = "first" => c.text \in blind

OnePlace ==
    \A t \in Texts \ blind :
        /\ draft = t \/ t > typed => runs[t] = 0 /\ Queries(t) = {}
        /\ \A c, d \in Queries(t) : c = d
        /\ \A c \in Queries(t) : c.reply = "none" => runs[t] = 0
        /\ runs[t] <= 1

SendInv == Numbered /\ OnePlace

(***************************************************************************)
(* The inductive invariant behind TypeOK: the requests are finitely many,  *)
(* and the browser knows no session that was never created.                *)
(***************************************************************************)
Issued == {s \in Sessions : owner[s] # "none"}

IssuedOnly(c) ==
    /\ c.session \in Issued \cup {NoSession}
    /\ c.kind \in {"delete", "messages"} => c.session # NoSession
    /\ c.seen \in Seq(Issued) /\ c.found \in Seq(Issued)
    /\ c.kind \in {"create", "first"} /\ c.reply = "ok" => Len(c.found) = 1
    /\ c.kind = "query" /\ c.reply = "ok" => Len(c.data) = 1

TypeInv ==
    /\ TypeOK
    /\ IsFiniteSet(calls)
    /\ list \in Seq(Issued) /\ active \in Issued \cup {NoSession}
    /\ \A c \in calls : IssuedOnly(c)

(***************************************************************************)
(* The inductive invariant behind RestIsCoherent.  While nothing disturbs, *)
(* the user has one request at a time under way, and what the list and the *)
(* window still lack is in an answer that is to come.                      *)
(***************************************************************************)
\* The other requests are those of the effects.
ByUser(c) == c.then # "open" \/ c.kind \notin {"list", "messages"}
\* The server may have done what was asked.
Done(c) == c.reply \in {"ok", "lost"}
Newest(c) == c.kind = "messages" /\ c.live /\ ~c.late
Answering == \E c \in calls : c.kind = "query" /\ c.session # NoSession /\ Done(c)
Removing == \E c \in calls : c.kind = "delete" /\ c.session = active /\ Done(c)

Kept ==
    /\ \A s \in Sessions : owner[s] = "me" => s \in Members(rows)
    /\ \A s \in Sessions : \A i \in DOMAIN history[s] : history[s][i].stored

OneAtATime ==
    /\ \A c, d \in calls : ByUser(c) /\ ByUser(d) => c = d
    /\ \A c, d \in calls : c.kind = "list" => ~ByUser(d)
    /\ \A c \in calls :
          /\ c.kind = "delete" => calls = {c} /\ c.seen = list /\ c.was = active
          /\ ~c.live => ~ByUser(c)
          /\ c.late => c.kind = "messages"
          /\ c.kind = "first" => active = NoSession
          /\ ByUser(c) /\ c.kind \in {"query", "approve", "reject", "messages"} => c.session = active

ListFollows ==
    /\ \/ Members(list) = Members(Mine)
       \/ \E c \in calls :
             c.kind = "list" \/ (c.kind \in {"create", "first", "delete"} /\ Done(c))
    /\ \A c \in calls : c.reply = "ok" =>
          /\ c.kind = "list" => Members(c.found) = Members(Mine)
          /\ c.kind \in {"create", "first"} =>
                /\ c.found[1] \notin Members(list)
                /\ Members(Mine) = Members(list) \cup {c.found[1]}
          /\ c.kind = "delete" => Members(Mine) = Members(list) \ {c.session}
    /\ active # NoSession =>
          active \in Members(list) /\ (active \in Members(Mine) \/ Removing)

WindowFollows ==
    /\ Stored(shown) = Due \/ (\E c \in calls : Newest(c)) \/ Answering \/ Removing
    /\ \A c \in calls : Newest(c) =>
          /\ c.session = active /\ active # NoSession
          /\ c.reply = "ok" => c.data = Due \/ Answering
    /\ \A c \in calls : c.kind = "messages" /\ c.live => \E d \in calls : Newest(d)

CoherenceInv ==
    TypeInv /\ Kept /\ (disturbed \/ (OneAtATime /\ ListFollows /\ WindowFollows))
=============================================================================
