---------------------------- MODULE QueryService ----------------------------
(***************************************************************************)
(* The /query endpoint as its users share it: concurrent runs, the query   *)
(* cache, the chat sessions, the vector store the runs read and the        *)
(* matters an admin grants or withdraws while they run.                    *)
(*                                                                         *)
(* submit_query suspends while the router, the embedding of the query and  *)
(* the models answer; between two such calls a run goes on in one step of  *)
(* the event loop.  The stages of a run are those of Pipeline, here        *)
(* reduced to what it reads and what it cites.  A document stands for all  *)
(* its chunks.                                                             *)
(***************************************************************************)
EXTENDS Naturals, Sequences

CONSTANTS
    Users, Matters, Sessions,
    Auditors,       \* users in the role admin or Compliance Auditor
    DefaultUser,    \* "default_user", the owner of sessions made by add_message
    Docs,           \* documents that may be uploaded
    MatterOf,       \* the matter of a document
    Texts,          \* queries as typed
    Normal,         \* the normalised query: stripped, lower case
    Queries,        \* requests to /query
    Nobody          \* no user, no session

ASSUME DocsAssumption == MatterOf \in [Docs -> Matters]
ASSUME NobodyAssumption == Nobody \notin Users \cup Sessions \cup {DefaultUser}
ASSUME UsersAssumption == DefaultUser \notin Users /\ Auditors \subseteq Users

VARIABLES
    matters,    \* users.permitted_matters_json
    docs,       \* the documents in the vector store
    cache,      \* the entries of QueryResultCache that have not expired
    owner,      \* chat_sessions.user_id, Nobody without a row
    messages,   \* chat_messages of a session, in the order of their timestamps
    deleted,    \* the sessions that have been deleted
    runs        \* the requests

stores == <<matters, docs>>
chats  == <<owner, messages, deleted>>
vars   == <<stores, cache, chats, runs>>

Message == [role : {"user", "assistant"}, query : Queries]

\* What a run answers: the documents it cites, and for whom, with what
\* permissions and for which query it was made.
Response == [cites : SUBSET Docs, user : Users, scope : SUBSET Matters, text : Texts]
NoResponse == [cites |-> {}, user |-> Nobody, scope |-> {}, text |-> Nobody]

Stages == {"new", "routing", "retrieving", "answering", "done", "failed", "lost"}
Run == [at : Stages, user : Users \cup {Nobody}, text : Texts \cup {Nobody},
        session : Sessions \cup {Nobody}, scope : SUBSET Matters, found : SUBSET Docs,
        reply : Response \cup {NoResponse}, hit : BOOLEAN]
NewRun == [at |-> "new", user |-> Nobody, text |-> Nobody, session |-> Nobody,
           scope |-> {}, found |-> {}, reply |-> NoResponse, hit |-> FALSE]

\* (user_id, tuple(sorted(permitted_matters)), normalized_query)
KeyWithoutScope(user, scope, text) == <<user, {}, Normal[text]>>     \* mutant
Key(user, scope, text) == <<user, scope, Normal[text]>>

\* An entry: its key and the cached response.
Entry(user, scope, text, response) ==
    [key |-> Key(user, scope, text), response |-> response]
Cached(user, scope, text) == {e \in cache : e.key = Key(user, scope, text)}

Allowed(scope) == {d \in Docs : MatterOf[d] \in scope}

TypeOK ==
    /\ matters \in [Users -> SUBSET Matters]
    /\ docs \subseteq Docs
    /\ \A e \in cache : e.response \in Response
    /\ owner \in [Sessions -> Users \cup {DefaultUser, Nobody}]
    /\ messages \in [Sessions -> Seq(Message)]
    /\ \A s \in Sessions : messages[s] # << >> => owner[s] # Nobody
    /\ deleted \subseteq Sessions
    /\ runs \in [Queries -> Run]
    /\ \A q \in Queries :
          runs[q].at # "new" => runs[q].user \in Users /\ runs[q].text \in Texts

Init ==
    /\ matters \in [Users -> SUBSET Matters]
    /\ docs = {}
    /\ cache = {}
    /\ owner = [s \in Sessions |-> Nobody]
    /\ messages = [s \in Sessions |-> << >>]
    /\ deleted = {}
    /\ runs = [q \in Queries |-> NewRun]

-----------------------------------------------------------------------------
(***************************************************************************)
(* submit_query.                                                           *)
(***************************************************************************)
\* The matters are read with the token; a cached response ends the request.  Any
\* session id is taken: that of another user, or of a session long deleted.
Submit(q, u, x, s) ==
    /\ runs[q].at = "new"
    /\ LET asked == [NewRun EXCEPT !.user = u, !.text = x, !.session = s,
                                   !.scope = matters[u]]
       IN IF Cached(u, matters[u], x) = {}
          THEN runs' = [runs EXCEPT ![q] = [asked EXCEPT !.at = "routing"]]
          ELSE \E e \in Cached(u, matters[u], x) :
                  runs' = [runs EXCEPT ![q] =
                      [asked EXCEPT !.at = "done", !.reply = e.response, !.hit = TRUE]]
    /\ UNCHANGED <<stores, cache, chats>>

\* The router decides: the query is embedded, or the run reads no document
\* (a direct answer, a web search).
Routed(q) ==
    /\ runs[q].at = "routing"
    /\ \E stage \in {"retrieving", "answering"} :
          runs' = [runs EXCEPT ![q].at = stage]
    /\ UNCHANGED <<stores, cache, chats>>

\* The embedding is there: the vector store is queried with the matters read
\* at the start, and returns some of the documents it holds now.
AllMatching(scope) == docs    \* mutant
Matching(scope) == docs \cap Allowed(scope)

Retrieved(q) ==
    /\ runs[q].at = "retrieving"
    /\ \E found \in SUBSET Matching(runs[q].scope) :
          runs' = [runs EXCEPT ![q].at = "answering", ![q].found = found]
    /\ UNCHANGED <<stores, cache, chats>>

\* add_message: the session row is created if there is none, the messages
\* come last.
Question(q) == [role |-> "user", query |-> q]
Reply(q)    == [role |-> "assistant", query |-> q]

WithoutRow(s, new) ==                                       \* mutant
    messages' = [messages EXCEPT ![s] = @ \o new] /\ UNCHANGED owner
QuestionFirst(s, new) ==                                    \* mutant
    messages' = [messages EXCEPT ![s] = <<Head(new)>> \o @ \o Tail(new)] /\ UNCHANGED owner
KnownOnly(s, new) ==                                        \* mutant
    /\ messages' = IF owner[s] = Nobody THEN messages ELSE [messages EXCEPT ![s] = @ \o new]
    /\ UNCHANGED owner
Record(s, new) ==
    /\ messages' = [messages EXCEPT ![s] = @ \o new]
    /\ owner' = [owner EXCEPT ![s] = IF @ = Nobody THEN DefaultUser ELSE @]

\* The key is rebuilt with the matters of the start, its old entry replaced.
Rekeyed(user, scope, text, response) ==    \* mutant: with the matters of now
    (cache \ Cached(user, matters[user], text)) \cup {Entry(user, matters[user], text, response)}
Store(user, scope, text, response) ==
    (cache \ Cached(user, scope, text)) \cup {Entry(user, scope, text, response)}

\* The models have answered and the run has ended: the turn is recorded, a
\* COMPLETE response is cached, the request answered.
Answered(q) ==
    /\ runs[q].at = "answering"
    /\ \E cites \in SUBSET runs[q].found, complete \in BOOLEAN :
          LET r == runs[q]
              response == [cites |-> cites, user |-> r.user, scope |-> r.scope, text |-> r.text]
          IN
          /\ runs' = [runs EXCEPT ![q].at = "done", ![q].reply = response]
          /\ cache' = IF complete THEN Store(r.user, r.scope, r.text, response) ELSE cache
          /\ IF r.session = Nobody THEN UNCHANGED <<owner, messages>>
             ELSE Record(r.session, <<Question(q), Reply(q)>>)
    /\ UNCHANGED <<stores, deleted>>

\* A write to the database fails, at the context or at a message: the request
\* ends with an error, the question perhaps recorded.  Followed by Restart, it
\* is a crash between two of the commits.
WriteFails(q) ==
    /\ runs[q].at = "answering"
    /\ runs' = [runs EXCEPT ![q].at = "failed"]
    /\ \/ UNCHANGED <<owner, messages>>
       \/ runs[q].session # Nobody /\ Record(runs[q].session, <<Question(q)>>)
    /\ UNCHANGED <<stores, cache, deleted>>

\* An entry older than its TTL is never returned, and deleted when looked up.
Expire == \E e \in cache : cache' = cache \ {e} /\ UNCHANGED <<stores, chats, runs>>

-----------------------------------------------------------------------------
\* Other endpoints.  The id of a new session is a fresh uuid: nothing has it.
CreateSession(u, s) ==
    /\ owner[s] = Nobody /\ s \notin deleted /\ \A q \in Queries : runs[q].session # s
    /\ owner' = [owner EXCEPT ![s] = u]
    /\ UNCHANGED <<stores, cache, messages, deleted, runs>>

\* By the owner of the row, an admin or an auditor.
DeleteSession(u, s) ==
    /\ owner[s] # Nobody /\ (owner[s] = u \/ u \in Auditors)
    /\ owner' = [owner EXCEPT ![s] = Nobody]
    /\ messages' = [messages EXCEPT ![s] = << >>]
    /\ deleted' = deleted \cup {s}
    /\ UNCHANGED <<stores, cache, runs>>

UpdateMatters(u, scope) ==
    /\ matters' = [matters EXCEPT ![u] = scope]
    /\ UNCHANGED <<docs, cache, chats, runs>>

\* Allowed to users of the matter and to admins; a deleted document uploaded
\* again has a new id, for which the model takes the old one.
Ingest(d) == docs' = docs \cup {d} /\ UNCHANGED <<matters, cache, chats, runs>>
DeleteDocument(d) == docs' = docs \ {d} /\ UNCHANGED <<matters, cache, chats, runs>>

\* The process dies and comes back: the cache is empty, requests in flight are
\* never answered.
Restart ==
    /\ cache' = {}
    /\ runs' = [q \in Queries |->
          IF runs[q].at \in {"new", "done", "failed"} THEN runs[q] ELSE [runs[q] EXCEPT !.at = "lost"]]
    /\ UNCHANGED <<stores, chats>>

Continue(q) == Routed(q) \/ Retrieved(q) \/ Answered(q) \/ WriteFails(q)

Next ==
    \/ \E q \in Queries :
          \/ \E u \in Users, x \in Texts, s \in Sessions \cup {Nobody} : Submit(q, u, x, s)
          \/ Continue(q)
    \/ \E u \in Users, s \in Sessions : CreateSession(u, s) \/ DeleteSession(u, s)
    \/ \E u \in Users, scope \in SUBSET Matters : UpdateMatters(u, scope)
    \/ \E d \in Docs : Ingest(d) \/ DeleteDocument(d)
    \/ Expire \/ Restart

Spec == Init /\ [][Next]_vars

-----------------------------------------------------------------------------
(***************************************************************************)
(* Properties.                                                             *)
(***************************************************************************)

\* An answer, from the cache or not, was made for the user who asked and the
\* same normalised query, and cites only documents of matters the user could
\* read when the query came in: an answer made before a matter was withdrawn
\* is not served after it (query_cache keys on the permitted matters).
AnswersAreAuthorized ==
    \A q \in Queries : runs[q].at = "done" =>
        /\ runs[q].reply.cites \subseteq Allowed(runs[q].scope)
        /\ runs[q].reply.user = runs[q].user
        /\ Normal[runs[q].reply.text] = Normal[runs[q].text]

\* Whatever overlaps in a session, an answer directly follows its question, no
\* turn is recorded twice, and a question alone is one whose request failed
\* (the two add_message calls of submit_query have no await between them).
TurnsStayTogether ==
    \A s \in Sessions : \A i \in 1..Len(messages[s]) :
        LET m == messages[s][i]
            n == Len(messages[s])
        IN
        /\ m.role = "assistant" => i > 1 /\ messages[s][i - 1] = Question(m.query)
        /\ m.role = "user" /\ runs[m.query].at # "failed" =>
              i < n /\ messages[s][i + 1] = Reply(m.query)
        /\ \A j \in 1..n : messages[s][j] = m => j = i

\* A deleted session, and its messages, stay deleted (SessionStore.delete_session,
\* "Delete a chat session and its messages").
DeletedStaysDeleted ==
    \A s \in deleted : owner[s] = Nobody /\ messages[s] = << >>

\* A turn that missed the cache is in the history of its session once it is
\* answered, if the session was not deleted, whatever overlaps with it or
\* restarts ("If session_id provided, record messages into session store").
RunIsRecorded ==
    \A q \in Queries :
        runs[q].at = "done" /\ runs[q].session # Nobody /\ ~runs[q].hit =>
        LET s == runs[q].session IN
        s \notin deleted => \E i \in 1..Len(messages[s]) : messages[s][i].query = q

\* The outside of a request: no stages, no findings.
State(at) ==
    CASE at = "done" -> "answered"
      [] at \in {"routing", "retrieving", "answering"} -> "open"
      [] OTHER -> at
Outside(r) ==
    [state |-> State(r.at), user |-> r.user, text |-> r.text, session |-> r.session,
     scope |-> r.scope, reply |-> r.reply]

Service == INSTANCE AnswerService
    WITH may <- matters, asked <- [q \in Queries |-> Outside(runs[q])],
         said <- messages, erased <- deleted
\* With its cache, its overlapping runs and its restarts, /query does what
\* AnswerService does without: what comes from the cache is an answer given
\* before, to the same user with the same matters.
ImplementsAnswerService == Service!Spec

(***************************************************************************)
(* The inductive invariant behind AnswersAreAuthorized.                    *)
(***************************************************************************)
\* A cached response belongs under its key.
CacheInv ==
    \A e \in cache :
        /\ e.key = Key(e.response.user, e.response.scope, e.response.text)
        /\ e.response.cites \subseteq Allowed(e.response.scope)

\* A run in flight has found only what its scope allows.
FoundInv == \A q \in Queries : runs[q].found \subseteq Allowed(runs[q].scope)

IInv == CacheInv /\ FoundInv /\ AnswersAreAuthorized

\* Behind ImplementsAnswerService: a cached response was given as an answer, to
\* the request it was made for.
Given(response) ==
    \E p \in Queries :
        /\ runs[p].at = "done" /\ runs[p].reply = response
        /\ runs[p].user = response.user /\ runs[p].scope = response.scope
        /\ runs[p].text = response.text
GivenInv == \A e \in cache : Given(e.response)
=============================================================================
