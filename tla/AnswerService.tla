---------------------------- MODULE AnswerService ----------------------------
(***************************************************************************)
(* What /query promises its users, with nothing said of caches, stages,    *)
(* models or documents that come and go.  A question is asked once, with   *)
(* the matters its user may read at that moment.  It is answered from      *)
(* documents of those matters, or with an answer already given to the same *)
(* user, with the same matters, for the same question; or it fails; or it  *)
(* is lost.  A conversation grows by a turn when a new answer is given,    *)
(* and by nothing else but the question of a request that fails.           *)
(***************************************************************************)
EXTENDS Sequences

CONSTANTS
    Users, Matters, Sessions, Docs,
    MatterOf,       \* the matter of a document
    Texts,          \* questions as typed
    Normal,         \* two texts are the same question if their Normal is
    Queries,        \* requests
    Nobody          \* no user, no text, no session

VARIABLES
    may,            \* the matters a user may read
    asked,          \* the requests
    said,           \* the conversation of each session
    erased          \* the sessions whose conversation has been erased

vars == <<may, asked, said, erased>>

Readable(scope) == {d \in Docs : MatterOf[d] \in scope}

Answer(cites, user, scope, text) ==
    [cites |-> cites, user |-> user, scope |-> scope, text |-> text]

Request(state, user, text, session, scope, reply) ==
    [state |-> state, user |-> user, text |-> text, session |-> session,
     scope |-> scope, reply |-> reply]
NotAsked == Request("new", Nobody, Nobody, Nobody, {}, Answer({}, Nobody, {}, Nobody))

Question(q) == [role |-> "user", query |-> q]
Reply(q)    == [role |-> "assistant", query |-> q]

Says(s, messages) == said' = IF s = Nobody THEN said ELSE [said EXCEPT ![s] = @ \o messages]

Init ==
    /\ may \in [Users -> SUBSET Matters]
    /\ asked = [q \in Queries |-> NotAsked]
    /\ said = [s \in Sessions |-> << >>]
    /\ erased = {}

Ask(q, u, x, s) ==
    /\ asked[q].state = "new"
    /\ asked' = [asked EXCEPT ![q] = Request("open", u, x, s, may[u], NotAsked.reply)]
    /\ UNCHANGED <<may, said, erased>>

\* The same question of the same user, who may read the same matters.
Repeat(q, u, x, s) ==
    /\ asked[q].state = "new"
    /\ \E p \in Queries :
          /\ asked[p].state = "answered" /\ asked[p].user = u /\ asked[p].scope = may[u]
          /\ Normal[asked[p].text] = Normal[x]
          /\ asked' = [asked EXCEPT ![q] = Request("answered", u, x, s, may[u], asked[p].reply)]
    /\ UNCHANGED <<may, said, erased>>

Give(q) ==
    /\ asked[q].state = "open"
    /\ \E cites \in SUBSET Readable(asked[q].scope) :
          asked' = [asked EXCEPT ![q] =
                       Request("answered", @.user, @.text, @.session, @.scope,
                               Answer(cites, @.user, @.scope, @.text))]
    /\ Says(asked[q].session, <<Question(q), Reply(q)>>)
    /\ UNCHANGED <<may, erased>>

Fail(q) ==
    /\ asked[q].state = "open"
    /\ asked' = [asked EXCEPT ![q].state = "failed"]
    /\ Says(asked[q].session, <<Question(q)>>) \/ UNCHANGED said
    /\ UNCHANGED <<may, erased>>

Lose ==
    /\ asked' = [q \in Queries |-> IF asked[q].state = "open" THEN [asked[q] EXCEPT !.state = "lost"]
                                                              ELSE asked[q]]
    /\ UNCHANGED <<may, said, erased>>

Erase(s) ==
    /\ said' = [said EXCEPT ![s] = << >>]
    /\ erased' = erased \cup {s}
    /\ UNCHANGED <<may, asked>>

Grant(u, scope) == may' = [may EXCEPT ![u] = scope] /\ UNCHANGED <<asked, said, erased>>

Next ==
    \/ \E q \in Queries :
          \/ \E u \in Users, x \in Texts, s \in Sessions \cup {Nobody} :
                Ask(q, u, x, s) \/ Repeat(q, u, x, s)
          \/ Give(q) \/ Fail(q)
    \/ Lose
    \/ \E s \in Sessions : Erase(s)
    \/ \E u \in Users, scope \in SUBSET Matters : Grant(u, scope)

Spec == Init /\ [][Next]_vars
=============================================================================
