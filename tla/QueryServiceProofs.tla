------------------------- MODULE QueryServiceProofs -------------------------
(***************************************************************************)
(* Proofs about QueryService for any users, matters, documents, sessions,  *)
(* spellings and requests: the type invariant, that an answer is made for  *)
(* the user who asked and from what that user could read, and that the     *)
(* turns of a session stay together and stay recorded.  Last, that it      *)
(* implements AnswerService.                                               *)
(***************************************************************************)
EXTENDS QueryService, TLAPS

LEMMA TypeInit == Init => TypeOK
BY DEF Init, TypeOK, Run, NewRun, Stages, NoResponse, Message

\* The next stage of a run.
LEMMA StageTypes ==
    ASSUME NEW r \in Run, NEW at \in Stages
    PROVE  /\ [r EXCEPT !.at = at] \in Run
           /\ \A found \in SUBSET Docs : [r EXCEPT !.at = at, !.found = found] \in Run
           /\ \A reply \in Response : [r EXCEPT !.at = at, !.reply = reply] \in Run
BY DEF Run

LEMMA RunTypes ==
    ASSUME TypeOK, NEW q \in Queries, NEW next \in Run,
           next.user \in Users, next.text \in Texts, runs' = [runs EXCEPT ![q] = next]
    PROVE  /\ runs' \in [Queries -> Run]
           /\ \A t \in Queries :
                 runs'[t].at # "new" => runs'[t].user \in Users /\ runs'[t].text \in Texts
BY DEF TypeOK

\* Recording messages keeps the chat tables typed, with a session row for
\* every message.
LEMMA RecordTypes ==
    ASSUME TypeOK, NEW s \in Sessions, NEW new \in Seq(Message), Record(s, new)
    PROVE  /\ owner' \in [Sessions -> Users \cup {DefaultUser, Nobody}]
           /\ messages' \in [Sessions -> Seq(Message)]
           /\ \A t \in Sessions : messages'[t] # << >> => owner'[t] # Nobody
<1>1. messages[s] \o new \in Seq(Message)
  BY DEF TypeOK
<1>2. owner'[s] # Nobody
  BY NobodyAssumption DEF TypeOK, Record
<1>. QED
  BY <1>1, <1>2 DEF TypeOK, Record

LEMMA TurnTypes ==
    ASSUME NEW q \in Queries
    PROVE  <<Question(q)>> \in Seq(Message) /\ <<Question(q), Reply(q)>> \in Seq(Message)
<1>1. Question(q) \in Message /\ Reply(q) \in Message
  BY DEF Question, Reply, Message
<1>. QED
  BY <1>1

\* How Answered ends a request, its response named.
Ends(q, response, complete) ==
    LET r == runs[q] IN
    /\ response.user = r.user /\ response.scope = r.scope /\ response.text = r.text
    /\ response.cites \subseteq r.found
    /\ runs' = [runs EXCEPT ![q].at = "done", ![q].reply = response]
    /\ cache' = IF complete
                THEN Store(response.user, response.scope, response.text, response)
                ELSE cache
    /\ IF r.session = Nobody THEN UNCHANGED <<owner, messages>>
       ELSE Record(r.session, <<Question(q), Reply(q)>>)

LEMMA AnswerEnds ==
    ASSUME TypeOK, NEW q \in Queries, Answered(q)
    PROVE  \E response \in Response, complete \in BOOLEAN : Ends(q, response, complete)
<1>1. PICK cites \in SUBSET runs[q].found, complete \in BOOLEAN :
         LET r == runs[q]
             response == [cites |-> cites, user |-> r.user, scope |-> r.scope, text |-> r.text]
         IN  /\ runs' = [runs EXCEPT ![q].at = "done", ![q].reply = response]
             /\ cache' = IF complete THEN Store(r.user, r.scope, r.text, response) ELSE cache
             /\ IF r.session = Nobody THEN UNCHANGED <<owner, messages>>
                ELSE Record(r.session, <<Question(q), Reply(q)>>)
  BY DEF Answered
<1>. DEFINE response == [cites |-> cites, user |-> runs[q].user,
                         scope |-> runs[q].scope, text |-> runs[q].text]
<1>2. runs[q] \in Run /\ runs[q].user \in Users /\ runs[q].text \in Texts
  BY DEF TypeOK, Answered
<1>3. response \in Response
  BY <1>2 DEF Response, Run
<1>4. Ends(q, response, complete)
  BY <1>1 DEF Ends
<1>. QED
  BY <1>3, <1>4

LEMMA TypeStep == TypeOK /\ [Next]_vars => TypeOK'
<1>. SUFFICES ASSUME TypeOK, [Next]_vars PROVE TypeOK'
  OBVIOUS
<1>. USE DEF TypeOK, stores, chats
<1>1. ASSUME NEW q \in Queries, NEW u \in Users, NEW x \in Texts,
             NEW s \in Sessions \cup {Nobody}, Submit(q, u, x, s)
      PROVE  TypeOK'
  <2>. DEFINE asked == [NewRun EXCEPT !.user = u, !.text = x, !.session = s,
                                      !.scope = matters[u]]
  <2>1. asked \in Run
    BY DEF NewRun, Run, Stages, NoResponse
  <2>2. [asked EXCEPT !.at = "routing"] \in Run
    BY <2>1 DEF Run, Stages
  <2>3. ASSUME NEW e \in Cached(u, matters[u], x)
        PROVE  [asked EXCEPT !.at = "done", !.reply = e.response, !.hit = TRUE] \in Run
    <3>1. e.response \in Response
      BY DEF Cached
    <3>. QED
      BY <2>1, <3>1 DEF Run, Stages
  <2>. HIDE DEF asked
  <2>4. \E next \in Run :
           next.user = u /\ next.text = x /\ runs' = [runs EXCEPT ![q] = next]
    <3>1. asked.user = u /\ asked.text = x
      BY DEF asked, NewRun
    <3>2. CASE Cached(u, matters[u], x) = {}
      <4>1. [asked EXCEPT !.at = "routing"].user = u /\ [asked EXCEPT !.at = "routing"].text = x
        BY <2>1, <3>1 DEF Run
      <4>. QED
        BY <1>1, <2>2, <3>2, <4>1 DEF Submit, asked
    <3>3. CASE Cached(u, matters[u], x) # {}
      <4>1. PICK e \in Cached(u, matters[u], x) :
               runs' = [runs EXCEPT ![q] =
                  [asked EXCEPT !.at = "done", !.reply = e.response, !.hit = TRUE]]
        BY <1>1, <3>3 DEF Submit, asked
      <4>2. /\ [asked EXCEPT !.at = "done", !.reply = e.response, !.hit = TRUE].user = u
            /\ [asked EXCEPT !.at = "done", !.reply = e.response, !.hit = TRUE].text = x
        BY <2>1, <3>1 DEF Run
      <4>. QED
        BY <2>3, <4>1, <4>2
    <3>. QED
      BY <3>2, <3>3
  <2>5. /\ runs' \in [Queries -> Run]
        /\ \A t \in Queries :
              runs'[t].at # "new" => runs'[t].user \in Users /\ runs'[t].text \in Texts
    BY <2>4, RunTypes
  <2>. QED
    BY <1>1, <2>5 DEF Submit
<1>2. ASSUME NEW q \in Queries, Routed(q) PROVE TypeOK'
  <2>1. PICK stage \in {"retrieving", "answering"} : runs' = [runs EXCEPT ![q].at = stage]
    BY <1>2 DEF Routed
  <2>. DEFINE next == [runs[q] EXCEPT !.at = stage]
  <2>2. runs[q] \in Run /\ runs[q].user \in Users /\ runs[q].text \in Texts /\ stage \in Stages
    BY <1>2 DEF Routed, Stages
  <2>3. next \in Run /\ next.user \in Users /\ next.text \in Texts
    BY <2>2, StageTypes DEF Run
  <2>4. runs' = [runs EXCEPT ![q] = next]
    BY <2>1
  <2>. HIDE DEF next
  <2>. QED
    BY <1>2, <2>3, <2>4, RunTypes DEF Routed
<1>3. ASSUME NEW q \in Queries, Retrieved(q) PROVE TypeOK'
  <2>1. PICK found \in SUBSET Matching(runs[q].scope) :
           runs' = [runs EXCEPT ![q].at = "answering", ![q].found = found]
    BY <1>3 DEF Retrieved
  <2>2. found \subseteq Docs
    BY DEF Matching
  <2>. DEFINE next == [runs[q] EXCEPT !.at = "answering", !.found = found]
  <2>3. runs[q] \in Run /\ runs[q].user \in Users /\ runs[q].text \in Texts /\ "answering" \in Stages
    BY <1>3 DEF Retrieved, Stages
  <2>4. next \in Run /\ next.user \in Users /\ next.text \in Texts
    BY <2>2, <2>3, StageTypes DEF Run
  <2>5. runs' = [runs EXCEPT ![q] = next]
    BY <2>1
  <2>. HIDE DEF next
  <2>. QED
    BY <1>3, <2>4, <2>5, RunTypes DEF Retrieved
<1>4. ASSUME NEW q \in Queries, Answered(q) PROVE TypeOK'
  <2>1. PICK response \in Response, complete \in BOOLEAN : Ends(q, response, complete)
    BY <1>4, AnswerEnds
  <2>. DEFINE next == [runs[q] EXCEPT !.at = "done", !.reply = response]
  <2>2. /\ runs[q] \in Run /\ runs[q].user \in Users /\ runs[q].text \in Texts
        /\ runs' = [runs EXCEPT ![q] = next] /\ "done" \in Stages
    BY <1>4, <2>1 DEF Ends, Answered, Stages
  <2>3. next \in Run /\ next.user \in Users /\ next.text \in Texts
    BY <2>2, StageTypes DEF Run
  <2>. HIDE DEF next
  <2>8. /\ runs' \in [Queries -> Run]
        /\ \A t \in Queries :
              runs'[t].at # "new" => runs'[t].user \in Users /\ runs'[t].text \in Texts
    BY <2>2, <2>3, RunTypes
  <2>4. \A e \in cache' : e.response \in Response
    BY <2>1 DEF Ends, Store, Entry
  <2>5. runs[q] \in Run
    OBVIOUS
  <2>6. CASE runs[q].session = Nobody
    BY <1>4, <2>1, <2>8, <2>4, <2>6 DEF Ends, Answered
  <2>7. CASE runs[q].session # Nobody
    <3>1. Record(runs[q].session, <<Question(q), Reply(q)>>) /\ runs[q].session \in Sessions
      BY <2>1, <2>5, <2>7 DEF Ends, Run
    <3>. QED
      BY <1>4, <2>8, <2>4, <3>1, RecordTypes, TurnTypes DEF Answered
  <2>. QED
    BY <2>6, <2>7
<1>5. ASSUME NEW q \in Queries, WriteFails(q) PROVE TypeOK'
  <2>1. /\ runs' \in [Queries -> Run]
        /\ \A r \in Queries : runs'[r].at # "new" => runs'[r].user \in Users /\ runs'[r].text \in Texts
    BY <1>5, ZenonT(60) DEF WriteFails, Run, Stages
  <2>2. runs[q] \in Run
    OBVIOUS
  <2>3. CASE UNCHANGED <<owner, messages>>
    BY <1>5, <2>1, <2>3 DEF WriteFails
  <2>4. CASE runs[q].session # Nobody /\ Record(runs[q].session, <<Question(q)>>)
    <3>1. runs[q].session \in Sessions
      BY <2>2, <2>4 DEF Run
    <3>. QED
      BY <1>5, <2>1, <2>4, <3>1, RecordTypes, TurnTypes DEF WriteFails
  <2>. QED
    BY <1>5, <2>3, <2>4 DEF WriteFails
<1>6. ASSUME NEW u \in Users, NEW s \in Sessions, CreateSession(u, s) PROVE TypeOK'
  BY <1>6, NobodyAssumption DEF CreateSession
<1>7. ASSUME NEW u \in Users, NEW s \in Sessions, DeleteSession(u, s) PROVE TypeOK'
  BY <1>7 DEF DeleteSession
<1>8. ASSUME NEW u \in Users, NEW scope \in SUBSET Matters, UpdateMatters(u, scope)
      PROVE  TypeOK'
  BY <1>8 DEF UpdateMatters
<1>9. ASSUME NEW d \in Docs, Ingest(d) \/ DeleteDocument(d) PROVE TypeOK'
  BY <1>9 DEF Ingest, DeleteDocument
<1>10. CASE Expire
  BY <1>10 DEF Expire
<1>11. CASE Restart
  <2>1. \A q \in Queries : runs[q] \in Run /\ [runs[q] EXCEPT !.at = "lost"] \in Run
    <3>1. "lost" \in Stages
      BY DEF Stages
    <3>. QED
      BY <3>1, StageTypes
  <2>2. \A q \in Queries : [runs[q] EXCEPT !.at = "lost"].user = runs[q].user
                        /\ [runs[q] EXCEPT !.at = "lost"].text = runs[q].text
    BY <2>1 DEF Run
  <2>3. runs' \in [Queries -> Run]
    BY <1>11, <2>1 DEF Restart
  <2>4. \A q \in Queries :
           runs'[q].at # "new" => runs'[q].user \in Users /\ runs'[q].text \in Texts
    BY <1>11, <2>2 DEF Restart
  <2>. QED
    BY <1>11, <2>3, <2>4 DEF Restart
<1>12. CASE UNCHANGED vars
  BY <1>12 DEF vars
<1>. QED
  BY <1>1, <1>2, <1>3, <1>4, <1>5, <1>6, <1>7, <1>8, <1>9, <1>10, <1>11, <1>12
     DEF Next, Continue

\* In every reachable state, a request that was made has a user and a query,
\* the cache holds responses, and every message has its session row.
THEOREM TypeCorrect == Spec => []TypeOK
<1>. QED
  BY TypeInit, TypeStep, PTL DEF Spec

-----------------------------------------------------------------------------
\* Two keys are equal only for the same user, the same matters and spellings
\* of the same query.
LEMMA KeysDiffer ==
    ASSUME NEW u, NEW v, NEW scope, NEW tcope, NEW x, NEW y,
           Key(u, scope, x) = Key(v, tcope, y)
    PROVE  u = v /\ scope = tcope /\ Normal[x] = Normal[y]
BY DEF Key

LEMMA SafeInit == Init => IInv
BY DEF Init, IInv, CacheInv, FoundInv, AnswersAreAuthorized, NewRun

LEMMA SafeStep == TypeOK /\ IInv /\ [Next]_vars => IInv'
<1>. SUFFICES ASSUME TypeOK, IInv, [Next]_vars PROVE IInv'
  OBVIOUS
<1>. USE DEF IInv, CacheInv, FoundInv, AnswersAreAuthorized
<1>1. ASSUME NEW q \in Queries, NEW u \in Users, NEW x \in Texts,
             NEW s \in Sessions \cup {Nobody}, Submit(q, u, x, s)
      PROVE  IInv'
  <2>. DEFINE asked == [NewRun EXCEPT !.user = u, !.text = x, !.session = s,
                                      !.scope = matters[u]]
  <2>1. runs \in [Queries -> Run] /\ cache' = cache
    BY <1>1 DEF Submit, TypeOK
  <2>2. CASE runs' = [runs EXCEPT ![q] = [asked EXCEPT !.at = "routing"]]
    BY <2>1, <2>2 DEF NewRun
  <2>3. CASE \E e \in Cached(u, matters[u], x) :
                runs' = [runs EXCEPT ![q] =
                    [asked EXCEPT !.at = "done", !.reply = e.response, !.hit = TRUE]]
    <3>1. PICK e \in Cached(u, matters[u], x) :
                runs' = [runs EXCEPT ![q] =
                    [asked EXCEPT !.at = "done", !.reply = e.response, !.hit = TRUE]]
      BY <2>3
    <3>2. /\ e.response.user = u /\ e.response.scope = matters[u]
          /\ Normal[e.response.text] = Normal[x]
          /\ e.response.cites \subseteq Allowed(e.response.scope)
      BY KeysDiffer DEF Cached
    <3>3. runs'[q].found = {} /\ runs'[q].scope = matters[u] /\ runs'[q].user = u
          /\ runs'[q].text = x /\ runs'[q].reply = e.response
      BY <2>1, <3>1 DEF NewRun
    <3>4. \A r \in Queries \ {q} : runs'[r] = runs[r]
      BY <2>1, <3>1
    <3>. QED
      BY <2>1, <3>2, <3>3, <3>4
  <2>. QED
    BY <1>1, <2>2, <2>3 DEF Submit
<1>2. ASSUME NEW q \in Queries, Routed(q) PROVE IInv'
  BY <1>2 DEF Routed, TypeOK
<1>3. ASSUME NEW q \in Queries, Retrieved(q) PROVE IInv'
  <2>1. PICK found \in SUBSET Matching(runs[q].scope) :
           runs' = [runs EXCEPT ![q].at = "answering", ![q].found = found]
    BY <1>3 DEF Retrieved
  <2>2. found \subseteq Allowed(runs[q].scope)
    BY DEF Matching
  <2>3. runs \in [Queries -> Run] /\ cache' = cache
    BY <1>3 DEF TypeOK, Retrieved
  <2>. QED
    BY <2>1, <2>2, <2>3 DEF Run
<1>4. ASSUME NEW q \in Queries, Answered(q) PROVE IInv'
  <2>1. PICK response \in Response, complete \in BOOLEAN : Ends(q, response, complete)
    BY <1>4, AnswerEnds
  <2>2. response.cites \subseteq Allowed(response.scope)
    BY <2>1 DEF Ends
  <2>3. \A e \in cache' : e \in cache \/ e = Entry(response.user, response.scope, response.text, response)
    BY <2>1 DEF Ends, Store
  <2>4. CacheInv'
    BY <2>2, <2>3 DEF Entry
  <2>5. runs \in [Queries -> Run]
    BY DEF TypeOK
  <2>6. /\ runs'[q].reply = response /\ runs'[q].found = runs[q].found
        /\ runs'[q].user = runs[q].user /\ runs'[q].scope = runs[q].scope
        /\ runs'[q].text = runs[q].text
        /\ \A r \in Queries \ {q} : runs'[r] = runs[r]
    BY <2>1, <2>5 DEF Ends, Run
  <2>7. FoundInv'
    BY <2>6 DEF Allowed
  <2>8. /\ response.user = runs[q].user /\ response.scope = runs[q].scope
        /\ response.text = runs[q].text /\ response.cites \subseteq runs[q].found
    BY <2>1 DEF Ends
  <2>9. AnswersAreAuthorized'
    BY <2>5, <2>1, <2>6, <2>8 DEF Ends, Run
  <2>. QED
    BY <2>4, <2>7, <2>9
<1>5. ASSUME NEW q \in Queries, WriteFails(q) PROVE IInv'
  BY <1>5 DEF WriteFails, TypeOK
<1>6. CASE UNCHANGED <<cache, runs>>
  BY <1>6
<1>7. CASE Expire
  BY <1>7 DEF Expire
<1>8. CASE Restart
  BY <1>8 DEF Restart, TypeOK
<1>9. CASE \E u \in Users, s \in Sessions : CreateSession(u, s) \/ DeleteSession(u, s)
  BY <1>9, <1>6 DEF CreateSession, DeleteSession
<1>10. CASE \E u \in Users, scope \in SUBSET Matters : UpdateMatters(u, scope)
  BY <1>10, <1>6 DEF UpdateMatters
<1>11. CASE \E d \in Docs : Ingest(d) \/ DeleteDocument(d)
  BY <1>11, <1>6 DEF Ingest, DeleteDocument
<1>. QED
  BY <1>1, <1>2, <1>3, <1>4, <1>5, <1>6, <1>7, <1>8, <1>9, <1>10, <1>11
     DEF Next, Continue, vars

\* An answer is made for the user who asked, from documents that user could
\* read when the query came in, also when it comes from the cache.
THEOREM AnswersRespectMatters == Spec => []AnswersAreAuthorized
<1>1. IInv => AnswersAreAuthorized
  BY DEF IInv
<1>. QED
  BY <1>1, SafeInit, SafeStep, TypeCorrect, PTL DEF Spec

-----------------------------------------------------------------------------
(***************************************************************************)
(* The history of a session.  A message belongs to a request that is over, *)
(* so the one or two messages that a request adds are new to the session,  *)
(* and stand together at its end.                                          *)
(***************************************************************************)
TurnInv ==
    /\ TurnsStayTogether
    /\ RunIsRecorded
    /\ \A s \in Sessions : \A i \in 1..Len(messages[s]) :
          runs[messages[s][i].query].at \in {"done", "failed"}

LEMMA TurnInit == Init => TurnInv
BY DEF Init, TurnInv, TurnsStayTogether, RunIsRecorded, NewRun

\* A history with a turn, or a question without its answer, at its end.
LEMMA Appended ==
    ASSUME NEW old \in Seq(Message), NEW q \in Queries,
           NEW new, new = <<Question(q)>> \/ new = <<Question(q), Reply(q)>>
    PROVE  /\ old \o new \in Seq(Message)
           /\ Len(old \o new) = Len(old) + Len(new) /\ Len(new) \in {1, 2}
           /\ \A i \in 1..Len(old) : (old \o new)[i] = old[i]
           /\ (old \o new)[Len(old) + 1] = Question(q)
           /\ Len(new) = 2 => /\ new = <<Question(q), Reply(q)>>
                              /\ (old \o new)[Len(old) + 2] = Reply(q)
<1>1. new \in Seq(Message) /\ Len(new) \in {1, 2}
  BY TurnTypes
<1>2. Len(old) \in Nat
  OBVIOUS
<1>3. /\ old \o new \in Seq(Message) /\ Len(old \o new) = Len(old) + Len(new)
      /\ \A i \in 1..(Len(old) + Len(new)) :
            (old \o new)[i] = IF i <= Len(old) THEN old[i] ELSE new[i - Len(old)]
  BY <1>1
<1>4. (old \o new)[Len(old) + 1] = new[1]
  BY <1>1, <1>2, <1>3
<1>5. Len(new) = 2 => (old \o new)[Len(old) + 2] = new[2]
  BY <1>1, <1>2, <1>3
<1>. QED
  BY <1>1, <1>2, <1>3, <1>4, <1>5

\* How a session's history looks, one conjunct of TurnsStayTogether at a time.
Ordered(h, failed) ==
    \A i \in 1..Len(h) :
        /\ h[i].role = "assistant" => i > 1 /\ h[i - 1] = Question(h[i].query)
        /\ h[i].role = "user" /\ h[i].query \notin failed =>
              i < Len(h) /\ h[i + 1] = Reply(h[i].query)
        /\ \A j \in 1..Len(h) : h[j] = h[i] => j = i

LEMMA AppendOrdered ==
    ASSUME NEW old \in Seq(Message), NEW q \in Queries, NEW failed, NEW after,
           NEW new, Ordered(old, failed),
           \A i \in 1..Len(old) :
              old[i].query # q /\ (old[i].query \in failed => old[i].query \in after),
           \/ new = <<Question(q), Reply(q)>>
           \/ new = <<Question(q)>> /\ q \in after
    PROVE  Ordered(old \o new, after)
<1>. DEFINE h == old \o new
            n == Len(old)
<1>. SUFFICES ASSUME NEW i \in 1..Len(h)
     PROVE  /\ h[i].role = "assistant" => i > 1 /\ h[i - 1] = Question(h[i].query)
            /\ h[i].role = "user" /\ h[i].query \notin after =>
                  i < Len(h) /\ h[i + 1] = Reply(h[i].query)
            /\ \A j \in 1..Len(h) : h[j] = h[i] => j = i
  BY DEF Ordered
<1>0. new = <<Question(q)>> \/ new = <<Question(q), Reply(q)>>
  OBVIOUS
<1>a. /\ h \in Seq(Message) /\ Len(h) = n + Len(new) /\ Len(new) \in {1, 2}
      /\ \A k \in 1..n : h[k] = old[k]
      /\ h[n + 1] = Question(q)
      /\ Len(new) = 2 => h[n + 2] = Reply(q)
  BY <1>0, Appended, ZenonT(60)
<1>b. n \in Nat
  OBVIOUS
<1>c. Len(new) = 1 => q \in after
  <2>1. Len(<<Question(q), Reply(q)>>) = 2
    OBVIOUS
  <2>. QED BY <2>1
<1>. DEFINE m == Len(new)
            last == Len(h)
<1>1. /\ n \in Nat /\ last \in Nat /\ last = n + m /\ (m = 1 \/ m = 2)
      /\ \A k \in 1..n : h[k] = old[k]
      /\ h[n + 1] = Question(q)
      /\ m = 2 => h[n + 2] = Reply(q)
      /\ m = 1 => q \in after
      /\ i \in 1..last
  <2>1. Len(h) \in Nat
    BY <1>a
  <2>. HIDE DEF h, n
  <2>. QED BY <1>a, <1>b, <1>c, <2>1
<1>2. /\ Question(q).role = "user" /\ Question(q).query = q
      /\ Reply(q).role = "assistant" /\ Reply(q).query = q
  BY DEF Question, Reply
<1>. HIDE DEF h, n, m, last
<1>3. CASE i <= n
  <2>1. h[i] = old[i] /\ i \in 1..n /\ old[i].query # q
    BY <1>1, <1>3 DEF n
  <2>2. h[i].role = "assistant" => i > 1 /\ h[i - 1] = Question(h[i].query)
    BY <1>1, <2>1 DEF n, Ordered
  <2>3. h[i].role = "user" /\ h[i].query \notin after => i < n /\ h[i + 1] = Reply(h[i].query)
    BY <1>1, <2>1 DEF n, Ordered
  <2>4. \A j \in 1..n : h[j] = h[i] => j = i
    BY <1>1, <2>1 DEF n, Ordered
  <2>5. \A j \in (n + 1)..last : h[j].query = q
    <3>1. \A j \in (n + 1)..last : j = n + 1 \/ (j = n + 2 /\ m = 2)
      BY <1>1
    <3>. QED BY <1>1, <1>2, <3>1
  <2>6. i < last
    BY <1>1, <1>3
  <2>. QED BY <1>1, <2>1, <2>2, <2>3, <2>4, <2>5, <2>6 DEF last
<1>4. CASE i = n + 1
  <2>1. h[i] = Question(q)
    BY <1>1, <1>4
  <2>2. q \notin after => i < last /\ h[i + 1] = Reply(q)
    BY <1>1, <1>4
  <2>3. \A j \in 1..n : h[j].query # q
    BY <1>1 DEF n
  <2>4. \A j \in 1..last : j \in 1..n \/ j = n + 1 \/ (j = n + 2 /\ m = 2)
    BY <1>1
  <2>. QED BY <1>1, <1>2, <1>4, <2>1, <2>2, <2>3, <2>4 DEF last
<1>5. CASE i = n + 2
  <2>1. h[i] = Reply(q) /\ m = 2 /\ i - 1 = n + 1 /\ i > 1
    BY <1>1, <1>5
  <2>3. \A j \in 1..n : h[j].query # q
    BY <1>1 DEF n
  <2>4. \A j \in 1..last : j \in 1..n \/ j = n + 1 \/ j = n + 2
    BY <1>1
  <2>. QED BY <1>1, <1>2, <1>5, <2>1, <2>3, <2>4 DEF last
<1>6. i <= n \/ i = n + 1 \/ i = n + 2
  BY <1>1
<1>. QED BY <1>3, <1>4, <1>5, <1>6 DEF last

Failed == {q \in Queries : runs[q].at = "failed"}

LEMMA MessageQuery ==
    ASSUME NEW table, table \in [Sessions -> Seq(Message)],
           NEW s \in Sessions, NEW i \in 1..Len(table[s])
    PROVE  table[s][i].query \in Queries
<1>. DEFINE h == table[s]
<1>1. h \in Seq(Message) /\ i \in 1..Len(h)
  OBVIOUS
<1>. HIDE DEF h
<1>2. h[i] \in Message
  BY <1>1
<1>. QED
  BY <1>2 DEF h, Message

LEMMA TurnsAreOrdered ==
    ASSUME messages \in [Sessions -> Seq(Message)]
    PROVE  TurnsStayTogether <=> \A s \in Sessions : Ordered(messages[s], Failed)
<1>1. \A s \in Sessions : \A i \in 1..Len(messages[s]) : messages[s][i].query \in Queries
  BY MessageQuery
<1>. QED
  BY <1>1 DEF TurnsStayTogether, Ordered, Failed

LEMMA TurnsAreOrderedNext ==
    ASSUME messages' \in [Sessions -> Seq(Message)]
    PROVE  TurnsStayTogether' <=> \A s \in Sessions : Ordered(messages'[s], Failed')
<1>1. \A s \in Sessions : \A i \in 1..Len(messages'[s]) : messages'[s][i].query \in Queries
  BY MessageQuery
<1>. QED
  BY <1>1 DEF TurnsStayTogether, Ordered, Failed

\* A step that writes no message and ends no request but with a cached answer,
\* with an error or outside a session.
LEMMA TurnsKept ==
    ASSUME TypeOK, TurnInv, UNCHANGED <<messages, deleted>>,
           \A t \in Queries :
              \/ runs'[t] = runs[t]
              \/ /\ runs[t].at \notin {"done", "failed"}
                 /\ runs'[t].at = "done" => runs'[t].hit \/ runs'[t].session = Nobody
    PROVE  TurnInv'
<1>1. \A s \in Sessions : \A i \in 1..Len(messages[s]) :
         messages[s][i].query \in Queries /\ runs'[messages[s][i].query] = runs[messages[s][i].query]
  <2>1. \A s \in Sessions : \A i \in 1..Len(messages[s]) : messages[s][i].query \in Queries
    BY MessageQuery DEF TypeOK
  <2>. QED BY <2>1 DEF TurnInv
<1>2. TurnsStayTogether'
  BY <1>1 DEF TurnInv, TurnsStayTogether
<1>3. RunIsRecorded'
  BY DEF TurnInv, RunIsRecorded
<1>. QED
  BY <1>1, <1>2, <1>3 DEF TurnInv

\* The step that records a turn, or the question of a turn that fails.
LEMMA TurnRecorded ==
    ASSUME TypeOK, TurnInv, NEW q \in Queries, NEW s \in Sessions, NEW new,
           runs[q].at = "answering", s = runs[q].session, Record(s, new),
           runs'[q].session = s, UNCHANGED deleted,
           \A t \in Queries \ {q} : runs'[t] = runs[t],
           \/ new = <<Question(q), Reply(q)>> /\ runs'[q].at = "done"
           \/ new = <<Question(q)>> /\ runs'[q].at = "failed"
    PROVE  TurnInv'
<1>. DEFINE old == messages[s]
<1>1. /\ old \in Seq(Message) /\ messages' = [messages EXCEPT ![s] = old \o new]
      /\ messages \in [Sessions -> Seq(Message)]
  BY DEF Record, TypeOK
<1>a. new = <<Question(q)>> \/ new = <<Question(q), Reply(q)>>
  OBVIOUS
<1>2. /\ old \o new \in Seq(Message)
      /\ Len(old \o new) = Len(old) + Len(new) /\ Len(new) \in {1, 2}
      /\ \A i \in 1..Len(old) : (old \o new)[i] = old[i]
      /\ (old \o new)[Len(old) + 1] = Question(q)
      /\ Len(new) = 2 => (old \o new)[Len(old) + 2] = Reply(q)
  <2>. HIDE DEF old
  <2>. QED BY <1>1, <1>a, Appended, ZenonT(60)
<1>3. messages' \in [Sessions -> Seq(Message)]
  BY <1>1, <1>2
<1>4. \A t \in Sessions : \A i \in 1..Len(messages[t]) :
         /\ messages[t][i].query \in Queries /\ messages[t][i].query # q
         /\ runs'[messages[t][i].query] = runs[messages[t][i].query]
  <2>1. \A t \in Sessions : \A i \in 1..Len(messages[t]) : messages[t][i].query \in Queries
    BY <1>1, MessageQuery
  <2>. QED BY <2>1 DEF TurnInv
<1>5. TurnsStayTogether'
  <2>1. \A t \in Sessions : Ordered(messages[t], Failed)
    BY <1>1, TurnsAreOrdered DEF TurnInv
  <2>2. \A i \in 1..Len(old) :
           old[i].query # q /\ (old[i].query \in Failed => old[i].query \in Failed')
    BY <1>4 DEF Failed
  <2>3. \/ new = <<Question(q), Reply(q)>>
        \/ new = <<Question(q)>> /\ q \in Failed'
    BY DEF Failed
  <2>4. Ordered(old \o new, Failed')
    <3>1. Ordered(old, Failed)
      BY <2>1
    <3>. HIDE DEF old
    <3>. QED BY <1>1, <2>2, <2>3, <3>1, AppendOrdered
  <2>5. \A t \in Sessions \ {s} : Ordered(messages'[t], Failed')
    <3>1. \A t \in Sessions \ {s} : messages'[t] = messages[t]
      BY <1>1
    <3>2. \A t \in Sessions \ {s} : \A i \in 1..Len(messages[t]) :
             messages[t][i].query \notin Failed' => messages[t][i].query \notin Failed
      BY <1>4 DEF Failed
    <3>. QED BY <2>1, <3>1, <3>2 DEF Ordered
  <2>6. messages'[s] = old \o new
    BY <1>1
  <2>. QED BY <1>3, <2>4, <2>5, <2>6, TurnsAreOrderedNext
<1>6. messages'[s] = old \o new /\ \A t \in Sessions \ {s} : messages'[t] = messages[t]
  BY <1>1
<1>7. \A i \in 1..Len(old \o new) :
         i \in 1..Len(old) \/ (old \o new)[i] = Question(q) \/ (old \o new)[i] = Reply(q)
  <2>1. \A i \in 1..Len(old \o new) :
           i \in 1..Len(old) \/ i = Len(old) + 1 \/ (i = Len(old) + 2 /\ Len(new) = 2)
    <3>. DEFINE m == Len(old)
                k == Len(new)
                last == Len(old \o new)
    <3>1. m \in Nat /\ last = m + k /\ (k = 1 \/ k = 2)
      BY <1>1, <1>2
    <3>. HIDE DEF m, k, last
    <3>2. \A i \in 1..last : i \in 1..m \/ i = m + 1 \/ (i = m + 2 /\ k = 2)
      BY <3>1, SMTT(30)
    <3>. QED BY <3>2 DEF m, k, last
  <2>. QED BY <1>2, <2>1
<1>8. \A t \in Sessions : \A i \in 1..Len(messages'[t]) :
         runs'[messages'[t][i].query].at \in {"done", "failed"}
  <2>1. \A t \in Sessions \ {s} : \A i \in 1..Len(messages'[t]) :
           runs'[messages'[t][i].query].at \in {"done", "failed"}
    BY <1>4, <1>6 DEF TurnInv
  <2>2. \A i \in 1..Len(old) : runs'[(old \o new)[i].query].at \in {"done", "failed"}
    BY <1>2, <1>4, SMTT(30) DEF TurnInv
  <2>3. Question(q).query = q /\ Reply(q).query = q
    BY DEF Question, Reply
  <2>4. \A i \in 1..Len(old \o new) : runs'[(old \o new)[i].query].at \in {"done", "failed"}
    BY <1>7, <2>2, <2>3
  <2>. QED BY <1>6, <2>1, <2>4, ZenonT(60)
<1>9. RunIsRecorded'
  <2>1. \A t \in Sessions : \A i \in 1..Len(messages[t]) :
           i \in 1..Len(messages'[t]) /\ messages'[t][i] = messages[t][i]
    <3>1. \A i \in 1..Len(old) : i \in 1..Len(old \o new)
      <4>1. Len(old) \in Nat
        BY <1>1
      <4>. QED BY <1>2, <4>1
    <3>. QED BY <1>2, <1>6, <3>1, SMTT(30)
  <2>2. Len(old) + 1 \in 1..Len(messages'[s]) /\ messages'[s][Len(old) + 1].query = q
    <3>. DEFINE m == Len(old)
                k == Len(new)
                last == Len(messages'[s])
    <3>0. m \in Nat
      BY <1>1
    <3>1. m \in Nat /\ last = m + k /\ (k = 1 \/ k = 2) /\ messages'[s][m + 1] = Question(q)
      <4>. HIDE DEF m, old
      <4>. QED BY <3>0, <1>2, <1>6 DEF m
    <3>2. messages'[s][m + 1].query = q
      BY <3>1 DEF Question
    <3>. HIDE DEF m, k, last
    <3>3. m + 1 \in 1..last
      BY <3>1
    <3>. QED BY <3>2, <3>3 DEF m, last
  <2>3. \A t \in Queries : runs[t] \in Run
    BY DEF TypeOK
  <2>. QED BY <2>1, <2>2, <2>3 DEF TurnInv, RunIsRecorded, Run
<1>. QED
  BY <1>5, <1>8, <1>9 DEF TurnInv

LEMMA TurnDeleted ==
    ASSUME TypeOK, TurnInv, NEW u \in Users, NEW s \in Sessions, DeleteSession(u, s)
    PROVE  TurnInv'
<1>1. /\ runs' = runs /\ deleted' = deleted \cup {s} /\ messages'[s] = << >>
      /\ \A t \in Sessions \ {s} : messages'[t] = messages[t]
  BY DEF DeleteSession, TypeOK
<1>2. \A i : i \notin 1..Len(messages'[s])
  BY <1>1
<1>3. TurnsStayTogether'
  BY <1>1, <1>2 DEF TurnInv, TurnsStayTogether
<1>4. RunIsRecorded'
  <2>1. \A t \in Queries : runs[t].session # Nobody => runs[t].session \in Sessions
    BY DEF TypeOK, Run
  <2>2. \A t \in Sessions : t \notin deleted' => t # s /\ t \notin deleted /\ messages'[t] = messages[t]
    BY <1>1
  <2>. QED BY <1>1, <2>1, <2>2 DEF TurnInv, RunIsRecorded
<1>. QED
  BY <1>1, <1>2, <1>3, <1>4 DEF TurnInv

LEMMA TurnStep == TypeOK /\ TurnInv /\ [Next]_vars => TurnInv'
<1>. SUFFICES ASSUME TypeOK, TurnInv, [Next]_vars PROVE TurnInv'
  OBVIOUS
<1>. USE DEF stores, chats
<1>a. runs \in [Queries -> Run]
  BY DEF TypeOK
<1>1. ASSUME NEW q \in Queries, NEW u \in Users, NEW x \in Texts,
             NEW s \in Sessions \cup {Nobody}, Submit(q, u, x, s)
      PROVE  TurnInv'
  <2>1. \A t \in Queries \ {q} : runs'[t] = runs[t]
    BY <1>1, <1>a DEF Submit
  <2>2. runs'[q].at = "done" => runs'[q].hit
    BY <1>1, <1>a DEF Submit, NewRun
  <2>. QED BY <1>1, <2>1, <2>2, TurnsKept DEF Submit
<1>2. ASSUME NEW q \in Queries, Routed(q) PROVE TurnInv'
  <2>1. \A t \in Queries \ {q} : runs'[t] = runs[t]
    BY <1>2, <1>a DEF Routed
  <2>2. runs'[q].at # "done"
    BY <1>2, <1>a DEF Routed, Run
  <2>. QED BY <1>2, <2>1, <2>2, TurnsKept DEF Routed
<1>3. ASSUME NEW q \in Queries, Retrieved(q) PROVE TurnInv'
  <2>1. \A t \in Queries \ {q} : runs'[t] = runs[t]
    BY <1>3, <1>a DEF Retrieved
  <2>2. runs'[q].at # "done"
    BY <1>3, <1>a DEF Retrieved, Run
  <2>. QED BY <1>3, <2>1, <2>2, TurnsKept DEF Retrieved
<1>4. ASSUME NEW q \in Queries, Answered(q) PROVE TurnInv'
  <2>1. PICK response \in Response, complete \in BOOLEAN : Ends(q, response, complete)
    BY <1>4, AnswerEnds
  <2>2. /\ runs'[q].at = "done" /\ runs'[q].session = runs[q].session
        /\ \A t \in Queries \ {q} : runs'[t] = runs[t]
    BY <2>1, <1>a DEF Ends, Run
  <2>3. CASE runs[q].session = Nobody
    BY <1>4, <2>1, <2>2, <2>3, TurnsKept DEF Ends, Answered
  <2>4. CASE runs[q].session # Nobody
    <3>1. runs[q].session \in Sessions
      BY <2>4, <1>a DEF Run
    <3>. QED BY <1>4, <2>1, <2>2, <2>4, <3>1, TurnRecorded DEF Ends, Answered
  <2>. QED BY <2>3, <2>4
<1>5. ASSUME NEW q \in Queries, WriteFails(q) PROVE TurnInv'
  <2>1. /\ runs'[q].at = "failed" /\ runs'[q].session = runs[q].session
        /\ \A t \in Queries \ {q} : runs'[t] = runs[t]
    BY <1>5, <1>a DEF WriteFails, Run
  <2>2. CASE UNCHANGED <<owner, messages>>
    BY <1>5, <2>1, <2>2, TurnsKept DEF WriteFails
  <2>3. CASE runs[q].session # Nobody /\ Record(runs[q].session, <<Question(q)>>)
    <3>1. runs[q].session \in Sessions
      BY <2>3, <1>a DEF Run
    <3>. QED BY <1>5, <2>1, <2>3, <3>1, TurnRecorded DEF WriteFails
  <2>. QED BY <1>5, <2>2, <2>3 DEF WriteFails
<1>6. CASE UNCHANGED <<runs, messages, deleted>>
  BY <1>6, TurnsKept
<1>7. CASE Expire
  BY <1>7, <1>6 DEF Expire
<1>8. CASE Restart
  <2>1. \A t \in Queries :
           \/ runs'[t] = runs[t]
           \/ runs[t].at \notin {"done", "failed"} /\ runs'[t].at = "lost"
    BY <1>8, <1>a DEF Restart, Run
  <2>. QED BY <1>8, <2>1, TurnsKept DEF Restart
<1>9. ASSUME NEW u \in Users, NEW s \in Sessions, CreateSession(u, s) \/ DeleteSession(u, s)
      PROVE  TurnInv'
  BY <1>9, <1>6, TurnDeleted DEF CreateSession
<1>10. CASE \E u \in Users, scope \in SUBSET Matters : UpdateMatters(u, scope)
  BY <1>10, <1>6 DEF UpdateMatters
<1>11. CASE \E d \in Docs : Ingest(d) \/ DeleteDocument(d)
  BY <1>11, <1>6 DEF Ingest, DeleteDocument
<1>. QED
  BY <1>1, <1>2, <1>3, <1>4, <1>5, <1>6, <1>7, <1>8, <1>9, <1>10, <1>11
     DEF Next, Continue, vars

\* However many requests share a session, an answer directly follows its
\* question, and a question alone is one whose request failed.
THEOREM TurnsAreTogether == Spec => []TurnsStayTogether
<1>1. TurnInv => TurnsStayTogether
  BY DEF TurnInv
<1>. QED
  BY <1>1, TurnInit, TurnStep, TypeCorrect, PTL DEF Spec

\* An answered turn is in the history of its session until its owner deletes
\* the session.
THEOREM AnsweredIsRecorded == Spec => []RunIsRecorded
<1>1. TurnInv => RunIsRecorded
  BY DEF TurnInv
<1>. QED
  BY <1>1, TurnInit, TurnStep, TypeCorrect, PTL DEF Spec

-----------------------------------------------------------------------------
(***************************************************************************)
(* The refinement of AnswerService.  A stage of a run that is not over is  *)
(* a stutter, and so are the cache and the documents; a hit repeats the    *)
(* answer of the request that GivenInv names.                              *)
(***************************************************************************)
LEMMA GivenKept ==
    ASSUME TypeOK, NEW response, Given(response),
           \A p \in Queries : runs[p].at = "done" => runs'[p] = runs[p]
    PROVE  Given(response)'
<1>1. PICK p \in Queries :
        /\ runs[p].at = "done" /\ runs[p].reply = response
        /\ runs[p].user = response.user /\ runs[p].scope = response.scope
        /\ runs[p].text = response.text
  BY DEF Given
<1>2. runs'[p] = runs[p]
  BY <1>1
<1>. QED BY <1>1, <1>2 DEF Given

\* No step changes a request that has been answered.
LEMMA DoneStays ==
    ASSUME TypeOK, [Next]_vars
    PROVE  \A p \in Queries : runs[p].at = "done" => runs'[p] = runs[p]
<1>0. runs \in [Queries -> Run]
  BY DEF TypeOK
<1>1. ASSUME NEW q \in Queries, NEW u \in Users, NEW x \in Texts,
             NEW s \in Sessions \cup {Nobody}, Submit(q, u, x, s)
      PROVE  \A p \in Queries : runs[p].at = "done" => runs'[p] = runs[p]
  BY <1>0, <1>1 DEF Submit
<1>2. ASSUME NEW q \in Queries, Continue(q)
      PROVE  \A p \in Queries : runs[p].at = "done" => runs'[p] = runs[p]
  BY <1>0, <1>2 DEF Continue, Routed, Retrieved, Answered, WriteFails
<1>3. CASE Restart
  BY <1>0, <1>3 DEF Restart
<1>4. CASE UNCHANGED runs
  BY <1>4
<1>5. ASSUME Expire \/ (\E u \in Users, s \in Sessions : CreateSession(u, s) \/ DeleteSession(u, s))
             \/ (\E u \in Users, scope \in SUBSET Matters : UpdateMatters(u, scope))
             \/ (\E d \in Docs : Ingest(d) \/ DeleteDocument(d)) \/ UNCHANGED vars
      PROVE  UNCHANGED runs
  BY <1>5 DEF Expire, CreateSession, DeleteSession, UpdateMatters, Ingest, DeleteDocument, vars
<1>. QED BY <1>1, <1>2, <1>3, <1>4, <1>5 DEF Next

LEMMA GivenInit == Init => GivenInv
BY DEF Init, GivenInv

LEMMA GivenStep == TypeOK /\ GivenInv /\ [Next]_vars => GivenInv'
<1>. SUFFICES ASSUME TypeOK, GivenInv, [Next]_vars PROVE GivenInv'
  OBVIOUS
<1>1. \A response : Given(response) => Given(response)'
  BY DoneStays, GivenKept
<1>2. ASSUME NEW q \in Queries, Answered(q) PROVE GivenInv'
  <2>1. PICK response \in Response, complete \in BOOLEAN : Ends(q, response, complete)
    BY <1>2, AnswerEnds
  <2>2. runs \in [Queries -> Run]
    BY DEF TypeOK
  <2>3. /\ runs'[q].at = "done" /\ runs'[q].reply = response /\ runs'[q].user = response.user
        /\ runs'[q].scope = response.scope /\ runs'[q].text = response.text
    BY <2>1, <2>2 DEF Ends, Run
  <2>4. Given(response)'
    BY <2>3 DEF Given
  <2>5. \A e \in cache' : e \in cache \/ e.response = response
    BY <2>1 DEF Ends, Store, Entry
  <2>. QED BY <1>1, <2>4, <2>5 DEF GivenInv
<1>3. CASE cache' \subseteq cache
  BY <1>1, <1>3 DEF GivenInv
<1>4. ASSUME NEW q \in Queries, NEW u \in Users, NEW x \in Texts,
             NEW s \in Sessions \cup {Nobody}, Submit(q, u, x, s) \/ Routed(q) \/ Retrieved(q)
                                               \/ WriteFails(q)
      PROVE  cache' \subseteq cache
  BY <1>4 DEF Submit, Routed, Retrieved, WriteFails
<1>5. ASSUME NEW q \in Queries, Continue(q), ~Answered(q)
      PROVE  cache' \subseteq cache
  BY <1>5 DEF Continue, Routed, Retrieved, WriteFails
<1>6. ASSUME Expire \/ Restart
             \/ (\E u \in Users, s \in Sessions : CreateSession(u, s) \/ DeleteSession(u, s))
             \/ (\E u \in Users, scope \in SUBSET Matters : UpdateMatters(u, scope))
             \/ (\E d \in Docs : Ingest(d) \/ DeleteDocument(d)) \/ UNCHANGED vars
      PROVE  cache' \subseteq cache
  BY <1>6 DEF Expire, Restart, CreateSession, DeleteSession, UpdateMatters, Ingest,
              DeleteDocument, vars
<1>. QED BY <1>2, <1>3, <1>4, <1>5, <1>6 DEF Next

\* The requests as AnswerService sees them.
Requests == [q \in Queries |-> Outside(runs[q])]

LEMMA OneRequest ==
    ASSUME runs \in [Queries -> Run], NEW q \in Queries, NEW r, runs' = [runs EXCEPT ![q] = r]
    PROVE  Requests' = [Requests EXCEPT ![q] = Outside(r)]
BY DEF Requests

LEMMA ServiceInit == Init => Service!Init
<1>. SUFFICES ASSUME Init PROVE Service!Init
  OBVIOUS
<1>1. Outside(NewRun) = Service!NotAsked
  BY DEF Outside, State, NewRun, NoResponse, Service!NotAsked, Service!Request, Service!Answer
<1>2. Requests = [q \in Queries |-> Service!NotAsked]
  BY <1>1 DEF Init, Requests
<1>. QED BY <1>2 DEF Init, Service!Init, Requests

LEMMA ServiceStep ==
    TypeOK /\ IInv /\ GivenInv /\ [Next]_vars => [Service!Next]_(Service!vars)
<1>. SUFFICES ASSUME TypeOK, IInv, GivenInv, [Next]_vars PROVE [Service!Next]_(Service!vars)
  OBVIOUS
<1>. DEFINE Stutter == UNCHANGED <<matters, Requests, messages, deleted>>
<1>0. runs \in [Queries -> Run] /\ \A q \in Queries : runs[q] \in Run
  BY DEF TypeOK
<1>s. Stutter => [Service!Next]_(Service!vars)
  BY DEF Service!vars, Requests
<1>1. ASSUME NEW q \in Queries, NEW u \in Users, NEW x \in Texts,
             NEW s \in Sessions \cup {Nobody}, Submit(q, u, x, s)
      PROVE  Service!Ask(q, u, x, s) \/ Service!Repeat(q, u, x, s)
  <2>. DEFINE asked == [NewRun EXCEPT !.user = u, !.text = x, !.session = s,
                                      !.scope = matters[u]]
  <2>1. /\ runs[q].at = "new" /\ UNCHANGED <<matters, messages, deleted>>
        /\ Requests[q].state = "new" /\ Requests = [p \in Queries |-> Outside(runs[p])]
    BY <1>0, <1>1 DEF Submit, stores, chats, Requests, Outside, State
  <2>2. CASE runs' = [runs EXCEPT ![q] = [asked EXCEPT !.at = "routing"]]
    <3>1. Outside([asked EXCEPT !.at = "routing"])
            = Service!Request("open", u, x, s, matters[u], Service!NotAsked.reply)
      BY DEF NewRun, Outside, State, NoResponse, Service!NotAsked, Service!Request, Service!Answer
    <3>2. Requests' = [Requests EXCEPT ![q] =
              Service!Request("open", u, x, s, matters[u], Service!NotAsked.reply)]
      BY <1>0, <2>2, <3>1, OneRequest
    <3>. QED BY <2>1, <3>2 DEF Service!Ask, Requests
  <2>3. CASE \E e \in Cached(u, matters[u], x) :
                runs' = [runs EXCEPT ![q] =
                    [asked EXCEPT !.at = "done", !.reply = e.response, !.hit = TRUE]]
    <3>1. PICK e \in Cached(u, matters[u], x) :
                runs' = [runs EXCEPT ![q] =
                    [asked EXCEPT !.at = "done", !.reply = e.response, !.hit = TRUE]]
      BY <2>3
    <3>2. e.response.user = u /\ e.response.scope = matters[u]
          /\ Normal[e.response.text] = Normal[x] /\ Given(e.response)
      BY KeysDiffer DEF Cached, IInv, CacheInv, GivenInv
    <3>3. PICK p \in Queries :
              /\ runs[p].at = "done" /\ runs[p].reply = e.response
              /\ runs[p].user = u /\ runs[p].scope = matters[u] /\ runs[p].text = e.response.text
      BY <3>2 DEF Given
    <3>4. /\ Requests[p].state = "answered" /\ Requests[p].user = u
          /\ Requests[p].scope = matters[u] /\ Normal[Requests[p].text] = Normal[x]
          /\ Requests[p].reply = e.response
      BY <3>2, <3>3 DEF Requests, Outside, State
    <3>5. Outside([asked EXCEPT !.at = "done", !.reply = e.response, !.hit = TRUE])
            = Service!Request("answered", u, x, s, matters[u], e.response)
      BY DEF NewRun, Outside, State, Service!Request
    <3>6. Requests' = [Requests EXCEPT ![q] =
              Service!Request("answered", u, x, s, matters[u], Requests[p].reply)]
      BY <1>0, <3>1, <3>4, <3>5, OneRequest
    <3>. QED BY <2>1, <3>4, <3>6 DEF Service!Repeat, Requests
  <2>. QED BY <1>1, <2>2, <2>3 DEF Submit
<1>2. ASSUME NEW q \in Queries, Routed(q) \/ Retrieved(q) PROVE Stutter
  <2>1. /\ \E found \in SUBSET Docs, at \in {"retrieving", "answering"} :
              runs' = [runs EXCEPT ![q] = [runs[q] EXCEPT !.at = at, !.found = found]]
        /\ runs[q].at \in {"routing", "retrieving"} /\ UNCHANGED <<matters, messages, deleted>>
    <3>1. CASE Routed(q)
      <4>1. PICK at \in {"retrieving", "answering"} : runs' = [runs EXCEPT ![q].at = at]
        BY <3>1 DEF Routed
      <4>2. [runs[q] EXCEPT !.at = at] = [runs[q] EXCEPT !.at = at, !.found = runs[q].found]
        BY <1>0 DEF Run
      <4>3. runs[q].found \in SUBSET Docs
        BY <1>0 DEF Run
      <4>4. runs' = [runs EXCEPT ![q] = [runs[q] EXCEPT !.at = at, !.found = runs[q].found]]
        BY <4>1, <4>2
      <4>. QED BY <3>1, <4>3, <4>4 DEF Routed, stores, chats
    <3>2. CASE Retrieved(q)
      <4>1. PICK found \in SUBSET Matching(runs[q].scope) :
               runs' = [runs EXCEPT ![q].at = "answering", ![q].found = found]
        BY <3>2 DEF Retrieved
      <4>2. found \in SUBSET Docs
        BY DEF TypeOK, Matching
      <4>3. runs' = [runs EXCEPT ![q] = [runs[q] EXCEPT !.at = "answering", !.found = found]]
        BY <1>0, <4>1
      <4>. QED BY <3>2, <4>2, <4>3 DEF Retrieved, stores, chats
    <3>. QED BY <1>2, <3>1, <3>2
  <2>2. PICK found \in SUBSET Docs, at \in {"retrieving", "answering"} :
              runs' = [runs EXCEPT ![q] = [runs[q] EXCEPT !.at = at, !.found = found]]
    BY <2>1
  <2>3. Outside([runs[q] EXCEPT !.at = at, !.found = found]) = Outside(runs[q])
    BY <1>0, <2>1 DEF Run, Outside, State
  <2>4. Requests' = [Requests EXCEPT ![q] = Outside(runs[q])]
    BY <1>0, <2>2, <2>3, OneRequest
  <2>5. Requests' = Requests
    BY <2>4 DEF Requests
  <2>. QED BY <2>1, <2>5
<1>3. ASSUME NEW q \in Queries, NEW new, runs[q].session = Nobody => UNCHANGED <<owner, messages>>,
             runs[q].session # Nobody => Record(runs[q].session, new)
      PROVE  messages' = IF Requests[q].session = Nobody THEN messages
                         ELSE [messages EXCEPT ![Requests[q].session] = @ \o new]
  BY <1>3 DEF Requests, Outside, Record
<1>4. ASSUME NEW q \in Queries, Answered(q) PROVE Service!Give(q)
  <2>1. PICK response \in Response, complete \in BOOLEAN : Ends(q, response, complete)
    BY <1>4, AnswerEnds
  <2>2. /\ Requests = [p \in Queries |-> Outside(runs[p])] /\ Requests[q].state = "open"
        /\ Requests[q].user = runs[q].user /\ Requests[q].scope = runs[q].scope
        /\ Requests[q].text = runs[q].text
    BY <1>4 DEF Answered, Requests, Outside, State
  <2>3. response.cites \in SUBSET Service!Readable(Requests[q].scope)
    BY <2>1, <2>2 DEF Ends, IInv, FoundInv, Allowed, Service!Readable
  <2>4. response = Service!Answer(response.cites, Requests[q].user, Requests[q].scope,
                                  Requests[q].text)
    BY <2>1, <2>2 DEF Ends, Response, Service!Answer
  <2>5. runs' = [runs EXCEPT ![q] = [runs[q] EXCEPT !.at = "done", !.reply = response]]
    BY <1>0, <2>1 DEF Ends
  <2>6. Outside([runs[q] EXCEPT !.at = "done", !.reply = response])
          = Service!Request("answered", runs[q].user, runs[q].text, runs[q].session,
                            runs[q].scope, response)
    <3>. DEFINE r == [runs[q] EXCEPT !.at = "done", !.reply = response]
    <3>1. /\ r.at = "done" /\ r.reply = response /\ r.user = runs[q].user /\ r.text = runs[q].text
          /\ r.session = runs[q].session /\ r.scope = runs[q].scope
      BY <1>0 DEF Run
    <3>2. State("done") = "answered"
      BY DEF State
    <3>. HIDE DEF r
    <3>3. Outside(r) = Service!Request("answered", runs[q].user, runs[q].text, runs[q].session,
                                       runs[q].scope, response)
      BY <3>1, <3>2 DEF Outside, Service!Request
    <3>. QED BY <3>3 DEF r
  <2>7. Requests' = [Requests EXCEPT ![q] =
                        Service!Request("answered", runs[q].user, runs[q].text, runs[q].session,
                                        runs[q].scope, response)]
    BY <1>0, <2>2, <2>5, <2>6, OneRequest
  <2>8. messages' = IF Requests[q].session = Nobody THEN messages
                    ELSE [messages EXCEPT ![Requests[q].session] = @ \o <<Question(q), Reply(q)>>]
    BY <1>3, <2>1 DEF Ends
  <2>9. Question(q) = Service!Question(q) /\ Reply(q) = Service!Reply(q)
    BY DEF Question, Reply, Service!Question, Service!Reply
  <2>10. UNCHANGED <<matters, deleted>>
    BY <1>4 DEF Answered, stores
  <2>11. \E cites \in SUBSET Service!Readable(Requests[q].scope) :
            Requests' = [Requests EXCEPT ![q] =
               Service!Request("answered", @.user, @.text, @.session, @.scope,
                               Service!Answer(cites, @.user, @.scope, @.text))]
    <3>. DEFINE answer == Service!Answer(response.cites, runs[q].user, runs[q].scope, runs[q].text)
    <3>1. Requests' = [Requests EXCEPT ![q] =
             Service!Request("answered", runs[q].user, runs[q].text, runs[q].session,
                             runs[q].scope, answer)]
      BY <2>2, <2>4, <2>7
    <3>2. /\ Requests[q].user = runs[q].user /\ Requests[q].text = runs[q].text
          /\ Requests[q].session = runs[q].session /\ Requests[q].scope = runs[q].scope
      BY DEF Requests, Outside
    <3>. QED BY <2>3, <3>1, <3>2
  <2>. QED BY <2>2, <2>8, <2>9, <2>10, <2>11 DEF Service!Give, Service!Says, Requests
<1>5. ASSUME NEW q \in Queries, WriteFails(q) PROVE Service!Fail(q)
  <2>1. /\ runs' = [runs EXCEPT ![q] = [runs[q] EXCEPT !.at = "failed"]]
        /\ runs[q].at = "answering" /\ UNCHANGED <<matters, deleted>>
    BY <1>0, <1>5 DEF WriteFails, stores
  <2>2. Requests = [p \in Queries |-> Outside(runs[p])] /\ Requests[q].state = "open"
    BY <2>1 DEF Requests, Outside, State
  <2>3. Outside([runs[q] EXCEPT !.at = "failed"]) = [Outside(runs[q]) EXCEPT !.state = "failed"]
    BY <1>0 DEF Run, Outside, State
  <2>4. Requests' = [Requests EXCEPT ![q] = [Requests[q] EXCEPT !.state = "failed"]]
    BY <1>0, <2>1, <2>2, <2>3, OneRequest
  <2>5. \/ UNCHANGED messages
        \/ messages' = IF Requests[q].session = Nobody THEN messages
                       ELSE [messages EXCEPT ![Requests[q].session] = @ \o <<Question(q)>>]
    BY <1>3, <1>5 DEF WriteFails
  <2>6. Question(q) = Service!Question(q)
    BY DEF Question, Service!Question
  <2>. QED BY <2>1, <2>2, <2>4, <2>5, <2>6 DEF Service!Fail, Service!Says, Requests
<1>6. CASE Restart
  <2>1. \A q \in Queries : Outside(runs'[q]) =
           IF Outside(runs[q]).state = "open" THEN [Outside(runs[q]) EXCEPT !.state = "lost"]
                                              ELSE Outside(runs[q])
    <3>. TAKE q \in Queries
    <3>1. CASE runs[q].at \in {"new", "done", "failed"}
      BY <1>0, <1>6, <3>1 DEF Restart, Outside, State
    <3>2. CASE runs[q].at \notin {"new", "done", "failed"}
      <4>1. runs[q].at \in {"routing", "retrieving", "answering", "lost"}
        BY <1>0, <3>2 DEF Run, Stages
      <4>2. runs'[q] = [runs[q] EXCEPT !.at = "lost"]
        BY <1>6, <3>2 DEF Restart
      <4>. QED BY <1>0, <4>1, <4>2 DEF Run, Outside, State
    <3>. QED BY <3>1, <3>2
  <2>2. Service!Lose
    BY <1>6, <2>1 DEF Restart, stores, chats, Service!Lose
  <2>. QED BY <2>2 DEF Service!Next
<1>7. ASSUME NEW s \in Sessions, NEW u \in Users, DeleteSession(u, s) PROVE Service!Erase(s)
  BY <1>7 DEF DeleteSession, stores, Service!Erase
<1>8. ASSUME NEW u \in Users, NEW scope, UpdateMatters(u, scope) PROVE Service!Grant(u, scope)
  BY <1>8 DEF UpdateMatters, chats, Service!Grant
<1>9. ASSUME Expire \/ (\E u \in Users, s \in Sessions : CreateSession(u, s))
             \/ (\E d \in Docs : Ingest(d) \/ DeleteDocument(d)) \/ UNCHANGED vars
      PROVE  Stutter
  BY <1>9 DEF Expire, CreateSession, Ingest, DeleteDocument, vars, stores, chats, Requests
<1>. QED
  <2>1. CASE Next
    BY <1>1, <1>2, <1>4, <1>5, <1>6, <1>7, <1>8, <1>9, <1>s, <2>1
       DEF Next, Continue, Service!Next
  <2>. QED BY <1>9, <1>s, <2>1

\* /query does what AnswerService promises, for any users, sessions and requests:
\* from the cache comes only an answer that was given to the same user, with the
\* same matters, for the same question; a new answer is recorded with its question
\* in the step that gives it; nothing else is ever recorded or rewritten.
THEOREM QueryImplementsService == Spec => ImplementsAnswerService
BY ServiceInit, ServiceStep, TypeInit, TypeStep, SafeInit, SafeStep, GivenInit, GivenStep, PTL
   DEF Spec, ImplementsAnswerService, Service!Spec
=============================================================================
