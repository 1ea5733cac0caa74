-------------------------- MODULE ChatClientProofs --------------------------
(* Proof that a text is sent once, for any number of sessions, texts, user *)
(* actions, requests under way and faults.                                 *)
EXTENDS ChatClient, TLAPS

Posts == {"first", "query"}

LEMMA ChatInit == Init => SendInv
<1>. SUFFICES ASSUME Init PROVE SendInv
  OBVIOUS
<1>1. \A c \in calls : DOMAIN c = Fields /\ c.kind = "list"
  BY DEF Init, Asked, Ask, Fields
<1>2. \A t \in Texts : Queries(t) = {}
  BY <1>1 DEF Queries
<1>3. MaxTexts \in Nat
  BY BoundsAssumption
<1>. QED BY <1>1, <1>2, <1>3 DEF Init, SendInv, Numbered, OnePlace, Texts

\* What a new request adds to those under way; the others may only turn late.
LEMMA AskedFacts ==
    ASSUME NEW cs, \A c \in cs : DOMAIN c = Fields, NEW new, DOMAIN new = Fields
    PROVE  /\ \A e \in Asked(cs, new) : DOMAIN e = Fields
           /\ \A e \in Asked(cs, new) :
                \/ e \in cs
                \/ e.kind = "messages"
                \/ e.kind = new.kind /\ e.text = new.text /\ e.reply = new.reply
           /\ \A d, e \in Asked(cs, new) :
                d \notin cs /\ e \notin cs /\ d.kind \in Posts /\ e.kind \in Posts => d = e
<1>. DEFINE aged(c) == IF new.kind = "messages" /\ c.kind = "messages"
                       THEN [c EXCEPT !.late = TRUE] ELSE c
            first == [new EXCEPT !.id = FreeId(cs, new.kind)]
<1>1. \A e \in Asked(cs, new) : e = first \/ \E c \in cs : e = aged(c)
  BY DEF Asked
<1>2. \A c \in cs : DOMAIN aged(c) = Fields /\ (aged(c) = c \/ aged(c).kind = "messages")
  BY DEF Fields
<1>3. DOMAIN first = Fields /\ first.kind = new.kind /\ first.text = new.text
      /\ first.reply = new.reply
  BY DEF Fields
<1>. HIDE DEF aged, first
<1>. QED BY <1>1, <1>2, <1>3 DEF Posts

LEMMA AskFacts ==
    ASSUME NEW kind, NEW s, NEW text, NEW then
    PROVE  /\ DOMAIN Ask(kind, s, text, then) = Fields
           /\ Ask(kind, s, text, then).kind = kind
           /\ Ask(kind, s, text, then).text = text
BY DEF Ask, Fields

LEMMA AskAfterFacts ==
    ASSUME NEW c, DOMAIN c = Fields, NEW kind, NEW s
    PROVE  /\ DOMAIN AskAfter(c, kind, s) = Fields
           /\ AskAfter(c, kind, s).kind = kind
           /\ AskAfter(c, kind, s).text = c.text
BY DEF AskAfter, Fields

\* A step that posts nothing, and at most empties the input, keeps the invariant.
LEMMA PostsNothing ==
    ASSUME SendInv, runs' = runs, typed' = typed, blind' = blind,
           draft' \in {draft, 0},
           \A e \in calls' : DOMAIN e = Fields,
           \A e \in calls' : e.kind \in Posts => e \in calls
    PROVE  SendInv'
<1>1. \A t \in Texts : Queries(t)' \subseteq Queries(t)
  BY DEF Queries, Posts
<1>2. 0 \in 0..typed /\ \A t \in Texts : t # 0
  BY BoundsAssumption DEF SendInv, Numbered, Texts
<1>3. Numbered'
  BY <1>2 DEF SendInv, Numbered, Posts
<1>4. OnePlace'
  <2>. SUFFICES ASSUME NEW t \in Texts \ blind
                PROVE  /\ draft' = t \/ t > typed => runs[t] = 0 /\ Queries(t)' = {}
                       /\ \A c, d \in Queries(t)' : c = d
                       /\ \A c \in Queries(t)' : c.reply = "none" => runs[t] = 0
                       /\ runs[t] <= 1
    BY DEF OnePlace, Texts
  <2>. QED BY <1>1, <1>2 DEF SendInv, OnePlace
<1>. QED BY <1>3, <1>4 DEF SendInv

\* An answer that comes to a request changes neither its kind nor its text.
LEMMA Answers ==
    ASSUME SendInv, NEW c \in calls, NEW r, NEW f, NEW d, r # "none",
           Reply(c, r, f, d),
           typed' = typed, blind' = blind, draft' = draft,
           \/ runs' = runs
           \/ c.kind = "query" /\ c.reply = "none" /\ runs' = [runs EXCEPT ![c.text] = @ + 1]
    PROVE  SendInv'
<1>. DEFINE n == [c EXCEPT !.reply = r, !.found = f, !.data = d]
<1>1. calls' = (calls \ {c}) \cup {n}
  BY DEF Reply
<1>2. DOMAIN n = Fields /\ n.kind = c.kind /\ n.text = c.text /\ n.reply = r
  BY DEF SendInv, Numbered, Fields
<1>. HIDE DEF n
<1>3. c.kind = "query" => c.text \in Texts
  BY BoundsAssumption DEF SendInv, Numbered, Texts
<1>4. runs' \in [Texts -> Nat]
  BY <1>3 DEF SendInv, Numbered
<1>5. Numbered'
  BY <1>1, <1>2, <1>4 DEF SendInv, Numbered
<1>6. OnePlace'
  <2>. SUFFICES ASSUME NEW t \in Texts \ blind
                PROVE  /\ draft = t \/ t > typed => runs'[t] = 0 /\ Queries(t)' = {}
                       /\ \A x, y \in Queries(t)' : x = y
                       /\ \A x \in Queries(t)' : x.reply = "none" => runs'[t] = 0
                       /\ runs'[t] <= 1
    BY DEF OnePlace, Texts
  <2>1. CASE c \in Queries(t)
    <3>1. Queries(t) = {c} /\ Queries(t)' = {n}
      BY <1>1, <1>2, <2>1 DEF SendInv, OnePlace, Queries
    <3>2. runs[t] \in Nat /\ runs[t] <= 1 /\ (c.reply = "none" => runs[t] = 0) /\ c.text = t
      BY <2>1 DEF SendInv, OnePlace, Numbered, Queries
    <3>3. ~(draft = t \/ t > typed)
      BY <2>1 DEF SendInv, OnePlace
    <3>4. runs'[t] <= 1
      BY <3>2 DEF SendInv, Numbered
    <3>. QED BY <1>2, <3>1, <3>3, <3>4
  <2>2. CASE c \notin Queries(t)
    <3>1. Queries(t)' = Queries(t)
      BY <1>1, <1>2, <2>2 DEF Queries
    <3>2. runs'[t] = runs[t]
      <4>1. c.kind = "query" => c.text # t
        BY <2>2 DEF Queries
      <4>. QED BY <4>1, <1>3 DEF SendInv, Numbered
    <3>. QED BY <3>1, <3>2 DEF SendInv, OnePlace
  <2>. QED BY <2>1, <2>2
<1>. QED BY <1>5, <1>6 DEF SendInv

LEMMA ChatNetwork ==
    ASSUME SendInv, NEW c \in calls, Handle(c) \/ Refuse(c) \/ Lose(c)
    PROVE  SendInv'
<1>1. /\ typed' = typed /\ blind' = blind /\ draft' = draft
  BY DEF Handle, Refuse, Lose, user, panel
<1>2. /\ \/ runs' = runs
         \/ c.kind = "query" /\ c.reply = "none" /\ runs' = [runs EXCEPT ![c.text] = @ + 1]
      /\ \E r \in {"ok", "refused", "lost"} : \E f, d : Reply(c, r, f, d)
  BY DEF Handle, Refuse, Lose, HandleList, HandleCreate, HandleDelete, HandleMessages,
         HandleQuery, HandleDecision, server
<1>3. PICK r \in {"ok", "refused", "lost"} : \E f, d : Reply(c, r, f, d)
  BY <1>2
<1>4. PICK f, d : Reply(c, r, f, d)
  BY <1>3
<1>. QED BY <1>1, <1>2, <1>4, Answers

-----------------------------------------------------------------------------
\* A step that posts the text t: it has no session, or was in the input until now.
LEMMA PostsOne ==
    ASSUME SendInv, NEW t \in 1..typed, runs' = runs, typed' = typed,
           blind \subseteq blind', blind' \subseteq Texts, draft' \in {draft, 0},
           \A e \in calls' : DOMAIN e = Fields,
           \A e \in calls' : e.kind \in Posts => e \in calls \/ e.text = t,
           \A e \in calls' : e.kind = "first" => e \in calls \/ t \in blind',
           \/ t \in blind'
           \/ /\ draft = t /\ draft' = 0
              /\ \A d, e \in calls' : d \notin calls /\ e \notin calls
                                      /\ d.kind \in Posts /\ e.kind \in Posts => d = e
    PROVE  SendInv'
<1>1. \A u \in Texts : u # t => Queries(u)' \subseteq Queries(u)
  BY DEF Queries, Posts
<1>2. 0 \in 0..typed /\ \A u \in Texts : u # 0
  BY BoundsAssumption DEF SendInv, Numbered, Texts
<1>3. Numbered'
  <2>1. \A e \in calls' : e.kind \in Posts => e.text \in 1..typed
    BY DEF SendInv, Numbered, Posts
  <2>2. \A e \in calls' : e.kind = "first" => e.text \in blind'
    BY DEF SendInv, Numbered, Posts
  <2>. QED BY <1>2, <2>1, <2>2 DEF SendInv, Numbered, Posts
<1>4. OnePlace'
  <2>. SUFFICES ASSUME NEW u \in Texts \ blind'
                PROVE  /\ draft' = u \/ u > typed => runs[u] = 0 /\ Queries(u)' = {}
                       /\ \A c, d \in Queries(u)' : c = d
                       /\ \A c \in Queries(u)' : c.reply = "none" => runs[u] = 0
                       /\ runs[u] <= 1
    BY DEF OnePlace, Texts
  <2>1. CASE u # t
    BY <1>1, <1>2, <2>1 DEF SendInv, OnePlace
  <2>2. CASE u = t
    <3>1. runs[t] = 0 /\ Queries(t) = {} /\ draft' = 0
      BY <2>2 DEF SendInv, OnePlace
    <3>2. \A c, d \in Queries(t)' : c = d
      BY <2>2, <3>1 DEF Queries, Posts
    <3>3. ~(t > typed) /\ t # 0
      BY <1>2, <2>2 DEF SendInv, Numbered
    <3>. QED BY <2>2, <3>1, <3>2, <3>3
  <2>. QED BY <2>1, <2>2
<1>. QED BY <1>3, <1>4 DEF SendInv

LEMMA ActivateFacts ==
    ASSUME NEW s, NEW cs, \A e \in cs : DOMAIN e = Fields, Activate(s, cs)
    PROVE  /\ \A e \in calls' : DOMAIN e = Fields
           /\ \A e \in calls' : e.kind \in Posts => e \in cs
<1>. DEFINE new == Ask("messages", s, 0, "open")
<1>1. calls' = cs \/ calls' = Asked(cs, new)
  BY DEF Activate
<1>2. DOMAIN new = Fields /\ new.kind = "messages"
  BY AskFacts
<1>. HIDE DEF new
<1>3. CASE calls' = Asked(cs, new)
  <2>1. /\ \A e \in Asked(cs, new) : DOMAIN e = Fields
        /\ \A e \in Asked(cs, new) :
             \/ e \in cs \/ e.kind = "messages"
             \/ e.kind = new.kind /\ e.text = new.text /\ e.reply = new.reply
    BY <1>2, AskedFacts
  <2>. QED BY <1>2, <1>3, <2>1 DEF Posts
<1>. QED BY <1>1, <1>3

\* A request that is no post.
LEMMA AskedQuietly ==
    ASSUME NEW cs, \A e \in cs : DOMAIN e = Fields, NEW new, DOMAIN new = Fields,
           new.kind \notin Posts, calls' = Asked(cs, new)
    PROVE  /\ \A e \in calls' : DOMAIN e = Fields
           /\ \A e \in calls' : e.kind \in Posts => e \in cs
<1>1. /\ \A e \in Asked(cs, new) : DOMAIN e = Fields
      /\ \A e \in Asked(cs, new) :
           \/ e \in cs \/ e.kind = "messages"
           \/ e.kind = new.kind /\ e.text = new.text /\ e.reply = new.reply
  BY AskedFacts
<1>. QED BY <1>1 DEF Posts

LEMMA ChatDeliver == ASSUME SendInv, NEW c \in calls, Deliver(c) PROVE SendInv'
<1>. DEFINE rest == calls \ {c}
<1>1. runs' = runs /\ typed' = typed /\ blind' = blind
  BY DEF Deliver, server, user
<1>2. \A e \in calls : DOMAIN e = Fields
  BY DEF SendInv, Numbered
<1>3. ASSUME GotMessages(c) PROVE SendInv'
  <2>1. calls' = rest /\ draft' = draft
    BY <1>3 DEF GotMessages
  <2>. QED BY <1>1, <1>2, <2>1, PostsNothing
<1>4. ASSUME GotList(c) \/ Created(c) \/ Deleted(c) PROVE SendInv'
  <2>1. draft' = draft /\ (calls' = rest \/ \E s : Activate(s, rest))
    BY <1>4 DEF GotList, Created, Deleted, panel
  <2>2. /\ \A e \in calls' : DOMAIN e = Fields
        /\ \A e \in calls' : e.kind \in Posts => e \in calls
    <3>1. CASE calls' = rest
      BY <1>2, <3>1
    <3>2. CASE \E s : Activate(s, rest)
      BY <1>2, <3>2, ActivateFacts
    <3>. QED BY <2>1, <3>1, <3>2
  <2>. QED BY <1>1, <2>1, <2>2, PostsNothing
<1>5. ASSUME Answered(c) \/ Decided(c) PROVE SendInv'
  <2>. DEFINE new == AskAfter(c, "messages", c.session)
  <2>1. draft' = draft /\ (calls' = rest \/ calls' = Asked(rest, new))
    BY <1>5 DEF Answered, Decided
  <2>2. DOMAIN new = Fields /\ new.kind \notin Posts
    BY <1>2, AskAfterFacts DEF Posts
  <2>. HIDE DEF new
  <2>3. /\ \A e \in calls' : DOMAIN e = Fields
        /\ \A e \in calls' : e.kind \in Posts => e \in calls
    <3>1. CASE calls' = rest
      BY <1>2, <3>1
    <3>2. CASE calls' = Asked(rest, new)
      BY <1>2, <2>2, <3>2, AskedQuietly
    <3>. QED BY <2>1, <3>1, <3>2
  <2>. QED BY <1>1, <2>1, <2>3, PostsNothing
<1>6. ASSUME CreatedFirst(c) PROVE SendInv'
  <2>1. c.text \in blind /\ c.text \in 1..typed
    BY <1>6 DEF CreatedFirst, SendInv, Numbered
  <2>2. draft' \in {draft, 0}
    BY <1>6 DEF CreatedFirst, Shows, LeftDraft, panel
  <2>3. PICK s : LET cs == Asked(rest, AskAfter(c, "query", s)) IN
                 calls' = rest \/ calls' = cs \/ Activate(s, cs)
    BY <1>6 DEF CreatedFirst
  <2>. DEFINE new == AskAfter(c, "query", s)
              cs == Asked(rest, new)
  <2>4. DOMAIN new = Fields /\ new.kind = "query" /\ new.text = c.text
    BY <1>2, AskAfterFacts
  <2>. HIDE DEF new
  <2>5. /\ \A e \in cs : DOMAIN e = Fields
        /\ \A e \in cs : \/ e \in rest
                         \/ e.kind = "messages"
                         \/ e.kind = "query" /\ e.text = c.text
    BY <1>2, <2>4, AskedFacts
  <2>6. calls' = rest \/ calls' = cs \/ Activate(s, cs)
    BY <2>3 DEF new
  <2>. HIDE DEF cs
  <2>7. /\ \A e \in calls' : DOMAIN e = Fields
        /\ \A e \in calls' : e.kind \in Posts => e \in rest \/ e \in cs
    <3>1. CASE calls' = rest \/ calls' = cs
      BY <1>2, <2>5, <3>1
    <3>2. CASE Activate(s, cs)
      BY <2>5, <3>2, ActivateFacts
    <3>. QED BY <2>6, <3>1, <3>2
  <2>8. /\ \A e \in calls' : e.kind \in Posts => e \in calls \/ e.text = c.text
        /\ \A e \in calls' : e.kind = "first" => e \in calls \/ c.text \in blind'
    BY <1>1, <2>1, <2>5, <2>7 DEF Posts
  <2>9. blind \subseteq blind' /\ blind' \subseteq Texts /\ c.text \in blind'
    BY <1>1, <2>1 DEF SendInv, Numbered
  <2>. QED BY <1>1, <2>1, <2>2, <2>7, <2>8, <2>9, PostsOne
<1>. QED BY <1>3, <1>4, <1>5, <1>6 DEF Deliver

LEMMA ChatSend == ASSUME SendInv, Send PROVE SendInv'
<1>1. /\ runs' = runs /\ typed' = typed /\ draft # 0 /\ draft' \in {draft, 0}
      /\ \A e \in calls : DOMAIN e = Fields
  BY DEF Send, Turn, server, Shows, LeftDraft, SendInv, Numbered
<1>2. draft \in 1..typed /\ draft \in Texts
  BY <1>1, BoundsAssumption DEF SendInv, Numbered, Texts
<1>3. PICK kind, s :
        /\ kind \in Posts
        /\ calls' = Asked(calls, Ask(kind, s, draft, "send"))
        /\ \/ kind = "query" /\ blind' = blind /\ draft' = 0
           \/ kind = "first" /\ blind' = blind \cup {draft}
  <2>1. CASE active # NoSession
    <3>1. /\ calls' = Asked(calls, Ask("query", active, draft, "send"))
          /\ blind' = blind /\ draft' = 0
      BY <2>1 DEF Send, Shows, LeftDraft
    <3>. QED BY <3>1 DEF Posts
  <2>2. CASE active = NoSession
    <3>1. /\ calls' = Asked(calls, Ask("first", NoSession, draft, "send"))
          /\ blind' = blind \cup {draft}
      BY <2>2 DEF Send
    <3>. QED BY <3>1 DEF Posts
  <2>. QED BY <2>1, <2>2
<1>. DEFINE new == Ask(kind, s, draft, "send")
<1>4. DOMAIN new = Fields /\ new.kind = kind /\ new.text = draft
  BY AskFacts
<1>5. calls' = Asked(calls, new)
  BY <1>3
<1>. HIDE DEF new
<1>6. /\ \A e \in calls' : DOMAIN e = Fields
      /\ \A e \in calls' :
           \/ e \in calls
           \/ e.kind = "messages"
           \/ e.kind = kind /\ e.text = draft
      /\ \A d, e \in calls' :
           d \notin calls /\ e \notin calls /\ d.kind \in Posts /\ e.kind \in Posts => d = e
  BY <1>1, <1>4, <1>5, AskedFacts
<1>7. blind \subseteq blind' /\ blind' \subseteq Texts
  BY <1>2, <1>3 DEF SendInv, Numbered
<1>8. /\ \A e \in calls' : e.kind \in Posts => e \in calls \/ e.text = draft
      /\ \A e \in calls' : e.kind = "first" => e \in calls \/ draft \in blind'
      /\ draft \in blind' \/ draft' = 0
  BY <1>3, <1>6 DEF Posts
<1>. QED BY <1>1, <1>2, <1>6, <1>7, <1>8, PostsOne

LEMMA ChatType == ASSUME SendInv, Type PROVE SendInv'
<1>1. /\ runs' = runs /\ blind' = blind /\ calls' = calls /\ typed < MaxTexts
      /\ typed' = typed + 1 /\ draft' = typed + 1
  BY DEF Type, server
<1>2. typed \in Nat /\ typed + 1 \in 0..MaxTexts /\ typed + 1 > typed
  BY <1>1, BoundsAssumption DEF SendInv, Numbered
<1>3. \A t : Queries(t)' = Queries(t)
  BY <1>1 DEF Queries
<1>4. Numbered'
  BY <1>1, <1>2 DEF SendInv, Numbered
<1>5. OnePlace'
  BY <1>1, <1>2, <1>3 DEF SendInv, OnePlace, Texts
<1>. QED BY <1>4, <1>5 DEF SendInv

\* The requests of the panel left behind go on.
LEMMA ChatRemount == ASSUME SendInv, Remount PROVE SendInv'
<1>. DEFINE Left(c) == [c EXCEPT !.live = FALSE]
            left == {Left(c) : c \in calls}
<1>1. /\ runs' = runs /\ typed' = typed /\ blind' = blind /\ draft' = 0
      /\ calls' = left \/ calls' = Asked(left, Ask("messages", active, 0, "open"))
  BY DEF Remount, Turn, server
<1>2. \A c \in calls : /\ DOMAIN Left(c) = Fields
                       /\ Left(c).kind = c.kind /\ Left(c).text = c.text
                       /\ Left(c).reply = c.reply
  BY DEF SendInv, Numbered, Fields
<1>. HIDE DEF Left
<1>3. /\ \A e \in calls' : DOMAIN e = Fields
      /\ \A e \in calls' : e.kind \in Posts => e \in left
  <2>. DEFINE new == Ask("messages", active, 0, "open")
  <2>1. \A e \in left : DOMAIN e = Fields
    BY <1>2
  <2>2. DOMAIN new = Fields /\ new.kind \notin Posts
    BY AskFacts DEF Posts
  <2>. HIDE DEF new, left
  <2>3. CASE calls' = left
    BY <2>1, <2>3
  <2>4. CASE calls' = Asked(left, new)
    BY <2>1, <2>2, <2>4, AskedQuietly
  <2>. QED BY <1>1, <2>3, <2>4 DEF new
<1>4. \A e \in calls' : e.kind \in Posts =>
        \E c \in calls : e = Left(c) /\ e.kind = c.kind /\ e.text = c.text /\ e.reply = c.reply
  BY <1>2, <1>3
<1>5. 0 \in 0..typed /\ \A t \in Texts : t # 0
  BY BoundsAssumption DEF SendInv, Numbered, Texts
<1>6. Numbered'
  BY <1>1, <1>3, <1>4, <1>5 DEF SendInv, Numbered, Posts
<1>7. OnePlace'
  <2>. SUFFICES ASSUME NEW t \in Texts \ blind
                PROVE  /\ t > typed => runs[t] = 0 /\ Queries(t)' = {}
                       /\ \A d, e \in Queries(t)' : d = e
                       /\ \A e \in Queries(t)' : e.reply = "none" => runs[t] = 0
                       /\ runs[t] <= 1
    BY <1>1, <1>5 DEF OnePlace, Texts
  <2>1. \A e \in Queries(t)' : \E c \in Queries(t) : e = Left(c) /\ e.reply = c.reply
    BY <1>4 DEF Queries, Posts
  <2>. QED BY <2>1 DEF SendInv, OnePlace
<1>. QED BY <1>6, <1>7 DEF SendInv

\* What else the user does posts nothing.
LEMMA ChatUser ==
    ASSUME SendInv,
           \/ NewChat \/ SignIn \/ Remount
           \/ \E s \in Members(list) : Select(s) \/ Delete(s)
           \/ \E kind \in {"approve", "reject"}, m \in Members(shown) : Decide(kind, m)
    PROVE  SendInv'
<1>1. /\ runs' = runs /\ typed' = typed /\ blind' = blind /\ draft' \in {draft, 0}
  BY DEF NewChat, SignIn, Remount, Select, Delete, Decide, Turn, server, panel
<1>2. \A e \in calls : DOMAIN e = Fields
  BY DEF SendInv, Numbered
<1>3. ASSUME NEW kind \in {"create", "delete", "list", "approve", "reject"}, NEW s, NEW t, NEW then,
             calls' = Asked(calls, Ask(kind, s, t, then))
      PROVE  SendInv'
  <2>. DEFINE new == Ask(kind, s, t, then)
  <2>1. DOMAIN new = Fields /\ new.kind \notin Posts
    BY AskFacts DEF Posts
  <2>2. calls' = Asked(calls, new)
    BY <1>3
  <2>. HIDE DEF new
  <2>3. /\ \A e \in calls' : DOMAIN e = Fields
        /\ \A e \in calls' : e.kind \in Posts => e \in calls
    BY <1>2, <2>1, <2>2, AskedQuietly
  <2>. QED BY <1>1, <2>3, PostsNothing
<1>4. CASE NewChat
  BY <1>3, <1>4 DEF NewChat
<1>5. CASE SignIn
  BY <1>3, <1>5 DEF SignIn
<1>6. ASSUME NEW s \in Members(list), Select(s) PROVE SendInv'
  <2>1. Activate(s, calls)
    BY <1>6 DEF Select
  <2>2. /\ \A e \in calls' : DOMAIN e = Fields
        /\ \A e \in calls' : e.kind \in Posts => e \in calls
    BY <1>2, <2>1, ActivateFacts
  <2>. QED BY <1>1, <2>2, PostsNothing
<1>7. ASSUME NEW s \in Members(list), Delete(s) PROVE SendInv'
  BY <1>3, <1>7 DEF Delete
<1>8. ASSUME NEW kind \in {"approve", "reject"}, NEW m \in Members(shown), Decide(kind, m)
      PROVE  SendInv'
  <2>1. calls' = Asked(calls, Ask(kind, active, m.text, "execute"))
    BY <1>8 DEF Decide
  <2>. QED BY <1>3, <2>1
<1>9. CASE Remount
  BY <1>9, ChatRemount
<1>. QED BY <1>4, <1>5, <1>6, <1>7, <1>8, <1>9

LEMMA ChatStep == SendInv /\ [Next]_vars => SendInv'
<1>. SUFFICES ASSUME SendInv, [Next]_vars PROVE SendInv'
  OBVIOUS
<1>1. ASSUME NEW c \in calls, Handle(c) \/ Refuse(c) \/ Lose(c) PROVE SendInv'
  BY <1>1, ChatNetwork
<1>2. ASSUME NEW c \in calls, Deliver(c) PROVE SendInv'
  BY <1>2, ChatDeliver
<1>3. CASE UNCHANGED vars
  <2>1. \A t : Queries(t)' = Queries(t)
    BY <1>3 DEF vars, Queries
  <2>. QED BY <1>3, <2>1 DEF vars, server, user, panel, SendInv, Numbered, OnePlace
<1>. QED
  BY <1>1, <1>2, <1>3, ChatSend, ChatType, ChatUser DEF Next, Network

\* Whatever is lost, late or refused, and whatever the user does, a text that
\* was sent to a session is run at most once.
THEOREM TextsAreSentOnce == Spec => []SentOnce
<1>1. SendInv => SentOnce
  <2>. SUFFICES ASSUME SendInv, NEW t \in Texts, runs[t] > 1 PROVE t \in blind
    BY DEF SentOnce
  <2>1. runs[t] \in Nat
    BY DEF SendInv, Numbered
  <2>. QED BY <2>1 DEF SendInv, OnePlace
<1>. QED BY <1>1, ChatInit, ChatStep, PTL DEF Spec
=============================================================================
