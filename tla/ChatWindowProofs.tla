-------------------------- MODULE ChatWindowProofs --------------------------
(* Proof that every part of the chat keeps its type, and that at rest the  *)
(* window shows the active session and the list the sessions of the user,  *)
(* and neither the input nor an approval is busy.                          *)
EXTENDS ChatClientProofs, SequenceTheorems, FiniteSetTheorems

-----------------------------------------------------------------------------
(***************************************************************************)
(* Lemmas about Picked.                                                    *)
(***************************************************************************)
\* The n-th place is a place, and every place is the n-th for some n.
LEMMA Places ==
    ASSUME NEW at, at \subseteq Nat, IsFiniteSet(at)
    PROVE  LET nth(n) == CHOOSE i \in at : Cardinality({k \in at : k <= i}) = n
           IN  /\ Cardinality(at) \in Nat
               /\ \A n \in 1..Cardinality(at) : nth(n) \in at
               /\ \A i \in at : \E n \in 1..Cardinality(at) : nth(n) = i
               /\ \A i \in at : nth(Cardinality({k \in at : k <= i})) = i
<1>. DEFINE upto(i) == {k \in at : k <= i}
            rank(i) == Cardinality(upto(i))
            N == Cardinality(at)
            f == [i \in at |-> rank(i)]
            nth(n) == CHOOSE i \in at : rank(i) = n
<1>1. N \in Nat
  BY FS_CardinalityType
<1>2. \A i \in at : IsFiniteSet(upto(i)) /\ rank(i) \in 1..N
  <2>. SUFFICES ASSUME NEW i \in at PROVE IsFiniteSet(upto(i)) /\ rank(i) \in 1..N
    OBVIOUS
  <2>1. IsFiniteSet(upto(i)) /\ rank(i) <= N
    BY FS_Subset
  <2>2. i \in upto(i)
    OBVIOUS
  <2>3. rank(i) \in Nat /\ rank(i) # 0
    BY <2>1, <2>2, FS_CardinalityType, FS_EmptySet
  <2>. QED BY <1>1, <2>1, <2>3
<1>3. \A i, j \in at : rank(i) = rank(j) => i = j
  <2>1. ASSUME NEW i \in at, NEW j \in at, i < j PROVE rank(i) # rank(j)
    <3>0. i \in Nat /\ j \in Nat /\ \A k \in at : k \in Nat
      OBVIOUS
    <3>1. j \in upto(j) /\ j \notin upto(i)
      BY <2>1, <3>0
    <3>2. \A k \in at : k <= i => k <= j
      BY <2>1, <3>0
    <3>3. upto(i) \in SUBSET upto(j)
      BY <3>2
    <3>. QED BY <1>2, <3>1, <3>3, FS_Subset
  <2>. QED BY <2>1
<1>. HIDE DEF rank
<1>4. f \in Injection(at, 1..N)
  BY <1>2, <1>3 DEF Injection, IsInjective
<1>5. IsFiniteSet(1..N) /\ Cardinality(1..N) = N
  BY <1>1, FS_Interval
<1>6. f \in Surjection(at, 1..N)
  BY <1>4, <1>5, FS_Injection
<1>7. \A n \in 1..N : \E i \in at : rank(i) = n
  BY <1>6 DEF Surjection
<1>8. \A n \in 1..N : nth(n) \in at
  BY <1>7
<1>9. \A i \in at : nth(rank(i)) = i
  BY <1>3
<1>. QED BY <1>1, <1>2, <1>8, <1>9 DEF rank

LEMMA PickedFacts ==
    ASSUME NEW S, NEW seq \in Seq(S), NEW at \in SUBSET DOMAIN seq
    PROVE  /\ IsFiniteSet(at)
           /\ Picked(seq, at) \in Seq(S)
           /\ Len(Picked(seq, at)) = Cardinality(at)
           /\ Members(Picked(seq, at)) = {seq[i] : i \in at}
<1>. DEFINE nth(n) == CHOOSE i \in at : Cardinality({k \in at : k <= i}) = n
            N == Cardinality(at)
<1>1. DOMAIN seq = 1..Len(seq) /\ Len(seq) \in Nat /\ \A i \in DOMAIN seq : seq[i] \in S
  BY LenProperties, ElementOfSeq
<1>2. IsFiniteSet(at) /\ at \subseteq Nat
  <2>1. IsFiniteSet(1..Len(seq)) /\ at \in SUBSET (1..Len(seq))
    BY <1>1, FS_Interval
  <2>. QED BY <2>1, FS_Subset
<1>3. /\ N \in Nat
      /\ \A n \in 1..N : nth(n) \in at
      /\ \A i \in at : \E n \in 1..N : nth(n) = i
  BY <1>1, <1>2, Places
<1>4. Picked(seq, at) = [n \in 1..N |-> seq[nth(n)]]
  BY DEF Picked
<1>. HIDE DEF nth, N
<1>5. \A n \in 1..N : seq[nth(n)] \in S
  BY <1>1, <1>3
<1>6. [n \in 1..N |-> seq[nth(n)]] \in Seq(S)
  BY <1>3, <1>5, SeqDef
<1>7. Len(Picked(seq, at)) = N
  BY <1>3, <1>4, <1>6, LenProperties
<1>8. Members(Picked(seq, at)) = {seq[i] : i \in at}
  BY <1>3, <1>4 DEF Members
<1>. QED BY <1>2, <1>4, <1>6, <1>7, <1>8 DEF N

LEMMA WithoutFacts ==
    ASSUME NEW S, NEW seq \in Seq(S), NEW s
    PROVE  Without(seq, s) \in Seq(S) /\ Members(Without(seq, s)) = Members(seq) \ {s}
<1>. DEFINE at == {i \in DOMAIN seq : seq[i] # s}
<1>1. Picked(seq, at) \in Seq(S) /\ Members(Picked(seq, at)) = {seq[i] : i \in at}
  BY PickedFacts
<1>. QED BY <1>1 DEF Without, Members

\* A new element in front.
LEMMA FrontFacts ==
    ASSUME NEW S, NEW seq \in Seq(S), NEW s \in S
    PROVE  <<s>> \o seq \in Seq(S) /\ Members(<<s>> \o seq) = Members(seq) \cup {s}
<1>. DEFINE new == <<s>> \o seq
<1>1. <<s>> \in Seq(S) /\ Len(<<s>>) = 1
  OBVIOUS
<1>2. /\ new \in Seq(S) /\ Len(new) = 1 + Len(seq)
      /\ \A i \in 1..(1 + Len(seq)) : new[i] = IF i <= 1 THEN <<s>>[i] ELSE seq[i - 1]
  BY <1>1, ConcatProperties
<1>3. DOMAIN new = 1..(1 + Len(seq)) /\ DOMAIN seq = 1..Len(seq) /\ Len(seq) \in Nat
  BY <1>2, LenProperties
<1>4. new[1] = s /\ \A i \in 1..Len(seq) : i + 1 \in DOMAIN new /\ new[i + 1] = seq[i]
  BY <1>2, <1>3
<1>5. \A i \in DOMAIN new : i = 1 \/ \E j \in 1..Len(seq) : i = j + 1
  <2>. TAKE i \in DOMAIN new
  <2>1. CASE i # 1
    <3>1. i - 1 \in 1..Len(seq) /\ i = (i - 1) + 1
      BY <1>3, <2>1
    <3>. QED BY <3>1
  <2>. QED BY <2>1
<1>. HIDE DEF new
<1>6. Members(new) = Members(seq) \cup {s}
  BY <1>3, <1>4, <1>5, SMTT(30) DEF Members
<1>. QED BY <1>2, <1>6 DEF new

\* Of messages that are all stored, all are picked; of none, none.
LEMMA StoredAll ==
    ASSUME NEW seq \in Seq(Message)
    PROVE  /\ (\A i \in DOMAIN seq : seq[i].stored) => Stored(seq) = seq
           /\ Stored(seq) = <<>> <=> \A i \in DOMAIN seq : ~seq[i].stored
<1>. DEFINE at == {i \in DOMAIN seq : seq[i].stored}
            upto(i) == {k \in at : k <= i}
            nth(n) == CHOOSE i \in at : Cardinality({k \in at : k <= i}) = n
<1>1. DOMAIN seq = 1..Len(seq) /\ Len(seq) \in Nat /\ at \subseteq Nat
  BY LenProperties
<1>2. IsFiniteSet(at) /\ Stored(seq) \in Seq(Message) /\ Len(Stored(seq)) = Cardinality(at)
  BY PickedFacts DEF Stored
<1>3. ASSUME \A i \in DOMAIN seq : seq[i].stored PROVE Stored(seq) = seq
  <2>0. \A n \in Nat : Cardinality(1..n) = n
    BY FS_Interval
  <2>1. at = 1..Len(seq)
    BY <1>1, <1>3
  <2>2. \A i \in at : nth(Cardinality(upto(i))) = i
    BY <1>1, <1>2, Places
  <2>3. \A i \in 1..Len(seq) : upto(i) = 1..i /\ Cardinality(upto(i)) = i
    <3>. TAKE i \in 1..Len(seq)
    <3>1. i \in Nat /\ upto(i) = 1..i
      BY <1>1, <2>1
    <3>. QED BY <2>0, <3>1
  <2>4. \A i \in 1..Len(seq) : nth(i) = i
    BY <2>1, <2>2, <2>3
  <2>5. Stored(seq) = [n \in 1..Len(seq) |-> seq[nth(n)]]
    BY <1>1, <2>0, <2>1 DEF Stored, Picked
  <2>. HIDE DEF nth
  <2>6. Stored(seq) = [n \in 1..Len(seq) |-> seq[n]]
    BY <2>4, <2>5
  <2>. QED BY <1>1, <2>6, LenProperties
<1>4. Stored(seq) = <<>> <=> at = {}
  BY <1>2, FS_EmptySet, EmptySeq
<1>. QED BY <1>3, <1>4

\* A message that is not stored adds nothing.
LEMMA StoredAppend ==
    ASSUME NEW seq \in Seq(Message), NEW m \in Message, ~m.stored
    PROVE  Stored(Append(seq, m)) = Stored(seq)
<1>. DEFINE new == Append(seq, m)
            at == {i \in DOMAIN seq : seq[i].stored}
            nth(n) == CHOOSE i \in at : Cardinality({k \in at : k <= i}) = n
<1>1. DOMAIN seq = 1..Len(seq) /\ Len(seq) \in Nat /\ at \subseteq Nat
  BY LenProperties
<1>2. /\ new \in Seq(Message) /\ DOMAIN new = 1..(Len(seq) + 1)
      /\ \A i \in 1..Len(seq) : new[i] = seq[i]
      /\ new[Len(seq) + 1] = m
  BY AppendProperties, LenProperties
<1>3. at = {i \in DOMAIN new : new[i].stored}
  <2>1. \A i \in DOMAIN new : i \in DOMAIN seq \/ i = Len(seq) + 1
    BY <1>1, <1>2
  <2>2. DOMAIN seq \subseteq DOMAIN new
    BY <1>1, <1>2
  <2>. QED BY <1>1, <1>2, <2>1, <2>2
<1>4. \A n \in 1..Cardinality(at) : nth(n) \in at
  <2>1. IsFiniteSet(at)
    BY PickedFacts
  <2>. QED BY <1>1, <2>1, Places
<1>5. /\ Stored(seq) = [n \in 1..Cardinality(at) |-> seq[nth(n)]]
      /\ Stored(new) = [n \in 1..Cardinality(at) |-> new[nth(n)]]
  <2>1. Stored(seq) = Picked(seq, at) /\ Stored(new) = Picked(new, at)
    BY <1>3 DEF Stored
  <2>. QED BY <2>1 DEF Picked
<1>. HIDE DEF nth, new
<1>6. \A n \in 1..Cardinality(at) : new[nth(n)] = seq[nth(n)]
  BY <1>1, <1>2, <1>4
<1>. QED BY <1>5, <1>6 DEF new

-----------------------------------------------------------------------------
(***************************************************************************)
(* Lemmas about requests.                                                  *)
(***************************************************************************)
\* There is a number left for a new request.
LEMMA FreeIdType ==
    ASSUME NEW cs, IsFiniteSet(cs), NEW kind
    PROVE  FreeId(cs, kind) \in Nat
<1>. DEFINE n == Cardinality(cs)
            f == [c \in cs |-> c.id]
            ids == {c.id : c \in cs}
<1>1. n \in Nat
  BY FS_CardinalityType
<1>2. f \in Surjection(cs, ids)
  BY DEF Surjection
<1>3. IsFiniteSet(ids) /\ Cardinality(ids) <= n
  BY <1>2, FS_Surjection
<1>4. Cardinality(1..(n + 1)) = n + 1
  BY <1>1, FS_Interval
<1>5. ~(1..(n + 1) \subseteq ids)
  <2>. SUFFICES ASSUME 1..(n + 1) \in SUBSET ids PROVE FALSE
    OBVIOUS
  <2>1. Cardinality(1..(n + 1)) <= Cardinality(ids)
    BY <1>3, FS_Subset
  <2>2. Cardinality(ids) \in Nat
    BY <1>3, FS_CardinalityType
  <2>. QED BY <1>1, <1>3, <1>4, <2>1, <2>2
<1>6. \E i \in 1..(n + 1) : \A c \in cs : c.kind = kind => c.id # i
  BY <1>5
<1>. QED BY <1>1, <1>6 DEF FreeId

\* Changing a field of a request leaves the others alone.
LEMMA CallEdits ==
    ASSUME NEW c \in Call
    PROVE  /\ [c EXCEPT !.late = TRUE] \in Call
           /\ [c EXCEPT !.live = FALSE] \in Call
           /\ \A n \in Nat : [c EXCEPT !.id = n] \in Call
           /\ \A r \in {"none", "ok", "refused", "lost"}, f \in Seq(Sessions), d \in Seq(Message) :
                [c EXCEPT !.reply = r, !.found = f, !.data = d] \in Call
BY DEF Call

\* Two records of one request with one answer, but for what became of the panel.
Same(e, c) ==
    /\ e.kind = c.kind /\ e.session = c.session /\ e.text = c.text /\ e.then = c.then
    /\ e.seen = c.seen /\ e.was = c.was
    /\ e.reply = c.reply /\ e.found = c.found /\ e.data = c.data

LEMMA CallFields ==
    ASSUME NEW c \in Call
    PROVE  /\ LET e == [c EXCEPT !.late = TRUE]
              IN  Same(e, c) /\ e.live = c.live /\ e.late = TRUE
           /\ LET e == [c EXCEPT !.live = FALSE]
              IN  Same(e, c) /\ e.live = FALSE /\ e.late = c.late
           /\ \A n : LET e == [c EXCEPT !.id = n]
                    IN  Same(e, c) /\ e.live = c.live /\ e.late = c.late
           /\ \A r, f, d : LET e == [c EXCEPT !.reply = r, !.found = f, !.data = d] IN
              /\ e.kind = c.kind /\ e.session = c.session /\ e.text = c.text /\ e.then = c.then
              /\ e.seen = c.seen /\ e.was = c.was /\ e.live = c.live /\ e.late = c.late
              /\ e.reply = r /\ e.found = f /\ e.data = d
BY DEF Call, Same

LEMMA FiniteMap ==
    ASSUME NEW S, IsFiniteSet(S), NEW T, NEW f, f \in [S -> T]
    PROVE  IsFiniteSet({f[x] : x \in S})
<1>1. f \in Surjection(S, {f[x] : x \in S})
  BY DEF Surjection
<1>. QED BY <1>1, FS_Surjection

\* The requests under way once one more is made.
LEMMA AskedMembers ==
    ASSUME NEW cs \in SUBSET Call, IsFiniteSet(cs), NEW new \in Call
    PROVE  /\ Asked(cs, new) \subseteq Call /\ IsFiniteSet(Asked(cs, new))
           /\ \E u \in Asked(cs, new) :
                /\ Same(u, new) /\ u.live = new.live /\ u.late = new.late
                /\ \A e \in Asked(cs, new) : e = u \/
                      \E c \in cs : /\ Same(e, c) /\ e.live = c.live
                                    /\ \/ e = c /\ (new.kind # "messages" \/ c.kind # "messages")
                                       \/ e.late = TRUE /\ new.kind = "messages" /\ c.kind = "messages"
                /\ new.kind # "messages" => Asked(cs, new) = cs \cup {u}
<1>. DEFINE aged(c) == IF new.kind = "messages" /\ c.kind = "messages"
                       THEN [c EXCEPT !.late = TRUE] ELSE c
            first == [new EXCEPT !.id = FreeId(cs, new.kind)]
            f == [c \in cs |-> aged(c)]
<1>1. Asked(cs, new) = {aged(c) : c \in cs} \cup {first}
  BY DEF Asked
<1>2. first \in Call /\ Same(first, new) /\ first.live = new.live /\ first.late = new.late
  <2>1. FreeId(cs, new.kind) \in Nat
    BY FreeIdType
  <2>. HIDE DEF FreeId
  <2>2. first \in Call
    BY <2>1, CallEdits
  <2>. QED BY <2>2, CallFields, ZenonT(60)
<1>3. \A c \in cs :
        /\ aged(c) \in Call /\ Same(aged(c), c) /\ aged(c).live = c.live
        /\ \/ aged(c) = c /\ (new.kind # "messages" \/ c.kind # "messages")
           \/ aged(c).late = TRUE /\ new.kind = "messages" /\ c.kind = "messages"
  <2>. TAKE c \in cs
  <2>1. CASE new.kind = "messages" /\ c.kind = "messages"
    BY <2>1, CallEdits, CallFields
  <2>2. CASE ~(new.kind = "messages" /\ c.kind = "messages")
    BY <2>2 DEF Same
  <2>. QED BY <2>1, <2>2
<1>4. new.kind # "messages" => {aged(c) : c \in cs} = cs
  OBVIOUS
<1>. HIDE DEF aged, first
<1>5. IsFiniteSet(Asked(cs, new))
  <2>1. f \in [cs -> Call]
    BY <1>3
  <2>2. \A c \in cs : f[c] = aged(c)
    OBVIOUS
  <2>. HIDE DEF f
  <2>3. IsFiniteSet({f[c] : c \in cs})
    BY <2>1, FiniteMap
  <2>4. {f[c] : c \in cs} = {aged(c) : c \in cs}
    BY <2>2
  <2>. DEFINE all == {f[c] : c \in cs}
  <2>5. Asked(cs, new) = all \cup {first}
    BY <1>1, <2>4
  <2>. HIDE DEF all
  <2>. QED BY <2>3, <2>5, FS_AddElement DEF all
<1>. HIDE DEF f
<1>6. Asked(cs, new) \subseteq Call
  BY <1>1, <1>2, <1>3
<1>. QED BY <1>1, <1>2, <1>3, <1>4, <1>5, <1>6

-----------------------------------------------------------------------------
(***************************************************************************)
(* TypeOK.                                                                 *)
(***************************************************************************)
\* A set of requests as it should be.
GoodCalls(cs) == cs \subseteq Call /\ IsFiniteSet(cs) /\ \A c \in cs : IssuedOnly(c)

LEMMA GoodAsked ==
    ASSUME NEW cs, GoodCalls(cs), NEW new \in Call, IssuedOnly(new)
    PROVE  GoodCalls(Asked(cs, new))
<1>0. cs \in SUBSET Call /\ IsFiniteSet(cs)
  BY DEF GoodCalls
<1>. DEFINE after == Asked(cs, new)
<1>1. /\ after \subseteq Call /\ IsFiniteSet(after)
      /\ \E u \in after :
           /\ Same(u, new) /\ u.live = new.live /\ u.late = new.late
           /\ \A e \in after : e = u \/
                 \E c \in cs : /\ Same(e, c) /\ e.live = c.live
                               /\ \/ e = c /\ (new.kind # "messages" \/ c.kind # "messages")
                                  \/ e.late = TRUE /\ new.kind = "messages" /\ c.kind = "messages"
           /\ new.kind # "messages" => after = cs \cup {u}
  BY <1>0, AskedMembers
<1>. HIDE DEF after
<1>2. \A e \in after : \E c \in cs \cup {new} : Same(e, c)
  BY <1>1
<1>3. \A e \in after : IssuedOnly(e)
  BY <1>2 DEF GoodCalls, IssuedOnly, Same
<1>. QED BY <1>1, <1>3 DEF GoodCalls, after

LEMMA GoodAsk ==
    ASSUME TypeInv, NEW kind \in Kinds, NEW s \in Issued \cup {NoSession},
           NEW text \in 0..MaxTexts, NEW then \in {"open", "send", "execute"},
           kind \in {"delete", "messages"} => s # NoSession
    PROVE  Ask(kind, s, text, then) \in Call /\ IssuedOnly(Ask(kind, s, text, then))
<1>. DEFINE new == Ask(kind, s, text, then)
<1>1. Issued \subseteq Sessions /\ <<>> \in Seq(Issued)
  BY DEF Issued
<1>2. list \in Seq(Issued) /\ active \in Issued \cup {NoSession}
  BY DEF TypeInv
<1>3. list \in Seq(Sessions) /\ <<>> \in Seq(Sessions) /\ <<>> \in Seq(Message)
  BY <1>1, <1>2, SeqMonotonic
<1>4. new \in Call
  BY <1>1, <1>2, <1>3 DEF Ask, Call
<1>5. IssuedOnly(new)
  BY <1>1, <1>2 DEF Ask, IssuedOnly
<1>. QED BY <1>4, <1>5

LEMMA GoodAskAfter ==
    ASSUME NEW c \in Call, IssuedOnly(c), NEW kind \in Kinds, NEW s \in Issued \cup {NoSession},
           kind \in {"delete", "messages"} => s # NoSession
    PROVE  LET new == AskAfter(c, kind, s) IN
           /\ new \in Call /\ IssuedOnly(new)
           /\ new.kind = kind /\ new.session = s /\ new.text = c.text /\ new.then = c.then
           /\ new.seen = c.seen /\ new.was = c.was /\ new.live = c.live /\ new.late = c.late
           /\ new.reply = "none" /\ new.found = <<>> /\ new.data = <<>>
<1>. DEFINE new == AskAfter(c, kind, s)
<1>1. Issued \subseteq Sessions /\ <<>> \in Seq(Issued)
  BY DEF Issued
<1>2. <<>> \in Seq(Sessions) /\ <<>> \in Seq(Message)
  OBVIOUS
<1>3. new \in Call
  BY <1>1, <1>2 DEF AskAfter, Call
<1>4. /\ new.kind = kind /\ new.session = s /\ new.text = c.text /\ new.then = c.then
      /\ new.seen = c.seen /\ new.was = c.was /\ new.live = c.live /\ new.late = c.late
      /\ new.reply = "none" /\ new.found = <<>> /\ new.data = <<>>
  BY DEF AskAfter, Call
<1>. HIDE DEF new
<1>5. IssuedOnly(new)
  BY <1>1, <1>4 DEF IssuedOnly
<1>. QED BY <1>3, <1>4, <1>5 DEF new

LEMMA GoodActivate ==
    ASSUME TypeInv, NEW s \in Issued \cup {NoSession}, NEW cs, GoodCalls(cs), Activate(s, cs)
    PROVE  active' \in Issued \cup {NoSession} /\ GoodCalls(calls')
<1>. DEFINE new == Ask("messages", s, 0, "open")
<1>1. active' = s /\ (calls' = cs \/ (s # NoSession /\ calls' = Asked(cs, new)))
  BY DEF Activate
<1>2. 0 \in 0..MaxTexts
  BY BoundsAssumption
<1>3. s # NoSession => new \in Call /\ IssuedOnly(new)
  BY <1>2, GoodAsk DEF Kinds
<1>. HIDE DEF new
<1>. QED BY <1>1, <1>3, GoodAsked

LEMMA TypeInit == Init => TypeInv
<1>. SUFFICES ASSUME Init PROVE TypeInv
  OBVIOUS
<1>. DEFINE new == Ask("list", NoSession, 0, "open")
<1>1. 0 \in 0..MaxTexts /\ 0 \in 0..MaxTurns /\ 0 \in 0..MaxFaults
  BY BoundsAssumption
<1>2. <<>> \in Seq(Sessions) /\ <<>> \in Seq(Issued) /\ <<>> \in Seq(Message)
  OBVIOUS
<1>3. \A status \in {"complete", "awaiting"} : Old(status) \in Seq(Message)
  <2>. TAKE status \in {"complete", "awaiting"}
  <2>1. Msg(0, "user", "sent", TRUE) \in Message /\ Msg(0, "assistant", status, TRUE) \in Message
    BY <1>1 DEF Msg, Message
  <2>2. \A a, b \in Message : <<a, b>> \in Seq(Message)
    OBVIOUS
  <2>. QED BY <2>1, <2>2 DEF Old
<1>4. /\ rows \in Seq(Sessions) /\ owner \in [Sessions -> {"none", "me", "default", "gone"}]
      /\ history \in [Sessions -> Seq(Message)]
      /\ \A s \in Sessions : owner[s] \in {"none", "gone"} => history[s] = <<>>
  <2>1. CASE rows = <<>> /\ owner = [s \in Sessions |-> "none"]
             /\ history = [s \in Sessions |-> <<>>]
    BY <1>2, <2>1
  <2>2. ASSUME NEW status \in {"complete", "awaiting"},
               1 \in Sessions, rows = << 1 >>,
               owner = [s \in Sessions |-> IF s = 1 THEN "me" ELSE "none"],
               history = [s \in Sessions |-> IF s = 1 THEN Old(status) ELSE <<>>]
        PROVE  /\ rows \in Seq(Sessions) /\ owner \in [Sessions -> {"none", "me", "default", "gone"}]
               /\ history \in [Sessions -> Seq(Message)]
               /\ \A s \in Sessions : owner[s] \in {"none", "gone"} => history[s] = <<>>
    BY <1>2, <1>3, <2>2
  <2>. QED BY <2>1, <2>2 DEF Init
<1>5. new \in Call /\ IssuedOnly(new)
  <2>1. new \in Call
    BY <1>1, <1>2 DEF Init, Ask, Call, Kinds
  <2>2. IssuedOnly(new)
    BY <1>2 DEF Init, Ask, IssuedOnly
  <2>. QED BY <2>1, <2>2
<1>6. calls = Asked({}, new)
  BY DEF Init
<1>. HIDE DEF new
<1>7. GoodCalls(calls)
  <2>1. GoodCalls({})
    BY FS_EmptySet DEF GoodCalls
  <2>. QED BY <1>5, <1>6, <2>1, GoodAsked
<1>. QED BY <1>1, <1>2, <1>4, <1>7 DEF Init, TypeInv, TypeOK, GoodCalls, Texts

\* An answer comes to a request; meanwhile sessions may have been created.
LEMMA TypeReply ==
    ASSUME TypeInv, NEW c \in calls, NEW r \in {"none", "ok", "refused", "lost"},
           NEW f \in Seq(Issued)', NEW d \in Seq(Message), Reply(c, r, f, d),
           Issued \subseteq Issued',
           c.kind \in {"create", "first"} /\ r = "ok" => Len(f) = 1,
           c.kind = "query" /\ r = "ok" => Len(d) = 1
    PROVE  calls' \subseteq Call /\ IsFiniteSet(calls') /\ \A e \in calls' : IssuedOnly(e)'
<1>. DEFINE n == [c EXCEPT !.reply = r, !.found = f, !.data = d]
<1>1. calls' = (calls \ {c}) \cup {n}
  BY DEF Reply
<1>2. c \in Call /\ calls \subseteq Call /\ IsFiniteSet(calls) /\ \A e \in calls : IssuedOnly(e)
  BY DEF TypeInv, TypeOK
<1>3. Issued' \subseteq Sessions
  BY DEF Issued
<1>4. f \in Seq(Sessions)
  BY <1>3, SeqMonotonic
<1>5. n \in Call /\ n.kind = c.kind /\ n.session = c.session /\ n.seen = c.seen
      /\ n.reply = r /\ n.found = f /\ n.data = d
  <2>1. c \in Call
    BY <1>2
  <2>2. n \in Call
    BY <1>4, <2>1, CallEdits
  <2>. QED BY <2>1, <2>2, CallFields
<1>. HIDE DEF n
<1>6. IsFiniteSet(calls')
  BY <1>1, <1>2, FS_RemoveElement, FS_AddElement
<1>7. \A e \in calls : e.seen \in Seq(Issued)' /\ e.found \in Seq(Issued)'
  BY <1>2, SeqMonotonic DEF IssuedOnly
<1>8. \A e \in calls : IssuedOnly(e)'
  BY <1>2, <1>7 DEF IssuedOnly
<1>9. IssuedOnly(n)'
  BY <1>2, <1>5, <1>7 DEF IssuedOnly
<1>. QED BY <1>1, <1>2, <1>5, <1>6, <1>8, <1>9

\* A step of the server leaves the browser alone.
LEMMA TypeServer ==
    ASSUME TypeInv, UNCHANGED <<app, panel, user, disturbed>>, faults' \in 0..MaxFaults,
           rows' \in Seq(Sessions), owner' \in [Sessions -> {"none", "me", "default", "gone"}],
           history' \in [Sessions -> Seq(Message)], runs' \in [Texts -> Nat],
           \A s \in Sessions : owner'[s] \in {"none", "gone"} => history'[s] = <<>>,
           Issued \subseteq Issued',
           calls' \subseteq Call, IsFiniteSet(calls'), \A e \in calls' : IssuedOnly(e)'
    PROVE  TypeInv'
<1>1. list' \in Seq(Issued)' /\ active' \in Issued' \cup {NoSession}
  <2>1. list' = list /\ active' = active /\ list \in Seq(Issued) /\ active \in Issued \cup {NoSession}
    BY DEF app, TypeInv
  <2>. QED BY <2>1, SeqMonotonic
<1>2. TypeOK'
  BY DEF TypeInv, TypeOK, app, panel, user
<1>. QED BY <1>1, <1>2 DEF TypeInv

LEMMA MembersType ==
    ASSUME NEW S, NEW seq \in Seq(S), NEW T, Members(seq) \subseteq T
    PROVE  seq \in Seq(T)
<1>1. Len(seq) \in Nat /\ seq \in [1..Len(seq) -> S] /\ DOMAIN seq = 1..Len(seq)
  BY LenProperties
<1>2. seq \in [1..Len(seq) -> T]
  BY <1>1 DEF Members
<1>. QED BY <1>1, <1>2, SeqDef

\* What GET /sessions lists: the sessions of the user.
LEMMA MineFacts ==
    ASSUME rows \in Seq(Sessions)
    PROVE  /\ Mine \in Seq(Issued)
           /\ Members(Mine) = {s \in Members(rows) : owner[s] = "me"}
<1>. DEFINE at == {i \in DOMAIN rows : owner[rows[i]] = "me"}
<1>1. Mine \in Seq(Sessions) /\ Members(Mine) = {rows[i] : i \in at}
  BY PickedFacts DEF Mine
<1>2. Members(Mine) = {s \in Members(rows) : owner[s] = "me"}
  BY <1>1 DEF Members
<1>3. Members(rows) \subseteq Sessions
  BY ElementOfSeq, LenProperties DEF Members
<1>4. Members(Mine) \subseteq Issued
  BY <1>2, <1>3 DEF Issued
<1>. QED BY <1>1, <1>2, <1>4, MembersType

\* The same before and after a step.
LEMMA MineMembers ==
    ASSUME NEW r \in Seq(Sessions), NEW o
    PROVE  Members(Picked(r, {i \in DOMAIN r : o[r[i]] = "me"})) = {s \in Members(r) : o[s] = "me"}
<1>1. Members(Picked(r, {i \in DOMAIN r : o[r[i]] = "me"}))
        = {r[i] : i \in {j \in DOMAIN r : o[r[j]] = "me"}}
  BY PickedFacts
<1>. QED BY <1>1 DEF Members

\* Keep, of a session that was created.
LEMMA TypeKeep ==
    ASSUME TypeInv, NEW s \in Issued \cup {NoSession}, NEW turn \in Seq(Message), Keep(s, turn)
    PROVE  /\ rows' \in Seq(Sessions) /\ owner' \in [Sessions -> {"none", "me", "default", "gone"}]
           /\ history' \in [Sessions -> Seq(Message)]
           /\ \A x \in Sessions : owner'[x] \in {"none", "gone"} => history'[x] = <<>>
           /\ Issued \subseteq Issued'
<1>0. /\ rows \in Seq(Sessions) /\ owner \in [Sessions -> {"none", "me", "default", "gone"}]
      /\ history \in [Sessions -> Seq(Message)]
      /\ \A x \in Sessions : owner[x] \in {"none", "gone"} => history[x] = <<>>
  BY DEF TypeInv, TypeOK
<1>1. CASE s = NoSession
  BY <1>0, <1>1 DEF Keep, Issued
<1>2. CASE s # NoSession
  <2>1. /\ s \in Sessions /\ owner[s] # "none"
        /\ history' = [history EXCEPT ![s] = @ \o turn]
        /\ rows' = <<s>> \o Without(rows, s)
        /\ owner' = [owner EXCEPT ![s] = IF @ = "gone" THEN "default" ELSE @]
    BY <1>2 DEF Keep, Issued, Revived
  <2>2. rows' \in Seq(Sessions)
    BY <1>0, <2>1, WithoutFacts, FrontFacts
  <2>3. history[s] \o turn \in Seq(Message)
    BY <1>0, <2>1, ConcatProperties
  <2>4. history' \in [Sessions -> Seq(Message)]
    BY <1>0, <2>1, <2>3
  <2>5. /\ owner' \in [Sessions -> {"none", "me", "default", "gone"}]
        /\ owner'[s] \notin {"none", "gone"}
        /\ \A x \in Sessions : x # s => owner'[x] = owner[x] /\ history'[x] = history[x]
    BY <1>0, <2>1
  <2>. QED BY <1>0, <2>2, <2>4, <2>5 DEF Issued
<1>. QED BY <1>1, <1>2

LEMMA TypeHandle == ASSUME TypeInv, NEW c \in calls, Handle(c) PROVE TypeInv'
<1>0. /\ rows \in Seq(Sessions) /\ owner \in [Sessions -> {"none", "me", "default", "gone"}]
      /\ history \in [Sessions -> Seq(Message)] /\ runs \in [Texts -> Nat]
      /\ \A x \in Sessions : owner[x] \in {"none", "gone"} => history[x] = <<>>
      /\ faults' \in 0..MaxFaults /\ UNCHANGED <<app, panel, user, disturbed>>
      /\ c \in Call /\ IssuedOnly(c)
  BY DEF TypeInv, TypeOK, Handle
<1>1. \A S : <<>> \in Seq(S)
  OBVIOUS
<1>. DEFINE Server == /\ rows' \in Seq(Sessions) /\ runs' \in [Texts -> Nat]
                      /\ owner' \in [Sessions -> {"none", "me", "default", "gone"}]
                      /\ history' \in [Sessions -> Seq(Message)]
                      /\ \A x \in Sessions : owner'[x] \in {"none", "gone"} => history'[x] = <<>>
                      /\ Issued \subseteq Issued'
            Replies == \E r \in {"none", "ok", "refused", "lost"}, f \in Seq(Issued)', d \in Seq(Message) :
                          /\ Reply(c, r, f, d)
                          /\ c.kind \in {"create", "first"} /\ r = "ok" => Len(f) = 1
                          /\ c.kind = "query" /\ r = "ok" => Len(d) = 1
<1>2. ASSUME UNCHANGED server PROVE Server
  BY <1>0, <1>2 DEF server, Issued
<1>3. ASSUME HandleList(c) PROVE Server /\ Replies
  <2>1. UNCHANGED server /\ Reply(c, "ok", Mine, <<>>) /\ c.kind = "list"
    BY <1>3 DEF HandleList
  <2>2. Mine \in Seq(Issued)
    BY <1>0, MineFacts
  <2>3. Server
    BY <1>2, <2>1
  <2>4. Mine \in Seq(Issued)'
    BY <2>2, <2>3, SeqMonotonic
  <2>. QED BY <1>1, <2>1, <2>3, <2>4
<1>4. ASSUME HandleCreate(c) PROVE Server /\ Replies
  <2>1. ASSUME NEW s \in Sessions, owner[s] = "none", owner' = [owner EXCEPT ![s] = "me"],
               rows' = <<s>> \o rows, Reply(c, "ok", <<s>>, <<>>)
        PROVE  Server /\ Replies
    <3>1. rows' \in Seq(Sessions)
      BY <1>0, <2>1, FrontFacts
    <3>2. history' = history /\ runs' = runs /\ c.kind \in {"create", "first"}
      BY <1>4 DEF HandleCreate
    <3>3. Server
      BY <1>0, <2>1, <3>1, <3>2 DEF Issued
    <3>4. s \in Issued'
      BY <1>0, <2>1 DEF Issued
    <3>5. <<s>> \in Seq(Issued)' /\ Len(<<s>>) = 1
      BY <3>4
    <3>. QED BY <1>1, <2>1, <3>2, <3>3, <3>5
  <2>2. CASE Reply(c, "refused", <<>>, <<>>) /\ UNCHANGED <<owner, rows>>
    <3>1. UNCHANGED server
      BY <1>4, <2>2 DEF HandleCreate, server
    <3>. QED BY <1>1, <1>2, <2>2, <3>1
  <2>. QED BY <1>4, <2>1, <2>2 DEF HandleCreate
<1>5. ASSUME HandleDelete(c) PROVE Server /\ Replies
  <2>1. runs' = runs /\ c.kind = "delete"
    BY <1>5 DEF HandleDelete
  <2>2. CASE owner[c.session] = "me"
    <3>1. /\ owner' = [owner EXCEPT ![c.session] = "gone"]
          /\ rows' = Without(rows, c.session)
          /\ history' = [history EXCEPT ![c.session] = <<>>]
          /\ Reply(c, "ok", <<>>, <<>>)
      BY <1>5, <2>2 DEF HandleDelete
    <3>2. rows' \in Seq(Sessions)
      BY <1>0, <3>1, WithoutFacts
    <3>3. Server
      BY <1>0, <1>1, <2>1, <3>1, <3>2 DEF Issued
    <3>. QED BY <1>1, <2>1, <3>1, <3>3
  <2>3. CASE owner[c.session] # "me"
    <3>1. Reply(c, "refused", <<>>, <<>>) /\ UNCHANGED server
      BY <1>5, <2>1, <2>3 DEF HandleDelete, server
    <3>. QED BY <1>1, <1>2, <3>1
  <2>. QED BY <2>2, <2>3
<1>6. ASSUME HandleMessages(c) PROVE Server /\ Replies
  <2>1. UNCHANGED server /\ c.kind = "messages"
        /\ \/ owner[c.session] = "me" /\ Reply(c, "ok", <<>>, history[c.session])
           \/ Reply(c, "refused", <<>>, <<>>)
    BY <1>6 DEF HandleMessages
  <2>2. history[c.session] \in Seq(Message)
    BY <1>0, <2>1 DEF IssuedOnly, Issued
  <2>3. Server
    BY <1>2, <2>1
  <2>. QED BY <1>1, <2>1, <2>2, <2>3
<1>7. ASSUME HandleQuery(c) PROVE Server /\ Replies
  <2>1. c.kind = "query" /\ c.text \in 0..MaxTexts /\ c.session \in Issued \cup {NoSession}
    BY <1>0, <1>7 DEF HandleQuery, Call, IssuedOnly
  <2>2. \A by \in {"user", "assistant"}, status \in {"sent", "complete", "awaiting"} :
          Msg(c.text, by, status, TRUE) \in Message
    BY <2>1 DEF Msg, Message
  <2>3. [runs EXCEPT ![c.text] = @ + 1] \in [Texts -> Nat]
    <3>1. \A t \in Texts : runs[t] + 1 \in Nat
      BY <1>0
    <3>. QED BY <1>0, <3>1
  <2>4. \A m, n \in Message : <<m>> \in Seq(Message) /\ Len(<<m>>) = 1 /\ <<m, n>> \in Seq(Message)
    OBVIOUS
  <2>5. ASSUME NEW status \in {"complete", "awaiting"},
               LET answer == Msg(c.text, "assistant", status, TRUE) IN
               /\ runs' = [runs EXCEPT ![c.text] = @ + 1]
               /\ Keep(c.session, <<Msg(c.text, "user", "sent", TRUE), answer>>)
               /\ Reply(c, "ok", <<>>, <<answer>>)
        PROVE  Server /\ Replies
    <3>. DEFINE asked == Msg(c.text, "user", "sent", TRUE)
                answer == Msg(c.text, "assistant", status, TRUE)
    <3>1. asked \in Message /\ answer \in Message
      BY <2>2
    <3>2. Keep(c.session, <<asked, answer>>) /\ Reply(c, "ok", <<>>, <<answer>>)
          /\ runs' \in [Texts -> Nat]
      BY <2>3, <2>5
    <3>. HIDE DEF asked, answer
    <3>3. Server
      BY <2>1, <2>4, <3>1, <3>2, TypeKeep
    <3>. QED BY <1>1, <2>1, <2>4, <3>1, <3>2, <3>3
  <2>6. CASE runs' = [runs EXCEPT ![c.text] = @ + 1] /\ Reply(c, "refused", <<>>, <<>>)
             /\ UNCHANGED <<rows, owner, history>>
    <3>1. Server
      BY <1>0, <2>3, <2>6 DEF Issued
    <3>. QED BY <1>1, <2>1, <2>6, <3>1
  <2>7. CASE Reply(c, "ok", <<>>, <<Msg(c.text, "assistant", "complete", TRUE)>>)
             /\ UNCHANGED server
    <3>. DEFINE answer == Msg(c.text, "assistant", "complete", TRUE)
    <3>1. answer \in Message /\ Reply(c, "ok", <<>>, <<answer>>) /\ Server
      BY <1>2, <2>2, <2>7
    <3>. HIDE DEF answer
    <3>. QED BY <1>1, <2>1, <2>4, <3>1
  <2>. QED BY <1>7, <2>5, <2>6, <2>7 DEF HandleQuery
<1>8. ASSUME HandleDecision(c) PROVE Server /\ Replies
  <2>1. /\ UNCHANGED server /\ c.kind \in {"approve", "reject"}
        /\ Reply(c, "ok", <<>>, <<>>) \/ Reply(c, "refused", <<>>, <<>>)
    BY <1>8 DEF HandleDecision
  <2>. QED BY <1>1, <1>2, <2>1
<1>9. Server /\ Replies
  BY <1>3, <1>4, <1>5, <1>6, <1>7, <1>8 DEF Handle
<1>10. calls' \subseteq Call /\ IsFiniteSet(calls') /\ \A e \in calls' : IssuedOnly(e)'
  BY <1>9, TypeReply
<1>. QED BY <1>0, <1>9, <1>10, TypeServer

LEMMA TypeFault == ASSUME TypeInv, NEW c \in calls, Refuse(c) \/ Lose(c) PROVE TypeInv'
<1>1. /\ UNCHANGED server /\ UNCHANGED <<app, panel, user, disturbed>>
      /\ \E r \in {"refused", "lost"} : Reply(c, r, <<>>, <<>>)
      /\ faults < MaxFaults /\ faults' = faults + 1
  BY DEF Refuse, Lose, Fault
<1>2. /\ rows' \in Seq(Sessions) /\ runs' \in [Texts -> Nat]
      /\ owner' \in [Sessions -> {"none", "me", "default", "gone"}]
      /\ history' \in [Sessions -> Seq(Message)]
      /\ \A x \in Sessions : owner'[x] \in {"none", "gone"} => history'[x] = <<>>
      /\ Issued \subseteq Issued'
  BY <1>1 DEF TypeInv, TypeOK, server, Issued
<1>3. faults' \in 0..MaxFaults
  BY <1>1, BoundsAssumption DEF TypeInv, TypeOK
<1>4. calls' \subseteq Call /\ IsFiniteSet(calls') /\ \A e \in calls' : IssuedOnly(e)'
  <2>1. <<>> \in Seq(Issued)' /\ <<>> \in Seq(Message)
    OBVIOUS
  <2>. QED BY <1>1, <1>2, <2>1, TypeReply
<1>. QED BY <1>1, <1>2, <1>3, <1>4, TypeServer

\* A step of the browser leaves the server alone.
LEMMA TypeBrowser ==
    ASSUME TypeInv, UNCHANGED server, GoodCalls(calls'),
           list' \in Seq(Issued), active' \in Issued \cup {NoSession},
           shown' \in Seq(Message), draft' \in 0..MaxTexts, submitting' \in BOOLEAN,
           executing' \subseteq 0..MaxTexts, typed' \in 0..MaxTexts, blind' \subseteq Texts,
           disturbed' \in BOOLEAN, turns' \in 0..MaxTurns, faults' \in 0..MaxFaults
    PROVE  TypeInv'
<1>1. Issued' = Issued
  BY DEF server, Issued
<1>2. list' \in Seq(Sessions) /\ active' \in Sessions \cup {NoSession}
  BY SeqMonotonic DEF Issued
<1>3. TypeOK'
  BY <1>2 DEF TypeInv, TypeOK, server, GoodCalls
<1>4. \A e \in calls' : IssuedOnly(e)'
  BY <1>1 DEF GoodCalls, IssuedOnly
<1>. QED BY <1>1, <1>3, <1>4 DEF TypeInv, GoodCalls

\* A request that is answered, and what its handler asks for next.
LEMMA GoodRest ==
    ASSUME TypeInv, NEW c \in calls
    PROVE  /\ GoodCalls(calls) /\ GoodCalls(calls \ {c}) /\ c \in Call /\ IssuedOnly(c)
           /\ \A kind \in Kinds, s \in Issued \cup {NoSession} :
                (kind \in {"delete", "messages"} => s # NoSession) =>
                    GoodCalls(Asked(calls \ {c}, AskAfter(c, kind, s)))
<1>1. GoodCalls(calls) /\ c \in Call /\ IssuedOnly(c)
  BY DEF TypeInv, TypeOK, GoodCalls
<1>2. GoodCalls(calls \ {c})
  BY <1>1, FS_RemoveElement DEF GoodCalls
<1>3. ASSUME NEW kind \in Kinds, NEW s \in Issued \cup {NoSession},
             kind \in {"delete", "messages"} => s # NoSession
      PROVE  GoodCalls(Asked(calls \ {c}, AskAfter(c, kind, s)))
  <2>. DEFINE new == AskAfter(c, kind, s)
  <2>1. new \in Call /\ IssuedOnly(new)
    BY <1>1, <1>3, GoodAskAfter
  <2>. HIDE DEF new
  <2>2. GoodCalls(Asked(calls \ {c}, new))
    BY <1>2, <2>1, GoodAsked
  <2>. QED BY <2>2 DEF new
<1>. QED BY <1>1, <1>2, <1>3

LEMMA MsgType ==
    ASSUME NEW text \in 0..MaxTexts, NEW by \in {"user", "assistant"},
           NEW status \in {"sent", "complete", "awaiting", "failed"}, NEW stored \in BOOLEAN
    PROVE  /\ Msg(text, by, status, stored) \in Message
           /\ Msg(text, by, status, stored).stored = stored
BY DEF Msg, Message

LEMMA TypeDeliver == ASSUME TypeInv, NEW c \in calls, Deliver(c) PROVE TypeInv'
<1>. DEFINE rest == calls \ {c}
            Browser == /\ GoodCalls(calls')
                       /\ list' \in Seq(Issued) /\ active' \in Issued \cup {NoSession}
                       /\ shown' \in Seq(Message) /\ draft' \in 0..MaxTexts
                       /\ submitting' \in BOOLEAN /\ executing' \subseteq 0..MaxTexts
<1>1. /\ c \in Call /\ IssuedOnly(c) /\ GoodCalls(rest)
      /\ list \in Seq(Issued) /\ active \in Issued \cup {NoSession}
      /\ shown \in Seq(Message) /\ draft \in 0..MaxTexts
      /\ submitting \in BOOLEAN /\ executing \subseteq 0..MaxTexts
  BY GoodRest DEF TypeInv, TypeOK
<1>2. \A kind \in Kinds, s \in Issued \cup {NoSession} :
        (kind \in {"delete", "messages"} => s # NoSession) =>
            GoodCalls(Asked(rest, AskAfter(c, kind, s)))
  BY GoodRest
<1>3. Finally(c) => submitting' \in BOOLEAN /\ executing' \subseteq 0..MaxTexts
  BY <1>1 DEF Finally
<1>4. c.found \in Seq(Issued) /\ c.seen \in Seq(Issued) /\ c.data \in Seq(Message)
      /\ c.session \in Issued \cup {NoSession} /\ c.text \in 0..MaxTexts
  BY <1>1 DEF IssuedOnly, Call
<1>5. \A seq \in Seq(Issued) : seq # <<>> => seq[1] \in Issued
  <2>. TAKE seq \in Seq(Issued)
  <2>1. seq # <<>> => 1 \in 1..Len(seq)
    BY EmptySeq
  <2>. QED BY <2>1, ElementOfSeq
<1>6. \A s \in Issued \cup {NoSession} : \A cs : GoodCalls(cs) /\ Activate(s, cs) =>
         active' \in Issued \cup {NoSession} /\ GoodCalls(calls')
  BY GoodActivate
<1>. HIDE DEF rest
<1>7. ASSUME GotMessages(c) PROVE Browser
  BY <1>1, <1>3, <1>4, <1>7 DEF GotMessages, app, rest
<1>8. ASSUME GotList(c) PROVE Browser
  <2>1. UNCHANGED panel
    BY <1>8 DEF GotList
  <2>2. CASE c.reply = "ok"
    <3>. DEFINE s == IF c.was = NoSession /\ c.found # <<>> THEN c.found[1] ELSE active
    <3>1. list' = c.found /\ Activate(s, rest)
      BY <1>8, <2>2 DEF GotList, rest
    <3>2. s \in Issued \cup {NoSession}
      BY <1>1, <1>4, <1>5
    <3>. HIDE DEF s
    <3>. QED BY <1>1, <1>4, <1>6, <2>1, <3>1, <3>2 DEF panel
  <2>3. CASE c.reply # "ok"
    BY <1>1, <1>8, <2>1, <2>3 DEF GotList, app, panel, rest
  <2>. QED BY <2>2, <2>3
<1>9. ASSUME Created(c) PROVE Browser
  <2>1. UNCHANGED panel /\ c.kind = "create"
    BY <1>9 DEF Created
  <2>2. CASE c.reply = "ok"
    <3>1. list' = c.found \o list /\ Activate(c.found[1], rest)
      BY <1>9, <2>2 DEF Created, rest
    <3>2. c.found[1] \in Issued /\ list' \in Seq(Issued)
      BY <1>1, <1>4, <2>1, <2>2, <3>1, ConcatProperties, ElementOfSeq DEF IssuedOnly
    <3>. QED BY <1>1, <1>6, <2>1, <3>1, <3>2 DEF panel
  <2>3. CASE c.reply # "ok"
    BY <1>1, <1>9, <2>1, <2>3 DEF Created, app, panel, rest
  <2>. QED BY <2>2, <2>3
<1>10. ASSUME Deleted(c) PROVE Browser
  <2>1. UNCHANGED <<draft, submitting, executing>>
    BY <1>10 DEF Deleted
  <2>2. CASE c.reply = "ok"
    <3>. DEFINE s == NextActive(c)
    <3>1. list' = Without(c.seen, c.session) /\ Activate(s, rest) /\ shown' = Emptied(s)
      BY <1>10, <2>2 DEF Deleted, rest
    <3>2. Without(c.seen, c.session) \in Seq(Issued)
      BY <1>4, WithoutFacts
    <3>3. s \in Issued \cup {NoSession}
      BY <1>1, <1>5, <3>2 DEF NextActive, First
    <3>. HIDE DEF s
    <3>4. shown' \in Seq(Message)
      BY <1>1, <3>1 DEF Emptied
    <3>. QED BY <1>1, <1>6, <2>1, <3>1, <3>2, <3>3, <3>4
  <2>3. CASE c.reply # "ok"
    BY <1>1, <1>10, <2>1, <2>3 DEF Deleted, app, rest
  <2>. QED BY <2>2, <2>3
<1>11. ASSUME CreatedFirst(c) PROVE Browser
  <2>1. c.kind = "first"
    BY <1>11 DEF CreatedFirst
  <2>2. ASSUME IF c.live THEN Shows(c.text) ELSE UNCHANGED panel
        PROVE  /\ shown' \in Seq(Message) /\ draft' \in 0..MaxTexts
               /\ submitting' \in BOOLEAN /\ executing' \subseteq 0..MaxTexts
    <3>. DEFINE new == Msg(c.text, "user", "sent", FALSE)
    <3>1. new \in Message
      BY <1>4, MsgType
    <3>2. 0 \in 0..MaxTexts
      BY BoundsAssumption
    <3>3. \/ UNCHANGED panel
          \/ shown' = Append(shown, new) /\ draft' = 0 /\ submitting' = TRUE
             /\ executing' = executing
      BY <2>2 DEF Shows, LeftDraft
    <3>. HIDE DEF new
    <3>4. shown' \in Seq(Message)
      BY <1>1, <3>1, <3>3, AppendProperties DEF panel
    <3>. QED BY <1>1, <3>2, <3>3, <3>4 DEF panel
  <2>3. CASE c.reply = "lost"
    BY <1>1, <1>11, <2>3 DEF CreatedFirst, app, panel, rest
  <2>4. CASE c.reply = "ok"
    <3>. DEFINE s == c.found[1]
                cs == Asked(rest, AskAfter(c, "query", s))
    <3>1. list' = c.found \o list /\ Activate(s, cs)
          /\ IF c.live THEN Shows(c.text) ELSE UNCHANGED panel
      BY <1>11, <2>4 DEF CreatedFirst, rest
    <3>2. s \in Issued /\ list' \in Seq(Issued)
      BY <1>1, <1>4, <2>1, <2>4, <3>1, ConcatProperties, ElementOfSeq DEF IssuedOnly
    <3>3. GoodCalls(cs)
      BY <1>2, <3>2 DEF Kinds
    <3>. HIDE DEF cs
    <3>. QED BY <1>6, <2>2, <3>1, <3>2, <3>3
  <2>5. CASE c.reply \notin {"lost", "ok"}
    <3>1. calls' = Asked(rest, AskAfter(c, "query", NoSession)) /\ UNCHANGED app
          /\ IF c.live THEN Shows(c.text) ELSE UNCHANGED panel
      BY <1>11, <2>5 DEF CreatedFirst, rest
    <3>2. GoodCalls(calls')
      BY <1>2, <3>1 DEF Kinds
    <3>. QED BY <1>1, <2>2, <3>1, <3>2 DEF app
  <2>. QED BY <2>3, <2>4, <2>5
<1>12. ASSUME calls' = rest \/ (calls' = Asked(rest, AskAfter(c, "messages", c.session))
                                /\ c.session # NoSession)
       PROVE  GoodCalls(calls')
  BY <1>1, <1>2, <1>4, <1>12 DEF Kinds
<1>13. ASSUME Answered(c) PROVE Browser
  <2>. DEFINE says == IF c.reply = "ok" THEN [c.data[1] EXCEPT !.stored = FALSE]
                      ELSE Msg(c.text, "assistant", "failed", FALSE)
  <2>1. GoodCalls(calls')
    BY <1>12, <1>13 DEF Answered, rest
  <2>2. says \in Message
    <3>1. CASE c.reply = "ok"
      <4>1. c.data[1] \in Message
        BY <1>1, <1>4, <1>13, <3>1, ElementOfSeq DEF Answered, IssuedOnly
      <4>2. \A m \in Message : [m EXCEPT !.stored = FALSE] \in Message
        BY DEF Message
      <4>. QED BY <3>1, <4>1, <4>2
    <3>2. CASE c.reply # "ok"
      BY <1>4, <3>2, MsgType
    <3>. QED BY <3>1, <3>2
  <2>3. /\ shown' = shown \/ shown' = Append(shown, says)
        /\ Finally(c) \/ UNCHANGED <<submitting, executing>>
        /\ UNCHANGED <<app, draft>>
    BY <1>13 DEF Answered
  <2>. HIDE DEF says
  <2>4. shown' \in Seq(Message)
    BY <1>1, <2>2, <2>3, AppendProperties
  <2>. QED BY <1>1, <1>3, <2>1, <2>3, <2>4 DEF app
<1>14. ASSUME Decided(c) PROVE Browser
  <2>1. GoodCalls(calls')
    BY <1>12, <1>14 DEF Decided, rest
  <2>2. /\ Finally(c) \/ UNCHANGED <<submitting, executing>>
        /\ UNCHANGED <<app, draft>>
        /\ \/ shown' = shown
           \/ shown' = [i \in DOMAIN shown |->
                           IF Approves(shown[i], c) THEN [shown[i] EXCEPT !.status = "complete"]
                           ELSE shown[i]]
    BY <1>14 DEF Decided
  <2>3. \A m \in Message : [m EXCEPT !.status = "complete"] \in Message
    BY DEF Message
  <2>4. Len(shown) \in Nat /\ DOMAIN shown = 1..Len(shown) /\ \A i \in DOMAIN shown : shown[i] \in Message
    BY <1>1, LenProperties, ElementOfSeq
  <2>5. shown' \in Seq(Message)
    <3>1. CASE shown' # shown
      <4>1. shown' \in [1..Len(shown) -> Message]
        BY <2>2, <2>3, <2>4, <3>1
      <4>. QED BY <2>4, <4>1, SeqDef
    <3>. QED BY <1>1, <3>1
  <2>. QED BY <1>1, <1>3, <2>1, <2>2, <2>5 DEF app
<1>15. Browser
  BY <1>7, <1>8, <1>9, <1>10, <1>11, <1>13, <1>14 DEF Deliver
<1>16. /\ UNCHANGED <<server, user, faults>> /\ disturbed' \in BOOLEAN
       /\ typed \in 0..MaxTexts /\ blind \subseteq Texts /\ turns \in 0..MaxTurns
       /\ faults \in 0..MaxFaults
  BY DEF Deliver, TypeInv, TypeOK
<1>. QED BY <1>15, <1>16, TypeBrowser DEF user

\* The requests of a panel that is left behind.
LEMMA LeftBehind ==
    ASSUME GoodCalls(calls)
    PROVE  LET left == {[c EXCEPT !.live = FALSE] : c \in calls} IN
           /\ GoodCalls(left)
           /\ \A e \in left : e.live = FALSE /\ \E c \in calls : Same(e, c)
           /\ \A c \in calls : \E e \in left : Same(e, c)
<1>. DEFINE Left(c) == [c EXCEPT !.live = FALSE]
            left == {Left(c) : c \in calls}
            f == [c \in calls |-> Left(c)]
<1>1. \A c \in calls : Left(c) \in Call
  BY CallEdits DEF GoodCalls
<1>2. \A c \in calls : Same(Left(c), c) /\ Left(c).live = FALSE
  BY CallFields DEF GoodCalls
<1>. HIDE DEF Left
<1>3. \A e \in left : e \in Call /\ e.live = FALSE /\ \E c \in calls : Same(e, c)
  BY <1>1, <1>2
<1>4. \A c \in calls : \E e \in left : Same(e, c)
  BY <1>2
<1>5. \A e \in left : IssuedOnly(e)
  BY <1>3 DEF GoodCalls, IssuedOnly, Same
<1>6. f \in [calls -> Call] /\ left = {f[c] : c \in calls}
  BY <1>1
<1>. HIDE DEF f, left
<1>7. IsFiniteSet(left)
  <2>1. IsFiniteSet(calls)
    BY DEF GoodCalls
  <2>2. IsFiniteSet({f[c] : c \in calls})
    BY <1>6, <2>1, FiniteMap
  <2>. QED BY <1>6, <2>2
<1>. QED BY <1>3, <1>4, <1>5, <1>7 DEF GoodCalls, left, Left

LEMMA TypeUser ==
    ASSUME TypeInv,
           \/ Type \/ Send \/ NewChat \/ SignIn \/ Remount
           \/ \E s \in Members(list) : Select(s) \/ Delete(s)
           \/ \E kind \in {"approve", "reject"}, m \in Members(shown) : Decide(kind, m)
    PROVE  TypeInv'
<1>. DEFINE Browser == /\ UNCHANGED <<server, faults>> /\ GoodCalls(calls')
                       /\ list' \in Seq(Issued) /\ active' \in Issued \cup {NoSession}
                       /\ shown' \in Seq(Message) /\ draft' \in 0..MaxTexts
                       /\ submitting' \in BOOLEAN /\ executing' \subseteq 0..MaxTexts
                       /\ typed' \in 0..MaxTexts /\ blind' \subseteq Texts
                       /\ disturbed' \in BOOLEAN /\ turns' \in 0..MaxTurns
<1>1. /\ GoodCalls(calls)
      /\ list \in Seq(Issued) /\ active \in Issued \cup {NoSession}
      /\ shown \in Seq(Message) /\ draft \in 0..MaxTexts
      /\ submitting \in BOOLEAN /\ executing \subseteq 0..MaxTexts
      /\ typed \in 0..MaxTexts /\ blind \subseteq Texts
      /\ disturbed \in BOOLEAN /\ turns \in 0..MaxTurns /\ faults \in 0..MaxFaults
  BY DEF TypeInv, TypeOK, GoodCalls
<1>2. 0 \in 0..MaxTexts /\ MaxTexts \in Nat /\ MaxTurns \in Nat
  BY BoundsAssumption
<1>3. \A kinds : Turn(kinds) => /\ UNCHANGED <<server, typed, faults>>
                                /\ disturbed' \in BOOLEAN /\ turns' \in 0..MaxTurns
  BY <1>1, <1>2 DEF Turn
<1>4. \A m \in Members(shown) : m.text \in 0..MaxTexts
  <2>1. \A i \in DOMAIN shown : shown[i] \in Message
    BY <1>1, LenProperties, ElementOfSeq
  <2>. QED BY <2>1 DEF Members, Message
<1>5. \A s \in Members(list) : s \in Issued
  BY <1>1, LenProperties, ElementOfSeq DEF Members
<1>6. NoSession \notin Issued
  BY DEF Issued, Sessions, NoSession
<1>7. ASSUME NEW kind \in Kinds, NEW s \in Issued \cup {NoSession}, NEW text \in 0..MaxTexts,
             NEW then \in {"open", "send", "execute"},
             kind \in {"delete", "messages"} => s # NoSession,
             NEW cs, GoodCalls(cs), calls' = Asked(cs, Ask(kind, s, text, then))
      PROVE  GoodCalls(calls')
  <2>. DEFINE new == Ask(kind, s, text, then)
  <2>1. new \in Call /\ IssuedOnly(new)
    BY <1>7, GoodAsk
  <2>2. calls' = Asked(cs, new)
    BY <1>7
  <2>. HIDE DEF new
  <2>. QED BY <1>7, <2>1, <2>2, GoodAsked
<1>8. ASSUME Type PROVE Browser
  <2>1. typed + 1 \in 0..MaxTexts
    BY <1>1, <1>2, <1>8 DEF Type
  <2>. QED BY <1>1, <1>8, <2>1 DEF Type, app
<1>9. ASSUME Send PROVE Browser
  <2>1. Turn({"messages"}) /\ UNCHANGED app /\ draft # 0
    BY <1>9 DEF Send
  <2>2. CASE active # NoSession
    <3>. DEFINE new == Msg(draft, "user", "sent", FALSE)
    <3>1. /\ calls' = Asked(calls, Ask("query", active, draft, "send")) /\ blind' = blind
          /\ shown' = Append(shown, new) /\ draft' = 0 /\ submitting' = TRUE
          /\ executing' = executing
      BY <1>9, <2>2 DEF Send, Shows, LeftDraft
    <3>2. new \in Message
      BY <1>1, MsgType
    <3>. HIDE DEF new
    <3>3. shown' \in Seq(Message)
      BY <1>1, <3>1, <3>2, AppendProperties
    <3>4. GoodCalls(calls')
      BY <1>1, <1>7, <3>1 DEF Kinds
    <3>. QED BY <1>1, <1>2, <1>3, <2>1, <3>1, <3>3, <3>4 DEF app
  <2>3. CASE active = NoSession
    <3>1. /\ calls' = Asked(calls, Ask("first", NoSession, draft, "send"))
          /\ blind' = blind \cup {draft} /\ submitting' = submitting
          /\ UNCHANGED <<shown, draft, executing>>
      BY <1>9, <2>3 DEF Send, FlagOfFirst
    <3>2. GoodCalls(calls')
      BY <1>1, <1>7, <3>1 DEF Kinds
    <3>3. draft \in Texts
      BY <1>1, <1>2, <2>1 DEF Texts
    <3>. QED BY <1>1, <1>3, <2>1, <3>1, <3>2, <3>3 DEF app
  <2>. QED BY <2>2, <2>3
<1>10. ASSUME NewChat PROVE Browser
  <2>1. GoodCalls(calls')
    BY <1>1, <1>2, <1>7, <1>10 DEF NewChat, Kinds
  <2>. QED BY <1>1, <1>3, <1>10, <2>1 DEF NewChat, app, panel
<1>11. ASSUME SignIn PROVE Browser
  <2>1. GoodCalls(calls')
    BY <1>1, <1>2, <1>7, <1>11 DEF SignIn, Kinds
  <2>. QED BY <1>1, <1>3, <1>11, <2>1 DEF SignIn, app, panel
<1>12. ASSUME NEW s \in Members(list), Select(s) PROVE Browser
  <2>1. active' \in Issued \cup {NoSession} /\ GoodCalls(calls')
    BY <1>1, <1>5, <1>12, GoodActivate DEF Select
  <2>. QED BY <1>1, <1>3, <1>12, <2>1 DEF Select, panel
<1>13. ASSUME NEW s \in Members(list), Delete(s) PROVE Browser
  <2>1. GoodCalls(calls')
    BY <1>1, <1>2, <1>5, <1>6, <1>7, <1>13 DEF Delete, Kinds
  <2>. QED BY <1>1, <1>3, <1>13, <2>1 DEF Delete, app, panel
<1>14. ASSUME NEW kind \in {"approve", "reject"}, NEW m \in Members(shown), Decide(kind, m)
       PROVE  Browser
  <2>1. /\ calls' = Asked(calls, Ask(kind, active, m.text, "execute")) /\ executing' = {m.text}
        /\ Turn({"messages"}) /\ UNCHANGED <<app, shown, draft, submitting, blind>>
    BY <1>14 DEF Decide
  <2>2. GoodCalls(calls')
    BY <1>1, <1>4, <1>7, <2>1 DEF Kinds
  <2>. QED BY <1>1, <1>3, <1>4, <2>1, <2>2 DEF app
<1>15. ASSUME Remount PROVE Browser
  <2>. DEFINE left == {[c EXCEPT !.live = FALSE] : c \in calls}
  <2>1. /\ Turn({"messages"}) /\ UNCHANGED <<app, blind>>
        /\ shown' = <<>> /\ draft' = 0 /\ submitting' = FALSE /\ executing' = {}
        /\ \/ calls' = left
           \/ active # NoSession /\ calls' = Asked(left, Ask("messages", active, 0, "open"))
    BY <1>15 DEF Remount
  <2>2. GoodCalls(left)
    BY <1>1, LeftBehind
  <2>. HIDE DEF left
  <2>3. GoodCalls(calls')
    BY <1>1, <1>2, <1>7, <2>1, <2>2 DEF Kinds
  <2>4. <<>> \in Seq(Message)
    OBVIOUS
  <2>. QED BY <1>1, <1>2, <1>3, <2>1, <2>3, <2>4 DEF app
<1>16. Browser
  BY <1>8, <1>9, <1>10, <1>11, <1>12, <1>13, <1>14, <1>15
<1>17. faults' \in 0..MaxFaults /\ UNCHANGED server
  BY <1>1, <1>16
<1>. QED BY <1>16, <1>17, TypeBrowser

LEMMA TypeStep == TypeInv /\ [Next]_vars => TypeInv'
<1>. SUFFICES ASSUME TypeInv, [Next]_vars PROVE TypeInv'
  OBVIOUS
<1>1. ASSUME NEW c \in calls, Handle(c) PROVE TypeInv'
  BY <1>1, TypeHandle
<1>2. ASSUME NEW c \in calls, Refuse(c) \/ Lose(c) PROVE TypeInv'
  BY <1>2, TypeFault
<1>3. ASSUME NEW c \in calls, Deliver(c) PROVE TypeInv'
  BY <1>3, TypeDeliver
<1>4. CASE UNCHANGED vars
  <2>1. Issued' = Issued
    BY <1>4 DEF vars, server, Issued
  <2>. QED BY <1>4, <2>1 DEF vars, server, app, panel, user, TypeInv, TypeOK, IssuedOnly
<1>. QED BY <1>1, <1>2, <1>3, <1>4, TypeUser DEF Next, Network

\* Whatever is lost, late or refused, and whatever the user does, every variable
\* keeps its type, and a session that is not in the store has no messages.
THEOREM ChatTypeCorrect == Spec => []TypeOK
<1>1. TypeInv => TypeOK
  BY DEF TypeInv
<1>. QED BY <1>1, TypeInit, TypeStep, PTL DEF Spec

-----------------------------------------------------------------------------
(***************************************************************************)
(* RestIsCoherent.                                                         *)
(***************************************************************************)
Calm == OneAtATime /\ ListFollows /\ WindowFollows

LEMMA AskFields ==
    ASSUME NEW kind, NEW s, NEW text, NEW then
    PROVE  LET new == Ask(kind, s, text, then) IN
           /\ new.kind = kind /\ new.session = s /\ new.text = text /\ new.then = then
           /\ kind = "delete" => new.seen = list
           /\ kind \in {"delete", "list"} => new.was = active
           /\ new.live = TRUE /\ new.late = FALSE /\ new.reply = "none"
BY DEF Ask

LEMMA KeepMine ==
    ASSUME TypeInv, Kept, NEW s \in Issued \cup {NoSession}, NEW turn \in Seq(Message),
           \A i \in DOMAIN turn : turn[i].stored, Keep(s, turn), rows' \in Seq(Sessions)
    PROVE  /\ Kept' /\ Members(Mine)' = Members(Mine)
           /\ \A x \in Sessions : x # s => history'[x] = history[x]
<1>0. /\ rows \in Seq(Sessions) /\ owner \in [Sessions -> {"none", "me", "default", "gone"}]
      /\ history \in [Sessions -> Seq(Message)]
  BY DEF TypeInv, TypeOK
<1>1. /\ Members(Mine) = {x \in Members(rows) : owner[x] = "me"}
      /\ Members(Mine)' = {x \in Members(rows)' : owner'[x] = "me"}
  BY <1>0, MineMembers DEF Mine
<1>2. CASE s = NoSession
  <2>1. UNCHANGED <<rows, owner, history>>
    BY <1>2 DEF Keep
  <2>. QED BY <1>1, <2>1, ZenonT(60) DEF Kept, Members
<1>3. CASE s # NoSession
  <2>1. /\ s \in Sessions /\ owner[s] # "none"
        /\ history' = [history EXCEPT ![s] = @ \o turn]
        /\ rows' = <<s>> \o Without(rows, s)
        /\ owner' = [owner EXCEPT ![s] = IF @ = "gone" THEN "default" ELSE @]
    BY <1>3 DEF Keep, Issued, Revived
  <2>2. Members(rows') = Members(rows) \cup {s}
    <3>1. Without(rows, s) \in Seq(Sessions) /\ Members(Without(rows, s)) = Members(rows) \ {s}
      BY <1>0, WithoutFacts
    <3>2. Members(<<s>> \o Without(rows, s)) = Members(Without(rows, s)) \cup {s}
      BY <2>1, <3>1, FrontFacts
    <3>. QED BY <2>1, <3>1, <3>2
  <2>3. \A x \in Sessions : owner'[x] = "me" <=> owner[x] = "me"
    BY <1>0, <2>1
  <2>4. Members(Mine)' = Members(Mine)
    <3>1. Members(rows) \subseteq Sessions
      BY <1>0, ElementOfSeq, LenProperties DEF Members
    <3>2. owner[s] = "me" => s \in Members(rows)
      BY <2>1 DEF Kept
    <3>. QED BY <1>1, <2>1, <2>2, <2>3, <3>1, <3>2 DEF Members
  <2>5. \A x \in Sessions : x # s => history'[x] = history[x]
    BY <1>0, <2>1
  <2>6. \A i \in DOMAIN history'[s] : history'[s][i].stored
    <3>. DEFINE h == history[s]
    <3>1. h \in Seq(Message) /\ history'[s] = h \o turn
      BY <1>0, <2>1
    <3>2. /\ h \o turn \in Seq(Message) /\ Len(h \o turn) = Len(h) + Len(turn)
          /\ \A i \in 1..(Len(h) + Len(turn)) :
               (h \o turn)[i] = IF i <= Len(h) THEN h[i] ELSE turn[i - Len(h)]
      BY <3>1, ConcatProperties
    <3>3. DOMAIN (h \o turn) = 1..(Len(h) + Len(turn)) /\ DOMAIN h = 1..Len(h)
          /\ DOMAIN turn = 1..Len(turn) /\ Len(h) \in Nat /\ Len(turn) \in Nat
      BY <3>1, <3>2, LenProperties
    <3>4. \A i \in DOMAIN h : h[i].stored
      BY <2>1 DEF Kept
    <3>. HIDE DEF h
    <3>5. \A i \in 1..(Len(h) + Len(turn)) : i \in DOMAIN h \/ i - Len(h) \in DOMAIN turn
      BY <3>3
    <3>. QED BY <3>1, <3>2, <3>3, <3>4, <3>5
  <2>7. Kept'
    <3>1. \A x \in Sessions : owner'[x] = "me" => x \in Members(rows')
      BY <2>2, <2>3 DEF Kept
    <3>2. \A x \in Sessions : \A i \in DOMAIN history'[x] : history'[x][i].stored
      BY <2>5, <2>6 DEF Kept
    <3>. QED BY <3>1, <3>2 DEF Kept, Members
  <2>. QED BY <2>4, <2>5, <2>7
<1>. QED BY <1>2, <1>3

\* What an answer of the server may do to the sessions, and what the browser may
\* then rely on.
LEMMA ReplyCalm ==
    ASSUME TypeInv, Calm, NEW c \in calls, NEW r, NEW f, NEW d, Reply(c, r, f, d),
           UNCHANGED <<app, panel>>,
           Done(c) => r \in {"ok", "lost"},
           Members(Mine)' = Members(Mine) \/ (c.kind \in {"create", "first", "delete"} /\ r = "ok"),
           r = "ok" =>
             /\ c.kind = "list" => Members(f) = Members(Mine)'
             /\ c.kind \in {"create", "first"} =>
                   f[1] \notin Members(list) /\ Members(Mine)' = Members(list) \cup {f[1]}
             /\ c.kind = "delete" => Members(Mine)' = Members(list) \ {c.session}
             /\ c.kind = "messages" => d = history'[c.session] /\ history' = history,
           active \in Members(Mine) => \/ active \in Members(Mine)'
                                       \/ c.kind = "delete" /\ c.session = active /\ r = "ok",
           \/ Due' = Due
           \/ c.kind = "query" /\ c.session # NoSession /\ r = "ok"
           \/ c.kind = "delete" /\ c.session = active /\ r = "ok"
    PROVE  Calm'
<1>. DEFINE n == [c EXCEPT !.reply = r, !.found = f, !.data = d]
            mine == Members(Mine)
<1>1. calls' = (calls \ {c}) \cup {n}
  BY DEF Reply
<1>2. c \in Call
  BY DEF TypeInv, TypeOK
<1>3. /\ n.kind = c.kind /\ n.session = c.session /\ n.then = c.then /\ n.seen = c.seen
      /\ n.was = c.was /\ n.live = c.live /\ n.late = c.late
      /\ n.reply = r /\ n.found = f /\ n.data = d
  BY <1>2, CallFields
<1>. HIDE DEF n
<1>4. list' = list /\ active' = active /\ shown' = shown
  BY DEF app, panel
<1>5. \A e : ByUser(e)' <=> ByUser(e)
  BY DEF ByUser
<1>6. ByUser(n) <=> ByUser(c)
  BY <1>3 DEF ByUser
<1>7. Newest(n) <=> Newest(c)
  BY <1>3 DEF Newest
<1>8. Done(c) => Done(n)
  BY <1>3 DEF Done
<1>9. OneAtATime'
  <2>1. \A e, g \in calls' : ByUser(e) /\ ByUser(g) => e = g
    BY <1>1, <1>6 DEF Calm, OneAtATime
  <2>2. \A e, g \in calls' : e.kind = "list" => ~ByUser(g)
    BY <1>1, <1>3, <1>6 DEF Calm, OneAtATime
  <2>3. \A e \in calls' :
          /\ e.kind = "delete" => calls' = {e} /\ e.seen = list /\ e.was = active
          /\ ~e.live => ~ByUser(e)
          /\ e.late => e.kind = "messages"
          /\ e.kind = "first" => active = NoSession
          /\ ByUser(e) /\ e.kind \in {"query", "approve", "reject", "messages"} => e.session = active
    BY <1>1, <1>3, <1>6 DEF Calm, OneAtATime
  <2>. QED BY <1>4, <2>1, <2>2, <2>3 DEF OneAtATime, ByUser
<1>10. Removing => Removing'
  BY <1>1, <1>3, <1>4, <1>8 DEF Removing, Done
<1>11. Answering => Answering'
  BY <1>1, <1>3, <1>8 DEF Answering, Done
<1>12. /\ c.kind = "query" /\ c.session # NoSession /\ r = "ok" => Answering'
       /\ c.kind = "delete" /\ c.session = active /\ r = "ok" => Removing'
  BY <1>1, <1>3, <1>4 DEF Removing, Answering, Done
<1>13. (\E e \in calls : Newest(e)) => \E e \in calls' : Newest(e)
  BY <1>1, <1>7
<1>14. \A e \in calls : e # c /\ c.kind \in {"create", "first", "delete"} => e.kind = "messages"
  BY DEF Calm, OneAtATime, ByUser
<1>15. ListFollows'
  <2>1. \/ Members(list) = mine'
        \/ \E e \in calls' :
             e.kind = "list" \/ (e.kind \in {"create", "first", "delete"} /\ Done(e))
    <3>1. CASE mine' = mine
      BY <1>1, <1>3, <1>8, <3>1 DEF Calm, ListFollows
    <3>2. CASE c.kind \in {"create", "first", "delete"} /\ r = "ok"
      BY <1>1, <1>3, <3>2 DEF Done
    <3>. QED BY <3>1, <3>2
  <2>2. \A e \in calls' : e.reply = "ok" =>
          /\ e.kind = "list" => Members(e.found) = mine'
          /\ e.kind \in {"create", "first"} =>
                e.found[1] \notin Members(list) /\ mine' = Members(list) \cup {e.found[1]}
          /\ e.kind = "delete" => mine' = Members(list) \ {e.session}
    <3>. TAKE e \in calls'
    <3>1. CASE e = n
      BY <1>3, <3>1
    <3>2. CASE e \in calls /\ e # c /\ mine' = mine
      BY <3>2 DEF Calm, ListFollows
    <3>3. CASE e \in calls /\ e # c /\ c.kind \in {"create", "first", "delete"}
      BY <1>14, <3>3
    <3>. QED BY <1>1, <3>1, <3>2, <3>3
  <2>3. active # NoSession => active \in Members(list) /\ (active \in mine' \/ Removing')
    BY <1>10, <1>12 DEF Calm, ListFollows
  <2>. HIDE DEF mine
  <2>. QED BY <1>4, <2>1, <2>2, <2>3 DEF ListFollows, mine
<1>16. WindowFollows'
  <2>1. Stored(shown) = Due' \/ (\E e \in calls' : Newest(e)) \/ Answering' \/ Removing'
    BY <1>10, <1>11, <1>12, <1>13 DEF Calm, WindowFollows
  <2>2. \A e \in calls' : Newest(e) =>
          /\ e.session = active /\ active # NoSession
          /\ e.reply = "ok" => e.data = Due' \/ Answering'
    <3>. SUFFICES ASSUME NEW e \in calls', Newest(e)
                  PROVE  /\ e.session = active /\ active # NoSession
                         /\ e.reply = "ok" => e.data = Due' \/ Answering'
      OBVIOUS
    <3>1. CASE e = n
      <4>1. c.session = active /\ active # NoSession /\ n.session = active /\ c.kind = "messages"
        BY <1>3, <1>7, <3>1 DEF Calm, WindowFollows, Newest
      <4>2. r = "ok" => d = Due'
        BY <1>4, <4>1 DEF Due
      <4>. QED BY <1>3, <3>1, <4>1, <4>2
    <3>2. CASE e \in calls /\ e # c
      <4>1. e.session = active /\ active # NoSession /\ (e.reply = "ok" => e.data = Due \/ Answering)
        BY <3>2 DEF Calm, WindowFollows
      <4>2. Due' = Due \/ Answering'
        <5>1. c.kind # "delete"
          BY <3>2 DEF Calm, OneAtATime
        <5>. QED BY <1>12, <5>1
      <4>. QED BY <1>11, <4>1, <4>2
    <3>. QED BY <1>1, <3>1, <3>2
  <2>3. \A e \in calls' : e.kind = "messages" /\ e.live => \E g \in calls' : Newest(g)
    BY <1>1, <1>3, <1>13 DEF Calm, WindowFollows
  <2>. QED BY <1>4, <2>1, <2>2, <2>3 DEF WindowFollows, Newest, Stored, Picked
<1>. QED BY <1>9, <1>15, <1>16 DEF Calm

\* An answer for which the server changes nothing.
LEMMA QuietReply ==
    ASSUME TypeInv, Kept, NEW c \in calls, NEW r, NEW f, NEW d, Reply(c, r, f, d),
           UNCHANGED <<server, app, panel>>, Done(c) => r \in {"ok", "lost"},
           r = "ok" =>
             /\ c.kind \notin {"create", "first", "delete"}
             /\ c.kind = "list" => f = Mine
             /\ c.kind = "messages" => d = history[c.session]
    PROVE  Kept' /\ (Calm => Calm')
<1>1. Mine' = Mine /\ Due' = Due
  BY DEF server, app, Mine, Due
<1>2. Kept'
  BY DEF Kept, server, Members
<1>3. history' = history
  BY DEF server
<1>4. Members(Mine)' = Members(Mine)
  BY <1>1
<1>. HIDE DEF Mine
<1>5. ASSUME Calm PROVE Calm'
  BY <1>1, <1>3, <1>4, <1>5, ReplyCalm
<1>. QED BY <1>2, <1>5

LEMMA FaultCalm ==
    ASSUME TypeInv, Kept, NEW c \in calls, Refuse(c) \/ Lose(c)
    PROVE  Kept' /\ (Calm => Calm')
<1>1. \E r \in {"refused", "lost"} :
         /\ Reply(c, r, <<>>, <<>>) /\ UNCHANGED <<server, app, panel>>
         /\ Done(c) => r = "lost"
  BY DEF Refuse, Lose, Done
<1>. QED BY <1>1, QuietReply

LEMMA CreateCalm ==
    ASSUME TypeInv, Kept, TypeInv', NEW c \in calls, c.reply = "none", HandleCreate(c),
           UNCHANGED <<app, panel>>
    PROVE  Kept' /\ (Calm => Calm')
<1>1. CASE Reply(c, "refused", <<>>, <<>>) /\ UNCHANGED <<owner, rows>>
  BY <1>1, QuietReply DEF HandleCreate, server, Done
<1>2. ASSUME NEW s \in Sessions, owner[s] = "none", owner' = [owner EXCEPT ![s] = "me"],
             rows' = <<s>> \o rows, Reply(c, "ok", <<s>>, <<>>)
      PROVE  Kept' /\ (Calm => Calm')
  <2>1. /\ rows \in Seq(Sessions) /\ rows' \in Seq(Sessions)
        /\ owner \in [Sessions -> {"none", "me", "default", "gone"}]
        /\ list \in Seq(Issued) /\ c.kind \in {"create", "first"} /\ history' = history
    BY <1>2 DEF TypeInv, TypeOK, HandleCreate
  <2>2. Members(rows') = Members(rows) \cup {s}
    BY <1>2, <2>1, FrontFacts
  <2>3. owner'[s] = "me" /\ \A x \in Sessions : x # s => owner'[x] = owner[x]
    BY <1>2, <2>1
  <2>4. Members(rows) \subseteq Sessions
    BY <2>1, ElementOfSeq, LenProperties DEF Members
  <2>5. Members(Mine)' = Members(Mine) \cup {s}
    <3>1. /\ Members(Mine) = {x \in Members(rows) : owner[x] = "me"}
          /\ Members(Mine)' = {x \in Members(rows') : owner'[x] = "me"}
      BY <2>1, MineMembers DEF Mine
    <3>. QED BY <1>2, <2>2, <2>3, <2>4, <3>1
  <2>6. Kept'
    <3>1. \A x \in Sessions : owner'[x] = "me" => x \in Members(rows')
      BY <2>2, <2>3 DEF Kept
    <3>2. \A x \in Sessions : \A i \in DOMAIN history'[x] : history'[x][i].stored
      BY <2>1 DEF Kept
    <3>. QED BY <3>1, <3>2 DEF Kept, Members
  <2>7. s \notin Members(list)
    <3>1. \A x \in Members(list) : x \in Issued
      BY <2>1, ElementOfSeq, LenProperties DEF Members
    <3>. QED BY <1>2, <3>1 DEF Issued
  <2>8. ASSUME Calm PROVE Calm'
    <3>1. Members(list) = Members(Mine)
      <4>1. \A e \in calls : e.kind # "list"
            /\ ~(e.kind \in {"create", "first", "delete"} /\ Done(e))
        BY <2>1, <2>8 DEF Calm, OneAtATime, ByUser, Done
      <4>. QED BY <2>8, <4>1 DEF Calm, ListFollows
    <3>2. Due' = Due
      BY <2>1 DEF Due, app
    <3>3. <<s>>[1] = s /\ ~Done(c)
      BY DEF Done
    <3>. HIDE DEF Mine, Due
    <3>4. Members(Mine)' = Members(list) \cup {<<s>>[1]} /\ <<s>>[1] \notin Members(list)
      BY <2>5, <2>7, <3>1, <3>3
    <3>. DEFINE f == <<s>>
    <3>5. Reply(c, "ok", f, <<>>) /\ f[1] \notin Members(list) /\ Members(Mine)' = Members(list) \cup {f[1]}
      BY <1>2, <3>4
    <3>. HIDE DEF f
    <3>. QED BY <2>1, <2>5, <2>8, <3>2, <3>3, <3>5, ReplyCalm
  <2>. QED BY <2>6, <2>8
<1>. QED BY <1>1, <1>2 DEF HandleCreate

LEMMA DeleteCalm ==
    ASSUME TypeInv, Kept, TypeInv', NEW c \in calls, c.reply = "none", HandleDelete(c),
           UNCHANGED <<app, panel>>
    PROVE  Kept' /\ (Calm => Calm')
<1>. DEFINE s == c.session
<1>1. c.kind = "delete" /\ runs' = runs /\ ~Done(c)
  BY DEF HandleDelete, Done
<1>2. CASE owner[s] # "me"
  BY <1>1, <1>2, QuietReply DEF HandleDelete, server
<1>3. CASE owner[s] = "me"
  <2>1. /\ owner' = [owner EXCEPT ![s] = "gone"]
        /\ rows' = Without(rows, s)
        /\ history' = [history EXCEPT ![s] = <<>>]
        /\ Reply(c, "ok", <<>>, <<>>)
    BY <1>3 DEF HandleDelete
  <2>2. /\ rows \in Seq(Sessions) /\ rows' \in Seq(Sessions)
        /\ owner \in [Sessions -> {"none", "me", "default", "gone"}]
        /\ history \in [Sessions -> Seq(Message)] /\ s \in Sessions
    BY <1>1 DEF TypeInv, TypeOK, IssuedOnly, Issued
  <2>3. Members(rows') = Members(rows) \ {s}
    BY <2>1, <2>2, WithoutFacts
  <2>4. /\ owner'[s] = "gone" /\ \A x \in Sessions : x # s => owner'[x] = owner[x]
        /\ history'[s] = <<>> /\ \A x \in Sessions : x # s => history'[x] = history[x]
    BY <2>1, <2>2
  <2>5. Members(rows) \subseteq Sessions
    BY <2>2, ElementOfSeq, LenProperties DEF Members
  <2>6. Members(Mine)' = Members(Mine) \ {s}
    <3>1. /\ Members(Mine) = {x \in Members(rows) : owner[x] = "me"}
          /\ Members(Mine)' = {x \in Members(rows') : owner'[x] = "me"}
      BY <2>2, MineMembers, ZenonT(60) DEF Mine
    <3>. QED BY <2>3, <2>4, <2>5, <3>1
  <2>7. Kept'
    <3>1. \A x \in Sessions : owner'[x] = "me" => x \in Members(rows')
      BY <2>3, <2>4 DEF Kept
    <3>2. \A x \in Sessions : \A i \in DOMAIN history'[x] : history'[x][i].stored
      BY <2>4 DEF Kept
    <3>. QED BY <3>1, <3>2 DEF Kept, Members
  <2>8. ASSUME Calm PROVE Calm'
    <3>1. Members(list) = Members(Mine)
      <4>1. \A e \in calls : e.kind # "list"
            /\ ~(e.kind \in {"create", "first", "delete"} /\ Done(e))
        BY <1>1, <2>8 DEF Calm, OneAtATime, ByUser
      <4>. QED BY <2>8, <4>1 DEF Calm, ListFollows
    <3>2. Due' = Due \/ s = active
      <4>1. active \in Sessions \cup {NoSession} /\ active' = active
        BY DEF TypeInv, TypeOK, app
      <4>. QED BY <2>4, <4>1 DEF Due
    <3>. HIDE DEF Mine, Due
    <3>3. Members(Mine)' = Members(list) \ {s}
      BY <2>6, <3>1
    <3>4. active \in Members(Mine) => active \in Members(Mine)' \/ s = active
      BY <2>6
    <3>. QED BY <1>1, <2>1, <2>8, <3>2, <3>3, <3>4, ReplyCalm
  <2>. QED BY <2>7, <2>8
<1>. QED BY <1>2, <1>3

LEMMA QueryCalm ==
    ASSUME TypeInv, Kept, TypeInv', NEW c \in calls, c.reply = "none", HandleQuery(c),
           UNCHANGED <<app, panel>>
    PROVE  Kept' /\ (Calm => Calm')
<1>1. c.kind = "query" /\ ~Done(c) /\ c.text \in 0..MaxTexts /\ c.session \in Issued \cup {NoSession}
  BY DEF HandleQuery, Done, TypeInv, TypeOK, IssuedOnly, Call
<1>2. CASE Reply(c, "refused", <<>>, <<>>) /\ UNCHANGED <<rows, owner, history>>
  <2>1. Mine' = Mine /\ Due' = Due
    BY <1>2 DEF Mine, Due, app
  <2>2. Kept'
    BY <1>2 DEF Kept, Members
  <2>. HIDE DEF Mine
  <2>3. Members(Mine)' = Members(Mine)
    BY <2>1
  <2>4. ASSUME Calm PROVE Calm'
    BY <1>1, <1>2, <2>1, <2>3, <2>4, ReplyCalm
  <2>. QED BY <2>2, <2>4
<1>3. ASSUME NEW d, Reply(c, "ok", <<>>, d), UNCHANGED server PROVE Kept' /\ (Calm => Calm')
  BY <1>1, <1>3, QuietReply
<1>4. ASSUME NEW status \in {"complete", "awaiting"}, NEW d,
             Keep(c.session, <<Msg(c.text, "user", "sent", TRUE),
                               Msg(c.text, "assistant", status, TRUE)>>),
             Reply(c, "ok", <<>>, d)
      PROVE  Kept' /\ (Calm => Calm')
  <2>. DEFINE asked == Msg(c.text, "user", "sent", TRUE)
              answer == Msg(c.text, "assistant", status, TRUE)
              turn == <<asked, answer>>
  <2>1. asked \in Message /\ answer \in Message /\ asked.stored = TRUE /\ answer.stored = TRUE
    BY <1>1, MsgType
  <2>. HIDE DEF asked, answer
  <2>2. turn \in Seq(Message) /\ DOMAIN turn = 1..2 /\ turn[1] = asked /\ turn[2] = answer
    BY <2>1
  <2>3. \A i \in DOMAIN turn : turn[i].stored
    BY <2>1, <2>2
  <2>4. Keep(c.session, turn)
    BY <1>4 DEF asked, answer
  <2>. HIDE DEF turn
  <2>5. rows' \in Seq(Sessions)
    BY DEF TypeInv, TypeOK
  <2>6. /\ Kept' /\ Members(Mine)' = Members(Mine)
        /\ \A x \in Sessions : x # c.session => history'[x] = history[x]
    BY <1>1, <2>2, <2>3, <2>4, <2>5, KeepMine
  <2>7. ASSUME Calm PROVE Calm'
    <3>1. c.session = active
      BY <1>1, <2>7 DEF Calm, OneAtATime, ByUser
    <3>2. Due' = Due \/ c.session # NoSession
      BY <3>1 DEF Due, app
    <3>. HIDE DEF Mine, Due
    <3>. QED BY <1>1, <1>4, <2>6, <2>7, <3>2, ReplyCalm
  <2>. QED BY <2>6, <2>7
<1>. QED BY <1>2, <1>3, <1>4 DEF HandleQuery

LEMMA HandleCalm ==
    ASSUME TypeInv, Kept, NEW c \in calls, Handle(c)
    PROVE  Kept' /\ (Calm => Calm')
<1>1. TypeInv' /\ c.reply = "none" /\ UNCHANGED <<app, panel>> /\ ~Done(c)
  BY TypeHandle DEF Handle, Done
<1>2. CASE HandleList(c)
  BY <1>1, <1>2, QuietReply DEF HandleList
<1>3. CASE HandleMessages(c)
  <2>1. /\ UNCHANGED server /\ c.kind = "messages"
        /\ Reply(c, "ok", <<>>, history[c.session]) \/ Reply(c, "refused", <<>>, <<>>)
    BY <1>3 DEF HandleMessages
  <2>. QED BY <1>1, <2>1, QuietReply
<1>4. CASE HandleDecision(c)
  <2>1. /\ UNCHANGED server /\ c.kind \in {"approve", "reject"}
        /\ Reply(c, "ok", <<>>, <<>>) \/ Reply(c, "refused", <<>>, <<>>)
    BY <1>4 DEF HandleDecision
  <2>. QED BY <1>1, <2>1, QuietReply
<1>. QED BY <1>1, <1>2, <1>3, <1>4, CreateCalm, DeleteCalm, QueryCalm DEF Handle

-----------------------------------------------------------------------------
\* At most one request under way is the user's: u, if it is there.
LEMMA OneUser ==
    ASSUME NEW u,
           \A e \in calls' : /\ e.late => e.kind = "messages"
                             /\ e # u => ~ByUser(e)
                             /\ e.kind = "list" => u \notin calls',
           u \in calls' => /\ u.live
                           /\ u.kind = "delete" => calls' = {u} /\ u.seen = list' /\ u.was = active'
                           /\ u.kind = "first" => active' = NoSession
                           /\ u.kind \in {"query", "approve", "reject", "messages"} =>
                                 u.session = active'
    PROVE  OneAtATime'
<1>1. \A e, g \in calls' : ByUser(e) /\ ByUser(g) => e = g
  OBVIOUS
<1>2. \A e, g \in calls' : e.kind = "list" => ~ByUser(g)
  OBVIOUS
<1>3. \A e \in calls' :
        /\ e.kind = "delete" => calls' = {e} /\ e.seen = list' /\ e.was = active'
        /\ ~e.live => ~ByUser(e)
        /\ e.late => e.kind = "messages"
        /\ e.kind = "first" => active' = NoSession
        /\ ByUser(e) /\ e.kind \in {"query", "approve", "reject", "messages"} => e.session = active'
  BY DEF ByUser
<1>. QED BY <1>1, <1>2, <1>3 DEF OneAtATime, ByUser

\* No answer on the list is to come, or only a whole new one.
LEMMA ListSettled ==
    ASSUME \A e \in calls' : e.reply = "ok" =>
             /\ e.kind \notin {"create", "first", "delete"}
             /\ e.kind = "list" => Members(e.found) = Members(Mine'),
           Members(list') = Members(Mine') \/ \E e \in calls' : e.kind = "list",
           active' # NoSession => active' \in Members(list') /\ active' \in Members(Mine')
    PROVE  ListFollows'
BY DEF ListFollows

\* The messages of the active session have just been asked for.
LEMMA Fetching ==
    ASSUME NEW cs \in SUBSET Call, IsFiniteSet(cs), NEW new \in Call, calls' = Asked(cs, new),
           new.kind = "messages", new.live, ~new.late, new.reply # "ok",
           new.session = active', active' # NoSession
    PROVE  WindowFollows'
<1>. DEFINE after == Asked(cs, new)
<1>0. \E u \in after :
        /\ Same(u, new) /\ u.live = new.live /\ u.late = new.late
        /\ \A e \in after : e = u \/
              \E c \in cs : /\ Same(e, c) /\ e.live = c.live
                            /\ \/ e = c /\ (new.kind # "messages" \/ c.kind # "messages")
                               \/ e.late = TRUE /\ new.kind = "messages" /\ c.kind = "messages"
        /\ new.kind # "messages" => after = cs \cup {u}
  BY AskedMembers
<1>. HIDE DEF after
<1>1. PICK u \in after :
        /\ Same(u, new) /\ u.live = new.live /\ u.late = new.late
        /\ \A e \in after : e = u \/ \E c \in cs : Same(e, c) /\ (e.late = TRUE \/ c.kind # "messages")
  BY <1>0
<1>2. Newest(u) /\ u.session = active' /\ u.reply # "ok"
  BY <1>1 DEF Newest, Same
<1>3. \A e \in after : Newest(e) => e = u
  BY <1>1 DEF Newest, Same
<1>4. calls' = after
  BY DEF after
<1>. QED BY <1>1, <1>2, <1>3, <1>4 DEF WindowFollows, Newest

\* Neither what is stored in the window nor a request for messages changes.
LEMMA SameWindow ==
    ASSUME WindowFollows, active' = active, Due' = Due, Stored(shown') = Stored(shown),
           \A e : e.kind = "messages" => (e \in calls' <=> e \in calls),
           Answering => Answering', Removing => Removing'
    PROVE  WindowFollows'
<1>1. \A e : Newest(e) => (e \in calls' <=> e \in calls)
  BY DEF Newest
<1>2. Stored(shown') = Due' \/ (\E e \in calls' : Newest(e)) \/ Answering' \/ Removing'
  BY <1>1 DEF WindowFollows
<1>3. \A e \in calls' : Newest(e) =>
        /\ e.session = active' /\ active' # NoSession
        /\ e.reply = "ok" => e.data = Due' \/ Answering'
  BY <1>1 DEF WindowFollows
<1>4. \A e \in calls' : e.kind = "messages" /\ e.live => \E g \in calls' : Newest(g)
  BY <1>1 DEF WindowFollows
<1>. QED BY <1>2, <1>3, <1>4 DEF WindowFollows, Newest, Stored, Picked

\* What else is under way beside a request of the user's, or a list.
LEMMA Beside ==
    ASSUME Calm, NEW c \in calls
    PROVE  /\ ByUser(c) => \A e \in calls \ {c} : e.kind = "messages" /\ e.then = "open" /\ ~ByUser(e)
           /\ c.kind = "list" => \A e \in calls : ~ByUser(e)
           /\ \A e \in calls : e.late => e.kind = "messages"
           /\ ByUser(c) /\ active # NoSession =>
                 active \in Members(list) /\ (active \in Members(Mine) \/ Removing)
           /\ ByUser(c) /\ ~(c.kind \in {"create", "first", "delete"} /\ Done(c)) =>
                 /\ Members(list) = Members(Mine)
                 /\ active # NoSession => active \in Members(list)
                 /\ ~Removing
<1>1. ByUser(c) => \A e \in calls \ {c} : e.kind = "messages" /\ e.then = "open" /\ ~ByUser(e)
  BY DEF Calm, OneAtATime, ByUser
<1>2. c.kind = "list" => \A e \in calls : ~ByUser(e)
  BY DEF Calm, OneAtATime
<1>3. \A e \in calls : e.late => e.kind = "messages"
  BY DEF Calm, OneAtATime
<1>4. active # NoSession =>
        active \in Members(list) /\ (active \in Members(Mine) \/ Removing)
  BY DEF Calm, ListFollows
<1>5. ASSUME ByUser(c), ~(c.kind \in {"create", "first", "delete"} /\ Done(c))
      PROVE  Members(list) = Members(Mine) /\ ~Removing
  <2>1. \A e \in calls : e.kind # "list" /\ ~(e.kind \in {"create", "first", "delete"} /\ Done(e))
    BY <1>1, <1>5 DEF Calm, OneAtATime
  <2>. QED BY <2>1 DEF Calm, ListFollows, Removing
<1>. QED BY <1>1, <1>2, <1>3, <1>4, <1>5

\* A step of the browser changes nothing on the server.
LEMMA ServerSame ==
    ASSUME UNCHANGED server
    PROVE  Mine' = Mine /\ history' = history /\ (active' = active => Due' = Due) /\ (Kept => Kept')
BY DEF server, Mine, Due, Kept, Members

\* An answer that is passed over changes neither the list nor the active session.
LEMMA Fewer ==
    ASSUME Calm, NEW c \in calls, UNCHANGED <<server, app>>, calls' = calls \ {c},
           c.kind # "list", ~(c.kind \in {"create", "first", "delete"} /\ Done(c))
    PROVE  /\ OneAtATime' /\ ListFollows'
           /\ Removing => Removing'
           /\ ~(c.kind = "query" /\ c.session # NoSession /\ Done(c)) /\ Answering => Answering'
<1>1. list' = list /\ active' = active /\ Mine' = Mine
  BY ServerSame DEF app
<1>. HIDE DEF Mine
<1>2. OneAtATime'
  <2>1. \A e, g \in calls' : ByUser(e) /\ ByUser(g) => e = g
    BY DEF Calm, OneAtATime
  <2>2. \A e, g \in calls' : e.kind = "list" => ~ByUser(g)
    BY DEF Calm, OneAtATime
  <2>3. \A e \in calls' :
          /\ e.kind = "delete" => calls' = {e} /\ e.seen = list /\ e.was = active
          /\ ~e.live => ~ByUser(e)
          /\ e.late => e.kind = "messages"
          /\ e.kind = "first" => active = NoSession
          /\ ByUser(e) /\ e.kind \in {"query", "approve", "reject", "messages"} => e.session = active
    BY DEF Calm, OneAtATime
  <2>. QED BY <1>1, <2>1, <2>2, <2>3 DEF OneAtATime, ByUser
<1>3. Removing => Removing'
  BY <1>1 DEF Removing, Done
<1>4. ListFollows'
  <2>1. \/ Members(list) = Members(Mine)
        \/ \E e \in calls' :
             e.kind = "list" \/ (e.kind \in {"create", "first", "delete"} /\ Done(e))
    BY DEF Calm, ListFollows
  <2>2. \A e \in calls' : e.reply = "ok" =>
          /\ e.kind = "list" => Members(e.found) = Members(Mine)
          /\ e.kind \in {"create", "first"} =>
                /\ e.found[1] \notin Members(list)
                /\ Members(Mine) = Members(list) \cup {e.found[1]}
          /\ e.kind = "delete" => Members(Mine) = Members(list) \ {e.session}
    BY DEF Calm, ListFollows
  <2>3. active # NoSession => active \in Members(list) /\ (active \in Members(Mine) \/ Removing')
    BY <1>3 DEF Calm, ListFollows
  <2>. QED BY <1>1, <2>1, <2>2, <2>3 DEF ListFollows, Done
<1>5. ~(c.kind = "query" /\ c.session # NoSession /\ Done(c)) /\ Answering => Answering'
  BY DEF Answering, Done
<1>. QED BY <1>2, <1>3, <1>4, <1>5

LEMMA HistoryStored ==
    ASSUME TypeInv, Kept
    PROVE  Due \in Seq(Message) /\ Stored(Due) = Due
<1>1. CASE active = NoSession
  <2>1. <<>> \in Seq(Message) /\ \A i \in DOMAIN <<>> : FALSE
    OBVIOUS
  <2>2. Stored(<<>>) = <<>>
    BY <2>1, StoredAll
  <2>. QED BY <1>1, <2>1, <2>2 DEF Due
<1>2. CASE active # NoSession
  <2>1. active \in Sessions /\ history[active] \in Seq(Message)
    BY <1>2 DEF TypeInv, TypeOK
  <2>2. \A i \in DOMAIN history[active] : history[active][i].stored
    BY <2>1 DEF Kept
  <2>. QED BY <1>2, <2>1, <2>2, StoredAll DEF Due
<1>. QED BY <1>1, <1>2

LEMMA GotMessagesCalm ==
    ASSUME TypeInv, Kept, Calm, NEW c \in calls, GotMessages(c), UNCHANGED server, ~Disturbs(c),
           c.reply # "none"
    PROVE  Calm'
<1>1. /\ c.kind = "messages" /\ calls' = calls \ {c} /\ UNCHANGED app /\ active' = active
      /\ shown' = IF c.live /\ c.reply = "ok" THEN c.data ELSE shown
  BY DEF GotMessages, app
<1>2. /\ OneAtATime' /\ ListFollows' /\ (Removing => Removing') /\ (Answering => Answering')
  BY <1>1, Fewer
<1>3. Due' = Due
  BY <1>1, ServerSame
<1>4. WindowFollows'
  <2>1. CASE c.live /\ ~c.late
    <3>1. c.reply = "ok" /\ \A d \in calls : d.kind = "messages" /\ d.live => ~d.late
      BY <1>1, <2>1 DEF Disturbs
    <3>2. Newest(c) /\ (c.data = Due \/ Answering)
      BY <1>1, <2>1, <3>1 DEF Calm, WindowFollows, Newest
    <3>3. Stored(shown') = Due \/ Answering'
      BY <1>1, <1>2, <2>1, <3>1, <3>2, HistoryStored
    <3>4. \A e \in calls' : Newest(e) =>
            /\ e.session = active /\ active # NoSession
            /\ e.reply = "ok" => e.data = Due \/ Answering'
      BY <1>1, <1>2 DEF Calm, WindowFollows
    <3>5. \A e \in calls' : e.kind = "messages" /\ e.live => Newest(e)
      BY <1>1, <3>1 DEF Newest
    <3>. QED BY <1>1, <1>3, <3>3, <3>4, <3>5 DEF WindowFollows, Newest, Stored, Picked
  <2>2. CASE ~(c.live /\ ~c.late)
    <3>1. ~Newest(c)
      BY <2>2 DEF Newest
    <3>2. (\E e \in calls : Newest(e)) => \E e \in calls' : Newest(e)
      BY <1>1, <3>1
    <3>3. CASE c.live
      <4>1. \E e \in calls' : Newest(e)
        BY <1>1, <3>2, <3>3 DEF Calm, WindowFollows
      <4>2. \A e \in calls' : Newest(e) =>
              /\ e.session = active /\ active # NoSession
              /\ e.reply = "ok" => e.data = Due \/ Answering'
        BY <1>1, <1>2 DEF Calm, WindowFollows
      <4>. QED BY <1>1, <1>3, <4>1, <4>2 DEF WindowFollows, Newest
    <3>4. CASE ~c.live
      <4>1. Stored(shown) = Due' \/ (\E e \in calls' : Newest(e)) \/ Answering' \/ Removing'
        BY <1>2, <1>3, <3>2 DEF Calm, WindowFollows
      <4>2. \A e \in calls' : Newest(e) =>
              /\ e.session = active /\ active # NoSession
              /\ e.reply = "ok" => e.data = Due \/ Answering'
        BY <1>1, <1>2 DEF Calm, WindowFollows
      <4>3. \A e \in calls' : e.kind = "messages" /\ e.live => \E g \in calls' : Newest(g)
        BY <1>1, <3>2 DEF Calm, WindowFollows
      <4>. QED BY <1>1, <1>3, <3>4, <4>1, <4>2, <4>3 DEF WindowFollows, Newest, Stored, Picked
    <3>. QED BY <3>3, <3>4
  <2>. QED BY <2>1, <2>2, SMTT(30)
<1>. QED BY <1>2, <1>4 DEF Calm

\* A session becomes active, and its messages are asked for if it was not.
LEMMA Switch ==
    ASSUME TypeInv, WindowFollows, UNCHANGED server, ~Answering, ~Removing,
           NEW s \in Issued \cup {NoSession}, s = NoSession => active = NoSession,
           s \in {active, NoSession} => shown' = shown,
           NEW cs, GoodCalls(cs), Activate(s, cs),
           \A e : e.kind = "messages" => (e \in cs <=> e \in calls),
           \A e \in cs : e.kind = "messages" => e.then = "open"
    PROVE  /\ WindowFollows'
           /\ \A e \in calls' : e \in cs \/ (e.kind = "messages" /\ e.then = "open")
<1>. DEFINE new == Ask("messages", s, 0, "open")
<1>1. CASE s \in {active, NoSession}
  <2>1. active' = active /\ calls' = cs
    BY <1>1 DEF Activate
  <2>2. Due' = Due
    BY <2>1, ServerSame
  <2>. QED BY <1>1, <2>1, <2>2, SameWindow
<1>2. CASE s \notin {active, NoSession}
  <2>1. active' = s /\ calls' = Asked(cs, new)
    BY <1>2 DEF Activate
  <2>2. 0 \in 0..MaxTexts
    BY BoundsAssumption
  <2>3. new \in Call
    BY <1>2, <2>2, GoodAsk DEF Kinds
  <2>4. /\ new.kind = "messages" /\ new.session = s /\ new.then = "open"
        /\ new.live = TRUE /\ new.late = FALSE /\ new.reply = "none"
    BY DEF Ask
  <2>. HIDE DEF new
  <2>5. cs \in SUBSET Call /\ IsFiniteSet(cs)
    BY DEF GoodCalls
  <2>6. WindowFollows'
    BY <1>2, <2>1, <2>3, <2>4, <2>5, Fetching
  <2>. DEFINE after == Asked(cs, new)
  <2>7. \E u \in after :
          /\ Same(u, new) /\ u.live = new.live /\ u.late = new.late
          /\ \A e \in after : e = u \/
                \E c \in cs : /\ Same(e, c) /\ e.live = c.live
                              /\ \/ e = c /\ (new.kind # "messages" \/ c.kind # "messages")
                                 \/ e.late = TRUE /\ new.kind = "messages" /\ c.kind = "messages"
          /\ new.kind # "messages" => after = cs \cup {u}
    BY <2>3, <2>5, AskedMembers
  <2>. HIDE DEF after
  <2>8. \A e \in after : e \in cs \/ (e.kind = "messages" /\ e.then = "open")
    BY <2>4, <2>7 DEF Same
  <2>. QED BY <2>1, <2>6, <2>8 DEF after
<1>. QED BY <1>1, <1>2

LEMMA GotListCalm ==
    ASSUME TypeInv, Kept, Calm, NEW c \in calls, GotList(c), UNCHANGED server, ~Disturbs(c),
           c.reply # "none"
    PROVE  Calm'
<1>. DEFINE rest == calls \ {c}
            s == IF c.was = NoSession /\ c.found # <<>> THEN c.found[1] ELSE active
<1>1. /\ c.kind = "list" /\ c.reply = "ok" /\ list' = c.found /\ Activate(s, rest)
      /\ shown' = shown /\ active' = s
  <2>1. c.kind = "list" /\ c \in Call
    BY DEF GotList, TypeInv, TypeOK
  <2>2. c.reply = "ok"
    BY <2>1 DEF Disturbs, Call
  <2>. QED BY <2>1, <2>2 DEF GotList, panel, Activate
<1>2. /\ \A e \in calls : ~ByUser(e)
      /\ \A e \in calls : e.late => e.kind = "messages"
  BY <1>1, Beside
<1>3. ~Answering /\ ~Removing
  BY <1>2 DEF Answering, Removing, ByUser
<1>4. c.found \in Seq(Issued) /\ Members(c.found) = Members(Mine) /\ GoodCalls(rest)
  BY <1>1, GoodRest DEF Calm, ListFollows, IssuedOnly
<1>5. c.found # <<>> => c.found[1] \in Members(c.found) /\ c.found[1] \in Issued
  <2>1. c.found # <<>> => 1 \in DOMAIN c.found
    BY <1>4, EmptySeq, LenProperties
  <2>. QED BY <1>4, <2>1, LenProperties, ElementOfSeq DEF Members
<1>6. /\ active \in Issued \cup {NoSession} /\ NoSession \notin Issued
      /\ active # NoSession => active \in Members(Mine)
  BY <1>3 DEF TypeInv, Calm, ListFollows, Issued, Sessions, NoSession
<1>7. /\ s \in Issued \cup {NoSession} /\ (s = NoSession => active = NoSession)
      /\ s # NoSession => s \in Members(c.found)
  BY <1>4, <1>5, <1>6
<1>. HIDE DEF s
<1>8. /\ WindowFollows'
      /\ \A e \in calls' : e \in rest \/ (e.kind = "messages" /\ e.then = "open")
  BY <1>1, <1>2, <1>3, <1>4, <1>7, Switch DEF Calm, ByUser
<1>9. \A e \in calls' : ~ByUser(e) /\ (e.late => e.kind = "messages")
  BY <1>2, <1>8 DEF ByUser
<1>10. OneAtATime'
  BY <1>9 DEF OneAtATime, ByUser
<1>11. Mine' = Mine
  BY ServerSame
<1>. HIDE DEF Mine
<1>12. ListFollows'
  <2>1. \A e \in calls' : e.reply = "ok" =>
          /\ e.kind \notin {"create", "first", "delete"}
          /\ e.kind = "list" => Members(e.found) = Members(Mine)
    BY <1>8, <1>9 DEF Calm, ListFollows, ByUser
  <2>. QED BY <1>1, <1>4, <1>7, <1>11, <2>1, ListSettled
<1>. QED BY <1>8, <1>10, <1>12 DEF Calm

LEMMA CreatedCalm ==
    ASSUME TypeInv, Kept, Calm, NEW c \in calls, Created(c), UNCHANGED server, ~Disturbs(c),
           c.reply # "none"
    PROVE  Calm'
<1>. DEFINE rest == calls \ {c}
            s == c.found[1]
<1>1. c.kind = "create" /\ ByUser(c) /\ shown' = shown /\ c.reply # "lost"
  BY DEF Created, ByUser, panel, Disturbs
<1>2. /\ \A e \in rest : e.kind = "messages" /\ e.then = "open" /\ ~ByUser(e)
      /\ \A e \in calls : e.late => e.kind = "messages"
  BY <1>1, Beside
<1>3. ~Answering /\ ~Removing
  BY <1>1, <1>2 DEF Answering, Removing
<1>4. CASE c.reply # "ok"
  <2>1. calls' = rest /\ UNCHANGED app /\ active' = active /\ ~Done(c)
    BY <1>1, <1>4 DEF Created, app, Done
  <2>2. OneAtATime' /\ ListFollows'
    BY <1>1, <2>1, Fewer
  <2>3. Due' = Due
    BY <2>1, ServerSame
  <2>4. WindowFollows'
    BY <1>1, <1>3, <2>1, <2>3, SameWindow DEF Calm
  <2>. QED BY <2>2, <2>4 DEF Calm
<1>5. CASE c.reply = "ok"
  <2>1. list' = c.found \o list /\ Activate(s, rest) /\ active' = s
    BY <1>5 DEF Created, Activate
  <2>2. /\ c.found \in Seq(Issued) /\ Len(c.found) = 1 /\ GoodCalls(rest) /\ list \in Seq(Issued)
    BY <1>1, <1>5, GoodRest DEF IssuedOnly, TypeInv
  <2>3. s \in Issued /\ NoSession \notin Issued
    BY <2>2, ElementOfSeq DEF Issued, Sessions, NoSession
  <2>4. c.found = <<s>>
    <3>1. <<s>> \in Seq(Issued) /\ Len(<<s>>) = 1 /\ \A i \in 1..1 : c.found[i] = <<s>>[i]
      BY <2>3
    <3>. QED BY <2>2, <3>1, SeqEqual
  <2>5. Members(list') = Members(list) \cup {s}
    BY <2>1, <2>2, <2>3, <2>4, FrontFacts
  <2>6. Members(Mine) = Members(list) \cup {s}
    BY <1>1, <1>5 DEF Calm, ListFollows
  <2>. HIDE DEF s
  <2>7. /\ WindowFollows'
        /\ \A e \in calls' : e \in rest \/ (e.kind = "messages" /\ e.then = "open")
    BY <1>1, <1>2, <1>3, <2>1, <2>2, <2>3, Switch DEF Calm
  <2>8. \A e \in calls' : e.kind = "messages" /\ ~ByUser(e)
    BY <1>2, <2>7 DEF ByUser
  <2>9. OneAtATime'
    BY <2>8 DEF OneAtATime, ByUser
  <2>10. Mine' = Mine
    BY ServerSame
  <2>. HIDE DEF Mine
  <2>11. ListFollows'
    BY <2>1, <2>5, <2>6, <2>8, <2>10, ListSettled
  <2>. QED BY <2>7, <2>9, <2>11 DEF Calm
<1>. QED BY <1>4, <1>5

LEMMA DeletedCalm ==
    ASSUME TypeInv, Kept, Calm, NEW c \in calls, Deleted(c), UNCHANGED server, ~Disturbs(c),
           c.reply # "none"
    PROVE  Calm'
<1>. DEFINE rest == calls \ {c}
            s == NextActive(c)
<1>1. c.kind = "delete" /\ ByUser(c) /\ c.reply # "lost"
  BY DEF Deleted, ByUser, Disturbs
<1>2. calls = {c} /\ c.seen = list /\ c.was = active /\ rest = {}
  BY <1>1 DEF Calm, OneAtATime
<1>3. ~Answering /\ ~\E e \in calls : Newest(e)
  BY <1>1, <1>2 DEF Answering, Newest
<1>4. CASE c.reply # "ok"
  <2>1. calls' = rest /\ UNCHANGED app /\ active' = active /\ shown' = shown /\ ~Done(c)
    BY <1>1, <1>4 DEF Deleted, app, Done
  <2>2. OneAtATime' /\ ListFollows'
    BY <1>1, <2>1, Fewer
  <2>3. Due' = Due
    BY <2>1, ServerSame
  <2>4. ~Removing
    BY <1>2, <2>1 DEF Removing
  <2>5. WindowFollows'
    BY <1>1, <1>3, <2>1, <2>3, <2>4, SameWindow DEF Calm
  <2>. QED BY <2>2, <2>5 DEF Calm
<1>5. CASE c.reply = "ok"
  <2>1. /\ list' = Without(list, c.session) /\ Activate(s, rest) /\ active' = s
        /\ shown' = Emptied(s)
    BY <1>2, <1>5 DEF Deleted, Activate
  <2>2. list \in Seq(Issued) /\ c.session # NoSession
        /\ active \in Issued \cup {NoSession} /\ NoSession \notin Issued
    <3>1. NoSession \notin Issued
      BY DEF Issued, Sessions, NoSession
    <3>. QED BY <1>1, <3>1 DEF TypeInv, IssuedOnly
  <2>3. list' \in Seq(Issued) /\ Members(list') = Members(list) \ {c.session}
    BY <2>1, <2>2, WithoutFacts
  <2>4. Members(Mine) = Members(list')
    BY <1>1, <1>5, <2>3 DEF Calm, ListFollows
  <2>5. s = IF active = c.session THEN First(list') ELSE active
    BY <1>2, <2>1 DEF NextActive
  <2>6. First(list') = NoSession \/ (First(list') \in Members(list') /\ First(list') \in Issued)
    <3>. DEFINE l == list'
    <3>0. l \in Seq(Issued)
      BY <2>3
    <3>. HIDE DEF l
    <3>1. l # <<>> => 1 \in 1..Len(l) /\ 1 \in DOMAIN l
      BY <3>0, EmptySeq, LenProperties
    <3>2. l # <<>> => l[1] \in Issued /\ l[1] \in Members(l)
      BY <3>0, <3>1, ElementOfSeq DEF Members
    <3>3. First(l) = NoSession \/ (First(l) \in Members(l) /\ First(l) \in Issued)
      BY <3>2 DEF First
    <3>. QED BY <3>3 DEF l
  <2>. HIDE DEF s
  <2>7. s = NoSession \/ s \in Members(list')
    <3>1. active # NoSession => active \in Members(list)
      BY DEF Calm, ListFollows
    <3>. QED BY <2>3, <2>5, <2>6, <3>1
  <2>8. s \in Issued \cup {NoSession}
    BY <2>2, <2>5, <2>6
  <2>9. GoodCalls(rest)
    BY GoodRest
  <2>10. CASE s \in {active, NoSession}
    <3>1. calls' = {}
      BY <1>2, <2>1, <2>10 DEF Activate
    <3>2. Stored(shown') = Due'
      <4>1. CASE s = NoSession /\ active # NoSession
        <5>1. shown' = <<>> /\ Due' = <<>>
          BY <2>1, <4>1 DEF Emptied, Due
        <5>2. <<>> \in Seq(Message) /\ \A i \in DOMAIN <<>> : FALSE
          OBVIOUS
        <5>3. Stored(<<>>) = <<>>
          BY <5>2, StoredAll
        <5>. QED BY <5>1, <5>3 DEF Stored, Picked
      <4>2. CASE s = active
        <5>1. shown' = shown /\ Due' = Due
          BY <2>1, <4>2, ServerSame DEF Emptied
        <5>2. ~Removing
          <6>1. active # c.session
            BY <2>2, <2>3, <2>5, <2>6, <4>2
          <6>. QED BY <1>2, <6>1 DEF Removing
        <5>3. Stored(shown) = Due
          BY <1>3, <5>2 DEF Calm, WindowFollows
        <5>. QED BY <5>1, <5>3
      <4>. QED BY <2>10, <4>1, <4>2
    <3>3. OneAtATime'
      BY <3>1 DEF OneAtATime
    <3>4. WindowFollows'
      BY <3>1, <3>2 DEF WindowFollows, Stored, Picked
    <3>5. Mine' = Mine
      BY ServerSame
    <3>. HIDE DEF Mine
    <3>6. ListFollows'
      BY <2>1, <2>4, <2>7, <3>1, <3>5, ListSettled
    <3>. QED BY <3>3, <3>4, <3>6 DEF Calm
  <2>11. CASE s \notin {active, NoSession}
    <3>. DEFINE new == Ask("messages", s, 0, "open")
    <3>1. calls' = Asked({}, new)
      BY <1>2, <2>1, <2>11 DEF Activate
    <3>2. 0 \in 0..MaxTexts
      BY BoundsAssumption
    <3>3. new \in Call
      BY <2>8, <2>11, <3>2, GoodAsk DEF Kinds
    <3>4. /\ new.kind = "messages" /\ new.session = s /\ new.then = "open"
          /\ new.live = TRUE /\ new.late = FALSE /\ new.reply = "none"
      BY DEF Ask
    <3>. HIDE DEF new
    <3>5. {} \in SUBSET Call /\ IsFiniteSet({})
      BY FS_EmptySet
    <3>6. WindowFollows'
      BY <2>1, <2>11, <3>1, <3>3, <3>4, <3>5, Fetching
    <3>7. \A e \in calls' : Same(e, new)
      <4>1. \A e \in Asked({}, new) : \E n : e = [new EXCEPT !.id = n]
        BY DEF Asked
      <4>2. \A n : Same([new EXCEPT !.id = n], new)
        BY <3>3, CallFields
      <4>. QED BY <3>1, <4>1, <4>2
    <3>8. \A e \in calls' : e.kind = "messages" /\ ~ByUser(e)
      BY <3>4, <3>7 DEF ByUser, Same
    <3>9. OneAtATime'
      BY <3>8 DEF OneAtATime, ByUser
    <3>10. Mine' = Mine
      BY ServerSame
    <3>. HIDE DEF Mine
    <3>11. ListFollows'
      BY <2>1, <2>4, <2>7, <3>8, <3>10, ListSettled
    <3>. QED BY <3>6, <3>9, <3>11 DEF Calm
  <2>. QED BY <2>10, <2>11
<1>. QED BY <1>4, <1>5

\* The next request of a handler, when no other request of the user's is under way.
LEMMA NextRequest ==
    ASSUME NEW cs \in SUBSET Call, IsFiniteSet(cs), NEW new \in Call,
           \A e \in cs : e.kind = "messages" /\ ~ByUser(e)
    PROVE  \E u \in Asked(cs, new) :
             /\ Same(u, new) /\ u.live = new.live /\ u.late = new.late
             /\ \A e \in Asked(cs, new) :
                  e # u => e.kind = "messages" /\ ~ByUser(e)
             /\ new.kind # "messages" => Asked(cs, new) = cs \cup {u}
<1>. DEFINE after == Asked(cs, new)
<1>1. \E u \in after :
        /\ Same(u, new) /\ u.live = new.live /\ u.late = new.late
        /\ \A e \in after : e = u \/
              \E c \in cs : /\ Same(e, c) /\ e.live = c.live
                            /\ \/ e = c /\ (new.kind # "messages" \/ c.kind # "messages")
                               \/ e.late = TRUE /\ new.kind = "messages" /\ c.kind = "messages"
        /\ new.kind # "messages" => after = cs \cup {u}
  BY AskedMembers
<1>. HIDE DEF after
<1>2. PICK u \in after :
        /\ Same(u, new) /\ u.live = new.live /\ u.late = new.late
        /\ \A e \in after : e = u \/ \E c \in cs : Same(e, c)
        /\ new.kind # "messages" => after = cs \cup {u}
  BY <1>1
<1>3. \A e \in after : e # u => e.kind = "messages" /\ ~ByUser(e)
  BY <1>2 DEF Same, ByUser
<1>. QED BY <1>2, <1>3 DEF after

LEMMA CreatedFirstCalm ==
    ASSUME TypeInv, Kept, Calm, NEW c \in calls, CreatedFirst(c), UNCHANGED server, ~Disturbs(c),
           c.reply # "none"
    PROVE  Calm'
<1>. DEFINE rest == calls \ {c}
            s == c.found[1]
<1>1. /\ c.kind = "first" /\ ByUser(c) /\ c.reply # "lost" /\ active = NoSession
      /\ c.live /\ ~c.late
  BY DEF CreatedFirst, ByUser, Disturbs, Calm, OneAtATime
<1>2. /\ \A e \in rest : e.kind = "messages" /\ e.then = "open" /\ ~ByUser(e)
      /\ \A e \in calls : e.late => e.kind = "messages"
  BY <1>1, Beside
<1>3. ~Answering /\ ~Removing
  BY <1>1, <1>2 DEF Answering, Removing
<1>4. /\ GoodCalls(rest) /\ rest \in SUBSET Call /\ IsFiniteSet(rest)
      /\ c \in Call /\ IssuedOnly(c) /\ list \in Seq(Issued) /\ c.text \in 0..MaxTexts
      /\ shown \in Seq(Message)
  BY GoodRest DEF GoodCalls, Call, TypeInv, TypeOK
<1>5. Mine' = Mine
  BY ServerSame
<1>6. /\ ~(\E e \in calls : Newest(e)) /\ Stored(shown) = Due
  BY <1>1, <1>3 DEF Calm, WindowFollows
<1>. HIDE DEF Mine
<1>7. ASSUME NEW x \in Issued \cup {NoSession}
      PROVE  LET q == AskAfter(c, "query", x) IN
             \E u \in Asked(rest, q) :
               /\ u.kind = "query" /\ u.session = x /\ u.reply = "none" /\ u.live /\ ~u.late
               /\ Asked(rest, q) = rest \cup {u} /\ GoodCalls(Asked(rest, q))
  <2>. DEFINE q == AskAfter(c, "query", x)
  <2>1. /\ q \in Call /\ IssuedOnly(q) /\ q.kind = "query" /\ q.session = x
        /\ q.reply = "none" /\ q.live = c.live /\ q.late = c.late
    BY <1>4, GoodAskAfter DEF Kinds
  <2>. HIDE DEF q
  <2>2. \E u \in Asked(rest, q) :
           /\ Same(u, q) /\ u.live = q.live /\ u.late = q.late
           /\ \A e \in Asked(rest, q) : e # u => e.kind = "messages" /\ ~ByUser(e)
           /\ q.kind # "messages" => Asked(rest, q) = rest \cup {u}
    BY <1>2, <1>4, <2>1, NextRequest
  <2>3. GoodCalls(Asked(rest, q))
    BY <1>4, <2>1, GoodAsked
  <2>4. \E u \in Asked(rest, q) :
               /\ u.kind = "query" /\ u.session = x /\ u.reply = "none" /\ u.live /\ ~u.late
               /\ Asked(rest, q) = rest \cup {u}
    BY <1>1, <2>1, <2>2 DEF Same
  <2>. QED BY <2>3, <2>4 DEF q
<1>8. CASE c.reply # "ok"
  <2>1. /\ calls' = Asked(rest, AskAfter(c, "query", NoSession)) /\ list' = list /\ active' = active
        /\ shown' = Append(shown, Msg(c.text, "user", "sent", FALSE)) /\ ~Done(c)
    BY <1>1, <1>8 DEF CreatedFirst, Shows, app, Done
  <2>2. PICK u \in calls' :
           /\ u.kind = "query" /\ u.session = NoSession /\ u.reply = "none" /\ u.live /\ ~u.late
           /\ calls' = rest \cup {u}
    BY <1>7, <2>1
  <2>3. OneAtATime'
    <3>1. \A e \in calls' : /\ e.late => e.kind = "messages"
                            /\ e # u => ~ByUser(e)
                            /\ e.kind = "list" => u \notin calls'
      BY <1>2, <2>2
    <3>2. active' = NoSession
      BY <1>1, <2>1
    <3>. QED BY <2>2, <3>1, <3>2, OneUser
  <2>4. Members(list) = Members(Mine)
    BY <1>1, <1>8, Beside DEF Done
  <2>5. ListFollows'
    BY <1>1, <1>2, <1>5, <2>1, <2>2, <2>4, ListSettled
  <2>6. Msg(c.text, "user", "sent", FALSE) \in Message /\ ~Msg(c.text, "user", "sent", FALSE).stored
    BY <1>4, MsgType
  <2>7. Stored(shown') = Stored(shown)
    BY <1>4, <2>1, <2>6, StoredAppend
  <2>8. Due' = Due
    BY <2>1, ServerSame
  <2>9. \A e : e.kind = "messages" => (e \in calls' <=> e \in calls)
    BY <1>1, <2>2
  <2>10. WindowFollows'
    BY <1>3, <2>1, <2>7, <2>8, <2>9, SameWindow DEF Calm
  <2>. QED BY <2>3, <2>5, <2>10 DEF Calm
<1>9. CASE c.reply = "ok"
  <2>. DEFINE cs == Asked(rest, AskAfter(c, "query", s))
  <2>1. list' = c.found \o list /\ Activate(s, cs) /\ active' = s
    BY <1>1, <1>9 DEF CreatedFirst, Activate
  <2>2. /\ c.found \in Seq(Issued) /\ Len(c.found) = 1
    BY <1>1, <1>4, <1>9 DEF IssuedOnly
  <2>3. s \in Issued /\ NoSession \notin Issued
    BY <2>2, ElementOfSeq DEF Issued, Sessions, NoSession
  <2>4. c.found = <<s>>
    <3>1. <<s>> \in Seq(Issued) /\ Len(<<s>>) = 1 /\ \A i \in 1..1 : c.found[i] = <<s>>[i]
      BY <2>3
    <3>. QED BY <2>2, <3>1, SeqEqual
  <2>5. Members(list') = Members(list) \cup {s}
    <3>1. s \in Issued /\ list \in Seq(Issued) /\ list' = <<s>> \o list
      BY <1>4, <2>1, <2>3, <2>4
    <3>. HIDE DEF s
    <3>. QED BY <3>1, FrontFacts
  <2>6. Members(Mine) = Members(list) \cup {s}
    BY <1>1, <1>9 DEF Calm, ListFollows
  <2>7. \E u \in cs :
           /\ u.kind = "query" /\ u.session = s /\ u.reply = "none" /\ u.live /\ ~u.late
           /\ cs = rest \cup {u} /\ GoodCalls(cs)
    BY <1>7, <2>3
  <2>. HIDE DEF cs, s
  <2>8. PICK u \in cs :
           /\ u.kind = "query" /\ u.session = s /\ u.reply = "none" /\ u.live /\ ~u.late
           /\ cs = rest \cup {u} /\ GoodCalls(cs)
    BY <2>7
  <2>9. \A e : e.kind = "messages" => (e \in cs <=> e \in calls)
    BY <1>1, <2>8
  <2>10. \A e \in cs : e.kind = "messages" => e.then = "open"
    BY <1>2, <2>8
  <2>11. /\ WindowFollows'
         /\ \A e \in calls' : e \in cs \/ (e.kind = "messages" /\ e.then = "open")
    BY <1>1, <1>3, <2>1, <2>3, <2>8, <2>9, <2>10, Switch DEF Calm
  <2>12. \A e \in calls' : e = u \/ (e.kind = "messages" /\ ~ByUser(e))
    BY <1>2, <2>8, <2>11 DEF ByUser
  <2>13. OneAtATime'
    BY <2>1, <2>8, <2>12, OneUser
  <2>14. ListFollows'
    BY <1>5, <2>1, <2>5, <2>6, <2>8, <2>12, ListSettled
  <2>. QED BY <2>11, <2>13, <2>14 DEF Calm
<1>. QED BY <1>8, <1>9

\* The handler that waited for c asks for the messages of the session.
LEMMA Refetch ==
    ASSUME TypeInv, Kept, Calm, NEW c \in calls, UNCHANGED <<server, app>>,
           c.kind \in {"query", "approve", "reject"}, c.session # NoSession,
           calls' = Asked(calls \ {c}, AskAfter(c, "messages", c.session))
    PROVE  Calm'
<1>. DEFINE rest == calls \ {c}
            new == AskAfter(c, "messages", c.session)
<1>1. ByUser(c) /\ c.session = active /\ c.live /\ ~c.late /\ list' = list /\ active' = active
  BY DEF ByUser, Calm, OneAtATime, app
<1>2. /\ \A e \in rest : e.kind = "messages" /\ e.then = "open" /\ ~ByUser(e)
      /\ Members(list) = Members(Mine) /\ (active # NoSession => active \in Members(list))
  BY <1>1, Beside
<1>3. /\ rest \in SUBSET Call /\ IsFiniteSet(rest) /\ c \in Call /\ IssuedOnly(c)
      /\ c.session \in Issued \cup {NoSession}
  BY GoodRest DEF GoodCalls, IssuedOnly
<1>4. /\ new \in Call /\ new.kind = "messages" /\ new.session = c.session
      /\ new.reply = "none" /\ new.live = c.live /\ new.late = c.late
  <2>1. "messages" \in Kinds
    BY DEF Kinds
  <2>. QED BY <1>3, <2>1, GoodAskAfter
<1>5. calls' = Asked(rest, new)
  OBVIOUS
<1>. HIDE DEF new
<1>6. WindowFollows'
  BY <1>1, <1>3, <1>4, <1>5, Fetching
<1>7. \E u \in Asked(rest, new) :
         /\ Same(u, new) /\ u.live = new.live /\ u.late = new.late
         /\ \A e \in Asked(rest, new) : e # u => e.kind = "messages" /\ ~ByUser(e)
         /\ new.kind # "messages" => Asked(rest, new) = rest \cup {u}
  BY <1>2, <1>3, <1>4, NextRequest, ZenonT(60)
<1>8. PICK u \in calls' : /\ Same(u, new) /\ u.live = new.live
                          /\ \A e \in calls' : e # u => e.kind = "messages" /\ ~ByUser(e)
  BY <1>5, <1>7
<1>9. \A e \in calls' : e.kind = "messages"
  BY <1>4, <1>8 DEF Same
<1>10. OneAtATime'
  BY <1>1, <1>4, <1>8, <1>9, OneUser, ZenonT(60) DEF Same
<1>11. Mine' = Mine
  BY ServerSame
<1>. HIDE DEF Mine
<1>12. ListFollows'
  BY <1>1, <1>2, <1>9, <1>11, ListSettled
<1>. QED BY <1>6, <1>10, <1>12 DEF Calm

\* The handler that waited for c ends.
LEMMA Ends ==
    ASSUME TypeInv, Calm, NEW c \in calls, UNCHANGED <<server, app>>, calls' = calls \ {c},
           c.kind \in {"query", "approve", "reject"},
           c.kind = "query" => c.session = NoSession \/ ~Done(c),
           Stored(shown') = Stored(shown)
    PROVE  Calm'
<1>1. OneAtATime' /\ ListFollows' /\ (Removing => Removing') /\ (Answering => Answering')
  BY Fewer
<1>2. active' = active /\ Due' = Due
  BY ServerSame DEF app
<1>3. WindowFollows'
  BY <1>1, <1>2, SameWindow DEF Calm
<1>. QED BY <1>1, <1>3 DEF Calm

LEMMA AnsweredCalm ==
    ASSUME TypeInv, Kept, Calm, NEW c \in calls, Answered(c), UNCHANGED server, ~Disturbs(c),
           c.reply # "none"
    PROVE  Calm'
<1>. DEFINE says == IF c.reply = "ok" THEN [c.data[1] EXCEPT !.stored = FALSE]
                    ELSE Msg(c.text, "assistant", "failed", FALSE)
<1>1. c.kind = "query" /\ UNCHANGED app /\ c.reply # "lost" /\ c \in Call /\ IssuedOnly(c)
  BY GoodRest DEF Answered, Disturbs
<1>2. CASE c.reply = "ok" /\ c.session # NoSession
  BY <1>1, <1>2, Refetch DEF Answered
<1>3. CASE ~(c.reply = "ok" /\ c.session # NoSession)
  <2>1. calls' = calls \ {c} /\ (shown' = shown \/ shown' = Append(shown, says))
    BY <1>3 DEF Answered
  <2>2. says \in Message /\ ~says.stored
    <3>1. CASE c.reply = "ok"
      <4>1. c.data \in Seq(Message) /\ Len(c.data) = 1
        BY <1>1, <3>1 DEF Call, IssuedOnly
      <4>2. c.data[1] \in Message
        BY <4>1, ElementOfSeq
      <4>3. \A m \in Message : LET n == [m EXCEPT !.stored = FALSE]
                               IN  n \in Message /\ n.stored = FALSE
        BY DEF Message
      <4>. QED BY <3>1, <4>2, <4>3
    <3>2. CASE c.reply # "ok"
      <4>1. c.text \in 0..MaxTexts
        BY <1>1 DEF Call
      <4>. QED BY <3>2, <4>1, MsgType
    <3>. QED BY <3>1, <3>2
  <2>. HIDE DEF says
  <2>3. Stored(shown') = Stored(shown)
    <3>1. shown \in Seq(Message)
      BY DEF TypeInv, TypeOK
    <3>. QED BY <2>1, <2>2, <3>1, StoredAppend
  <2>4. c.session = NoSession \/ ~Done(c)
    BY <1>1, <1>3 DEF Done
  <2>. QED BY <1>1, <2>1, <2>3, <2>4, Ends
<1>. QED BY <1>2, <1>3

LEMMA DecidedCalm ==
    ASSUME TypeInv, Kept, Calm, NEW c \in calls, Decided(c), UNCHANGED server
    PROVE  Calm'
<1>1. c.kind \in {"approve", "reject"} /\ UNCHANGED app
  BY DEF Decided
<1>2. CASE c.reply = "ok" /\ c.session # NoSession
  BY <1>1, <1>2, Refetch DEF Decided
<1>3. CASE ~(c.reply = "ok" /\ c.session # NoSession)
  <2>. DEFINE approved == [i \in DOMAIN shown |->
                             IF Approves(shown[i], c) THEN [shown[i] EXCEPT !.status = "complete"]
                             ELSE shown[i]]
  <2>1. /\ calls' = calls \ {c}
        /\ shown' = shown \/ (c.session = NoSession /\ shown' = approved)
    BY <1>3 DEF Decided
  <2>2. ASSUME c.session = NoSession, shown' = approved PROVE Stored(shown') = Stored(shown)
    <3>1. ByUser(c) /\ active = NoSession
      BY <1>1, <2>2 DEF ByUser, Calm, OneAtATime
    <3>2. ~Removing /\ ~Answering /\ ~(\E e \in calls : Newest(e))
      <4>1. \A e \in calls \ {c} : e.kind = "messages"
        BY <3>1, Beside
      <4>2. ~(\E e \in calls : Newest(e))
        BY <3>1 DEF Calm, WindowFollows
      <4>. QED BY <1>1, <4>1, <4>2 DEF Removing, Answering
    <3>3. Stored(shown) = <<>>
      BY <3>1, <3>2 DEF Calm, WindowFollows, Due
    <3>4. shown \in Seq(Message)
      BY DEF TypeInv, TypeOK
    <3>5. \A i \in DOMAIN shown : ~shown[i].stored /\ shown[i] \in Message
      BY <3>3, <3>4, StoredAll, LenProperties, ElementOfSeq
    <3>6. \A m \in Message : LET n == [m EXCEPT !.status = "complete"]
                             IN  n \in Message /\ n.stored = m.stored
      BY DEF Message
    <3>7. \A i \in DOMAIN shown : approved[i] \in Message /\ ~approved[i].stored
      BY <3>5, <3>6
    <3>8. approved \in Seq(Message)
      <4>1. DOMAIN shown = 1..Len(shown) /\ Len(shown) \in Nat
        BY <3>4, LenProperties
      <4>2. approved \in [1..Len(shown) -> Message]
        BY <3>7, <4>1
      <4>. QED BY <4>1, <4>2, SeqDef
    <3>9. DOMAIN approved = DOMAIN shown
      OBVIOUS
    <3>. HIDE DEF approved
    <3>10. Stored(approved) = <<>>
      BY <3>7, <3>8, <3>9, StoredAll
    <3>. QED BY <2>2, <3>3, <3>10
  <2>3. Stored(shown') = Stored(shown)
    BY <2>1, <2>2
  <2>. QED BY <1>1, <2>1, <2>3, Ends
<1>. QED BY <1>2, <1>3

LEMMA DeliverCalm ==
    ASSUME TypeInv, Kept, NEW c \in calls, Deliver(c)
    PROVE  Kept' /\ (~disturbed' => ~disturbed /\ (Calm => Calm'))
<1>1. UNCHANGED server /\ c.reply # "none" /\ (~disturbed' => ~disturbed /\ ~Disturbs(c))
  BY DEF Deliver
<1>2. Kept'
  BY <1>1, ServerSame
<1>3. ASSUME Calm, ~Disturbs(c) PROVE Calm'
  BY <1>1, <1>3, GotMessagesCalm, GotListCalm, CreatedCalm, DeletedCalm, CreatedFirstCalm,
     AnsweredCalm, DecidedCalm DEF Deliver
<1>. QED BY <1>1, <1>2, <1>3

-----------------------------------------------------------------------------
\* The user who waits for what he asked for.
LEMMA Waited ==
    ASSUME NEW kinds, Turn(kinds), ~disturbed'
    PROVE  ~disturbed /\ UNCHANGED server /\ \A c \in calls : c.then = "open" /\ c.kind \in kinds
BY DEF Turn, Busy

\* Only messages are under way.
LEMMA Quiet ==
    ASSUME TypeInv, Calm, \A c \in calls : c.then = "open" /\ c.kind = "messages"
    PROVE  /\ \A c \in calls : ~ByUser(c)
           /\ ~Answering /\ ~Removing
           /\ Members(list) = Members(Mine)
           /\ active # NoSession => active \in Members(list) /\ active \in Members(Mine)
<1>1. (\A c \in calls : ~ByUser(c)) /\ ~Answering /\ ~Removing
  BY DEF ByUser, Answering, Removing
<1>2. /\ \/ Members(list) = Members(Mine)
         \/ \E c \in calls :
               c.kind = "list" \/ (c.kind \in {"create", "first", "delete"} /\ Done(c))
      /\ active # NoSession => active \in Members(list) /\ (active \in Members(Mine) \/ Removing)
  BY DEF Calm, ListFollows
<1>. QED BY <1>1, <1>2

\* The user makes a request.
LEMMA UserAsks ==
    ASSUME TypeInv, Kept, Calm, UNCHANGED <<server, app>>, Stored(shown') = Stored(shown),
           \A c \in calls : c.then = "open" /\ c.kind = "messages",
           NEW new \in Call, calls' = Asked(calls, new),
           new.kind \in {"create", "first", "query", "approve", "reject", "delete"},
           new.reply = "none", new.live, ~new.late,
           new.kind = "first" => active = NoSession,
           new.kind \in {"query", "approve", "reject"} => new.session = active,
           new.kind = "delete" => calls = {} /\ new.seen = list /\ new.was = active
    PROVE  Calm'
<1>1. /\ \A c \in calls : ~ByUser(c)
      /\ ~Answering /\ ~Removing
      /\ Members(list) = Members(Mine)
      /\ active # NoSession => active \in Members(list) /\ active \in Members(Mine)
  BY Quiet
<1>2. list' = list /\ active' = active /\ Mine' = Mine /\ Due' = Due
  BY ServerSame DEF app
<1>. HIDE DEF Mine
<1>3. calls \in SUBSET Call /\ IsFiniteSet(calls)
  BY DEF TypeInv, TypeOK
<1>4. \E u \in Asked(calls, new) :
         /\ Same(u, new) /\ u.live = new.live /\ u.late = new.late
         /\ \A e \in Asked(calls, new) : e # u => e.kind = "messages" /\ ~ByUser(e)
         /\ new.kind # "messages" => Asked(calls, new) = calls \cup {u}
  BY <1>1, <1>3, NextRequest
<1>5. PICK u \in calls' : /\ Same(u, new) /\ u.live /\ ~u.late
                          /\ calls' = calls \cup {u}
  BY <1>4
<1>6. OneAtATime'
  <2>1. \A e \in calls : e.kind = "messages"
    OBVIOUS
  <2>2. \A e \in calls' : /\ e.late => e.kind = "messages"
                          /\ e # u => ~ByUser(e)
                          /\ e.kind = "list" => u \notin calls'
    BY <1>1, <1>5, <2>1 DEF Same
  <2>3. /\ u.kind = "delete" => calls' = {u} /\ u.seen = list' /\ u.was = active'
        /\ u.kind = "first" => active' = NoSession
        /\ u.kind \in {"query", "approve", "reject", "messages"} => u.session = active'
    BY <1>2, <1>5 DEF Same
  <2>. QED BY <1>5, <2>2, <2>3, OneUser
<1>7. ListFollows'
  <2>1. \A e \in calls' : e.kind \in {"list", "create", "first", "delete"} => e.reply # "ok"
    BY <1>5 DEF Same
  <2>2. \A e \in calls' : e.reply = "ok" =>
          /\ e.kind \notin {"create", "first", "delete"}
          /\ e.kind = "list" => Members(e.found) = Members(Mine')
    BY <2>1
  <2>. QED BY <1>1, <1>2, <2>2, ListSettled
<1>8. WindowFollows'
  <2>1. \A e : e.kind = "messages" => (e \in calls' <=> e \in calls)
    BY <1>5 DEF Same
  <2>. QED BY <1>1, <1>2, <2>1, SameWindow DEF Calm
<1>. QED BY <1>6, <1>7, <1>8 DEF Calm

LEMMA TypeCalm == ASSUME Calm, Type PROVE Calm'
<1>1. UNCHANGED <<server, app, shown, calls>>
  BY DEF Type
<1>2. Mine' = Mine /\ Due' = Due
  BY <1>1, ServerSame DEF app
<1>. HIDE DEF Mine, Due
<1>3. OneAtATime'
  BY <1>1 DEF Calm, OneAtATime, ByUser, app
<1>4. Answering' = Answering /\ Removing' = Removing
  BY <1>1 DEF Answering, Removing, Done, app
<1>. HIDE DEF Answering, Removing
<1>5. ListFollows'
  BY <1>1, <1>2, <1>4 DEF Calm, ListFollows, Done, app
<1>6. WindowFollows'
  <2>1. active' = active /\ shown' = shown /\ calls' = calls
    BY <1>1 DEF app
  <2>. QED BY <1>2, <1>4, <2>1, SameWindow DEF Calm
<1>. QED BY <1>3, <1>5, <1>6 DEF Calm

LEMMA SendCalm ==
    ASSUME TypeInv, Kept, Calm, Send, ~disturbed'
    PROVE  Calm'
<1>1. /\ Turn({"messages"}) /\ UNCHANGED <<server, app>> /\ draft # 0
      /\ \A c \in calls : c.then = "open" /\ c.kind = "messages"
  BY Waited DEF Send
<1>2. /\ draft \in 0..MaxTexts /\ shown \in Seq(Message)
      /\ active \in Issued \cup {NoSession}
  BY DEF TypeInv, TypeOK
<1>3. CASE active # NoSession
  <2>. DEFINE new == Ask("query", active, draft, "send")
              m == Msg(draft, "user", "sent", FALSE)
  <2>1. calls' = Asked(calls, new) /\ shown' = Append(shown, m)
    BY <1>3 DEF Send, Shows
  <2>2. new \in Call
    BY <1>2, GoodAsk DEF Kinds
  <2>3. /\ new.kind = "query" /\ new.session = active
        /\ new.live = TRUE /\ new.late = FALSE /\ new.reply = "none"
    BY DEF Ask
  <2>4. m \in Message /\ ~m.stored
    BY <1>2, MsgType
  <2>. HIDE DEF new, m
  <2>5. Stored(shown') = Stored(shown)
    BY <1>2, <2>1, <2>4, StoredAppend
  <2>. QED BY <1>1, <2>1, <2>2, <2>3, <2>5, UserAsks
<1>4. CASE active = NoSession
  <2>. DEFINE new == Ask("first", NoSession, draft, "send")
  <2>1. calls' = Asked(calls, new) /\ shown' = shown
    BY <1>4 DEF Send
  <2>2. new \in Call
    BY <1>2, GoodAsk DEF Kinds
  <2>3. /\ new.kind = "first"
        /\ new.live = TRUE /\ new.late = FALSE /\ new.reply = "none"
    BY DEF Ask
  <2>. HIDE DEF new
  <2>. QED BY <1>1, <1>4, <2>1, <2>2, <2>3, UserAsks
<1>. QED BY <1>3, <1>4

LEMMA NewChatCalm ==
    ASSUME TypeInv, Kept, Calm, NewChat, ~disturbed'
    PROVE  Calm'
<1>. DEFINE new == Ask("create", NoSession, 0, "open")
<1>1. /\ Turn({"messages"}) /\ UNCHANGED <<server, app>> /\ shown' = shown
      /\ \A c \in calls : c.then = "open" /\ c.kind = "messages"
      /\ calls' = Asked(calls, new)
  BY Waited DEF NewChat, panel
<1>2. 0 \in 0..MaxTexts
  BY BoundsAssumption
<1>3. new \in Call
  BY <1>2, GoodAsk DEF Kinds
<1>4. new.kind = "create" /\ new.live = TRUE /\ new.late = FALSE /\ new.reply = "none"
  BY DEF Ask
<1>. HIDE DEF new
<1>. QED BY <1>1, <1>3, <1>4, UserAsks

LEMMA DeleteAskCalm ==
    ASSUME TypeInv, Kept, Calm, NEW s \in Members(list), Delete(s), ~disturbed'
    PROVE  Calm'
<1>. DEFINE new == Ask("delete", s, 0, "open")
<1>1. /\ Turn({}) /\ UNCHANGED <<server, app>> /\ shown' = shown /\ calls' = Asked(calls, new)
      /\ calls = {}
  BY Waited DEF Delete, panel
<1>2. 0 \in 0..MaxTexts
  BY BoundsAssumption
<1>3. s \in Issued /\ NoSession \notin Issued
  <2>1. list \in Seq(Issued) /\ NoSession \notin Issued
    BY DEF TypeInv, Issued, Sessions, NoSession
  <2>. QED BY <2>1, LenProperties, ElementOfSeq DEF Members
<1>4. new \in Call
  BY <1>2, <1>3, GoodAsk DEF Kinds
<1>5. /\ new.kind = "delete" /\ new.seen = list /\ new.was = active
      /\ new.live = TRUE /\ new.late = FALSE /\ new.reply = "none"
  BY DEF Ask
<1>. HIDE DEF new
<1>6. \A c \in calls : c.then = "open" /\ c.kind = "messages"
  BY <1>1
<1>. QED BY <1>1, <1>4, <1>5, <1>6, UserAsks

LEMMA DecideCalm ==
    ASSUME TypeInv, Kept, Calm, NEW kind \in {"approve", "reject"}, NEW m \in Members(shown),
           Decide(kind, m), ~disturbed'
    PROVE  Calm'
<1>. DEFINE new == Ask(kind, active, m.text, "execute")
<1>1. /\ Turn({"messages"}) /\ UNCHANGED <<server, app>> /\ shown' = shown
      /\ \A c \in calls : c.then = "open" /\ c.kind = "messages"
      /\ calls' = Asked(calls, new)
  BY Waited DEF Decide
<1>2. m.text \in 0..MaxTexts
  <2>1. shown \in Seq(Message)
    BY DEF TypeInv, TypeOK
  <2>2. \A i \in DOMAIN shown : shown[i] \in Message
    BY <2>1, LenProperties, ElementOfSeq
  <2>. QED BY <2>2 DEF Members, Message
<1>3. active \in Issued \cup {NoSession} /\ kind \in Kinds
  BY DEF TypeInv, Kinds
<1>4. new \in Call
  BY <1>2, <1>3, GoodAsk
<1>5. /\ new.kind = kind /\ new.session = active
      /\ new.live = TRUE /\ new.late = FALSE /\ new.reply = "none"
  BY DEF Ask
<1>. HIDE DEF new
<1>. QED BY <1>1, <1>4, <1>5, UserAsks

LEMMA SignInCalm ==
    ASSUME TypeInv, Kept, Calm, SignIn, ~disturbed'
    PROVE  Calm'
<1>. DEFINE new == Ask("list", NoSession, 0, "open")
            after == Asked(calls, new)
<1>1. /\ UNCHANGED <<server, app>> /\ shown' = shown /\ calls' = after
      /\ \A c \in calls : c.then = "open" /\ c.kind \in {"list", "messages"}
  BY Waited DEF SignIn, panel
<1>2. 0 \in 0..MaxTexts
  BY BoundsAssumption
<1>3. new \in Call
  BY <1>2, GoodAsk DEF Kinds
<1>4. /\ new.kind = "list" /\ new.then = "open" /\ new.late = FALSE /\ new.reply = "none"
  BY DEF Ask
<1>. HIDE DEF new
<1>5. calls \in SUBSET Call /\ IsFiniteSet(calls)
  BY DEF TypeInv, TypeOK
<1>6. \E u \in after :
         /\ Same(u, new) /\ u.live = new.live /\ u.late = new.late
         /\ \A e \in after : e = u \/
               \E c \in calls : /\ Same(e, c) /\ e.live = c.live
                                /\ \/ e = c /\ (new.kind # "messages" \/ c.kind # "messages")
                                   \/ e.late = TRUE /\ new.kind = "messages" /\ c.kind = "messages"
         /\ new.kind # "messages" => after = calls \cup {u}
  BY <1>3, <1>5, AskedMembers
<1>. HIDE DEF after
<1>7. PICK u \in after :
         /\ u.kind = "list" /\ u.then = "open" /\ u.reply = "none" /\ ~u.late
         /\ calls' = calls \cup {u}
  BY <1>1, <1>4, <1>6 DEF Same
<1>8. list' = list /\ active' = active /\ Mine' = Mine /\ Due' = Due
  BY <1>1, ServerSame DEF app
<1>. HIDE DEF Mine
<1>9. \A e \in calls' : e.kind \in {"list", "messages"} /\ ~ByUser(e)
  BY <1>1, <1>7 DEF ByUser
<1>10. ~Answering /\ ~Removing
  BY <1>1 DEF Answering, Removing
<1>11. OneAtATime'
  <2>1. \A e \in calls' : e.late => e.kind = "messages"
    BY <1>7 DEF Calm, OneAtATime
  <2>. QED BY <1>9, <2>1 DEF OneAtATime, ByUser
<1>12. ListFollows'
  <2>1. \A e \in calls' : e.reply = "ok" /\ e.kind = "list" => Members(e.found) = Members(Mine)
    BY <1>7 DEF Calm, ListFollows
  <2>2. active # NoSession => active \in Members(list) /\ active \in Members(Mine)
    BY <1>10 DEF Calm, ListFollows
  <2>3. \E e \in calls' : e.kind = "list"
    BY <1>7
  <2>. QED BY <1>8, <1>9, <2>1, <2>2, <2>3, ListSettled
<1>13. WindowFollows'
  <2>1. \A e : e.kind = "messages" => (e \in calls' <=> e \in calls)
    BY <1>7
  <2>. QED BY <1>1, <1>8, <1>10, <2>1, SameWindow DEF Calm
<1>. QED BY <1>11, <1>12, <1>13 DEF Calm

LEMMA SelectCalm ==
    ASSUME TypeInv, Kept, Calm, NEW s \in Members(list), Select(s), ~disturbed'
    PROVE  Calm'
<1>1. /\ UNCHANGED server /\ list' = list /\ shown' = shown /\ Activate(s, calls) /\ active' = s
      /\ \A c \in calls : c.then = "open" /\ c.kind = "messages"
  BY Waited DEF Select, panel, Activate
<1>2. /\ \A c \in calls : ~ByUser(c)
      /\ ~Answering /\ ~Removing
      /\ Members(list) = Members(Mine)
  BY <1>1, Quiet
<1>3. Mine' = Mine
  BY <1>1, ServerSame
<1>. HIDE DEF Mine
<1>4. s \in Issued /\ NoSession \notin Issued
  <2>1. list \in Seq(Issued) /\ NoSession \notin Issued
    BY DEF TypeInv, Issued, Sessions, NoSession
  <2>. QED BY <2>1, LenProperties, ElementOfSeq DEF Members
<1>5. GoodCalls(calls)
  BY DEF TypeInv, TypeOK, GoodCalls
<1>6. \A e : e.kind = "messages" => (e \in calls <=> e \in calls)
  OBVIOUS
<1>7. /\ WindowFollows'
      /\ \A e \in calls' : e \in calls \/ (e.kind = "messages" /\ e.then = "open")
  BY <1>1, <1>2, <1>4, <1>5, <1>6, Switch DEF Calm
<1>8. \A e \in calls' : e.kind = "messages" /\ ~ByUser(e)
  BY <1>1, <1>7 DEF ByUser
<1>9. OneAtATime'
  BY <1>8 DEF OneAtATime, ByUser
<1>10. ListFollows'
  BY <1>1, <1>2, <1>3, <1>8, ListSettled
<1>. QED BY <1>7, <1>9, <1>10 DEF Calm

LEMMA RemountCalm ==
    ASSUME TypeInv, Kept, Calm, Remount, ~disturbed'
    PROVE  Calm'
<1>. DEFINE left == {[c EXCEPT !.live = FALSE] : c \in calls}
            new == Ask("messages", active, 0, "open")
<1>1. /\ UNCHANGED <<server, app>> /\ shown' = <<>>
      /\ calls' = IF active = NoSession THEN left ELSE Asked(left, new)
      /\ \A c \in calls : c.then = "open" /\ c.kind = "messages"
  BY Waited DEF Remount
<1>2. /\ Members(list) = Members(Mine)
      /\ active # NoSession => active \in Members(list) /\ active \in Members(Mine)
  BY <1>1, Quiet
<1>3. list' = list /\ active' = active /\ Mine' = Mine /\ Due' = Due
  BY <1>1, ServerSame DEF app
<1>. HIDE DEF Mine
<1>4. GoodCalls(calls)
  BY DEF TypeInv, TypeOK, GoodCalls
<1>5. GoodCalls(left) /\ \A e \in left : e.live = FALSE /\ \E c \in calls : Same(e, c)
  BY <1>4, LeftBehind
<1>6. left \in SUBSET Call /\ IsFiniteSet(left)
  BY <1>5 DEF GoodCalls
<1>. HIDE DEF left
<1>7. \A e \in left : e.live = FALSE /\ e.kind = "messages" /\ e.then = "open"
  BY <1>1, <1>5 DEF Same
<1>8. CASE active = NoSession
  <2>1. calls' = left
    BY <1>1, <1>8
  <2>2. Stored(shown') = Due'
    <3>1. <<>> \in Seq(Message) /\ \A i \in DOMAIN <<>> : FALSE
      OBVIOUS
    <3>2. Stored(<<>>) = <<>>
      BY <3>1, StoredAll
    <3>. QED BY <1>1, <1>3, <1>8, <3>2 DEF Due, Stored, Picked
  <2>3. WindowFollows'
    BY <1>7, <2>1, <2>2 DEF WindowFollows, Newest, Stored, Picked
  <2>4. \A e \in calls' : e.kind = "messages" /\ ~ByUser(e)
    BY <1>7, <2>1 DEF ByUser
  <2>. QED BY <1>2, <1>3, <2>3, <2>4, ListSettled DEF Calm, OneAtATime, ByUser
<1>9. CASE active # NoSession
  <2>1. calls' = Asked(left, new)
    BY <1>1, <1>9
  <2>2. 0 \in 0..MaxTexts /\ active \in Issued \cup {NoSession}
    BY BoundsAssumption DEF TypeInv
  <2>3. new \in Call
    BY <1>9, <2>2, GoodAsk DEF Kinds
  <2>4. /\ new.kind = "messages" /\ new.session = active /\ new.then = "open"
        /\ new.live = TRUE /\ new.late = FALSE /\ new.reply = "none"
    BY DEF Ask
  <2>. HIDE DEF new
  <2>5. WindowFollows'
    BY <1>3, <1>6, <1>9, <2>1, <2>3, <2>4, Fetching
  <2>6. \E u \in Asked(left, new) :
           /\ Same(u, new) /\ u.live = new.live /\ u.late = new.late
           /\ \A e \in Asked(left, new) : e = u \/
                 \E c \in left : /\ Same(e, c) /\ e.live = c.live
                                 /\ \/ e = c /\ (new.kind # "messages" \/ c.kind # "messages")
                                    \/ e.late = TRUE /\ new.kind = "messages" /\ c.kind = "messages"
           /\ new.kind # "messages" => Asked(left, new) = left \cup {u}
    BY <1>6, <2>3, AskedMembers
  <2>7. \A e \in calls' : e.kind = "messages" /\ ~ByUser(e)
    BY <1>7, <2>1, <2>4, <2>6 DEF Same, ByUser
  <2>8. OneAtATime'
    BY <2>7 DEF OneAtATime, ByUser
  <2>9. ListFollows'
    BY <1>2, <1>3, <2>7, ListSettled
  <2>. QED BY <2>5, <2>8, <2>9 DEF Calm
<1>. QED BY <1>8, <1>9

-----------------------------------------------------------------------------
LEMMA CoherenceInit == Init => CoherenceInv
<1>. SUFFICES ASSUME Init PROVE TypeInv /\ Kept /\ Calm
  BY DEF CoherenceInv, Calm
<1>1. TypeInv
  BY TypeInit
<1>2. Kept
  <2>1. ASSUME NEW status \in {"complete", "awaiting"}
        PROVE  \A i \in DOMAIN Old(status) : Old(status)[i].stored
    BY DEF Old, Msg
  <2>2. CASE rows = <<>> /\ owner = [s \in Sessions |-> "none"]
             /\ history = [s \in Sessions |-> <<>>]
    BY <2>2 DEF Kept
  <2>3. ASSUME NEW status \in {"complete", "awaiting"}, rows = << 1 >>,
               owner = [s \in Sessions |-> IF s = 1 THEN "me" ELSE "none"],
               history = [s \in Sessions |-> IF s = 1 THEN Old(status) ELSE <<>>]
        PROVE  Kept
    <3>1. 1 \in Members(rows)
      BY <2>3 DEF Members
    <3>. HIDE DEF Members, Old
    <3>2. \A s \in Sessions : owner[s] = "me" => s \in Members(rows)
      BY <2>3, <3>1
    <3>3. \A s \in Sessions : \A i \in DOMAIN history[s] : history[s][i].stored
      BY <2>1, <2>3
    <3>. QED BY <3>2, <3>3 DEF Kept
  <2>. QED BY <2>2, <2>3 DEF Init
<1>. DEFINE new == Ask("list", NoSession, 0, "open")
<1>3. list = <<>> /\ active = NoSession /\ shown = <<>> /\ calls = Asked({}, new)
  BY DEF Init
<1>4. 0 \in 0..MaxTexts
  BY BoundsAssumption
<1>5. new \in Call
  BY <1>1, <1>4, GoodAsk DEF Kinds
<1>6. new.kind = "list" /\ new.then = "open" /\ new.late = FALSE /\ new.reply = "none"
  BY DEF Ask
<1>. HIDE DEF new
<1>7. /\ \A e \in calls : Same(e, new) /\ e.late = new.late
      /\ \E e \in calls : Same(e, new)
  <2>1. \A n : Same([new EXCEPT !.id = n], new) /\ [new EXCEPT !.id = n].late = new.late
    BY <1>5, CallFields, ZenonT(60)
  <2>2. calls = {[new EXCEPT !.id = FreeId({}, new.kind)]}
    BY <1>3 DEF Asked
  <2>. QED BY <2>1, <2>2
<1>8. \A e \in calls : e.kind = "list" /\ ~ByUser(e) /\ e.reply = "none" /\ ~e.late
  BY <1>6, <1>7 DEF Same, ByUser
<1>9. OneAtATime
  BY <1>8 DEF OneAtATime, ByUser
<1>10. ListFollows
  <2>1. \E e \in calls : e.kind = "list"
    BY <1>7, <1>8
  <2>. QED BY <1>3, <1>8, <2>1 DEF ListFollows
<1>11. WindowFollows
  <2>1. <<>> \in Seq(Message) /\ \A i \in DOMAIN <<>> : FALSE
    OBVIOUS
  <2>2. Stored(<<>>) = <<>>
    BY <2>1, StoredAll
  <2>. QED BY <1>3, <1>8, <2>2 DEF WindowFollows, Newest, Due
<1>. QED BY <1>1, <1>2, <1>9, <1>10, <1>11 DEF Calm

\* What the user does.
LEMMA UserCalm ==
    ASSUME TypeInv, Kept,
           \/ Type \/ Send \/ NewChat \/ SignIn \/ Remount
           \/ \E s \in Members(list) : Select(s) \/ Delete(s)
           \/ \E kind \in {"approve", "reject"}, m \in Members(shown) : Decide(kind, m)
    PROVE  Kept' /\ (~disturbed' => ~disturbed /\ (Calm => Calm'))
<1>1. CASE Type
  <2>1. UNCHANGED server /\ disturbed' = disturbed
    BY <1>1 DEF Type
  <2>. QED BY <1>1, <2>1, ServerSame, TypeCalm
<1>2. CASE ~Type
  <2>1. \E kinds : Turn(kinds)
    BY <1>2 DEF Send, NewChat, SignIn, Remount, Select, Delete, Decide
  <2>2. UNCHANGED server
    BY <2>1 DEF Turn
  <2>3. Kept' /\ (~disturbed' => ~disturbed)
    BY <2>1, <2>2, ServerSame, Waited
  <2>4. ASSUME ~disturbed', Calm PROVE Calm'
    BY <1>2, <2>4, SendCalm, NewChatCalm, SignInCalm, RemountCalm, SelectCalm, DeleteAskCalm,
       DecideCalm
  <2>. QED BY <2>3, <2>4
<1>. QED BY <1>1, <1>2

LEMMA CoherenceStep == CoherenceInv /\ [Next]_vars => CoherenceInv'
<1>. SUFFICES ASSUME CoherenceInv, [Next]_vars PROVE CoherenceInv'
  OBVIOUS
<1>1. TypeInv /\ Kept /\ (disturbed \/ Calm) /\ TypeInv'
  BY TypeStep DEF CoherenceInv, Calm
<1>2. ASSUME NEW c \in calls, Handle(c)
      PROVE  Kept' /\ (~disturbed' => ~disturbed /\ (Calm => Calm'))
  <2>1. disturbed' = disturbed
    BY <1>2 DEF Handle
  <2>. QED BY <1>1, <1>2, <2>1, HandleCalm
<1>3. ASSUME NEW c \in calls, Refuse(c) \/ Lose(c)
      PROVE  Kept' /\ (~disturbed' => ~disturbed /\ (Calm => Calm'))
  <2>1. disturbed' = disturbed
    BY <1>3 DEF Refuse, Lose
  <2>. QED BY <1>1, <1>3, <2>1, FaultCalm
<1>4. ASSUME NEW c \in calls, Deliver(c)
      PROVE  Kept' /\ (~disturbed' => ~disturbed /\ (Calm => Calm'))
  BY <1>1, <1>4, DeliverCalm
<1>5. ASSUME UNCHANGED vars
      PROVE  Kept' /\ (~disturbed' => ~disturbed /\ (Calm => Calm'))
  <2>1. UNCHANGED <<server, app, shown, calls>> /\ disturbed' = disturbed
    BY <1>5 DEF vars, panel
  <2>2. Mine' = Mine /\ Due' = Due /\ Kept'
    BY <1>1, <2>1, ServerSame DEF app
  <2>. HIDE DEF Mine, Due
  <2>3. OneAtATime => OneAtATime'
    BY <2>1 DEF OneAtATime, ByUser, app
  <2>4. Answering' = Answering /\ Removing' = Removing
    BY <2>1 DEF Answering, Removing, Done, app
  <2>. HIDE DEF Answering, Removing
  <2>5. ListFollows => ListFollows'
    BY <2>1, <2>2, <2>4 DEF ListFollows, Done, app
  <2>6. active' = active /\ shown' = shown /\ calls' = calls
    BY <2>1 DEF app
  <2>7. WindowFollows => WindowFollows'
    BY <2>2, <2>4, <2>6, SameWindow
  <2>. QED BY <2>1, <2>2, <2>3, <2>5, <2>7 DEF Calm
<1>6. Kept' /\ (~disturbed' => ~disturbed /\ (Calm => Calm'))
  BY <1>1, <1>2, <1>3, <1>4, <1>5, UserCalm DEF Next, Network
<1>. QED BY <1>1, <1>6 DEF CoherenceInv, Calm

\* As long as no answer is lost, no list or messages are refused or overtaken,
\* and the user waits for what he asked for: once nothing is under way, the window
\* shows the messages the server keeps for the active session, the list shows the
\* sessions of the user, and the active session is one of them - whatever else is
\* refused, and wherever the panel was closed and opened again meanwhile.
THEOREM RestShowsTheSession == Spec => []RestIsCoherent
<1>1. CoherenceInv => RestIsCoherent
  BY DEF CoherenceInv, RestIsCoherent, ListFollows, WindowFollows, Answering, Removing
<1>. QED BY <1>1, CoherenceInit, CoherenceStep, PTL DEF Spec

-----------------------------------------------------------------------------
(***************************************************************************)
(* The flags.  Most steps leave them alone and pass on the requests that   *)
(* clear them, perhaps marked late; such a request is followed by the next *)
(* one of its handler, or by the finally.                                  *)
(***************************************************************************)
FirstSends(c) == c.kind = "first" => c.then = "send"
\* What is under way still clears the flags that what was under way would have.
Passed(old, cs) ==
    /\ \A then \in {"send", "execute"} :
          (\E c \in old : Clears(c, then)) => \E c \in cs : Clears(c, then)
    /\ (\A c \in old : FirstSends(c)) => \A c \in cs : FirstSends(c)

LEMMA ClearsSame ==
    ASSUME NEW c, NEW e, Same(e, c), e.live = c.live
    PROVE  /\ FirstSends(e) <=> FirstSends(c)
           /\ \A then : Clears(e, then) <=> Clears(c, then)
BY DEF Same, Clears, FirstSends

LEMMA AskedPasses ==
    ASSUME NEW cs \in SUBSET Call, NEW new \in Call
    PROVE  Passed(cs \cup {new}, Asked(cs, new))
<1>. DEFINE aged(c) == IF new.kind = "messages" /\ c.kind = "messages"
                       THEN [c EXCEPT !.late = TRUE] ELSE c
            asked == [new EXCEPT !.id = FreeId(cs, new.kind)]
<1>1. Asked(cs, new) = {aged(c) : c \in cs} \cup {asked}
  BY DEF Asked
<1>2. \A c \in cs : Same(aged(c), c) /\ aged(c).live = c.live
  <2>. SUFFICES ASSUME NEW c \in cs PROVE Same(aged(c), c) /\ aged(c).live = c.live
    OBVIOUS
  <2>1. c \in Call
    OBVIOUS
  <2>2. Same([c EXCEPT !.late = TRUE], c) /\ [c EXCEPT !.late = TRUE].live = c.live
    BY <2>1, CallFields
  <2>3. Same(c, c)
    BY DEF Same
  <2>. QED BY <2>2, <2>3
<1>3. Same(asked, new) /\ asked.live = new.live
  BY CallFields
<1>. HIDE DEF aged, asked
<1>4. \A c \in cs : \A then : (Clears(c, then) => Clears(aged(c), then))
                              /\ (FirstSends(c) => FirstSends(aged(c)))
  BY <1>2, ClearsSame
<1>5. \A then : (Clears(new, then) => Clears(asked, then))
                /\ (FirstSends(new) => FirstSends(asked))
  BY <1>3, ClearsSame
<1>. QED BY <1>1, <1>4, <1>5 DEF Passed

\* An effect that asks for messages.
LEMMA ActivatePasses ==
    ASSUME TypeInv, NEW s \in Issued \cup {NoSession}, NEW cs \in SUBSET Call, Activate(s, cs)
    PROVE  Passed(cs, calls')
<1>. DEFINE new == Ask("messages", s, 0, "open")
<1>1. calls' = cs \/ (s # NoSession /\ calls' = Asked(cs, new))
  BY DEF Activate
<1>2. 0 \in 0..MaxTexts
  BY BoundsAssumption
<1>3. s # NoSession => new \in Call
  BY <1>2, GoodAsk DEF Kinds
<1>4. FirstSends(new)
  BY DEF Ask, FirstSends
<1>. HIDE DEF new
<1>5. CASE calls' = cs
  BY <1>5 DEF Passed
<1>6. CASE s # NoSession /\ calls' = Asked(cs, new)
  <2>1. Passed(cs \cup {new}, Asked(cs, new))
    BY <1>3, <1>6, AskedPasses
  <2>. QED BY <1>4, <1>6, <2>1 DEF Passed
<1>. QED BY <1>1, <1>5, <1>6

\* A step that sets no flag and passes the requests on.
LEMMA BusyKept ==
    ASSUME BusyInv, Passed(calls, calls'), submitting' = submitting, executing' = executing
    PROVE  BusyInv'
BY DEF BusyInv, Passed, Clears, FirstSends

\* The finally.
LEMMA BusyEnded ==
    ASSUME BusyInv, NEW c \in calls, calls' = calls \ {c}, Finally(c)
    PROVE  BusyInv'
BY DEF BusyInv, Finally, Clears

LEMMA BusyReply ==
    ASSUME TypeInv, BusyInv, NEW c \in calls, NEW r, NEW f, NEW d, Reply(c, r, f, d),
           UNCHANGED panel
    PROVE  BusyInv'
<1>. DEFINE n == [c EXCEPT !.reply = r, !.found = f, !.data = d]
<1>1. calls' = (calls \ {c}) \cup {n}
  BY DEF Reply
<1>2. n.kind = c.kind /\ n.then = c.then /\ n.live = c.live
  BY CallFields DEF TypeInv, TypeOK
<1>. HIDE DEF n
<1>3. Passed(calls, calls')
  BY <1>1, <1>2 DEF Passed, Clears, FirstSends
<1>. QED BY <1>3, BusyKept DEF panel

LEMMA BusyServer ==
    ASSUME TypeInv, BusyInv, NEW c \in calls, Handle(c) \/ Refuse(c) \/ Lose(c)
    PROVE  BusyInv'
<1>1. \E r, f, d : Reply(c, r, f, d)
  BY DEF Handle, HandleList, HandleCreate, HandleDelete, HandleMessages, HandleQuery,
         HandleDecision, Refuse, Lose
<1>2. UNCHANGED panel
  BY DEF Handle, Refuse, Lose
<1>. QED BY <1>1, <1>2, BusyReply

LEMMA BusyDeliver == ASSUME TypeInv, BusyInv, NEW c \in calls, Deliver(c) PROVE BusyInv'
<1>. DEFINE rest == calls \ {c}
<1>1. /\ c \in Call /\ IssuedOnly(c) /\ rest \in SUBSET Call
      /\ list \in Seq(Issued) /\ active \in Issued \cup {NoSession}
      /\ c.found \in Seq(Issued) /\ c.seen \in Seq(Issued)
      /\ c.session \in Issued \cup {NoSession}
  BY DEF TypeInv, TypeOK, IssuedOnly
<1>2. \A seq \in Seq(Issued) : seq # <<>> => seq[1] \in Issued
  <2>. TAKE seq \in Seq(Issued)
  <2>1. seq # <<>> => 1 \in 1..Len(seq)
    BY EmptySeq
  <2>. QED BY <2>1, ElementOfSeq
<1>3. c.kind \in {"list", "create", "delete", "first"} => Passed(calls, rest)
  BY DEF Passed, Clears
<1>. HIDE DEF rest
<1>4. \A s \in Issued \cup {NoSession} : \A cs \in SUBSET Call :
         Activate(s, cs) => Passed(cs, calls')
  BY ActivatePasses
<1>5. \A old, cs, new : Passed(old, cs) /\ Passed(cs, new) => Passed(old, new)
  BY DEF Passed
<1>6. Passed(rest, rest)
  BY DEF Passed
<1>7. CASE GotMessages(c)
  BY <1>7, BusyEnded DEF GotMessages
<1>8. CASE GotList(c)
  <2>1. CASE c.reply = "ok"
    <3>. DEFINE s == IF c.was = NoSession /\ c.found # <<>> THEN c.found[1] ELSE active
    <3>1. Activate(s, rest)
      BY <1>8, <2>1 DEF GotList, rest
    <3>2. s \in Issued \cup {NoSession}
      BY <1>1, <1>2
    <3>. HIDE DEF s
    <3>3. Passed(rest, calls')
      BY <1>1, <1>4, <3>1, <3>2
    <3>. QED BY <1>3, <1>5, <1>8, <3>3, BusyKept DEF GotList, panel
  <2>2. CASE c.reply # "ok"
    BY <1>3, <1>8, <2>2, BusyKept DEF GotList, panel, rest
  <2>. QED BY <2>1, <2>2
<1>9. CASE Created(c)
  <2>1. CASE c.reply = "ok"
    <3>1. Activate(c.found[1], rest)
      BY <1>9, <2>1 DEF Created, rest
    <3>2. c.found[1] \in Issued \cup {NoSession}
      BY <1>1, <1>9, <2>1, ElementOfSeq DEF Created, IssuedOnly
    <3>3. Passed(rest, calls')
      BY <1>1, <1>4, <3>1, <3>2
    <3>. QED BY <1>3, <1>5, <1>9, <3>3, BusyKept DEF Created, panel
  <2>2. CASE c.reply # "ok"
    BY <1>3, <1>9, <2>2, BusyKept DEF Created, panel, rest
  <2>. QED BY <2>1, <2>2
<1>10. CASE Deleted(c)
  <2>1. CASE c.reply = "ok"
    <3>1. Activate(NextActive(c), rest)
      BY <1>10, <2>1 DEF Deleted, rest
    <3>2. Without(c.seen, c.session) \in Seq(Issued)
      BY <1>1, WithoutFacts
    <3>3. NextActive(c) \in Issued \cup {NoSession}
      BY <1>1, <1>2, <3>2 DEF NextActive, First
    <3>4. Passed(rest, calls')
      BY <1>1, <1>4, <3>1, <3>3
    <3>. QED BY <1>3, <1>5, <1>10, <3>4, BusyKept DEF Deleted
  <2>2. CASE c.reply # "ok"
    BY <1>3, <1>10, <2>2, BusyKept DEF Deleted, rest
  <2>. QED BY <2>1, <2>2
\* The handler goes on with another request, on the same panel.
<1>11. \A kind \in Kinds, s \in Issued \cup {NoSession} :
         LET new == AskAfter(c, kind, s) IN
         (kind \in {"delete", "messages"} => s # NoSession) =>
            /\ new \in Call /\ new.kind = kind /\ new.then = c.then /\ new.live = c.live
            /\ Asked(rest, new) \in SUBSET Call /\ Passed(rest \cup {new}, Asked(rest, new))
  <2>. SUFFICES ASSUME NEW kind \in Kinds, NEW s \in Issued \cup {NoSession},
                       kind \in {"delete", "messages"} => s # NoSession
                PROVE  LET new == AskAfter(c, kind, s) IN
            /\ new \in Call /\ new.kind = kind /\ new.then = c.then /\ new.live = c.live
            /\ Asked(rest, new) \in SUBSET Call /\ Passed(rest \cup {new}, Asked(rest, new))
    OBVIOUS
  <2>. DEFINE new == AskAfter(c, kind, s)
  <2>1. new \in Call /\ new.kind = kind /\ new.then = c.then /\ new.live = c.live
    BY <1>1, GoodAskAfter
  <2>2. Asked(rest, new) \subseteq Call
    BY GoodRest DEF GoodCalls, rest
  <2>. HIDE DEF new
  <2>3. Passed(rest \cup {new}, Asked(rest, new))
    BY <1>1, <2>1, AskedPasses
  <2>. QED BY <2>1, <2>2, <2>3 DEF new
<1>12. CASE CreatedFirst(c)
  <2>1. c.kind = "first" /\ c.then = "send"
    BY <1>12 DEF CreatedFirst, BusyInv
  <2>2. CASE c.reply = "lost"
    BY <1>3, <1>12, <2>1, <2>2, BusyKept DEF CreatedFirst, panel, rest
  <2>3. CASE c.reply # "lost"
    <3>1. PICK s \in Issued \cup {NoSession} :
             calls' = Asked(rest, AskAfter(c, "query", s))
             \/ Activate(s, Asked(rest, AskAfter(c, "query", s)))
      BY <1>1, <1>12, <2>1, <2>3, ElementOfSeq DEF CreatedFirst, IssuedOnly, rest
    <3>. DEFINE new == AskAfter(c, "query", s)
    <3>2. /\ new \in Call /\ new.kind = "query" /\ new.then = "send" /\ new.live = c.live
          /\ Asked(rest, new) \in SUBSET Call /\ Passed(rest \cup {new}, Asked(rest, new))
      BY <1>11, <2>1 DEF Kinds
    <3>. HIDE DEF new
    <3>3. Passed(rest \cup {new}, calls')
      BY <1>4, <1>5, <3>1, <3>2 DEF new
    <3>4. Passed(calls, rest)
      BY <1>3, <2>1
    <3>5. Passed(calls, rest \cup {new})
      BY <3>2, <3>4 DEF Passed, FirstSends
    <3>6. Passed(calls, calls')
      BY <1>5, <3>3, <3>5
    <3>7. IF c.live THEN submitting' = TRUE /\ executing' = executing ELSE UNCHANGED panel
      BY <1>12, <2>3 DEF CreatedFirst, Shows
    <3>8. c.live => \E e \in calls' : Clears(e, "send")
      <4>1. c.live => Clears(new, "send")
        BY <3>2 DEF Clears
      <4>. QED BY <3>3, <4>1 DEF Passed
    <3>. QED BY <3>6, <3>7, <3>8 DEF BusyInv, Passed, FirstSends, panel
  <2>. QED BY <2>2, <2>3
<1>13. ASSUME c.session # NoSession, calls' = Asked(rest, AskAfter(c, "messages", c.session)),
              c.kind \in {"query", "approve", "reject"}, UNCHANGED <<submitting, executing>>
       PROVE  BusyInv'
  <2>. DEFINE new == AskAfter(c, "messages", c.session)
  <2>1. new \in Call /\ new.kind = "messages" /\ new.then = c.then /\ new.live = c.live
        /\ Passed(rest \cup {new}, Asked(rest, new))
    BY <1>1, <1>11, <1>13 DEF Kinds
  <2>2. calls' = Asked(rest, new)
    BY <1>13
  <2>. HIDE DEF new
  <2>3. Passed(calls, rest \cup {new})
    BY <2>1 DEF Passed, Clears, FirstSends, rest
  <2>. QED BY <1>5, <1>13, <2>1, <2>2, <2>3, BusyKept
<1>14. CASE Answered(c) \/ Decided(c)
  <2>1. CASE c.reply = "ok" /\ c.session # NoSession
    <3>1. calls' = Asked(rest, AskAfter(c, "messages", c.session))
          /\ UNCHANGED <<submitting, executing>> /\ c.kind \in {"query", "approve", "reject"}
      BY <1>14, <2>1 DEF Answered, Decided, rest
    <3>. QED BY <1>13, <2>1, <3>1
  <2>2. CASE ~(c.reply = "ok" /\ c.session # NoSession)
    <3>1. calls' = calls \ {c} /\ Finally(c)
      BY <1>14, <2>2 DEF Answered, Decided
    <3>. QED BY <3>1, BusyEnded
  <2>. QED BY <2>1, <2>2
<1>. QED BY <1>7, <1>8, <1>9, <1>10, <1>12, <1>14 DEF Deliver

LEMMA BusyUser ==
    ASSUME TypeInv, BusyInv,
           \/ Type \/ Send \/ NewChat \/ SignIn \/ Remount
           \/ \E s \in Members(list) : Select(s) \/ Delete(s)
           \/ \E kind \in {"approve", "reject"}, m \in Members(shown) : Decide(kind, m)
    PROVE  BusyInv'
<1>1. /\ calls \in SUBSET Call /\ shown \in Seq(Message) /\ draft \in 0..MaxTexts
      /\ list \in Seq(Issued) /\ active \in Issued \cup {NoSession}
      /\ \A c \in calls : IssuedOnly(c)
  BY DEF TypeInv, TypeOK
<1>2. 0 \in 0..MaxTexts
  BY BoundsAssumption
<1>3. \A m \in Members(shown) : m.text \in 0..MaxTexts
  <2>1. \A i \in DOMAIN shown : shown[i] \in Message
    BY <1>1, LenProperties, ElementOfSeq
  <2>. QED BY <2>1 DEF Members, Message
<1>4. \A s \in Members(list) : s \in Issued /\ s # NoSession
  BY <1>1, LenProperties, ElementOfSeq DEF Members, Issued, Sessions, NoSession
<1>5. ASSUME NEW kind \in Kinds, NEW s \in Issued \cup {NoSession}, NEW text \in 0..MaxTexts,
             NEW then \in {"open", "send", "execute"},
             kind \in {"delete", "messages"} => s # NoSession, kind = "first" => then = "send",
             NEW cs \in SUBSET Call, calls' = Asked(cs, Ask(kind, s, text, then))
      PROVE  /\ Passed(cs, calls')
             /\ then # "open" /\ kind \in {"query", "approve", "reject"} =>
                   \E c \in calls' : Clears(c, then)
  <2>. DEFINE new == Ask(kind, s, text, then)
  <2>1. new \in Call /\ new.kind = kind /\ new.then = then /\ new.live = TRUE
    BY <1>5, GoodAsk DEF Ask
  <2>2. calls' = Asked(cs, new)
    BY <1>5
  <2>. HIDE DEF new
  <2>3. Passed(cs \cup {new}, calls')
    BY <2>1, <2>2, AskedPasses
  <2>. QED BY <1>5, <2>1, <2>3 DEF Passed, Clears, FirstSends
<1>6. CASE Type
  BY <1>6 DEF Type, BusyInv
<1>7. CASE Send
  <2>1. CASE active # NoSession
    <3>1. calls' = Asked(calls, Ask("query", active, draft, "send"))
          /\ submitting' = TRUE /\ executing' = executing
      BY <1>7, <2>1 DEF Send, Shows
    <3>2. Passed(calls, calls') /\ \E c \in calls' : Clears(c, "send")
      BY <1>1, <1>5, <3>1 DEF Kinds
    <3>. QED BY <3>1, <3>2 DEF BusyInv, Passed, FirstSends
  <2>2. CASE active = NoSession
    <3>1. calls' = Asked(calls, Ask("first", NoSession, draft, "send"))
          /\ submitting' = submitting /\ executing' = executing
      BY <1>7, <2>2 DEF Send, FlagOfFirst
    <3>2. Passed(calls, calls')
      BY <1>1, <1>5, <3>1 DEF Kinds
    <3>. QED BY <3>1, <3>2, BusyKept
  <2>. QED BY <2>1, <2>2
<1>8. CASE NewChat
  <2>1. Passed(calls, calls')
    BY <1>1, <1>2, <1>5, <1>8 DEF NewChat, Kinds
  <2>. QED BY <1>8, <2>1, BusyKept DEF NewChat, panel
<1>9. CASE SignIn
  <2>1. Passed(calls, calls')
    BY <1>1, <1>2, <1>5, <1>9 DEF SignIn, Kinds
  <2>. QED BY <1>9, <2>1, BusyKept DEF SignIn, panel
<1>10. ASSUME NEW s \in Members(list), Select(s) PROVE BusyInv'
  <2>1. Passed(calls, calls')
    BY <1>1, <1>4, <1>10, ActivatePasses DEF Select
  <2>. QED BY <1>10, <2>1, BusyKept DEF Select, panel
<1>11. ASSUME NEW s \in Members(list), Delete(s) PROVE BusyInv'
  <2>1. Passed(calls, calls')
    BY <1>1, <1>2, <1>4, <1>5, <1>11 DEF Delete, Kinds
  <2>. QED BY <1>11, <2>1, BusyKept DEF Delete, panel
<1>12. ASSUME NEW kind \in {"approve", "reject"}, NEW m \in Members(shown), Decide(kind, m)
       PROVE  BusyInv'
  <2>1. /\ calls' = Asked(calls, Ask(kind, active, m.text, "execute"))
        /\ submitting' = submitting
    BY <1>12 DEF Decide
  <2>2. Passed(calls, calls') /\ \E c \in calls' : Clears(c, "execute")
    BY <1>1, <1>3, <1>5, <2>1 DEF Kinds
  <2>. QED BY <2>1, <2>2 DEF BusyInv, Passed, FirstSends
\* A new panel has no flags; of the requests only their own handlers matter.
<1>13. CASE Remount
  <2>. DEFINE left == {[c EXCEPT !.live = FALSE] : c \in calls}
  <2>1. /\ submitting' = FALSE /\ executing' = {}
        /\ \/ calls' = left
           \/ active # NoSession /\ calls' = Asked(left, Ask("messages", active, 0, "open"))
    BY <1>13 DEF Remount
  <2>2. left \in SUBSET Call /\ \A e \in left : \E c \in calls : Same(e, c)
    BY <1>1, LeftBehind DEF GoodCalls, TypeInv
  <2>. HIDE DEF left
  <2>3. \A e \in left : FirstSends(e)
    BY <2>2 DEF BusyInv, FirstSends, Same
  <2>4. Passed(left, calls')
    <3>1. CASE calls' = left
      BY <3>1 DEF Passed
    <3>2. CASE calls' = Asked(left, Ask("messages", active, 0, "open")) /\ active # NoSession
      BY <1>1, <1>2, <1>5, <2>2, <3>2 DEF Kinds
    <3>. QED BY <2>1, <3>1, <3>2
  <2>. QED BY <2>1, <2>3, <2>4 DEF BusyInv, Passed, FirstSends
<1>. QED BY <1>6, <1>7, <1>8, <1>9, <1>10, <1>11, <1>12, <1>13

LEMMA BusyInit == Init => BusyInv
<1>. SUFFICES ASSUME Init PROVE BusyInv
  OBVIOUS
<1>1. submitting = FALSE /\ executing = {} /\ calls = Asked({}, Ask("list", NoSession, 0, "open"))
  BY DEF Init
<1>2. \A c \in calls : c.kind = "list"
  BY <1>1 DEF Asked, Ask
<1>. QED BY <1>1, <1>2 DEF BusyInv

LEMMA BusyStep == TypeInv /\ BusyInv /\ [Next]_vars => BusyInv'
<1>. SUFFICES ASSUME TypeInv, BusyInv, [Next]_vars PROVE BusyInv'
  OBVIOUS
<1>1. ASSUME NEW c \in calls, Handle(c) \/ Refuse(c) \/ Lose(c) PROVE BusyInv'
  BY <1>1, BusyServer
<1>2. ASSUME NEW c \in calls, Deliver(c) PROVE BusyInv'
  BY <1>2, BusyDeliver
<1>3. CASE UNCHANGED vars
  BY <1>3 DEF vars, panel, BusyInv, Clears
<1>. QED BY <1>1, <1>2, <1>3, BusyUser DEF Next, Network

\* Once nothing is under way, the input is enabled and no approval is shown as
\* running: no flag of the panel outlives the handler that set it.
THEOREM NoFlagIsStuck == Spec => []RestIsIdle
<1>1. BusyInv => RestIsIdle
  BY DEF BusyInv, RestIsIdle
<1>. QED BY <1>1, TypeInit, TypeStep, BusyInit, BusyStep, PTL DEF Spec
=============================================================================
