----------------------------- MODULE SignInProofs -----------------------------
(***************************************************************************)
(* Proofs about SignIn for any accounts, tabs and number of requests: the  *)
(* type invariant, that a tab shows the account of its token, that a new   *)
(* token is accepted, and that a tab that did not give up is signed in.    *)
(***************************************************************************)
EXTENDS SignIn, TLAPS

\* Requests and answers have the type of calls.
LEMMA AskType ==
    ASSUME NEW i \in 1..MaxCalls, NEW tab \in Tabs, NEW kind \in Kinds,
           NEW account \in Accounts \cup {None}, NEW t \in Nat
    PROVE  /\ Ask(i, tab, kind, account, t) \in Call
           /\ Ask(i, tab, kind, account, t).kind = kind
           /\ Ask(i, tab, kind, account, t).tab = tab
           /\ Ask(i, tab, kind, account, t).account = account
           /\ Ask(i, tab, kind, account, t).token = t
           /\ Ask(i, tab, kind, account, t).reply = "none"
BY DEF Ask, Call

LEMMA AnswerType ==
    ASSUME NEW c \in Call, NEW account \in Accounts \cup {None}, NEW t \in Nat,
           NEW reply \in {"ok", "refused", "lost"}
    PROVE  /\ Answer(c, account, t, reply) \in Call
           /\ Answer(c, account, t, reply).kind = c.kind
           /\ Answer(c, account, t, reply).tab = c.tab
           /\ Answer(c, account, t, reply).account = account
           /\ Answer(c, account, t, reply).token = t
           /\ Answer(c, account, t, reply).reply = reply
BY DEF Answer, Call

LEMMA StartType ==
    ASSUME NEW i \in 1..MaxCalls, NEW tab \in Tabs, NEW t \in Issued \cup {NoToken}
    PROVE  /\ Start(i, tab, t) \in Call /\ CallOK(Start(i, tab, t))
           /\ Start(i, tab, t).tab = tab
           /\ Start(i, tab, t).reply = "none"
           /\ Start(i, tab, t).kind = IF t = NoToken THEN "auto_login" ELSE "me"
<1>1. t \in Nat
  BY DEF Issued, NoToken
<1>2. "auto_login" \in Kinds /\ "me" \in Kinds /\ Demo \in Accounts \cup {None}
  BY AccountsAssumption DEF Kinds, AutoKinds
<1>3. CASE t = NoToken
  <2>. DEFINE c == Ask(i, tab, "auto_login", Demo, NoToken)
  <2>1. Start(i, tab, t) = c
    BY <1>3 DEF Start
  <2>2. /\ c \in Call /\ c.kind = "auto_login" /\ c.tab = tab /\ c.account = Demo
        /\ c.token = NoToken /\ c.reply = "none"
    BY <1>1, <1>2, <1>3, AskType
  <2>. HIDE DEF c
  <2>. QED
    BY <1>3, <2>1, <2>2 DEF CallOK, AutoKinds, FormKinds
<1>4. CASE t # NoToken
  <2>. DEFINE c == Ask(i, tab, "me", None, t)
  <2>1. Start(i, tab, t) = c
    BY <1>4 DEF Start
  <2>2. c \in Call /\ c.kind = "me" /\ c.tab = tab /\ c.token = t /\ c.reply = "none"
    BY <1>1, <1>2, AskType
  <2>. HIDE DEF c
  <2>. QED
    BY <1>4, <2>1, <2>2 DEF CallOK, AutoKinds, FormKinds
<1>. QED
  BY <1>3, <1>4

-----------------------------------------------------------------------------
\* A sign-in hands out the next token.
LEMMA LatestIsNew ==
    ASSUME TypeOK, NEW account
    PROVE  /\ Issue(account) = Append(tokens, account)
           /\ Len(Append(tokens, account)) = Len(tokens) + 1
           /\ Latest(Append(tokens, account), account) = Len(tokens) + 1
<1>. DEFINE new == Append(tokens, account)
            n == Len(tokens) + 1
            P(t) == new[t] = account /\ \A s \in (t + 1)..Len(new) : new[s] # account
<1>1. tokens \in Seq(registered)
  BY DEF TypeOK
<1>2. Len(new) = n /\ n \in Nat /\ new[n] = account /\ n \in 1..n
  BY <1>1
<1>3. P(n)
  BY <1>2
<1>4. \A t \in 1..n : P(t) => t = n
  <2>1. SUFFICES ASSUME NEW t \in 1..n, P(t), t # n PROVE FALSE
    OBVIOUS
  <2>2. n \in (t + 1)..Len(new)
    BY <1>2, <2>1
  <2>. QED
    BY <1>2, <2>1, <2>2
<1>. HIDE DEF P
<1>5. (CHOOSE t \in 1..n : P(t)) = n
  BY <1>2, <1>3, <1>4
<1>6. Latest(new, account) = CHOOSE t \in 1..n : P(t)
  BY <1>2 DEF Latest, P
<1>. QED
  BY <1>2, <1>5, <1>6 DEF Issue

NewToken == Len(tokens) + 1

\* What a sign-in changes.
LEMMA SignedInStep ==
    ASSUME TypeOK, NEW c \in calls, SignedIn(c), c.account \in Accounts
    PROVE  /\ tokens' = Append(tokens, c.account)
           /\ NewToken \in Nat /\ Issued' = Issued \cup {NewToken} /\ NewToken \notin Issued
           /\ tokens'[NewToken] = c.account
           /\ \A t \in Issued : tokens'[t] = tokens[t]
           /\ calls' = (calls \ {c}) \cup {Answer(c, c.account, NewToken, "ok")}
           /\ UNCHANGED <<revoked, expired>>
<1>1. tokens \in Seq(registered) /\ Len(tokens) \in Nat
  BY DEF TypeOK
<1>2. /\ tokens' = Append(tokens, c.account) /\ Len(tokens') = Len(tokens) + 1
      /\ Latest(tokens', c.account) = Len(tokens) + 1
  BY LatestIsNew DEF SignedIn, Issue
<1>3. Issued' = Issued \cup {Len(tokens) + 1} /\ Len(tokens) + 1 \notin Issued
  BY <1>1, <1>2 DEF Issued
<1>4. tokens'[Len(tokens) + 1] = c.account /\ \A t \in Issued : tokens'[t] = tokens[t]
  BY <1>1, <1>2 DEF Issued
<1>5. calls' = (calls \ {c}) \cup {Answer(c, c.account, Latest(tokens', c.account), "ok")}
  BY DEF SignedIn, Replied
<1>6. calls' = (calls \ {c}) \cup {Answer(c, c.account, Len(tokens) + 1, "ok")}
  BY <1>2, <1>5
<1>7. UNCHANGED <<revoked, expired>>
  BY DEF SignedIn
<1>8. tokens' = Append(tokens, c.account)
  BY <1>2
<1>9. NewToken = Len(tokens) + 1 /\ NewToken \in Nat
  BY <1>1 DEF NewToken
<1>. QED
  BY <1>3, <1>4, <1>6, <1>7, <1>8, <1>9

\* A call handled by the server, or lost.
LEMMA HandleCases ==
    ASSUME TypeOK, NEW c \in calls, Handle(c)
    PROVE  /\ UNCHANGED <<browser, turns>>
           /\ \/ /\ UNCHANGED server
                 /\ calls' = (calls \ {c}) \cup {Answer(c, c.account, c.token, "refused")}
              \/ /\ c.kind \in {"me", "api"} /\ UNCHANGED server /\ c.token \in Issued
                 /\ calls' = (calls \ {c}) \cup {Answer(c, tokens[c.token], c.token, "ok")}
              \/ /\ c.kind \in AutoKinds \cup FormKinds /\ SignedIn(c) /\ c.account \in Accounts
                 /\ registered' = registered \cup {c.account}
<1>1. CallOK(c)
  BY DEF TypeOK
<1>2. UNCHANGED <<browser, turns>>
  BY DEF Handle
<1>3. CASE HandleBearer(c)
  BY <1>2, <1>3 DEF HandleBearer, Refused, Replied, Valid
<1>4. c.kind \in AutoKinds \cup FormKinds => c.account \in Accounts
  BY <1>1, AccountsAssumption DEF CallOK
<1>5. CASE HandleLogin(c)
  <2>1. c.kind \in AutoKinds \cup FormKinds
    BY <1>5 DEF HandleLogin, AutoKinds, FormKinds
  <2>2. CASE Refused(c)
    BY <1>2, <2>2 DEF Refused, Replied
  <2>3. CASE c.account \in registered /\ SignedIn(c) /\ UNCHANGED registered
    BY <1>2, <1>4, <2>1, <2>3
  <2>. QED
    BY <1>5, <2>2, <2>3 DEF HandleLogin
<1>6. CASE HandleSignup(c)
  <2>1. c.kind \in AutoKinds \cup FormKinds
    BY <1>6 DEF HandleSignup, AutoKinds, FormKinds
  <2>2. CASE Refused(c)
    BY <1>2, <2>2 DEF Refused, Replied
  <2>3. CASE registered' = registered \cup {c.account} /\ SignedIn(c)
    BY <1>2, <1>4, <2>1, <2>3
  <2>. QED
    BY <1>6, <2>2, <2>3 DEF HandleSignup
<1>. QED
  BY <1>3, <1>5, <1>6 DEF Handle

-----------------------------------------------------------------------------
\* Requests stay well-formed as tokens are issued.
LEMMA CallsKept ==
    ASSUME TypeOK, Issued \subseteq Issued', NEW d \in Call, CallOK(d)',
           calls' \subseteq calls \cup {d}
    PROVE  calls' \subseteq Call /\ \A c \in calls' : CallOK(c)'
<1>1. \A c \in calls : c \in Call /\ CallOK(c)'
  BY DEF TypeOK, CallOK
<1>. QED
  BY <1>1

LEMMA CallsRemoved ==
    ASSUME TypeOK, Issued \subseteq Issued', calls' \subseteq calls
    PROVE  calls' \subseteq Call /\ \A c \in calls' : CallOK(c)'
BY DEF TypeOK, CallOK

\* What the server and the clock keep of the types.
ServerOK ==
    /\ registered \subseteq Accounts /\ tokens \in Seq(registered)
    /\ revoked \subseteq Issued /\ expired \subseteq Issued
BrowserOK ==
    /\ stored \in Issued \cup {NoToken}
    /\ token \in [Tabs -> Issued \cup {NoToken}]
    /\ user \in [Tabs -> {NoUser} \cup [account : Accounts, token : Issued]]
    /\ loading \in [Tabs -> BOOLEAN] /\ gaveUp \in [Tabs -> BOOLEAN]
CallsOK == calls \subseteq Call /\ \A c \in calls : CallOK(c)

LEMMA TypeParts == TypeOK <=> ServerOK /\ BrowserOK /\ CallsOK /\ turns \in 0..MaxTurns
BY DEF TypeOK, ServerOK, BrowserOK, CallsOK

LEMMA ServerSame ==
    ASSUME TypeOK, UNCHANGED server
    PROVE  ServerOK' /\ Issued' = Issued /\ UNCHANGED tokens
BY DEF TypeOK, ServerOK, server, Issued

LEMMA BrowserSame ==
    ASSUME TypeOK, UNCHANGED browser, Issued \subseteq Issued'
    PROVE  BrowserOK'
BY DEF TypeOK, BrowserOK, browser

LEMMA TypeInit == Init => TypeOK
<1>. SUFFICES ASSUME Init PROVE TypeOK
  OBVIOUS
<1>1. tokens \in Seq(registered) /\ Len(tokens) \in Issued \cup {NoToken}
  <2>1. CASE tokens = << >>
    BY <2>1 DEF NoToken
  <2>2. CASE tokens \in {<<a>> : a \in registered}
    <3>a. PICK a \in registered : tokens = <<a>>
      BY <2>2
    <3>b. <<a>> \in Seq(registered) /\ Len(<<a>>) = 1
      OBVIOUS
    <3>1. tokens \in Seq(registered) /\ Len(tokens) = 1
      BY <3>a, <3>b
    <3>. QED
      BY <3>1 DEF Issued
  <2>. QED
    BY <2>1, <2>2 DEF Init
<1>2. ServerOK
  BY <1>1 DEF Init, ServerOK
<1>3. BrowserOK
  BY <1>1 DEF Init, BrowserOK
<1>4. CallsOK
  <2>1. ASSUME NEW tab \in Tabs
        PROVE  Start(1, tab, stored) \in Call /\ CallOK(Start(1, tab, stored))
    BY <1>1, StartType, BoundsAssumption DEF Init
  <2>. QED
    BY <2>1 DEF Init, CallsOK
<1>. QED
  BY <1>2, <1>3, <1>4, TypeParts, BoundsAssumption DEF Init

LEMMA HandleTypes ==
    ASSUME TypeOK, NEW c \in calls, Handle(c)
    PROVE  TypeOK'
<1>1. c \in Call /\ CallOK(c) /\ c.token \in Nat /\ c.account \in Accounts \cup {None}
  BY DEF TypeOK, Call
<1>2. UNCHANGED <<browser, turns>>
  BY HandleCases
<1>3. ASSUME UNCHANGED server,
             calls' = (calls \ {c}) \cup {Answer(c, c.account, c.token, "refused")}
      PROVE  ServerOK' /\ BrowserOK' /\ CallsOK'
  <2>0. PICK d : d = Answer(c, c.account, c.token, "refused")
    OBVIOUS
  <2>1. /\ d \in Call /\ d.kind = c.kind /\ d.account = c.account /\ d.token = c.token
        /\ d.reply = "refused"
    BY <1>1, <2>0, AnswerType, SMTT(30)
  <2>2. ServerOK' /\ BrowserOK' /\ Issued' = Issued
    BY <1>2, <1>3, ServerSame, BrowserSame
  <2>3. CallOK(d)'
    BY <1>1, <2>1, <2>2 DEF CallOK
  <2>4. calls' \subseteq calls \cup {d}
    BY <1>3, <2>0
  <2>. QED
    BY <2>1, <2>2, <2>3, <2>4, CallsKept DEF CallsOK
<1>4. ASSUME c.kind \in {"me", "api"}, UNCHANGED server, c.token \in Issued,
             calls' = (calls \ {c}) \cup {Answer(c, tokens[c.token], c.token, "ok")}
      PROVE  ServerOK' /\ BrowserOK' /\ CallsOK'
  <2>0. PICK a \in Accounts : a = tokens[c.token]
    BY <1>4 DEF TypeOK, Issued
  <2>1. PICK d : d = Answer(c, a, c.token, "ok")
    OBVIOUS
  <2>a. a \in Accounts \cup {None} /\ c \in Call /\ c.token \in Nat
    BY <1>1, <2>0
  <2>b. d \in Call /\ d.kind = c.kind /\ d.account = a /\ d.token = c.token
    BY <2>1, <2>a, AnswerType, SMTT(30)
  <2>2. /\ d \in Call /\ d.kind = c.kind /\ d.account \in Accounts /\ d.token = c.token
    BY <2>0, <2>b
  <2>3. ServerOK' /\ BrowserOK' /\ Issued' = Issued
    BY <1>2, <1>4, ServerSame, BrowserSame
  <2>4. CallOK(d)'
    BY <1>4, <2>2, <2>3 DEF CallOK, AutoKinds, FormKinds
  <2>5. calls' \subseteq calls \cup {d}
    BY <1>4, <2>1, <2>0
  <2>. QED
    BY <2>2, <2>3, <2>4, <2>5, CallsKept DEF CallsOK
<1>5. ASSUME SignedIn(c), c.account \in Accounts, c.kind \in AutoKinds \cup FormKinds,
             registered' = registered \cup {c.account}
      PROVE  ServerOK' /\ BrowserOK' /\ CallsOK'
  <2>0. PICK d : d = Answer(c, c.account, NewToken, "ok")
    OBVIOUS
  <2>1. /\ tokens' = Append(tokens, c.account) /\ NewToken \in Nat
        /\ Issued' = Issued \cup {NewToken} /\ calls' = (calls \ {c}) \cup {d}
        /\ UNCHANGED <<revoked, expired>>
    BY <1>5, <2>0, SignedInStep
  <2>a. NewToken \in Nat /\ c \in Call /\ c.account \in Accounts \cup {None}
    BY <1>1, <2>1
  <2>2. /\ d \in Call /\ d.kind = c.kind /\ d.account = c.account /\ d.token = NewToken
    BY <2>0, <2>a, AnswerType
  <2>3. ServerOK'
    <3>1. tokens \in Seq(registered')
      BY <1>5 DEF TypeOK
    <3>2. Append(tokens, c.account) \in Seq(registered')
      BY <1>5, <3>1
    <3>. QED
      BY <1>5, <2>1, <3>2 DEF TypeOK, ServerOK
  <2>4. BrowserOK'
    BY <1>2, <2>1, BrowserSame
  <2>5. CallOK(d)'
    BY <1>1, <1>5, <2>1, <2>2 DEF CallOK, AutoKinds, FormKinds
  <2>. QED
    BY <2>1, <2>2, <2>3, <2>4, <2>5, CallsKept DEF CallsOK
<1>6. ServerOK' /\ BrowserOK' /\ CallsOK'
  BY <1>3, <1>4, <1>5, HandleCases
<1>. QED
  BY <1>2, <1>6 DEF TypeOK, ServerOK, BrowserOK, CallsOK

\* An answer delivered to its tab.
LEMMA DeliverTypes ==
    ASSUME TypeOK, NEW c \in calls, Deliver(c)
    PROVE  TypeOK'
<1>0. UNCHANGED <<server, turns>> /\ ServerOK' /\ Issued' = Issued
  BY ServerSame DEF Deliver
<1>1. /\ c \in Call /\ CallOK(c) /\ c.tab \in Tabs /\ c.id \in 1..MaxCalls
      /\ NoToken \in Nat /\ Demo \in Accounts \cup {None}
      /\ "auto_login" \in Kinds /\ "auto_signup" \in Kinds
  BY AccountsAssumption DEF TypeOK, Call, NoToken, Kinds, AutoKinds
<1>. SUFFICES BrowserOK' /\ CallsOK'
  BY <1>0 DEF TypeOK, ServerOK, BrowserOK, CallsOK
<1>2. CASE GetProfile(c)
  <2>1. c.token \in Issued /\ c.account \in Accounts
    BY <1>1, <1>2 DEF GetProfile, CallOK
  <2>2. BrowserOK'
    BY <1>0, <1>1, <1>2, <2>1 DEF GetProfile, Profile, Shown, TypeOK, BrowserOK
  <2>. QED
    BY <1>0, <1>2, <2>2, CallsRemoved DEF GetProfile, CallsOK
<1>3. CASE ProfileFails(c)
  <2>1. PICK d : d = Ask(c.id, c.tab, "auto_login", Demo, NoToken)
    OBVIOUS
  <2>2. /\ d \in Call /\ d.kind = "auto_login" /\ d.account = Demo /\ d.token = NoToken
        /\ d.reply = "none"
    BY <1>1, <2>1, AskType
  <2>3. CallOK(d)'
    BY <2>2 DEF CallOK, AutoKinds, FormKinds
  <2>4. calls' \subseteq calls \cup {d} /\ UNCHANGED browser
    BY <1>3, <2>1 DEF ProfileFails, Retry
  <2>. QED
    BY <1>0, <2>2, <2>3, <2>4, BrowserSame, CallsKept DEF CallsOK
<1>4. CASE GetToken(c)
  <2>1. c.token \in Issued /\ c.account \in Accounts
    BY <1>1, <1>4 DEF GetToken, CallOK, AutoKinds, FormKinds
  <2>2. BrowserOK'
    BY <1>0, <1>1, <1>4, <2>1 DEF GetToken, Shown, Tries, TypeOK, BrowserOK
  <2>3. PICK d : d = Start(c.id, c.tab, c.token)
    OBVIOUS
  <2>4. d \in Call /\ CallOK(d)
    BY <1>1, <2>1, <2>3, StartType
  <2>5. CallOK(d)'
    BY <1>0, <2>4 DEF CallOK
  <2>6. calls' \subseteq calls \cup {d}
    BY <1>4, <2>3 DEF GetToken, Effect
  <2>. QED
    BY <1>0, <2>2, <2>4, <2>5, <2>6, CallsKept DEF CallsOK
<1>5. CASE AutoLoginRefused(c)
  <2>1. PICK d : d = Ask(c.id, c.tab, "auto_signup", Demo, NoToken)
    OBVIOUS
  <2>2. /\ d \in Call /\ d.kind = "auto_signup" /\ d.account = Demo /\ d.token = NoToken
        /\ d.reply = "none"
    BY <1>1, <2>1, AskType
  <2>3. CallOK(d)'
    BY <2>2 DEF CallOK, AutoKinds, FormKinds
  <2>4. calls' \subseteq calls \cup {d} /\ UNCHANGED browser
    BY <1>5, <2>1 DEF AutoLoginRefused
  <2>. QED
    BY <1>0, <2>2, <2>3, <2>4, BrowserSame, CallsKept DEF CallsOK
<1>6. CASE AutoFails(c)
  <2>1. BrowserOK'
    BY <1>0, <1>1, <1>6 DEF AutoFails, Loaded, TypeOK, BrowserOK
  <2>. QED
    BY <1>0, <1>6, <2>1, CallsRemoved DEF AutoFails, CallsOK
<1>7. CASE FormFails(c)
  BY <1>0, <1>7, BrowserSame, CallsRemoved DEF FormFails, CallsOK
<1>8. CASE ApiAnswered(c)
  <2>1. BrowserOK'
    BY <1>0, <1>1, <1>8 DEF ApiAnswered, TypeOK, BrowserOK
  <2>. QED
    BY <1>0, <1>8, <2>1, CallsRemoved DEF ApiAnswered, CallsOK
<1>. QED
  BY <1>2, <1>3, <1>4, <1>5, <1>6, <1>7, <1>8 DEF Deliver

\* What users, the clock and faults do.
LEMMA TurnTypes ==
    ASSUME TypeOK,
           \/ \E c \in calls : Lose(c)
           \/ \E t \in Issued : Expire(t) \/ Revoke(t)
           \/ \E a \in Accounts : Register(a)
           \/ \E tab \in Tabs : \E i \in 1..MaxCalls :
                 Submit(tab, i) \/ CallApi(tab, i) \/ Logout(tab, i)
           \/ \E tab \in Tabs : Reload(tab)
    PROVE  TypeOK'
<1>0. turns' \in 0..MaxTurns
  BY BoundsAssumption DEF TypeOK, Turn, Lose, Expire, Revoke, Register, Submit, CallApi, Logout, Reload
<1>1. NoToken \in Nat /\ None \in Accounts \cup {None} /\ "api" \in Kinds
  BY DEF NoToken, Kinds
<1>. SUFFICES ServerOK' /\ BrowserOK' /\ CallsOK'
  BY <1>0 DEF TypeOK, ServerOK, BrowserOK, CallsOK
<1>2. ASSUME NEW c \in calls, Lose(c)
      PROVE  ServerOK' /\ BrowserOK' /\ CallsOK'
  <2>1. PICK d : d = Answer(c, c.account, c.token, "lost")
    OBVIOUS
  <2>a. c \in Call /\ c.account \in Accounts \cup {None} /\ c.token \in Nat
    BY DEF TypeOK, Call
  <2>b. CallOK(c)
    BY DEF TypeOK
  <2>2. /\ d \in Call /\ d.kind = c.kind /\ d.account = c.account /\ d.token = c.token
        /\ d.reply = "lost"
    BY <2>1, <2>a DEF Answer, Call
  <2>3. ServerOK' /\ BrowserOK' /\ Issued' = Issued
    BY <1>2, ServerSame, BrowserSame DEF Lose
  <2>4. CallOK(d)'
    BY <2>b, <2>2, <2>3 DEF CallOK
  <2>5. calls' \subseteq calls \cup {d}
    BY <1>2, <2>1 DEF Lose, Replied
  <2>. QED
    BY <2>2, <2>3, <2>4, <2>5, CallsKept DEF CallsOK
<1>3. ASSUME NEW t \in Issued, Expire(t) \/ Revoke(t)
      PROVE  ServerOK' /\ BrowserOK' /\ CallsOK'
  <2>1. /\ UNCHANGED <<registered, tokens, browser, calls>>
        /\ revoked' \subseteq revoked \cup {t} /\ expired' \subseteq expired \cup {t}
    BY <1>3 DEF Expire, Revoke
  <2>2. Issued' = Issued
    BY <2>1 DEF Issued
  <2>3. ServerOK'
    BY <2>1, <2>2 DEF TypeOK, ServerOK
  <2>. QED
    BY <2>1, <2>2, <2>3, BrowserSame, CallsRemoved DEF CallsOK
<1>b. ASSUME NEW a \in Accounts, Register(a)
      PROVE  ServerOK' /\ BrowserOK' /\ CallsOK'
  <2>1. /\ registered' = registered \cup {a}
        /\ UNCHANGED <<tokens, revoked, expired, browser, calls>>
    BY <1>b DEF Register
  <2>2. Issued' = Issued
    BY <2>1 DEF Issued
  <2>3. tokens \in Seq(registered \cup {a})
    BY DEF TypeOK
  <2>4. ServerOK'
    BY <2>1, <2>2, <2>3 DEF TypeOK, ServerOK
  <2>. QED
    BY <2>1, <2>2, <2>4, BrowserSame, CallsRemoved DEF CallsOK
<1>4. ASSUME NEW tab \in Tabs, NEW i \in 1..MaxCalls, Submit(tab, i)
      PROVE  ServerOK' /\ BrowserOK' /\ CallsOK'
  <2>1. PICK kind \in FormKinds, a \in Accounts :
            calls' = calls \cup {Ask(i, tab, kind, a, NoToken)}
    BY <1>4 DEF Submit
  <2>2. PICK d : d = Ask(i, tab, kind, a, NoToken)
    OBVIOUS
  <2>a. kind \in Kinds /\ a \in Accounts \cup {None}
    BY DEF Kinds
  <2>3. /\ d \in Call /\ d.kind = kind /\ d.account = a /\ d.token = NoToken
        /\ d.reply = "none"
    BY <1>1, <2>2, <2>a, AskType
  <2>4. ServerOK' /\ BrowserOK' /\ Issued' = Issued
    BY <1>4, ServerSame, BrowserSame DEF Submit
  <2>5. CallOK(d)'
    BY <2>3 DEF CallOK, AutoKinds, FormKinds
  <2>6. calls' \subseteq calls \cup {d}
    BY <2>1, <2>2
  <2>. QED
    BY <2>3, <2>4, <2>5, <2>6, CallsKept DEF CallsOK
<1>5. ASSUME NEW tab \in Tabs, NEW i \in 1..MaxCalls, CallApi(tab, i)
      PROVE  ServerOK' /\ BrowserOK' /\ CallsOK'
  <2>1. PICK d : d = Ask(i, tab, "api", None, stored)
    OBVIOUS
  <2>a. stored \in Nat /\ stored \in Issued \cup {NoToken}
    BY DEF TypeOK, Issued, NoToken
  <2>2. d \in Call /\ d.kind = "api" /\ d.token = stored /\ d.reply = "none"
    BY <1>1, <2>1, <2>a, AskType
  <2>3. ServerOK' /\ BrowserOK' /\ Issued' = Issued
    BY <1>5, ServerSame, BrowserSame DEF CallApi
  <2>4. CallOK(d)'
    BY <2>a, <2>2, <2>3 DEF CallOK, AutoKinds, FormKinds
  <2>5. calls' \subseteq calls \cup {d}
    BY <1>5, <2>1 DEF CallApi
  <2>. QED
    BY <2>2, <2>3, <2>4, <2>5, CallsKept DEF CallsOK
<1>6. ASSUME NEW tab \in Tabs, NEW i \in 1..MaxCalls, Logout(tab, i)
      PROVE  ServerOK' /\ BrowserOK' /\ CallsOK'
  <2>1. ServerOK' /\ Issued' = Issued
    BY <1>6, ServerSame DEF Logout
  <2>2. BrowserOK'
    BY <1>6, <2>1 DEF Logout, Tries, TypeOK, BrowserOK
  <2>3. PICK d : d = Start(i, tab, NoToken)
    OBVIOUS
  <2>4. d \in Call /\ CallOK(d)
    BY <2>3, StartType
  <2>5. CallOK(d)'
    BY <2>1, <2>4 DEF CallOK
  <2>6. calls' \subseteq calls \cup {d}
    BY <1>6, <2>3 DEF Logout, Effect
  <2>. QED
    BY <2>1, <2>2, <2>4, <2>5, <2>6, CallsKept DEF CallsOK
<1>7. ASSUME NEW tab \in Tabs, Reload(tab)
      PROVE  ServerOK' /\ BrowserOK' /\ CallsOK'
  <2>1. ServerOK' /\ Issued' = Issued
    BY <1>7, ServerSame DEF Reload
  <2>2. BrowserOK'
    BY <1>7, <2>1 DEF Reload, TypeOK, BrowserOK
  <2>3. PICK d : d = Start(1, tab, stored)
    OBVIOUS
  <2>4. d \in Call /\ CallOK(d)
    BY <2>3, StartType, BoundsAssumption DEF TypeOK
  <2>5. CallOK(d)'
    BY <2>1, <2>4 DEF CallOK
  <2>6. calls' \subseteq calls \cup {d}
    BY <1>7, <2>3 DEF Reload
  <2>. QED
    BY <2>1, <2>2, <2>4, <2>5, <2>6, CallsKept DEF CallsOK
<1>. QED
  BY <1>2, <1>3, <1>b, <1>4, <1>5, <1>6, <1>7

LEMMA TypeStep == TypeOK /\ [Next]_vars => TypeOK'
<1>. SUFFICES ASSUME TypeOK, [Next]_vars PROVE TypeOK'
  OBVIOUS
<1>1. CASE Network
  BY <1>1, HandleTypes, DeliverTypes DEF Network
<1>2. CASE UNCHANGED vars
  BY <1>2 DEF vars, server, browser, TypeOK, CallOK, Issued
<1>. QED
  BY <1>1, <1>2, TurnTypes DEF Next, AtRest

\* In every reachable state, what the tabs hold are tokens the server issued, to
\* accounts it knows.
THEOREM TypeCorrect == Spec => []TypeOK
<1>. QED
  BY TypeInit, TypeStep, PTL DEF Spec

-----------------------------------------------------------------------------
\* Requests that a step adds, and those it answers.
NewAnswer(d) ==
    d.reply = "ok" =>
        \/ d.kind \in {"me", "api"} /\ d.token \in Issued /\ d.account = tokens[d.token]
        \/ /\ d.kind \in AutoKinds \cup FormKinds /\ d.token = NewToken
           /\ NewToken \in Issued' /\ NewToken \notin Issued /\ d.account = tokens'[NewToken]
           /\ UNCHANGED <<revoked, expired>>

LEMMA HandleAnswers ==
    ASSUME TypeOK, NEW c \in calls, Handle(c)
    PROVE  /\ \A t \in Issued : t \in Issued' /\ tokens'[t] = tokens[t]
           /\ \A d \in calls' \ calls : NewAnswer(d)
<1>1. c \in Call /\ c.token \in Nat /\ c.account \in Accounts \cup {None}
  BY DEF TypeOK, Call
<1>2. ASSUME UNCHANGED server,
             calls' = (calls \ {c}) \cup {Answer(c, c.account, c.token, "refused")}
      PROVE  /\ \A t \in Issued : t \in Issued' /\ tokens'[t] = tokens[t]
             /\ \A d \in calls' \ calls : NewAnswer(d)
  <2>1. Answer(c, c.account, c.token, "refused").reply = "refused"
    BY <1>1, AnswerType, SMTT(30)
  <2>. QED
    BY <1>2, <2>1, ServerSame DEF NewAnswer
<1>3. ASSUME c.kind \in {"me", "api"}, UNCHANGED server, c.token \in Issued,
             calls' = (calls \ {c}) \cup {Answer(c, tokens[c.token], c.token, "ok")}
      PROVE  /\ \A t \in Issued : t \in Issued' /\ tokens'[t] = tokens[t]
             /\ \A d \in calls' \ calls : NewAnswer(d)
  <2>1. tokens[c.token] \in Accounts \cup {None}
    BY <1>3 DEF TypeOK, Issued
  <2>2. PICK e : e = Answer(c, tokens[c.token], c.token, "ok")
    OBVIOUS
  <2>3. e.kind = c.kind /\ e.token = c.token /\ e.account = tokens[c.token]
    BY <1>1, <2>1, <2>2 DEF Answer, Call
  <2>4. NewAnswer(e)
    BY <1>3, <2>3 DEF NewAnswer
  <2>. QED
    BY <1>3, <2>2, <2>4, ServerSame
<1>4. ASSUME SignedIn(c), c.account \in Accounts, c.kind \in AutoKinds \cup FormKinds
      PROVE  /\ \A t \in Issued : t \in Issued' /\ tokens'[t] = tokens[t]
             /\ \A d \in calls' \ calls : NewAnswer(d)
  <2>1. /\ NewToken \in Nat /\ Issued' = Issued \cup {NewToken} /\ NewToken \notin Issued
        /\ tokens'[NewToken] = c.account
        /\ \A t \in Issued : tokens'[t] = tokens[t]
        /\ calls' = (calls \ {c}) \cup {Answer(c, c.account, NewToken, "ok")}
        /\ UNCHANGED <<revoked, expired>>
    BY <1>4, SignedInStep
  <2>2. PICK e : e = Answer(c, c.account, NewToken, "ok")
    OBVIOUS
  <2>a. NewToken \in Nat
    BY <2>1
  <2>3. e.kind = c.kind /\ e.token = NewToken /\ e.account = c.account
    BY <1>1, <2>a, <2>2 DEF Answer, Call
  <2>4. NewAnswer(e)
    BY <1>4, <2>1, <2>3 DEF NewAnswer
  <2>. QED
    BY <2>1, <2>2, <2>4
<1>. QED
  BY <1>2, <1>3, <1>4, HandleCases

\* No other step answers "ok" or touches the accounts of tokens.
LEMMA OtherAnswers ==
    ASSUME TypeOK, Next, ~\E c \in calls : Handle(c)
    PROVE  /\ Issued' = Issued /\ UNCHANGED tokens
           /\ \A d \in calls' \ calls : d.reply # "ok"
<1>0. \A i, tab, kind, account, t : Ask(i, tab, kind, account, t).reply = "none"
  BY DEF Ask
<1>1. \A i, tab, t : Start(i, tab, t).reply = "none"
  BY <1>0 DEF Start
<1>2. ASSUME NEW c \in calls, Deliver(c)
      PROVE  UNCHANGED tokens /\ \A d \in calls' \ calls : d.reply # "ok"
  <2>1. CASE GetProfile(c) \/ AutoFails(c) \/ FormFails(c) \/ ApiAnswered(c)
    BY <1>2, <2>1 DEF Deliver, server, GetProfile, AutoFails, FormFails, ApiAnswered
  <2>2. CASE ProfileFails(c) \/ AutoLoginRefused(c)
    BY <1>0, <1>2, <2>2 DEF Deliver, server, ProfileFails, AutoLoginRefused, Retry
  <2>3. CASE GetToken(c)
    BY <1>1, <1>2, <2>3 DEF Deliver, server, GetToken, Effect
  <2>. QED
    BY <1>2, <2>1, <2>2, <2>3 DEF Deliver
<1>3. ASSUME NEW c \in calls, Lose(c)
      PROVE  UNCHANGED tokens /\ \A d \in calls' \ calls : d.reply # "ok"
  <2>1. c \in Call /\ c.token \in Nat /\ c.account \in Accounts \cup {None}
    BY DEF TypeOK, Call
  <2>2. Answer(c, c.account, c.token, "lost").reply = "lost"
    BY <2>1, AnswerType, SMTT(30)
  <2>. QED
    BY <1>3, <2>2 DEF Lose, Replied, server
<1>4. ASSUME NEW t \in Issued, Expire(t) \/ Revoke(t)
      PROVE  UNCHANGED tokens /\ \A d \in calls' \ calls : d.reply # "ok"
  BY <1>4 DEF Expire, Revoke
<1>b. ASSUME NEW a \in Accounts, Register(a)
      PROVE  UNCHANGED tokens /\ \A d \in calls' \ calls : d.reply # "ok"
  BY <1>b DEF Register
<1>5. ASSUME NEW tab \in Tabs, NEW i \in 1..MaxCalls,
             Submit(tab, i) \/ CallApi(tab, i) \/ Logout(tab, i)
      PROVE  UNCHANGED tokens /\ \A d \in calls' \ calls : d.reply # "ok"
  BY <1>0, <1>1, <1>5 DEF Submit, CallApi, Logout, Effect, server
<1>6. ASSUME NEW tab \in Tabs, Reload(tab)
      PROVE  UNCHANGED tokens /\ \A d \in calls' \ calls : d.reply # "ok"
  BY <1>1, <1>6 DEF Reload, server
<1>7. ASSUME AtRest
      PROVE  UNCHANGED tokens /\ \A d \in calls' \ calls : d.reply # "ok"
  BY <1>7 DEF AtRest, vars, server
<1>a. \/ \E c \in calls : Deliver(c)
      \/ \E c \in calls : Lose(c)
      \/ \E t \in Issued : Expire(t) \/ Revoke(t)
      \/ \E a \in Accounts : Register(a)
      \/ \E tab \in Tabs : \E i \in 1..MaxCalls :
            Submit(tab, i) \/ CallApi(tab, i) \/ Logout(tab, i)
      \/ \E tab \in Tabs : Reload(tab)
      \/ AtRest
  BY DEF Next, Network
<1>8. UNCHANGED tokens /\ \A d \in calls' \ calls : d.reply # "ok"
  BY <1>2, <1>3, <1>b, <1>4, <1>5, <1>6, <1>7, <1>a
<1>9. Issued' = Issued
  <2>1. tokens' = tokens
    BY <1>8
  <2>. QED
    BY <2>1 DEF Issued
<1>. QED
  BY <1>8, <1>9

LEMMA Answers ==
    ASSUME TypeOK, [Next]_vars
    PROVE  /\ \A t \in Issued : t \in Issued' /\ tokens'[t] = tokens[t]
           /\ \A d \in calls' \ calls : NewAnswer(d)
<1>1. CASE UNCHANGED vars
  BY <1>1 DEF vars, server, Issued
<1>2. CASE Next
  BY <1>2, HandleAnswers, OtherAnswers DEF NewAnswer
<1>. QED
  BY <1>1, <1>2

\* A sign-in hands out a token that is accepted, whatever became of the tokens the
\* account had.
THEOREM NewTokensWork == Spec => NewTokenIsAccepted
<1>1. ASSUME TypeOK, [Next]_vars, NEW c \in calls' \ calls,
             c.kind \in AutoKinds \cup FormKinds, c.reply = "ok"
      PROVE  Valid(c.token)'
  <2>1. NewAnswer(c)
    BY <1>1, Answers
  <2>2. /\ c.token = NewToken /\ NewToken \in Issued' /\ NewToken \notin Issued
        /\ UNCHANGED <<revoked, expired>>
    BY <1>1, <2>1 DEF NewAnswer, AutoKinds, FormKinds
  <2>. QED
    BY <1>1, <2>2 DEF Valid, TypeOK
<1>2. TypeOK /\ [Next]_vars =>
        [\A c \in calls' \ calls :
            c.kind \in AutoKinds \cup FormKinds /\ c.reply = "ok" => Valid(c.token)']_vars
  BY <1>1
<1>. QED
  BY <1>2, TypeCorrect, PTL DEF Spec, NewTokenIsAccepted

-----------------------------------------------------------------------------
LEMMA OwnInit == Init => OwnInv
<1>. SUFFICES ASSUME Init PROVE OwnInv
  OBVIOUS
<1>1. \A tab \in Tabs : Start(1, tab, stored).reply = "none"
  BY DEF Start, Ask
<1>2. RepliesAreOwn
  BY <1>1 DEF Init, RepliesAreOwn
<1>3. ProfileIsOwn
  BY DEF Init, ProfileIsOwn
<1>. QED
  BY <1>2, <1>3 DEF OwnInv

\* A tab's user changes only to the account and token of an answer, or to none.
LEMMA UserStep ==
    ASSUME TypeOK, [Next]_vars, NEW tab \in Tabs
    PROVE  \/ user'[tab] = user[tab]
           \/ user'[tab] = NoUser
           \/ \E c \in calls :
                 /\ c.kind # "api" /\ c.reply = "ok"
                 /\ user'[tab] = [account |-> c.account, token |-> c.token]
<1>0. user \in [Tabs -> {NoUser} \cup [account : Accounts, token : Issued]]
  BY DEF TypeOK
<1>1. CASE UNCHANGED browser
  BY <1>1 DEF browser
<1>2. ASSUME NEW c \in calls, Deliver(c)
      PROVE  \/ user'[tab] = user[tab]
             \/ /\ c.kind # "api" /\ c.reply = "ok"
                /\ user'[tab] = [account |-> c.account, token |-> c.token]
  <2>1. CASE GetProfile(c) \/ GetToken(c)
    BY <1>0, <2>1 DEF GetProfile, GetToken, Profile, Shown, AutoKinds, FormKinds
  <2>2. CASE ~(GetProfile(c) \/ GetToken(c))
    BY <1>2, <2>2 DEF Deliver, browser, ProfileFails, AutoLoginRefused, AutoFails, FormFails, ApiAnswered
  <2>. QED
    BY <2>1, <2>2
<1>3. ASSUME NEW t2 \in Tabs, NEW i \in 1..MaxCalls, Logout(t2, i)
      PROVE  user'[tab] = user[tab] \/ user'[tab] = NoUser
  BY <1>0, <1>3 DEF Logout
<1>4. ASSUME NEW t2 \in Tabs, Reload(t2)
      PROVE  user'[tab] = user[tab] \/ user'[tab] = NoUser
  BY <1>0, <1>4 DEF Reload
<1>5. \/ UNCHANGED browser
      \/ \E c \in calls : Deliver(c)
      \/ \E t2 \in Tabs : \E i \in 1..MaxCalls : Logout(t2, i)
      \/ \E t2 \in Tabs : Reload(t2)
  BY DEF Next, Network, Handle, Lose, Expire, Revoke, Register, Submit, CallApi, AtRest, vars
<1>. QED
  BY <1>1, <1>2, <1>3, <1>4, <1>5

LEMMA OwnStep == TypeOK /\ OwnInv /\ [Next]_vars => OwnInv'
<1>. SUFFICES ASSUME TypeOK, OwnInv, [Next]_vars PROVE OwnInv'
  OBVIOUS
<1>1. \A c \in calls : c.kind # "api" /\ c.reply = "ok" =>
          c.token \in Issued /\ c.account = tokens[c.token]
  BY DEF TypeOK, CallOK, OwnInv, RepliesAreOwn
<1>2. \A t \in Issued : t \in Issued' /\ tokens'[t] = tokens[t]
  BY Answers
<1>3. RepliesAreOwn'
  <2>1. SUFFICES ASSUME NEW c \in calls', c.kind # "api", c.reply = "ok"
                 PROVE  c.account = tokens'[c.token]
    BY DEF RepliesAreOwn
  <2>2. CASE c \in calls
    BY <1>1, <1>2, <2>1, <2>2
  <2>3. CASE c \notin calls
    <3>1. NewAnswer(c)
      BY <2>3, Answers
    <3>. QED
      BY <1>2, <2>1, <3>1 DEF NewAnswer
  <2>. QED
    BY <2>2, <2>3
<1>4. ProfileIsOwn'
  <2>1. SUFFICES ASSUME NEW tab \in Tabs, user'[tab] # NoUser
                 PROVE  user'[tab].account = tokens'[user'[tab].token]
    BY DEF ProfileIsOwn, NoUser
  <2>2. CASE user'[tab] = user[tab]
    <3>1. user[tab].account = tokens[user[tab].token] /\ user[tab].token \in Issued
      BY <2>1, <2>2 DEF TypeOK, OwnInv, ProfileIsOwn
    <3>. QED
      BY <1>2, <2>2, <3>1
  <2>3. ASSUME NEW c \in calls, c.kind # "api", c.reply = "ok",
               user'[tab] = [account |-> c.account, token |-> c.token]
        PROVE  user'[tab].account = tokens'[user'[tab].token]
    BY <1>1, <1>2, <2>3
  <2>. QED
    BY <2>1, <2>2, <2>3, UserStep
<1>. QED
  BY <1>3, <1>4 DEF OwnInv

\* A tab shows an account with a token issued to it.
THEOREM ShownIsOwn == Spec => []ProfileIsOwn
<1>1. Spec => [](TypeOK /\ OwnInv)
  BY TypeInit, TypeStep, OwnInit, OwnStep, PTL DEF Spec
<1>2. OwnInv => ProfileIsOwn
  BY DEF OwnInv
<1>. QED
  BY <1>1, <1>2, PTL

-----------------------------------------------------------------------------
\* What the tabs show and hold.
TabOf(tab) == <<user[tab], token[tab], gaveUp[tab]>>

\* A tab nothing happened to keeps trying if its tries stay.
LEMMA StillTrying ==
    ASSUME NEW tab \in Tabs, TryInv, TabOf(tab)' = TabOf(tab),
           \A c \in calls : c.tab = tab /\ c.kind \in AutoKinds \cup {"me"} =>
               \E d \in calls' : d.tab = tab /\ \/ d.kind \in AutoKinds
                                                \/ d.kind = "me" /\ c.kind = "me"
    PROVE  ~gaveUp'[tab] /\ (user'[tab] = NoUser \/ token'[tab] = NoToken) => Trying(tab)'
<1>1. /\ user'[tab] = user[tab] /\ token'[tab] = token[tab] /\ gaveUp'[tab] = gaveUp[tab]
  BY DEF TabOf
<1>. SUFFICES ASSUME ~gaveUp'[tab], user'[tab] = NoUser \/ token'[tab] = NoToken
              PROVE  Trying(tab)'
  OBVIOUS
<1>2. Trying(tab)
  BY <1>1 DEF TryInv
<1>3. PICK c \in calls : /\ c.tab = tab
                         /\ c.kind \in AutoKinds \/ (c.kind = "me" /\ token[tab] # NoToken)
  BY <1>2 DEF Trying
<1>4. PICK d \in calls' : d.tab = tab /\ \/ d.kind \in AutoKinds
                                         \/ d.kind = "me" /\ c.kind = "me"
  BY <1>3
<1>5. c.kind = "me" => c.kind \notin AutoKinds
  BY DEF AutoKinds
<1>. QED
  BY <1>1, <1>3, <1>4, <1>5 DEF Trying

LEMMA TryInit == Init => TryInv
<1>. SUFFICES ASSUME Init, NEW tab \in Tabs PROVE Trying(tab)
  BY DEF TryInv
<1>1. PICK c : c = Start(1, tab, stored)
  OBVIOUS
<1>2. c \in calls /\ token[tab] = stored /\ 1 \in 1..MaxCalls /\ stored \in Issued \cup {NoToken}
  BY <1>1, TypeInit, BoundsAssumption DEF Init, TypeOK
<1>3. c.tab = tab /\ c.kind = IF stored = NoToken THEN "auto_login" ELSE "me"
  BY <1>1, <1>2, StartType
<1>. QED
  BY <1>2, <1>3 DEF Trying, AutoKinds

\* An answer is delivered.
LEMMA DeliverTries ==
    ASSUME TypeOK, TryInv, NEW c \in calls, Deliver(c), NEW tab \in Tabs
    PROVE  ~gaveUp'[tab] /\ (user'[tab] = NoUser \/ token'[tab] = NoToken) => Trying(tab)'
<1>0. /\ c.tab \in Tabs /\ c \in Call /\ CallOK(c)
      /\ user \in [Tabs -> {NoUser} \cup [account : Accounts, token : Issued]]
      /\ token \in [Tabs -> Issued \cup {NoToken}] /\ gaveUp \in [Tabs -> BOOLEAN]
  BY DEF TypeOK, Call
<1>. DEFINE Others == \A d \in calls : d.tab = tab /\ d.kind \in AutoKinds \cup {"me"} =>
                          \E e \in calls' : e.tab = tab /\ \/ e.kind \in AutoKinds
                                                           \/ e.kind = "me" /\ d.kind = "me"
<1>1. CASE c.tab # tab
  <2>1. TabOf(tab)' = TabOf(tab)
    BY <1>0, <1>1 DEF TabOf, Deliver, GetProfile, ProfileFails, GetToken, AutoLoginRefused,
        AutoFails, FormFails, ApiAnswered, Profile, Shown, Tries, browser
  <2>2. calls \ {c} \subseteq calls'
    BY DEF Deliver, GetProfile, ProfileFails, GetToken, AutoLoginRefused,
        AutoFails, FormFails, ApiAnswered
  <2>3. Others
    BY <1>1, <2>2
  <2>. QED
    BY <2>1, <2>3, StillTrying
<1>2. CASE c.tab = tab
  <2>1. CASE GetProfile(c)
    <3>1. c.account \in Accounts /\ c.kind = "me" /\ c.kind \notin AutoKinds
      BY <1>0, <2>1 DEF GetProfile, CallOK, AutoKinds
    <3>2. user'[tab] = [account |-> c.account, token |-> c.token] /\ UNCHANGED <<token, gaveUp>>
      BY <1>0, <1>2, <2>1 DEF GetProfile, Profile, Shown
    <3>3. user'[tab] # NoUser
      BY <3>1, <3>2, AccountsAssumption DEF NoUser
    <3>4. SUFFICES ASSUME ~gaveUp[tab], token[tab] = NoToken PROVE Trying(tab)'
      BY <3>2, <3>3
    <3>5. PICK d \in calls : d.tab = tab /\ d.kind \in AutoKinds
      BY <3>4 DEF TryInv, Trying
    <3>6. d \in calls'
      BY <2>1, <3>1, <3>5 DEF GetProfile
    <3>. QED
      BY <3>5, <3>6 DEF Trying
  <2>2. CASE ProfileFails(c) \/ AutoLoginRefused(c)
    <3>1. PICK kind \in AutoKinds : Ask(c.id, c.tab, kind, Demo, NoToken) \in calls'
      BY <2>2 DEF ProfileFails, AutoLoginRefused, Retry, AutoKinds
    <3>2. /\ Ask(c.id, c.tab, kind, Demo, NoToken).tab = tab
          /\ Ask(c.id, c.tab, kind, Demo, NoToken).kind = kind
      BY <1>2 DEF Ask
    <3>. QED
      BY <3>1, <3>2 DEF Trying
  <2>3. CASE GetToken(c)
    <3>1. c.account \in Accounts /\ c.token \in Issued
      BY <1>0, <2>3 DEF GetToken, CallOK, AutoKinds, FormKinds
    <3>2. user'[tab] = [account |-> c.account, token |-> c.token] /\ token'[tab] = c.token
      BY <1>0, <1>2, <2>3 DEF GetToken, Shown
    <3>. QED
      BY <3>1, <3>2, AccountsAssumption DEF NoUser, NoToken, Issued
  <2>4. CASE AutoFails(c)
    BY <1>0, <1>2, <2>4 DEF AutoFails
  <2>5. CASE FormFails(c) \/ ApiAnswered(c)
    <3>1. TabOf(tab)' = TabOf(tab) /\ calls' = calls \ {c}
      BY <2>5 DEF TabOf, FormFails, ApiAnswered, browser
    <3>2. c.kind \notin AutoKinds \cup {"me"}
      BY <2>5 DEF FormFails, ApiAnswered, AutoKinds, FormKinds
    <3>3. Others
      BY <3>1, <3>2
    <3>. QED
      BY <3>1, <3>3, StillTrying
  <2>. QED
    BY <2>1, <2>2, <2>3, <2>4, <2>5 DEF Deliver
<1>. QED
  BY <1>1, <1>2

\* A request is answered by the server or lost: it stays, with its kind.
LEMMA AnswerTries ==
    ASSUME TypeOK, TryInv, NEW c \in calls, UNCHANGED browser, NEW tab \in Tabs,
           NEW e, e.tab = c.tab, e.kind = c.kind, calls' = (calls \ {c}) \cup {e}
    PROVE  ~gaveUp'[tab] /\ (user'[tab] = NoUser \/ token'[tab] = NoToken) => Trying(tab)'
<1>1. TabOf(tab)' = TabOf(tab)
  BY DEF TabOf, browser
<1>2. \A d \in calls : d \in calls' \/ (d = c /\ e \in calls')
  OBVIOUS
<1>3. \A d \in calls : d.tab = tab /\ d.kind \in AutoKinds \cup {"me"} =>
          \E f \in calls' : f.tab = tab /\ \/ f.kind \in AutoKinds
                                           \/ f.kind = "me" /\ d.kind = "me"
  BY <1>2
<1>. QED
  BY <1>1, <1>3, StillTrying

LEMMA MoreTries ==
    ASSUME TryInv, NEW tab \in Tabs, TabOf(tab)' = TabOf(tab),
           \A c \in calls : c.tab = tab => c \in calls'
    PROVE  ~gaveUp'[tab] /\ (user'[tab] = NoUser \/ token'[tab] = NoToken) => Trying(tab)'
BY StillTrying

LEMMA TryStep == TypeOK /\ TryInv /\ [Next]_vars => TryInv'
<1>. SUFFICES ASSUME TypeOK, TryInv, [Next]_vars, NEW tab \in Tabs
              PROVE  ~gaveUp'[tab] /\ (user'[tab] = NoUser \/ token'[tab] = NoToken) => Trying(tab)'
  BY DEF TryInv
<1>. DEFINE Goal == ~gaveUp'[tab] /\ (user'[tab] = NoUser \/ token'[tab] = NoToken) => Trying(tab)'
<1>0. /\ user \in [Tabs -> {NoUser} \cup [account : Accounts, token : Issued]]
      /\ token \in [Tabs -> Issued \cup {NoToken}] /\ gaveUp \in [Tabs -> BOOLEAN]
      /\ NoToken \in Issued \cup {NoToken} /\ stored \in Issued \cup {NoToken}
  BY DEF TypeOK
<1>1. ASSUME NEW c \in calls, Handle(c) \/ Lose(c) PROVE Goal
  <2>1. PICK account, t, reply : calls' = (calls \ {c}) \cup {Answer(c, account, t, reply)}
    BY <1>1, HandleCases, SignedInStep DEF Lose, Replied
  <2>2. PICK e : e = Answer(c, account, t, reply)
    OBVIOUS
  <2>3. e.tab = c.tab /\ e.kind = c.kind
    BY <2>2 DEF Answer, TypeOK, Call
  <2>4. UNCHANGED browser
    BY <1>1 DEF Handle, Lose
  <2>. QED
    BY <2>1, <2>2, <2>3, <2>4, AnswerTries
<1>2. ASSUME NEW c \in calls, Deliver(c) PROVE Goal
  BY <1>2, DeliverTries
<1>3. ASSUME UNCHANGED browser, calls \subseteq calls' PROVE Goal
  <2>1. TabOf(tab)' = TabOf(tab)
    BY <1>3 DEF TabOf, browser
  <2>. QED
    BY <1>3, <2>1, MoreTries
<1>4. ASSUME NEW t2 \in Tabs, NEW i \in 1..MaxCalls, Logout(t2, i) PROVE Goal
  <2>1. CASE t2 # tab
    <3>1. TabOf(tab)' = TabOf(tab) /\ calls \subseteq calls'
      BY <1>0, <1>4, <2>1 DEF Logout, Tries, TabOf
    <3>. QED
      BY <3>1, MoreTries
  <2>2. CASE t2 = tab /\ token[tab] # NoToken
    <3>1. PICK c : c = Start(i, tab, NoToken)
      OBVIOUS
    <3>2. c \in calls'
      BY <1>4, <2>2, <3>1 DEF Logout, Effect
    <3>3. c.tab = tab /\ c.kind = "auto_login"
      BY <1>0, <3>1, StartType
    <3>. QED
      BY <3>2, <3>3 DEF Trying, AutoKinds
  <2>3. CASE t2 = tab /\ token[tab] = NoToken
    <3>1. gaveUp'[tab] = gaveUp[tab] /\ calls \subseteq calls'
      BY <1>0, <1>4, <2>3 DEF Logout, Tries
    <3>2. SUFFICES ASSUME ~gaveUp[tab] PROVE Trying(tab)'
      BY <3>1
    <3>3. PICK c \in calls : c.tab = tab /\ c.kind \in AutoKinds
      BY <2>3, <3>2 DEF TryInv, Trying
    <3>. QED
      BY <3>1, <3>3 DEF Trying
  <2>. QED
    BY <2>1, <2>2, <2>3
<1>5. ASSUME NEW t2 \in Tabs, Reload(t2) PROVE Goal
  <2>1. CASE t2 # tab
    <3>1. TabOf(tab)' = TabOf(tab)
      BY <1>0, <1>5, <2>1 DEF Reload, TabOf
    <3>2. \A c \in calls : c.tab = tab => c \in calls'
      BY <1>5, <2>1 DEF Reload
    <3>. QED
      BY <3>1, <3>2, MoreTries
  <2>2. CASE t2 = tab
    <3>1. PICK c : c = Start(1, tab, stored)
      OBVIOUS
    <3>2. c \in calls' /\ token'[tab] = stored
      BY <1>0, <1>5, <2>2, <3>1 DEF Reload
    <3>3. c.tab = tab /\ c.kind = IF stored = NoToken THEN "auto_login" ELSE "me"
      BY <1>0, <3>1, StartType, BoundsAssumption
    <3>. QED
      BY <3>2, <3>3 DEF Trying, AutoKinds
  <2>. QED
    BY <2>1, <2>2
<1>6. \/ UNCHANGED browser /\ calls \subseteq calls'
      \/ \E c \in calls : Handle(c) \/ Lose(c)
      \/ \E c \in calls : Deliver(c)
      \/ \E t2 \in Tabs : \E i \in 1..MaxCalls : Logout(t2, i)
      \/ \E t2 \in Tabs : Reload(t2)
  BY DEF Next, Network, Expire, Revoke, Register, Submit, CallApi, AtRest, vars
<1>. QED
  BY <1>1, <1>2, <1>3, <1>4, <1>5, <1>6

\* With no request under way, a tab that did not give up shows a user.
THEOREM RestIsSignedIn == Spec => []SignedInAtRest
<1>1. Spec => []TryInv
  BY TypeCorrect, TryInit, TryStep, PTL DEF Spec
<1>2. TryInv => SignedInAtRest
  BY DEF TryInv, Trying, SignedInAtRest
<1>. QED
  BY <1>1, <1>2, PTL
=============================================================================
