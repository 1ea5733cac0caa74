-------------------------------- MODULE SignIn --------------------------------
(***************************************************************************)
(* Signing in: the accounts and bearer tokens of the server (UserStore and *)
(* the auth routes) and the tabs of one browser (AuthContext), which share *)
(* one stored token (localStorage).                                        *)
(*                                                                         *)
(* Each request of a tab is handled by the server in one step and answered *)
(* in a later one, so that answers come in any order.  A token is its      *)
(* number; passwords are left out: a typed one is right or wrong, and the  *)
(* demo account has the password the tabs use.                             *)
(***************************************************************************)
EXTENDS Integers, Sequences

CONSTANTS
    Accounts, Demo,     \* email addresses; the one a tab signs in by itself
    None,               \* no account
    Tabs,               \* the tabs of the browser
    MaxCalls,           \* bound: requests of a tab in flight
    MaxTurns            \* bound: steps of users, of the clock and of faults

ASSUME AccountsAssumption == Demo \in Accounts /\ None \notin Accounts
ASSUME BoundsAssumption == MaxCalls \in Nat \ {0} /\ MaxTurns \in Nat

VARIABLES
    registered,         \* accounts in the users table
    tokens,             \* the account each token was issued to
    revoked, expired,   \* tokens in revoked_tokens; tokens past their "exp"
    stored,             \* localStorage's lexicon_auth_token
    token, user, loading,   \* the state of each tab: token, user and isLoading
    gaveUp,             \* history: a tab's last try to sign in by itself failed
    calls,              \* requests in flight
    turns               \* steps counted against MaxTurns

server == <<registered, tokens, revoked, expired>>
browser == <<stored, token, user, loading, gaveUp>>
vars == <<server, browser, calls, turns>>

NoToken == 0
Issued == 1..Len(tokens)
NoUser == [account |-> None, token |-> NoToken]

AutoKinds == {"auto_login", "auto_signup"}   \* autoAuthenticate
FormKinds == {"login", "signup"}
Kinds == {"me", "api"} \cup AutoKinds \cup FormKinds

\* A request; the reply of a sign-in fills in the token, that of /auth/me the
\* account.  A request whose fetch fails is "lost".
Call == [id : 1..MaxCalls, tab : Tabs, kind : Kinds, account : Accounts \cup {None},
         token : Nat, reply : {"none", "ok", "refused", "lost"}]

Ask(i, tab, kind, account, t) ==
    [id |-> i, tab |-> tab, kind |-> kind, account |-> account, token |-> t,
     reply |-> "none"]

\* What each kind of request asks with, and its answer.
CallOK(c) ==
    /\ c.token \in Issued \cup {NoToken}
    /\ c.kind \in AutoKinds => c.account = Demo
    /\ c.kind \in FormKinds => c.account \in Accounts
    /\ c.kind = "me" => c.token \in Issued
    /\ c.kind # "api" /\ c.reply = "ok" => c.token \in Issued /\ c.account \in Accounts

TypeOK ==
    /\ registered \subseteq Accounts /\ tokens \in Seq(registered)
    /\ revoked \subseteq Issued /\ expired \subseteq Issued
    /\ stored \in Issued \cup {NoToken}
    /\ token \in [Tabs -> Issued \cup {NoToken}]
    /\ user \in [Tabs -> {NoUser} \cup [account : Accounts, token : Issued]]
    /\ loading \in [Tabs -> BOOLEAN] /\ gaveUp \in [Tabs -> BOOLEAN]
    /\ calls \subseteq Call /\ \A c \in calls : CallOK(c)
    /\ turns \in 0..MaxTurns

-----------------------------------------------------------------------------
\* What the effect of AuthContext sends for a token.
StartBlind(i, tab, t) == Ask(i, tab, "me", None, t)     \* mutant
Start(i, tab, t) ==
    IF t = NoToken THEN Ask(i, tab, "auto_login", Demo, NoToken)
    ELSE Ask(i, tab, "me", None, t)

\* The server knows some accounts; the browser may hold a token of one.
Init ==
    /\ registered \in SUBSET Accounts
    /\ tokens \in {<< >>} \cup {<<a>> : a \in registered}
    /\ revoked = {} /\ expired = {}
    /\ stored = Len(tokens)
    /\ token = [tab \in Tabs |-> stored] /\ user = [tab \in Tabs |-> NoUser]
    /\ loading = [tab \in Tabs |-> TRUE] /\ gaveUp = [tab \in Tabs |-> FALSE]
    /\ calls = {Start(1, tab, stored) : tab \in Tabs} /\ turns = 0

-----------------------------------------------------------------------------
(***************************************************************************)
(* The server.                                                             *)
(***************************************************************************)
\* verify_token
Valid(t) == t \in Issued /\ t \notin revoked \cup expired

Answer(c, account, t, reply) ==
    [c EXCEPT !.account = account, !.token = t, !.reply = reply]
Replied(c, account, t, reply) ==
    calls' = (calls \ {c}) \cup {Answer(c, account, t, reply)}

Refused(c) == Replied(c, c.account, c.token, "refused") /\ UNCHANGED server

\* generate_token: the jti makes a token unlike any other.
IssueAgain(account) ==          \* mutant
    IF \E t \in Issued : tokens[t] = account THEN tokens ELSE Append(tokens, account)
Issue(account) == Append(tokens, account)
Latest(issued, account) == CHOOSE t \in 1..Len(issued) :
    issued[t] = account /\ \A s \in (t + 1)..Len(issued) : issued[s] # account

SignedIn(c) ==
    /\ tokens' = Issue(c.account)
    /\ Replied(c, c.account, Latest(tokens', c.account), "ok")
    /\ UNCHANGED <<revoked, expired>>

\* get_current_user_dep, for /auth/me and for any other route.
HandleBearer(c) ==
    /\ c.kind \in {"me", "api"}
    /\ IF Valid(c.token)
       THEN Replied(c, tokens[c.token], c.token, "ok") /\ UNCHANGED server
       ELSE Refused(c)

\* The password of the demo account is right, a typed one may be wrong.
HandleLogin(c) ==
    /\ c.kind \in {"login", "auto_login"}
    /\ \/ c.account \in registered /\ SignedIn(c) /\ UNCHANGED registered
       \/ (c.account \notin registered \/ c.kind = "login") /\ Refused(c)

\* "Account with this email already exists"
HandleSignup(c) ==
    /\ c.kind \in {"signup", "auto_signup"}
    /\ IF c.account \in registered THEN Refused(c)
       ELSE registered' = registered \cup {c.account} /\ SignedIn(c)

Handle(c) ==
    /\ c.reply = "none"
    /\ HandleBearer(c) \/ HandleLogin(c) \/ HandleSignup(c)
    /\ UNCHANGED <<browser, turns>>

Turn == turns < MaxTurns /\ turns' = turns + 1

\* A fetch fails, before or after the server handled the request.
Lose(c) ==
    /\ Turn /\ c.reply # "lost"
    /\ Replied(c, c.account, c.token, "lost")
    /\ UNCHANGED <<server, browser>>

Expire(t) ==
    /\ Turn /\ t \notin expired
    /\ expired' = expired \cup {t}
    /\ UNCHANGED <<registered, tokens, revoked, browser, calls>>

\* An account is made elsewhere, or by a request of a page that is gone.
Register(a) ==
    /\ Turn /\ a \notin registered
    /\ registered' = registered \cup {a}
    /\ UNCHANGED <<tokens, revoked, expired, browser, calls>>

\* A client other than the tabs, which never do, calls /auth/logout.
Revoke(t) ==
    /\ Turn /\ Valid(t)
    /\ revoked' = revoked \cup {t}
    /\ UNCHANGED <<registered, tokens, expired, browser, calls>>

-----------------------------------------------------------------------------
(***************************************************************************)
(* A tab gets an answer.                                                   *)
(***************************************************************************)
Shown(tab, account, t) == [user EXCEPT ![tab] = [account |-> account, token |-> t]]

\* setToken: the effect sends a request if the token changed.
StartSignedIn(i, tab, t) ==                             \* mutant
    IF t \in {token[tab], NoToken} THEN {} ELSE {Start(i, tab, t)}
Effect(i, tab, t) == IF t = token[tab] THEN {} ELSE {Start(i, tab, t)}

\* A new try is under way.
Tries(tab, t) == [gaveUp EXCEPT ![tab] = gaveUp[tab] /\ t = token[tab]]

\* fetchProfile: the profile is kept with the token it was asked with.
WithTabToken(c) == IF token[c.tab] = NoToken THEN user          \* mutant
                   ELSE Shown(c.tab, c.account, token[c.tab])
Profile(c) == Shown(c.tab, c.account, c.token)

GetProfile(c) ==
    /\ c.kind = "me" /\ c.reply = "ok"
    /\ user' = Profile(c)
    /\ loading' = [loading EXCEPT ![c.tab] = FALSE]
    /\ calls' = calls \ {c}
    /\ UNCHANGED <<stored, token, gaveUp>>

RetryProfile(c) == Ask(c.id, c.tab, "me", None, c.token)        \* mutant
Retry(c) == Ask(c.id, c.tab, "auto_login", Demo, NoToken)

ProfileFails(c) ==
    /\ c.kind = "me" /\ c.reply \in {"refused", "lost"}
    /\ calls' = (calls \ {c}) \cup {Retry(c)}
    /\ UNCHANGED browser

\* A form leaves isLoading alone.
GetToken(c) ==
    /\ c.kind \in AutoKinds \cup FormKinds /\ c.reply = "ok"
    /\ user' = Shown(c.tab, c.account, c.token)
    /\ token' = [token EXCEPT ![c.tab] = c.token] /\ stored' = c.token
    /\ loading' = [loading EXCEPT ![c.tab] = loading[c.tab] /\ c.kind \notin AutoKinds]
    /\ gaveUp' = Tries(c.tab, c.token)
    /\ calls' = (calls \ {c}) \cup Effect(c.id, c.tab, c.token)

AutoLoginRefused(c) ==
    /\ c.kind = "auto_login" /\ c.reply = "refused"
    /\ calls' = (calls \ {c}) \cup {Ask(c.id, c.tab, "auto_signup", Demo, NoToken)}
    /\ UNCHANGED browser

\* The last try: the catch and the finally of autoAuthenticate.
StillLoading(tab) == loading                                    \* mutant
Loaded(tab) == [loading EXCEPT ![tab] = FALSE]

AutoFails(c) ==
    /\ \/ c.kind = "auto_login" /\ c.reply = "lost"
       \/ c.kind = "auto_signup" /\ c.reply \in {"refused", "lost"}
    /\ loading' = Loaded(c.tab)
    /\ gaveUp' = [gaveUp EXCEPT ![c.tab] = TRUE]
    /\ calls' = calls \ {c}
    /\ UNCHANGED <<stored, token, user>>

FormFails(c) ==
    /\ c.kind \in FormKinds /\ c.reply \in {"refused", "lost"}
    /\ calls' = calls \ {c}
    /\ UNCHANGED browser

\* apiFetch: a 401 removes the stored token, whichever it is by now.
ApiAnswered(c) ==
    /\ c.kind = "api" /\ c.reply # "none"
    /\ stored' = IF c.reply = "refused" THEN NoToken ELSE stored
    /\ calls' = calls \ {c}
    /\ UNCHANGED <<token, user, loading, gaveUp>>

Deliver(c) ==
    /\ \/ GetProfile(c) \/ ProfileFails(c) \/ GetToken(c) \/ AutoLoginRefused(c)
       \/ AutoFails(c) \/ FormFails(c) \/ ApiAnswered(c)
    /\ UNCHANGED <<server, turns>>

-----------------------------------------------------------------------------
(***************************************************************************)
(* What the user does in a tab.                                            *)
(***************************************************************************)
\* The first free place for a request of the tab.
Free(tab, i) ==
    LET used == {c.id : c \in {d \in calls : d.tab = tab}} IN
    i \notin used /\ \A j \in 1..(i - 1) : j \in used

Submit(tab, i) ==
    /\ Turn /\ Free(tab, i)
    /\ \E kind \in FormKinds, a \in Accounts :
          calls' = calls \cup {Ask(i, tab, kind, a, NoToken)}
    /\ UNCHANGED <<server, browser>>

\* Any use of apiFetch.
CallApi(tab, i) ==
    /\ Turn /\ Free(tab, i)
    /\ calls' = calls \cup {Ask(i, tab, "api", None, stored)}
    /\ UNCHANGED <<server, browser>>

\* The drawer with the button shows only with a user.
Logout(tab, i) ==
    /\ Turn /\ Free(tab, i) /\ user[tab] # NoUser
    /\ user' = [user EXCEPT ![tab] = NoUser]
    /\ token' = [token EXCEPT ![tab] = NoToken] /\ stored' = NoToken
    /\ gaveUp' = Tries(tab, NoToken)
    /\ calls' = calls \cup Effect(i, tab, NoToken)
    /\ UNCHANGED <<server, loading>>

\* The tab is loaded again: nothing waits for its requests any more.  The server
\* may still handle one (Register).
Reload(tab) ==
    /\ Turn
    /\ user' = [user EXCEPT ![tab] = NoUser]
    /\ token' = [token EXCEPT ![tab] = stored]
    /\ loading' = [loading EXCEPT ![tab] = TRUE] /\ gaveUp' = [gaveUp EXCEPT ![tab] = FALSE]
    /\ calls' = {c \in calls : c.tab # tab} \cup {Start(1, tab, stored)}
    /\ UNCHANGED <<server, stored>>

AtRest == calls = {} /\ UNCHANGED vars

Network == \E c \in calls : Handle(c) \/ Deliver(c)

Next ==
    \/ Network
    \/ \E c \in calls : Lose(c)
    \/ \E t \in Issued : Expire(t) \/ Revoke(t)
    \/ \E a \in Accounts : Register(a)
    \/ \E tab \in Tabs : \E i \in 1..MaxCalls : Submit(tab, i) \/ CallApi(tab, i) \/ Logout(tab, i)
    \/ \E tab \in Tabs : Reload(tab)
    \/ AtRest

Spec == Init /\ [][Next]_vars

\* Requests are handled and answered, as long as there are any.
FairSpec == Spec /\ WF_vars(Network)

-----------------------------------------------------------------------------
(***************************************************************************)
(* Properties.                                                             *)
(***************************************************************************)

\* A tab shows an account with a token issued to that account, whatever the
\* order of the answers to its requests and whoever signs in meanwhile
\* (fetchProfile keeps the token it asked with).
ProfileIsOwn ==
    \A tab \in Tabs : user[tab] # NoUser => user[tab].account = tokens[user[tab].token]

\* Signing in hands out a token the server accepts, also after the token the
\* account had before was revoked or has expired (generate_token).
NewTokenIsAccepted ==
    [][\A c \in calls' \ calls :
          c.kind \in AutoKinds \cup FormKinds /\ c.reply = "ok" => Valid(c.token)']_vars

\* Once no request is under way, each tab shows a user, unless its last try to
\* sign in by itself failed: no order of answers, sign-ins and log-outs leaves
\* it signed out (AuthContext).
SignedInAtRest ==
    calls = {} => \A tab \in Tabs : user[tab] # NoUser \/ gaveUp[tab]

\* When the users stop, the tabs stop too, and none is left on its loading screen
\* (isLoading): signing in again by itself, which changes the token, which asks
\* for a profile, which may sign in again, does not go on for ever (AuthContext).
TabsComeToRest == <>[](calls = {} /\ \A tab \in Tabs : ~loading[tab])

(***************************************************************************)
(* The inductive invariants.                                               *)
(***************************************************************************)
\* An answer names the account of its token.
RepliesAreOwn ==
    \A c \in calls :
        c.kind # "api" /\ c.reply = "ok" => c.account = tokens[c.token]

OwnInv == RepliesAreOwn /\ ProfileIsOwn

\* A tab without a token or a user that has not given up is trying: without a
\* token it signs in by itself, with one it may also be asking for its profile.
Trying(tab) ==
    \E c \in calls :
        /\ c.tab = tab
        /\ c.kind \in AutoKinds \/ (c.kind = "me" /\ token[tab] # NoToken)
TryInv ==
    \A tab \in Tabs :
        ~gaveUp[tab] /\ (user[tab] = NoUser \/ token[tab] = NoToken) => Trying(tab)
=============================================================================
