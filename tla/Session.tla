------------------------------ MODULE Session ------------------------------
(***************************************************************************)
(* The sign-in of one person: customer-auth, and the tabs of his browser.  *)
(*                                                                         *)
(* A session is a row of customer-auth, named by a cookie all tabs share.  *)
(* Each tab exchanges it for a token of five minutes, kept in its session  *)
(* storage, which core-api accepts without asking customer-auth.  Every    *)
(* sign-in and exchange first makes sure that the person has a customer    *)
(* account: ensureCustomerLink.                                            *)
(*                                                                         *)
(* A tab is two clients: the form or menu the person uses, and the page,   *)
(* which exchanges by itself when it has no token or the token is refused. *)
(***************************************************************************)
EXTENDS Naturals, FiniteSets

CONSTANTS
    Tab,
    MaxSessions,    \* bound on the sessions created
    MaxLostAnswers  \* bound on the answers lost and queries failed

ASSUME SessionAssumption == {MaxSessions, MaxLostAnswers} \subseteq Nat

VARIABLES
    user,       \* does better-auth know the person? (external)
    account,    \* customer_account and its sender_kyc_profile
    link,       \* customer_auth_link: the account of the person, or 0
    session,    \* live rows of the table session (external)
    created,    \* sessions created so far
    cookie,     \* session of the browser's cookie, or 0
    token,      \* per tab: session of its token, or 0
    stale,      \* per tab: has the token expired?
    profile,    \* per tab: is the auth session (name, country) stored?
    client,     \* per client: what it is doing
    told,       \* accounts clients were told of (history)
    ended,      \* per tab: the sessions it signed out of (history)
    raced,      \* per tab: sessions being exchanged then (history)
    dropped     \* answers lost

sessionVars == <<user, account, link, session, created, cookie, token, stale, profile,
                 client, told, ended, raced, dropped>>
accounts == <<account, link>>
tables == <<user, accounts, session, created>>
tabs == <<token, stale, profile>>
past == <<told, ended, raced>>

SessionId == 1 .. MaxSessions
Client == Tab \X {"form", "page"}
Mine(c) == c[1]

Steps == {"idle", "find", "insert", "refind", "reply", "exchange", "me", "bye"}
Idle == [at |-> "idle", kind |-> "sign", session |-> 0, account |-> 0]

SessionTypeOK ==
    /\ user \in BOOLEAN
    /\ created \in 0 .. MaxSessions /\ session \subseteq 1 .. created
    /\ \A a \in account : a \in Nat
    /\ link \in account \cup {0}
    /\ cookie \in 0 .. created
    /\ token \in [Tab -> 0 .. created]
    /\ stale \in [Tab -> BOOLEAN] /\ profile \in [Tab -> BOOLEAN]
    /\ client \in [Client -> [at : Steps, kind : {"sign", "exchange"},
                              session : 0 .. created, account : account \cup {0}]]
    /\ told \subseteq account
    /\ ended \in [Tab -> SUBSET (0 .. created)] /\ raced \in [Tab -> SUBSET (0 .. created)]
    /\ dropped \in 0 .. MaxLostAnswers

SessionInit ==
    /\ user \in BOOLEAN
    /\ account = {} /\ link = 0
    /\ session = {} /\ created = 0 /\ cookie = 0
    /\ token = [t \in Tab |-> 0] /\ stale = [t \in Tab |-> FALSE]
    /\ profile = [t \in Tab |-> FALSE]
    /\ client = [c \in Client |-> Idle]
    /\ told = {} /\ ended = [t \in Tab |-> {}] /\ raced = [t \in Tab |-> {}]
    /\ dropped = 0

At(c, s) == client[c].at = s
Step(c, s) == client' = [client EXCEPT ![c].at = s]
Stop(c) == client' = [client EXCEPT ![c] = Idle]
Drop == dropped < MaxLostAnswers /\ dropped' = dropped + 1

-----------------------------------------------------------------------------
(***************************************************************************)
(* customer-auth.                                                          *)
(***************************************************************************)

(* better-auth creates a session for the person, who is known from then on. *)
NewSession(c) ==
    LET s == created + 1 IN
    /\ At(c, "idle") /\ c[2] = "form" /\ s <= MaxSessions
    /\ user' = TRUE
    /\ created' = s /\ session' = session \cup {s}
    /\ client' = [client EXCEPT ![c] = [at |-> "find", kind |-> "sign", session |-> s, account |-> 0]]
    /\ UNCHANGED <<accounts, cookie, tabs, past, dropped>>

(* Sign-up, refused when the person is known; sign-in with a password, refused when
   he is not; and sign-in with Google. *)
SignUp(c) == ~user /\ NewSession(c)
SignInEmail(c) == user /\ NewSession(c)
SignInGoogle(c) == NewSession(c)

(* resolveSession: the session of the cookie. *)
Resolved == cookie \in session

(* A page asks for a token when it has none (RouteGuard), or when the one it has is
   refused (requestJson); a form does after a sign-in. *)
Guarded(c) == c[2] = "page" /\ At(c, "idle") /\ token[Mine(c)] = 0
Refreshes(c) == c[2] = "page" /\ At(c, "idle") /\ stale[Mine(c)]
Asks(c) == At(c, "exchange") \/ Guarded(c) \/ Refreshes(c)

(* POST session/exchange: the session of the cookie is resolved first. *)
Exchange(c) ==
    /\ Asks(c) /\ Resolved
    /\ client' = [client EXCEPT ![c] =
                      [at |-> "find", kind |-> "exchange", session |-> cookie, account |-> 0]]
    /\ UNCHANGED <<tables, cookie, tabs, past, dropped>>

(* Without one it is refused: the page of a transfer then forgets the tab's
   session, the others do not. *)
ExchangeRefused(c) ==
    /\ Asks(c) /\ ~Resolved
    /\ Stop(c)
    /\ \/ /\ c[2] = "page"
          /\ token' = [token EXCEPT ![Mine(c)] = 0]
          /\ stale' = [stale EXCEPT ![Mine(c)] = FALSE]
          /\ profile' = [profile EXCEPT ![Mine(c)] = FALSE]
       \/ UNCHANGED tabs
    /\ UNCHANGED <<tables, cookie, past, dropped>>

(* ensureCustomerLink: is there a link, *)
Find(c) ==
    /\ At(c, "find")
    /\ IF link # 0 THEN client' = [client EXCEPT ![c].at = "reply", ![c].account = link]
                   ELSE Step(c, "insert")
    /\ UNCHANGED <<tables, cookie, tabs, past, dropped>>

(* Mutated form of InsertAccount: the rows are not written together. *)
InsertAccountAlone(c) ==
    LET n == Cardinality(account) + 1 IN
    /\ At(c, "insert")
    /\ account' = account \cup {n}
    /\ link' = IF link = 0 THEN n ELSE link
    /\ Step(c, "refind")
    /\ UNCHANGED <<user, session, created, cookie, tabs, past, dropped>>

(* insert an account, its KYC profile and the link, in one transaction, which the
   unique link of the person aborts, *)
InsertAccount(c) ==
    LET n == Cardinality(account) + 1 IN
    /\ At(c, "insert")
    /\ IF link = 0 THEN account' = account \cup {n} /\ link' = n
                   ELSE UNCHANGED accounts
    /\ Step(c, "refind")
    /\ UNCHANGED <<user, session, created, cookie, tabs, past, dropped>>

(* and read the link again. *)
Refind(c) ==
    /\ At(c, "refind")
    /\ client' = [client EXCEPT ![c].at = "reply", ![c].account = link]
    /\ UNCHANGED <<tables, cookie, tabs, past, dropped>>

(* A query fails, or the answer is lost: no cookie is set, no token is written. *)
Fails(c) ==
    /\ client[c].at \in {"find", "insert", "refind", "reply", "me"}
    /\ Drop /\ Stop(c)
    /\ UNCHANGED <<tables, cookie, tabs, past>>

-----------------------------------------------------------------------------
(***************************************************************************)
(* The tabs.                                                               *)
(***************************************************************************)

(* The answer of a sign-in sets the cookie, and the form asks for a token. *)
SignedIn(c) ==
    /\ At(c, "reply") /\ client[c].kind = "sign"
    /\ told' = told \cup {client[c].account}
    /\ cookie' = client[c].session
    /\ Step(c, "exchange")
    /\ UNCHANGED <<tables, tabs, ended, raced, dropped>>

(* The answer of an exchange holds the token, which is written whatever else the
   tab has done meanwhile.  A form then loads the profile. *)
Exchanged(c) ==
    LET t == Mine(c) IN
    /\ At(c, "reply") /\ client[c].kind = "exchange"
    /\ told' = told \cup {client[c].account}
    /\ token' = [token EXCEPT ![t] = client[c].session]
    /\ stale' = [stale EXCEPT ![t] = FALSE]
    /\ IF c[2] = "form" THEN Step(c, "me") ELSE Stop(c)
    /\ UNCHANGED <<tables, cookie, profile, ended, raced, dropped>>

(* writeAuthSession, with the token the form was given. *)
Me(c) ==
    /\ At(c, "me")
    /\ token' = [token EXCEPT ![Mine(c)] = client[c].session]
    /\ profile' = [profile EXCEPT ![Mine(c)] = TRUE]
    /\ Stop(c)
    /\ UNCHANGED <<tables, cookie, stale, past, dropped>>

(* POST sign-out: better-auth deletes the row of the cookie. *)
SignOut(c) ==
    /\ At(c, "idle") /\ c[2] = "form" /\ profile[Mine(c)]
    /\ session' = session \ {cookie}
    /\ client' = [client EXCEPT ![c] = [Idle EXCEPT !.at = "bye", !.session = cookie]]
    /\ UNCHANGED <<user, accounts, created, cookie, tabs, past, dropped>>

(* Exchanges of a tab that have been resolved and not answered. *)
UnderWay(t) == {client[c].session : c \in {d \in Client : Mine(d) = t /\ client[d].kind = "exchange"
                                                          /\ client[d].at # "idle"}}

Remember(t, s) ==
    /\ ended' = [ended EXCEPT ![t] = @ \cup {s}]
    /\ raced' = [raced EXCEPT ![t] = @ \cup (UnderWay(t) \cap {s})]

(* Mutated form of SignedOut: the token stays in the tab. *)
SignedOutKeeps(c) ==
    LET t == Mine(c) IN
    /\ At(c, "bye") /\ cookie' = 0
    /\ profile' = [profile EXCEPT ![t] = FALSE]
    /\ Remember(t, client[c].session)
    /\ Stop(c)
    /\ UNCHANGED <<tables, token, stale, told, dropped>>

(* Its answer clears the cookie, and the tab its token and profile: clearAuthSession. *)
SignedOut(c) ==
    LET t == Mine(c) IN
    /\ At(c, "bye") /\ cookie' = 0
    /\ token' = [token EXCEPT ![t] = 0] /\ stale' = [stale EXCEPT ![t] = FALSE]
    /\ profile' = [profile EXCEPT ![t] = FALSE]
    /\ Remember(t, client[c].session)
    /\ Stop(c)
    /\ UNCHANGED <<tables, told, dropped>>

(* The answer is lost: the menu offers to try again. *)
SignOutLost(c) ==
    /\ At(c, "bye") /\ Drop /\ Stop(c)
    /\ UNCHANGED <<tables, cookie, tabs, past>>

(* POST sign-out/all, by whoever holds the cookie. *)
SignOutAll ==
    /\ Resolved
    /\ session' = {} /\ cookie' = 0
    /\ UNCHANGED <<user, accounts, created, tabs, client, past, dropped>>

(* A session expires, or the cleanup job deletes it after that. *)
SessionExpires(s) ==
    /\ s \in session
    /\ session' = session \ {s}
    /\ UNCHANGED <<user, accounts, created, cookie, tabs, client, past, dropped>>

TokenExpires(t) ==
    /\ token[t] # 0 /\ ~stale[t]
    /\ stale' = [stale EXCEPT ![t] = TRUE]
    /\ UNCHANGED <<tables, cookie, token, profile, client, past, dropped>>

SessionNext ==
    \/ \E c \in Client :
          \/ SignUp(c) \/ SignInEmail(c) \/ SignInGoogle(c)
          \/ Exchange(c) \/ ExchangeRefused(c)
          \/ Find(c) \/ InsertAccount(c) \/ Refind(c) \/ Fails(c)
          \/ SignedIn(c) \/ Exchanged(c) \/ Me(c)
          \/ SignOut(c) \/ SignedOut(c) \/ SignOutLost(c)
    \/ SignOutAll
    \/ \E s \in SessionId : SessionExpires(s)
    \/ \E t \in Tab : TokenExpires(t)

SessionSpec == SessionInit /\ [][SessionNext]_sessionVars

-----------------------------------------------------------------------------
(***************************************************************************)
(* Properties                                                              *)
(***************************************************************************)

(* The person has one customer account and KYC profile, and every client was told
   of that one, although several sign-ins and exchanges found him without one at
   the same time (internals.ts:205). *)
OneAccount == account = {link} \ {0} /\ told \subseteq account

(* A tab that signed out of a session holds no token of it, unless the tab was
   exchanging that session just then: the answer is written after the token was
   cleared (session.ts:96). *)
SignedOutStaysOut == \A t \in Tab : token[t] # 0 /\ token[t] \in ended[t] => token[t] \in raced[t]
=============================================================================
