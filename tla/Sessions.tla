------------------------------- MODULE Sessions -------------------------------
(* Accounts and cookie sessions: app/auth.py.  The tabs of a browser share    *)
(* its cookie; each has at most one call under way, and the calls of several  *)
(* tabs overlap.  A call is sent with the cookie of that moment, is handled   *)
(* in several commits, and its response may arrive in any order with those of *)
(* other tabs, or never.  AUTH_REQUIRED is true.                              *)
EXTENDS Integers

CONSTANTS Names,     \* usernames, as normalised
          Browsers,
          Tabs,
          BrowserOf, \* the browser of a tab
          Lifetime,  \* session_lifetime_days
          MaxTokens, \* bound: sessions ever issued
          MaxNow     \* bound: the clock stops here

ASSUME LifetimeAssumption == Lifetime \in Nat \ {0}
ASSUME BoundsAssumption == MaxTokens \in Nat /\ MaxNow \in Nat
ASSUME TabsAssumption == BrowserOf \in [Tabs -> Browsers]
ASSUME NamesAssumption == 0 \notin Names

None == 0                  \* no cookie; token_urlsafe never repeats a token
Tokens == 1..MaxTokens

VARIABLES
  users,     \* registered usernames
  sessions,  \* the table user_sessions
  issued,    \* number of tokens issued so far
  now,
  cookie,    \* the cookie of each browser
  at,        \* where the call of each tab is
  kind,      \* what it asks for
  user,      \* the account a sign-up or log-in has come to
  token,     \* the token it carries; once issued, the one it brings back
  ended      \* tokens whose log-out has been answered (history variable)

call == <<at, kind, user, token>>
vars == <<users, sessions, issued, now, cookie, call, ended>>

Kinds == {"signup", "login", "logout", "use"}
Session == [token : Tokens, user : Names, expires : Nat]

\* bootstrap_configured_user: the account of APP_USERNAME and APP_PASSWORD, if
\* they are set; one that exists stays as it is.
Bootstrapped(accounts) == {accounts \cup ({n} \ {None}) : n \in Names \cup {None}}

Init ==
  /\ users \in Bootstrapped({}) /\ sessions = {} /\ issued = 0 /\ now = 0
  /\ cookie = [b \in Browsers |-> None] /\ ended = {}
  /\ at = [t \in Tabs |-> "idle"] /\ kind = [t \in Tabs |-> "use"]
  /\ user = [t \in Tabs |-> None] /\ token = [t \in Tabs |-> None]

Move(t, s) == at' = [at EXCEPT ![t] = s]

ClockTick ==
  /\ now < MaxNow
  /\ now' = now + 1
  /\ UNCHANGED <<users, sessions, issued, cookie, call, ended>>

\* A tab sends a request with the cookie of its browser.
Send(t) ==
  /\ at[t] = "idle"
  /\ \E k \in Kinds : kind' = [kind EXCEPT ![t] = k]
  /\ token' = [token EXCEPT ![t] = cookie[BrowserOf[t]]]
  /\ Move(t, "sent")
  /\ UNCHANGED <<users, sessions, issued, now, cookie, user, ended>>

Handles(t, k) == at[t] = "sent" /\ kind[t] = k

Known(t, n) == Move(t, "known") /\ user' = [user EXCEPT ![t] = n]

\* The handler answers 401 or 409.
Refuse(t) == Move(t, "refused") /\ UNCHANGED <<users, user>>

-----------------------------------------------------------------------------
(* Sign-up and log-in: public paths, two transactions each. *)

\* create_user commits, unless the name is taken.
CreateUser(t) ==
  /\ Handles(t, "signup")
  /\ \E n \in Names :
       IF n \in users THEN Refuse(t)
                      ELSE Known(t, n) /\ users' = users \cup {n}
  /\ UNCHANGED <<sessions, issued, now, cookie, kind, token, ended>>

\* authenticate_user refuses an unknown name and a wrong password.
Authenticate(t) ==
  /\ Handles(t, "login")
  /\ \/ \E n \in users : Known(t, n) /\ users' = users
     \/ Refuse(t)
  /\ UNCHANGED <<sessions, issued, now, cookie, kind, token, ended>>

\* What the DELETE of issue_session removes.
PurgedEarly == {s \in sessions : s.expires <= now + 1}
Purged == {s \in sessions : s.expires <= now}

ExpiryBack == now - Lifetime
Expiry == now + Lifetime

\* issue_session, in one transaction.
Issue(t) ==
  /\ at[t] = "known"
  /\ issued < MaxTokens
  /\ issued' = issued + 1
  /\ sessions' = (sessions \ Purged) \cup
       {[token |-> issued', user |-> user[t], expires |-> Expiry]}
  /\ token' = [token EXCEPT ![t] = issued']
  /\ Move(t, "issued")
  /\ UNCHANGED <<users, now, cookie, kind, user, ended>>

-----------------------------------------------------------------------------
(* Everything else passes SessionAuthMiddleware first. *)

\* The middleware looks the token up.
Check(t) ==
  /\ at[t] = "sent" /\ kind[t] \in {"logout", "use"}
  /\ IF \E s \in sessions : s.token = token[t] /\ s.expires > now
     THEN Move(t, "admitted") /\ UNCHANGED <<users, user>>
     ELSE Refuse(t)
  /\ UNCHANGED <<sessions, issued, now, cookie, kind, token, ended>>

\* What the DELETE of logout removes.
EndedOthers(t) == {s \in sessions : s.token # token[t]}
Ended(t) == {s \in sessions : s.token = token[t]}

Logout(t) ==
  /\ at[t] = "admitted" /\ kind[t] = "logout"
  /\ sessions' = sessions \ Ended(t)
  /\ Move(t, "done")
  /\ UNCHANGED <<users, issued, now, cookie, kind, user, token, ended>>

\* Any other handler, after the middleware.
Use(t) ==
  /\ at[t] = "admitted" /\ kind[t] = "use"
  /\ Move(t, "done")
  /\ UNCHANGED <<users, sessions, issued, now, cookie, kind, user, token, ended>>

-----------------------------------------------------------------------------
(* The response reaches the browser, or not. *)

SetCookie(t, v) == cookie' = [cookie EXCEPT ![BrowserOf[t]] = v]

Free(t) == /\ Move(t, "idle")
           /\ kind' = [kind EXCEPT ![t] = "use"]
           /\ user' = [user EXCEPT ![t] = None]
           /\ token' = [token EXCEPT ![t] = None]
           /\ UNCHANGED <<users, sessions, issued, now>>

LoggedIn(t) == at[t] = "issued" /\ SetCookie(t, token[t]) /\ ended' = ended /\ Free(t)

LoggedOut(t) ==
  /\ at[t] = "done" /\ kind[t] = "logout"
  /\ SetCookie(t, None)
  /\ ended' = ended \cup {token[t]}
  /\ Free(t)

\* The cookie stays as it is after any other response, and when the tab is
\* closed or the connection breaks at any point.
OtherEnd(t) == at[t] # "idle" /\ Free(t) /\ UNCHANGED <<cookie, ended>>

\* The API process ends and starts again; every call is lost.
Restart ==
  /\ users' \in Bootstrapped(users)
  /\ at' = [t \in Tabs |-> "idle"] /\ kind' = [t \in Tabs |-> "use"]
  /\ user' = [t \in Tabs |-> None] /\ token' = [t \in Tabs |-> None]
  /\ UNCHANGED <<sessions, issued, now, cookie, ended>>

Call(t) == \/ Send(t) \/ CreateUser(t) \/ Authenticate(t) \/ Issue(t)
           \/ Check(t) \/ Logout(t) \/ Use(t)
           \/ LoggedIn(t) \/ LoggedOut(t) \/ OtherEnd(t)

Next == ClockTick \/ Restart \/ \E t \in Tabs : Call(t)

Spec == Init /\ [][Next]_vars

-----------------------------------------------------------------------------
(* Properties. *)

\* The type of every variable.
TypeOK ==
  /\ users \subseteq Names /\ sessions \subseteq Session
  /\ issued \in 0..MaxTokens /\ now \in Nat
  /\ cookie \in [Browsers -> Tokens \cup {None}]
  /\ at \in [Tabs -> {"idle", "sent", "known", "issued", "admitted", "done", "refused"}]
  /\ kind \in [Tabs -> Kinds] /\ user \in [Tabs -> Names \cup {None}]
  /\ token \in [Tabs -> Tokens \cup {None}] /\ ended \subseteq Tokens

\* No session has a token that was logged out, nor one not issued yet.
TokensTracked ==
  /\ \A s \in sessions : s.token <= issued /\ s.token \notin ended
  /\ \A t \in Tabs : token[t] <= issued
  /\ \A b \in Browsers : cookie[b] <= issued
  /\ \A k \in ended : k <= issued

\* Between the DELETE of a log-out and its answer, the session is gone already.
LogoutDone ==
  \A t \in Tabs : at[t] = "done" /\ kind[t] = "logout" =>
    token[t] # None /\ \A s \in sessions : s.token # token[t]

\* An admitted call carries a token, a log-in in progress has its account.
CallsComplete ==
  \A t \in Tabs : /\ at[t] = "admitted" => token[t] # None
                  /\ at[t] = "known" => user[t] \in Names

\* The inductive invariant behind LogoutIsFinal.
IInv == TypeOK /\ TokensTracked /\ LogoutDone /\ CallsComplete

\* A session ends by its own log-out or by expiry: the purge that comes with
\* the log-in of someone else never removes one the middleware would accept.
SessionsLast ==
  [][\A s \in sessions \ sessions' :
       \/ s.expires <= now
       \/ \E t \in Tabs : at[t] = "admitted" /\ at'[t] = "done" /\ token[t] = s.token]_vars

\* README: "revocable cookie sessions".  Once a log-out has been answered, no
\* request with its token passes the middleware, sent before or after, in
\* this tab or another.
LogoutIsFinal ==
  [][\A t \in Tabs : at[t] = "sent" /\ at'[t] = "admitted" => token[t] \notin ended]_vars
=============================================================================
