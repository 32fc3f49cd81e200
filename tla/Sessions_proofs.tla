--------------------------- MODULE Sessions_proofs ---------------------------
(* Log-out is final and sessions last, for any number of browsers, tabs,      *)
(* accounts and sessions and any lifetime.                                    *)
EXTENDS Sessions, TLAPS

\* Nobody is logged in at first.
LEMMA InitIInv == Init => IInv
BY BoundsAssumption
DEF Init, IInv, TypeOK, TokensTracked, LogoutDone, CallsComplete, Tokens, None, Kinds,
    Bootstrapped

\* The clock touches no session.
LEMMA ClockTickIInv == IInv /\ ClockTick => IInv'
BY DEF IInv, TypeOK, TokensTracked, LogoutDone, CallsComplete, ClockTick, call

\* Sending a request copies a token that was issued.
LEMMA SendIInv == ASSUME IInv, NEW t \in Tabs, Send(t) PROVE IInv'
<1>1. BrowserOf[t] \in Browsers
  BY TabsAssumption
<1>2. TypeOK'
  BY <1>1 DEF IInv, TypeOK, Send, Move
<1>3. TokensTracked' /\ LogoutDone' /\ CallsComplete'
  BY <1>1 DEF IInv, TypeOK, TokensTracked, LogoutDone, CallsComplete, Send, Move
<1> QED
  BY <1>2, <1>3 DEF IInv

\* A call that moves on to a state other than "done" and "admitted" and leaves
\* sessions and tokens alone keeps the invariant.
LEMMA MoveIInv ==
  ASSUME IInv, NEW t \in Tabs, NEW s \in {"known", "refused"}, Move(t, s),
         s = "known" => user'[t] \in Names, \A u \in Tabs \ {t} : user'[u] = user[u],
         users' \subseteq Names, user' \in [Tabs -> Names \cup {None}],
         UNCHANGED <<sessions, issued, now, cookie, kind, token, ended>>
  PROVE  IInv'
BY DEF IInv, TypeOK, TokensTracked, LogoutDone, CallsComplete, Move

\* Sign-up keeps the invariant.
LEMMA CreateUserIInv == ASSUME IInv, NEW t \in Tabs, CreateUser(t) PROVE IInv'
<1>1. PICK n \in Names : \/ n \in users /\ Refuse(t)
                         \/ Known(t, n) /\ users' = users \cup {n}
  BY DEF CreateUser
<1>2. UNCHANGED <<sessions, issued, now, cookie, kind, token, ended>>
  BY DEF CreateUser
<1>3. CASE Refuse(t)
  BY <1>2, <1>3, MoveIInv DEF IInv, TypeOK, Refuse
<1>4. CASE Known(t, n) /\ users' = users \cup {n}
  BY <1>2, <1>4, MoveIInv DEF IInv, TypeOK, Known
<1> QED
  BY <1>1, <1>3, <1>4

\* Checking a password keeps the invariant.
LEMMA AuthenticateIInv == ASSUME IInv, NEW t \in Tabs, Authenticate(t) PROVE IInv'
<1>1. UNCHANGED <<sessions, issued, now, cookie, kind, token, ended>>
  BY DEF Authenticate
<1>2. CASE Refuse(t)
  BY <1>1, <1>2, MoveIInv DEF IInv, TypeOK, Refuse
<1>3. ASSUME NEW n \in users, Known(t, n), users' = users PROVE IInv'
  BY <1>1, <1>3, MoveIInv DEF IInv, TypeOK, Known
<1> QED
  BY <1>2, <1>3 DEF Authenticate

\* A token that is issued is a new one.
LEMMA IssueIInv == ASSUME IInv, NEW t \in Tabs, Issue(t) PROVE IInv'
<1>1. issued \in Nat /\ issued' = issued + 1 /\ issued' \in Tokens
  BY BoundsAssumption DEF IInv, TypeOK, Issue, Tokens
<1>2. Expiry \in Nat
  BY LifetimeAssumption DEF IInv, TypeOK, Expiry
<1>3. sessions' \subseteq Session
  BY <1>1, <1>2 DEF IInv, TypeOK, CallsComplete, Issue, Session
<1>4. TypeOK'
  BY <1>1, <1>3 DEF IInv, TypeOK, Issue, Move, Tokens
<1>5. \A s \in sessions' : s \in sessions \/ s.token = issued'
  BY DEF Issue
<1>6. \A k \in ended : k # issued'
  BY <1>1 DEF IInv, TypeOK, TokensTracked, Tokens
<1>7. TokensTracked'
  BY <1>1, <1>5, <1>6 DEF IInv, TypeOK, TokensTracked, Issue, Tokens, Session, None
<1>8. LogoutDone' /\ CallsComplete'
  BY <1>1, <1>5
  DEF IInv, TypeOK, TokensTracked, LogoutDone, CallsComplete, Issue, Move, Tokens, None
<1> QED
  BY <1>4, <1>7, <1>8 DEF IInv

\* The middleware changes no session.
LEMMA CheckIInv == ASSUME IInv, NEW t \in Tabs, Check(t) PROVE IInv'
<1>1. UNCHANGED <<sessions, issued, now, cookie, kind, token, ended>>
  BY DEF Check
<1>2. CASE Refuse(t)
  BY <1>1, <1>2, MoveIInv DEF IInv, TypeOK, Refuse
<1>3. ASSUME NEW s \in sessions, s.token = token[t], Move(t, "admitted"),
             UNCHANGED <<users, user>>
      PROVE  IInv'
  <2>1. token[t] # None
    BY <1>3 DEF IInv, TypeOK, Session, Tokens, None
  <2> QED
    BY <1>1, <1>3, <2>1
    DEF IInv, TypeOK, TokensTracked, LogoutDone, CallsComplete, Move
<1> QED
  BY <1>2, <1>3 DEF Check

\* A log-out takes its session away.
LEMMA LogoutIInv == ASSUME IInv, NEW t \in Tabs, Logout(t) PROVE IInv'
BY DEF IInv, TypeOK, TokensTracked, LogoutDone, CallsComplete, Logout, Ended, Move

\* Other handlers keep the invariant.
LEMMA UseIInv == ASSUME IInv, NEW t \in Tabs, Use(t) PROVE IInv'
BY DEF IInv, TypeOK, TokensTracked, LogoutDone, CallsComplete, Use, Move

\* A tab whose call is over can make another.
LEMMA FreeIInv ==
  ASSUME IInv, NEW t \in Tabs, Free(t),
         cookie' \in [Browsers -> Tokens \cup {None}],
         \A b \in Browsers : cookie'[b] <= issued,
         ended' \subseteq Tokens,
         \A k \in ended' : k <= issued /\ \A s \in sessions : s.token # k
  PROVE  IInv'
<1>1. TypeOK'
  BY DEF IInv, TypeOK, Free, Move, Kinds
<1>0. issued \in Nat /\ issued' = issued /\ sessions' = sessions
  BY BoundsAssumption DEF IInv, TypeOK, Free
<1>2. TokensTracked'
  <2>1. \A u \in Tabs : token'[u] <= issued
    BY <1>0 DEF IInv, TypeOK, TokensTracked, Free, None
  <2>2. \A s \in sessions : s.token <= issued /\ s.token \notin ended'
    BY DEF IInv, TokensTracked
  <2> QED
    BY <1>0, <2>1, <2>2 DEF TokensTracked
<1>3. LogoutDone' /\ CallsComplete'
  BY DEF IInv, TypeOK, LogoutDone, CallsComplete, Free, Move
<1> QED
  BY <1>1, <1>2, <1>3 DEF IInv

\* The cookie of a log-in is a token that was issued.
LEMMA LoggedInIInv == ASSUME IInv, NEW t \in Tabs, LoggedIn(t) PROVE IInv'
<1>1. token[t] \in Tokens \cup {None} /\ token[t] <= issued
  BY DEF IInv, TypeOK, TokensTracked
<1>2. cookie' \in [Browsers -> Tokens \cup {None}] /\ \A b \in Browsers : cookie'[b] <= issued
  BY <1>1 DEF IInv, TypeOK, TokensTracked, LoggedIn, SetCookie
<1> QED
  BY <1>2, FreeIInv DEF IInv, TypeOK, TokensTracked, LoggedIn

\* The answer to a log-out comes after its session is gone.
LEMMA LoggedOutIInv == ASSUME IInv, NEW t \in Tabs, LoggedOut(t) PROVE IInv'
<1>1. token[t] \in Tokens /\ token[t] <= issued /\ \A s \in sessions : s.token # token[t]
  BY DEF IInv, TypeOK, TokensTracked, LogoutDone, LoggedOut
<1>2. cookie' \in [Browsers -> Tokens \cup {None}] /\ \A b \in Browsers : cookie'[b] <= issued
  <2>1. None <= issued
    BY BoundsAssumption DEF IInv, TypeOK, None
  <2> QED
    BY <2>1 DEF IInv, TypeOK, TokensTracked, LoggedOut, SetCookie
<1>3. ended' \subseteq Tokens /\ \A k \in ended' : k <= issued /\ \A s \in sessions : s.token # k
  BY <1>1 DEF IInv, TypeOK, TokensTracked, LoggedOut
<1> QED
  BY <1>2, <1>3, FreeIInv DEF LoggedOut

\* Other responses, and lost ones, keep the invariant.
LEMMA OtherEndIInv == ASSUME IInv, NEW t \in Tabs, OtherEnd(t) PROVE IInv'
BY FreeIInv DEF IInv, TypeOK, TokensTracked, OtherEnd

\* A restart forgets the calls, and nothing of the sessions.
LEMMA RestartIInv == IInv /\ Restart => IInv'
<1> SUFFICES ASSUME IInv, Restart PROVE IInv'
  OBVIOUS
<1>0. issued \in Nat /\ UNCHANGED <<sessions, issued, now, cookie, ended>>
  BY BoundsAssumption DEF IInv, TypeOK, Restart
<1>1. users' \subseteq Names
  BY DEF IInv, TypeOK, Restart, Bootstrapped
<1>2. TypeOK'
  BY <1>1 DEF IInv, TypeOK, Restart, Kinds
<1>3. TokensTracked' /\ LogoutDone' /\ CallsComplete'
  BY <1>0 DEF IInv, TokensTracked, LogoutDone, CallsComplete, Restart, None
<1> QED
  BY <1>2, <1>3 DEF IInv

\* Every step keeps the invariant.
LEMMA NextIInv == IInv /\ [Next]_vars => IInv'
<1> SUFFICES ASSUME IInv, [Next]_vars PROVE IInv'
  OBVIOUS
<1>1. CASE UNCHANGED vars
  BY <1>1 DEF vars, call, IInv, TypeOK, TokensTracked, LogoutDone, CallsComplete
<1>2. CASE ClockTick
  BY <1>2, ClockTickIInv
<1>4. CASE Restart
  BY <1>4, RestartIInv
<1>3. ASSUME NEW t \in Tabs, Call(t) PROVE IInv'
  BY <1>3, SendIInv, CreateUserIInv, AuthenticateIInv, IssueIInv, CheckIInv, LogoutIInv,
     UseIInv, LoggedInIInv, LoggedOutIInv, OtherEndIInv DEF Call
<1> QED
  BY <1>1, <1>2, <1>3, <1>4 DEF Next

\* The inductive invariant: where every token is in its life.
THEOREM Invariant == Spec => []IInv
BY InitIInv, NextIInv, PTL DEF Spec

\* The types of the tables, the cookies and the calls.
THEOREM TypeCorrect == Spec => []TypeOK
<1>1. IInv => TypeOK
  BY DEF IInv
<1> QED
  BY <1>1, Invariant, PTL

-----------------------------------------------------------------------------

\* Only the middleware admits a call, and it looks the token up.
LEMMA OnlyCheckAdmits ==
  ASSUME IInv, [Next]_vars, NEW t \in Tabs, at[t] = "sent", at'[t] = "admitted"
  PROVE  \E s \in sessions : s.token = token[t]
<1>1. CASE UNCHANGED vars \/ ClockTick \/ Restart
  BY <1>1 DEF vars, call, ClockTick, Restart
<1>2. ASSUME NEW u \in Tabs, Call(u) PROVE \E s \in sessions : s.token = token[t]
  <2>1. u = t
    BY <1>2 DEF IInv, TypeOK, Call, Send, CreateUser, Authenticate, Issue, Check, Logout, Use,
       LoggedIn, LoggedOut, OtherEnd, Free, Refuse, Known, Move
  <2> QED
    BY <1>2, <2>1 DEF IInv, TypeOK, Call, Send, CreateUser, Authenticate, Issue, Check, Logout,
       Use, LoggedIn, LoggedOut, OtherEnd, Free, Refuse, Known, Move
<1> QED
  BY <1>1, <1>2 DEF Next

\* No request passes the middleware with a token whose log-out was answered.
THEOREM LogoutHolds == Spec => LogoutIsFinal
<1>1. IInv /\ [Next]_vars =>
        [\A t \in Tabs : at[t] = "sent" /\ at'[t] = "admitted" => token[t] \notin ended]_vars
  BY OnlyCheckAdmits DEF IInv, TokensTracked
<1> QED
  BY <1>1, Invariant, PTL DEF Spec, LogoutIsFinal

\* A step that removes a session purges it after its expiry, or is its log-out.
LEMMA Removals ==
  ASSUME IInv, [Next]_vars, NEW s \in sessions \ sessions'
  PROVE  \/ s.expires <= now
         \/ \E t \in Tabs : at[t] = "admitted" /\ at'[t] = "done" /\ token[t] = s.token
<1>1. CASE UNCHANGED vars \/ ClockTick \/ Restart
  BY <1>1 DEF vars, ClockTick, Restart
<1>2. ASSUME NEW t \in Tabs, Call(t)
      PROVE  \/ s.expires <= now
             \/ at[t] = "admitted" /\ at'[t] = "done" /\ token[t] = s.token
  <2>1. CASE Issue(t)
    BY <2>1 DEF Issue, Purged
  <2>2. CASE Logout(t)
    BY <2>2 DEF Logout, Ended, IInv, TypeOK, Move
  <2> QED
    BY <1>2, <2>1, <2>2 DEF Call, Send, CreateUser, Authenticate, Check, Use, LoggedIn,
       LoggedOut, OtherEnd, Free
<1> QED
  BY <1>1, <1>2 DEF Next

\* No session ends before its time by anything but its own log-out.
THEOREM SessionsAreKept == Spec => SessionsLast
<1>1. IInv /\ [Next]_vars =>
        [\A s \in sessions \ sessions' :
           \/ s.expires <= now
           \/ \E t \in Tabs : at[t] = "admitted" /\ at'[t] = "done" /\ token[t] = s.token]_vars
  BY Removals
<1> QED
  BY <1>1, Invariant, PTL DEF Spec, SessionsLast
=============================================================================
