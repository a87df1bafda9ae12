---------------------------- MODULE FrontendSession ----------------------------
(***************************************************************************)
(* The signed-in session of one browser: several tabs share the two tokens *)
(* of localStorage, and each tab has its own axios client with a refresh   *)
(* lock (isRefreshing) and a queue of the calls that met a 401 meanwhile.  *)
(*                                                                         *)
(* A step of a tab is what its script runs without yielding: an event      *)
(* handler or an arriving answer, with the promise continuations that      *)
(* follow at once.  What the server answers, and whether it still accepts  *)
(* an access token, is chosen when the answer arrives; only what it does   *)
(* to refresh tokens is a step of its own, before.                         *)
(***************************************************************************)
EXTENDS Naturals

CONSTANTS
  Tab,      \* tabs of the browser
  Call,     \* bound: API calls in progress at the same time, in all tabs
  Shares,   \* the ways the calls may be shared out to the tabs
  NoTab,    \* where a share puts a call that is not used
  MaxPair   \* bound: token pairs the server issues

ASSUME SessionAssumption ==
  /\ MaxPair \in Nat
  /\ NoTab \notin Tab
  /\ Shares \subseteq [Call -> Tab \cup {NoTab}]

VARIABLES
  access_token, refresh_token,   \* localStorage
  isRefreshing, failedQueue,     \* of axios.js, per tab
  defaults,                      \* per tab, api.defaults has an Authorization header
  refreshCall,                   \* per tab, the POST /auth/refresh in progress
  tabOf,                         \* the tab of each call, fixed
  call,                          \* the calls made through api/*.js
  screen,                        \* per tab, what App renders
  issued, spent,                 \* server: how many pairs, the refresh tokens it revoked
  abandoned                      \* history: a page that presented the stored refresh
                                 \* token was left before the answer

vars == <<access_token, refresh_token, isRefreshing, failedQueue, defaults, refreshCall,
          tabOf, call, screen, issued, spent, abandoned>>

storage == <<access_token, refresh_token, abandoned>>
client == <<isRefreshing, failedQueue, defaults, refreshCall, tabOf>>
server == <<issued, spent>>

None == 0
Pair == 1 .. MaxPair
Token == 0 .. MaxPair

\* verify: getMe of verifyAuth; login: loginUser; signIn: Google or a reset code, whose
\* 401 is not exempt from the refresh; load: any other call of the pages.
Kind == {"verify", "login", "signIn", "logout", "load"}

IdleCall == [phase |-> "idle"]

ActiveCall ==
  [phase  : {"starting", "sent", "queued", "refreshing"},
   kind   : Kind,
   retry  : BOOLEAN,        \* config._retry
   header : BOOLEAN,        \* sent with an Authorization header
   body   : Token]          \* logout: the refresh token of its body

NoRefresh == [phase |-> "none"]

RefreshCall ==
  [phase : {"sent", "answered"}, owner : Call, token : Token, pair : Token]

Init ==
  /\ access_token = None /\ refresh_token = None
  /\ isRefreshing = [t \in Tab |-> FALSE]
  /\ failedQueue = [t \in Tab |-> {}]
  /\ defaults = [t \in Tab |-> FALSE]
  /\ refreshCall = [t \in Tab |-> NoRefresh]
  /\ tabOf \in Shares
  /\ call = [c \in Call |-> IdleCall]
  /\ screen = [t \in Tab |-> "closed"]
  /\ issued = 0 /\ spent = {} /\ abandoned = FALSE

-----------------------------------------------------------------------------
(* The calls of a tab.                                                     *)

Active(c) == call[c].phase # "idle"

InTab(c, t) == Active(c) /\ tabOf[c] = t

Free(c) == ~Active(c) /\ tabOf[c] # NoTab

\* A call in the given phase, with what it keeps from the call before.
Record(kind, phase, retry, header, body) ==
  [phase |-> phase, kind |-> kind, retry |-> retry, header |-> header, body |-> body]

\* verifyAuth, before it reads localStorage.
Verification == Record("verify", "starting", FALSE, FALSE, None)

\* The request interceptor: the stored token, or the header the last refresh left in
\* api.defaults.
HasHeader(c) == access_token # None \/ defaults[tabOf[c]]

Send(c, kind, body) ==
  call' = [call EXCEPT ![c] = Record(kind, "sent", FALSE, HasHeader(c), body)]

Settle(c) == call' = [call EXCEPT ![c] = IdleCall]

StoreTokens(p) == access_token' = p /\ refresh_token' = p /\ abandoned' = FALSE

RemoveTokens == StoreTokens(None)

\* The refresh tokens that calls of the tab have in flight.
Presented(t) ==
  ({call[c].body : c \in {d \in Call : InTab(d, t)}} \ {None})
    \cup (IF refreshCall[t] = NoRefresh THEN {} ELSE {refreshCall[t].token})

\* Mutant of Release: failedQueue = [] is forgotten.
ReleaseOnly(t, queue) ==
  /\ isRefreshing' = [isRefreshing EXCEPT ![t] = FALSE]
  /\ refreshCall' = [refreshCall EXCEPT ![t] = NoRefresh]
  /\ UNCHANGED failedQueue

\* The refresh of the tab is over: the lock is free, the queue is what remains of it.
Release(t, queue) ==
  /\ isRefreshing' = [isRefreshing EXCEPT ![t] = FALSE]
  /\ refreshCall' = [refreshCall EXCEPT ![t] = NoRefresh]
  /\ failedQueue' = [failedQueue EXCEPT ![t] = queue]

\* The page is left: its script ends with everything it waited for.  The calls of C
\* belong to the page that is loaded next; without one the tab is closed.
LeavePage(t, C) ==
  /\ call' = [c \in Call |-> IF c \in C THEN Verification
                             ELSE IF InTab(c, t) THEN IdleCall ELSE call[c]]
  /\ screen' = [screen EXCEPT ![t] = IF C = {} THEN "closed" ELSE "checking"]
  /\ Release(t, {})
  /\ defaults' = [defaults EXCEPT ![t] = FALSE]
  /\ UNCHANGED tabOf

\* The end of logoutUser, however its request ended; then the sidebar loads "/".
LogoutEnds(c) == RemoveTokens /\ LeavePage(tabOf[c], {c})

\* Mutant of OpenTab: the app starts in a state that render does not know.
OpenTabLoading(c) ==
  /\ Free(c)
  /\ screen[tabOf[c]] = "closed"
  /\ call' = [call EXCEPT ![c] = Verification]
  /\ screen' = [screen EXCEPT ![tabOf[c]] = "loading"]
  /\ UNCHANGED <<storage, client, server>>

\* The first effect of App: the session is verified before anything is shown.
OpenTab(c) ==
  LET t == tabOf[c] IN
  /\ Free(c)
  /\ screen[t] = "closed"
  /\ call' = [call EXCEPT ![c] = Verification]
  /\ screen' = [screen EXCEPT ![t] = "checking"]
  /\ UNCHANGED <<storage, client, server>>

\* The user closes the tab (or reloads it: closes and opens) at any moment.
CloseTab(t) ==
  /\ screen[t] # "closed"
  /\ LeavePage(t, {})
  /\ abandoned' = (abandoned \/ refresh_token \in Presented(t))
  /\ UNCHANGED <<access_token, refresh_token, server>>

\* verifyAuth, at startup and after a sign-in: without a token nobody is signed in.
VerifyAuth(c) ==
  /\ call[c].phase = "starting"
  /\ \/ /\ access_token = None
        /\ Settle(c)
        /\ screen' = [screen EXCEPT ![tabOf[c]] = "login"]
     \/ /\ access_token # None
        /\ Send(c, "verify", None)
        /\ UNCHANGED screen
  /\ UNCHANGED <<storage, client, server>>

\* The login page signs in; the pages of the console load and save.
StartCall(c, kind) ==
  /\ Free(c)
  /\ \/ screen[tabOf[c]] = "login" /\ kind \in {"login", "signIn"}
     \/ screen[tabOf[c]] = "console" /\ kind = "load"
  /\ Send(c, kind, None)
  /\ UNCHANGED <<storage, client, screen, server>>

\* The logout button of the sidebar: without a refresh token there is no request.
StartLogout(c) ==
  /\ Free(c)
  /\ screen[tabOf[c]] = "console"
  /\ \/ /\ refresh_token = None
        /\ LogoutEnds(c)
     \/ /\ refresh_token # None
        /\ Send(c, "logout", refresh_token)
        /\ UNCHANGED <<storage, client, screen>>
  /\ UNCHANGED server

-----------------------------------------------------------------------------
(* The server and the network.                                             *)

\* POST /auth/logout revokes the refresh token of its body; the answer comes later.
RevokeBody(c) ==
  /\ call[c].phase = "sent" /\ call[c].kind = "logout" /\ call[c].header
  /\ call[c].body \notin spent
  /\ spent' = spent \cup {call[c].body}
  /\ UNCHANGED <<storage, client, call, screen, issued>>

AnswerRefresh(t, pair) ==
  refreshCall' = [refreshCall EXCEPT ![t] = [[@ EXCEPT !.phase = "answered"] EXCEPT !.pair = pair]]

\* POST /auth/refresh: the token presented is revoked and a new pair answered.
AcceptRefresh(t) ==
  /\ refreshCall[t].phase = "sent"
  /\ refreshCall[t].token \notin spent
  /\ spent' = spent \cup {refreshCall[t].token}
  /\ issued < MaxPair
  /\ issued' = issued + 1
  /\ AnswerRefresh(t, issued + 1)
  /\ UNCHANGED <<storage, isRefreshing, failedQueue, defaults, tabOf, call, screen>>

\* The token is refused (revoked, out of date, an inactive user), or the request or its
\* answer is lost: the client does the same for all of them.
LoseRefresh(t) ==
  /\ refreshCall[t].phase \in {"sent", "answered"}
  /\ AnswerRefresh(t, None)
  /\ UNCHANGED <<storage, isRefreshing, failedQueue, defaults, tabOf, call, screen, server>>

\* A request of a page that was left still reaches the server.
AcceptAbandoned ==
  /\ abandoned /\ refresh_token \notin spent
  /\ spent' = spent \cup {refresh_token}
  /\ UNCHANGED <<storage, client, call, screen, issued>>

-----------------------------------------------------------------------------
(* Answers: the response interceptor and the code that awaits the call.    *)

Pending(c) == call[c].phase = "sent"

\* A 401 answer goes through the refresh, unless it is the login's or a second one.
Refreshable(c) == Pending(c) /\ ~call[c].retry /\ call[c].kind # "login"

\* A 2xx answer.  A sign-in stores its pair and calls verifyAuth, which opens the console.
Succeed(c) ==
  /\ Pending(c)
  /\ \/ /\ call[c].kind = "load" /\ call[c].header
        /\ Settle(c)
        /\ UNCHANGED <<storage, client, screen, server>>
     \/ /\ call[c].kind = "verify" /\ call[c].header
        /\ Settle(c)
        /\ screen' = [screen EXCEPT ![tabOf[c]] = "console"]
        /\ UNCHANGED <<storage, client, server>>
     \/ /\ call[c].kind \in {"login", "signIn"}
        /\ issued < MaxPair
        /\ issued' = issued + 1
        /\ StoreTokens(issued + 1)
        /\ call' = [call EXCEPT ![c] = Verification]
        /\ UNCHANGED <<client, screen, spent>>
     \/ /\ call[c].kind = "logout" /\ call[c].body \in spent
        /\ LogoutEnds(c)
        /\ UNCHANGED server

\* Mutant of Fail: verifyAuth forgets setCheckingAuth(false) on an error.
FailStillChecking(c) ==
  /\ Pending(c)
  /\ Settle(c)
  /\ IF call[c].kind = "verify" THEN RemoveTokens ELSE UNCHANGED storage
  /\ UNCHANGED <<client, screen, server>>

\* Any error but a first 401, a lost answer included: the promise is rejected.
\* verifyAuth signs out whatever the error was, logoutUser ignores it.
Fail(c) ==
  /\ Pending(c)
  /\ \/ /\ call[c].kind \in {"load", "login", "signIn"}
        /\ Settle(c)
        /\ UNCHANGED <<storage, client, screen>>
     \/ /\ call[c].kind = "verify"
        /\ Settle(c)
        /\ RemoveTokens
        /\ screen' = [screen EXCEPT ![tabOf[c]] = "login"]
        /\ UNCHANGED <<client>>
     \/ /\ call[c].kind = "logout"
        /\ LogoutEnds(c)
  /\ UNCHANGED server

\* A 401 while the tab refreshes: the call waits in the queue.  Its _retry is not set.
Enqueue(c) ==
  /\ Refreshable(c)
  /\ isRefreshing[tabOf[c]]
  /\ call' = [call EXCEPT ![c] =
       Record(call[c].kind, "queued", FALSE, call[c].header, call[c].body)]
  /\ failedQueue' = [failedQueue EXCEPT ![tabOf[c]] = @ \cup {c}]
  /\ UNCHANGED <<storage, isRefreshing, defaults, refreshCall, tabOf, screen, server>>

\* The first 401 takes the lock and presents the stored refresh token.
StartRefresh(c) ==
  LET t == tabOf[c] IN
  /\ Refreshable(c)
  /\ ~isRefreshing[t]
  /\ refresh_token # None
  /\ isRefreshing' = [isRefreshing EXCEPT ![t] = TRUE]
  /\ call' = [call EXCEPT ![c] =
       Record(call[c].kind, "refreshing", TRUE, call[c].header, call[c].body)]
  /\ refreshCall' = [refreshCall EXCEPT ![t] =
       [phase |-> "sent", owner |-> c, token |-> refresh_token, pair |-> None]]
  /\ UNCHANGED <<storage, failedQueue, defaults, tabOf, screen, server>>

\* The promises of C are rejected; setAuthenticated(false) shows the login page, unless the
\* first check is still running.
Rejected(t, C) ==
  /\ call' = [c \in Call |-> IF c \in C THEN IdleCall ELSE call[c]]
  /\ screen' = [screen EXCEPT ![t] =
       IF @ = "console" \/ \E c \in C : call[c].kind = "verify" THEN "login" ELSE @]
  /\ Release(t, failedQueue[t] \ C)
  /\ UNCHANGED <<defaults, tabOf>>

\* Mutant of SignOut: the tokens stay in localStorage.
SignOutKeepingTokens(t, C) ==
  \/ \E c \in C : call[c].kind = "logout" /\ LogoutEnds(c)
  \/ /\ \A c \in C : call[c].kind # "logout"
     /\ Rejected(t, C)
     /\ UNCHANGED storage

\* The calls C of tab t are rejected, the tokens removed, auth_logout dispatched.
SignOut(t, C) ==
  \/ \E c \in C : call[c].kind = "logout" /\ LogoutEnds(c)
  \/ /\ \A c \in C : call[c].kind # "logout"
     /\ Rejected(t, C)
     /\ RemoveTokens

\* A 401 and no refresh token: auth_logout; the lock, just taken, is released.
NoRefreshToken(c) ==
  /\ Refreshable(c)
  /\ ~isRefreshing[tabOf[c]]
  /\ refresh_token = None
  /\ SignOut(tabOf[c], {c})
  /\ UNCHANGED server

\* The new pair is stored, the owner and the queued calls are sent again; finally the
\* lock is released.
RefreshSucceeds(t) ==
  LET r == refreshCall[t] IN
  /\ r.phase = "answered" /\ r.pair # None
  /\ StoreTokens(r.pair)
  /\ call' = [c \in Call |->
       IF c \in failedQueue[t] \cup {r.owner}
         THEN Record(call[c].kind, "sent", call[c].retry, TRUE, call[c].body)
         ELSE call[c]]
  /\ Release(t, {})
  /\ defaults' = [defaults EXCEPT ![t] = TRUE]
  /\ UNCHANGED <<tabOf, screen, server>>

\* Mutant of RefreshFails: processQueue(refreshErr) is forgotten.
RefreshFailsForOwner(t) ==
  /\ refreshCall[t].phase = "answered" /\ refreshCall[t].pair = None
  /\ SignOut(t, {refreshCall[t].owner})
  /\ UNCHANGED server

\* The owner and the queued calls are rejected.
RefreshFails(t) ==
  /\ refreshCall[t].phase = "answered" /\ refreshCall[t].pair = None
  /\ SignOut(t, failedQueue[t] \cup {refreshCall[t].owner})
  /\ UNCHANGED server

-----------------------------------------------------------------------------

Answered(c) ==
  Succeed(c) \/ Fail(c) \/ Enqueue(c) \/ NoRefreshToken(c) \/ StartRefresh(c)

RefreshSteps(t) ==
  AcceptRefresh(t) \/ LoseRefresh(t) \/ RefreshSucceeds(t) \/ RefreshFails(t)

Next ==
  \/ \E t \in Tab : CloseTab(t) \/ RefreshSteps(t)
  \/ \E c \in Call :
       \/ OpenTab(c) \/ VerifyAuth(c) \/ StartLogout(c)
       \/ \E kind \in {"login", "signIn", "load"} : StartCall(c, kind)
       \/ RevokeBody(c) \/ Answered(c)
  \/ AcceptAbandoned

Spec == Init /\ [][Next]_vars

\* Nothing is assumed of the users.  A script runs what is due (the event loop), and a
\* request ends with an answer or with an error.
FairSpec ==
  /\ Spec
  /\ \A c \in Call : WF_vars(VerifyAuth(c) \/ Answered(c))
  /\ \A t \in Tab : WF_vars(RefreshSteps(t))

-----------------------------------------------------------------------------
(* Properties.                                                             *)

\* Tokens, calls, refreshes and screens stay in their types.
TypeOK ==
  /\ access_token \in Token /\ refresh_token \in Token
  /\ isRefreshing \in [Tab -> BOOLEAN]
  /\ failedQueue \in [Tab -> SUBSET Call]
  /\ defaults \in [Tab -> BOOLEAN]
  /\ tabOf \in [Call -> Tab \cup {NoTab}]
  /\ refreshCall \in [Tab -> RefreshCall \cup {NoRefresh}]
  /\ call \in [Call -> ActiveCall \cup {IdleCall}]
  /\ screen \in [Tab -> {"closed", "checking", "login", "console"}]
  /\ issued \in Token /\ spent \subseteq Pair /\ abandoned \in BOOLEAN

\* A tab's lock is held exactly while its refresh is in progress, for an owner that
\* waits for it and is marked _retry.
LockHasOwner ==
  \A t \in Tab :
    /\ isRefreshing[t] <=> refreshCall[t] # NoRefresh
    /\ isRefreshing[t] =>
         /\ InTab(refreshCall[t].owner, t)
         /\ call[refreshCall[t].owner].phase = "refreshing"
         /\ call[refreshCall[t].owner].retry

\* A queued call is in the queue of its own tab, whose refresh will serve it; the queue
\* holds no call that is already under way again.
QueueServed ==
  /\ \A t \in Tab : \A c \in failedQueue[t] : InTab(c, t) /\ call[c].phase = "queued"
  /\ \A c \in Call :
       /\ call[c].phase = "queued" =>
            c \in failedQueue[tabOf[c]] /\ isRefreshing[tabOf[c]]
       /\ call[c].phase = "refreshing" =>
            /\ isRefreshing[tabOf[c]]
            /\ refreshCall[tabOf[c]].owner = c

\* A refresh token works once (auth_service.refresh revokes it), so the browser must not
\* keep one that was presented: the stored token is spent only while the call that
\* presented it is in flight, in some tab, or was cut off when its page was left.
SpentTokenInFlight ==
  refresh_token \in spent =>
    abandoned \/ \E t \in Tab : refresh_token \in Presented(t)

\* Every call is settled: no promise of the client waits for ever, in the queue, behind
\* the lock or for the network.
EveryCallSettles == \A c \in Call : Active(c) ~> ~Active(c)

\* "Verifying platform session..." does not stay: the first check, which may itself be
\* refreshed or queued, ends with the console or the login page.
CheckingEnds == \A t \in Tab : screen[t] = "checking" ~> screen[t] # "checking"
=============================================================================
