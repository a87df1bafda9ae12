------------------------- MODULE FrontendSessionProofs -------------------------
(***************************************************************************)
(* What holds of FrontendSession for any number of tabs and calls and any  *)
(* number of token pairs.                                                  *)
(***************************************************************************)
EXTENDS FrontendSession, TLAPS

USE SessionAssumption

LEMMA NoneIsToken == None \in Token
BY DEF None, Token, SessionAssumption

\* The fields of a call in progress.
Fields(c) ==
  /\ call[c].phase \in {"starting", "sent", "queued", "refreshing"}
  /\ call[c].kind \in Kind
  /\ call[c].retry \in BOOLEAN /\ call[c].header \in BOOLEAN
  /\ call[c].body \in Token

\* Only a logout carries a refresh token, and only verifyAuth starts before it sends.
Carries(r) ==
  /\ r.body # None <=> r.kind = "logout"
  /\ r.phase = "starting" => r.kind = "verify"

USE DEF Carries

\* A call in progress belongs to a tab.
CallsPlaced ==
  \A c \in Call : Active(c) =>
    /\ tabOf[c] \in Tab
    /\ Carries(call[c])

\* What QueueServed needs to be inductive: the lock has the owner that will release it.
Shape == TypeOK /\ CallsPlaced /\ LockHasOwner /\ QueueServed

LEMMA CallFields ==
  ASSUME TypeOK, NEW c \in Call, Active(c)
  PROVE  call[c] \in ActiveCall /\ Fields(c)
<1>1. call[c] \in ActiveCall \cup {IdleCall}
  BY DEF TypeOK
<1>2. call[c] # IdleCall
  BY DEF Active, IdleCall
<1> QED BY <1>1, <1>2 DEF ActiveCall, Fields

LEMMA RecordType ==
  ASSUME NEW kind \in Kind, NEW phase \in {"starting", "sent", "queued", "refreshing"},
         NEW retry \in BOOLEAN, NEW header \in BOOLEAN, NEW body \in Token
  PROVE  /\ Record(kind, phase, retry, header, body) \in ActiveCall
         /\ Record(kind, phase, retry, header, body).phase = phase
         /\ Record(kind, phase, retry, header, body).kind = kind
         /\ Record(kind, phase, retry, header, body).retry = retry
         /\ Record(kind, phase, retry, header, body).body = body
BY DEF Record, ActiveCall

LEMMA VerificationType ==
  /\ Verification \in ActiveCall
  /\ Verification.phase = "starting" /\ Verification.kind = "verify" /\ Verification.body = None
BY NoneIsToken DEF Verification, Record, ActiveCall, Kind

LEMMA RefreshFields ==
  ASSUME TypeOK, NEW t \in Tab
  PROVE  /\ refreshCall[t] # NoRefresh <=> refreshCall[t].phase # "none"
         /\ refreshCall[t] # NoRefresh =>
              /\ refreshCall[t] \in RefreshCall
              /\ refreshCall[t].phase \in {"sent", "answered"}
              /\ refreshCall[t].owner \in Call
              /\ refreshCall[t].token \in Token /\ refreshCall[t].pair \in Token
<1>1. refreshCall[t] \in RefreshCall \cup {NoRefresh}
  BY DEF TypeOK
<1> QED BY <1>1 DEF RefreshCall, NoRefresh

-----------------------------------------------------------------------------
(* How the steps move calls.                                               *)

\* A call outside lock and queue becomes another such call, or ends.
LEMMA CallStep ==
  ASSUME Shape, NEW c \in Call, NEW r \in ActiveCall \cup {IdleCall},
         call[c].phase \notin {"queued", "refreshing"},
         r.phase \notin {"queued", "refreshing"},
         r.phase # "idle" => tabOf[c] \in Tab /\ Carries(r),
         call' = [call EXCEPT ![c] = r], UNCHANGED client
  PROVE  /\ call' \in [Call -> ActiveCall \cup {IdleCall}]
         /\ (CallsPlaced /\ LockHasOwner /\ QueueServed)'
<1> USE DEF client
<1>1. /\ call' \in [Call -> ActiveCall \cup {IdleCall}]
      /\ call'[c] = r
      /\ \A d \in Call \ {c} : call'[d] = call[d]
  BY DEF Shape, TypeOK
<1>2. CallsPlaced'
  BY <1>1 DEF Shape, CallsPlaced, Active
<1>3. \A t \in Tab : isRefreshing[t] => refreshCall[t].owner \in Call \ {c}
  BY RefreshFields DEF Shape, LockHasOwner
<1>4. LockHasOwner'
  BY <1>1, <1>3 DEF Shape, LockHasOwner, InTab, Active
<1>5. \A t \in Tab : failedQueue[t] \subseteq Call \ {c}
  BY DEF Shape, TypeOK, QueueServed
<1>6. QueueServed'
  BY <1>1, <1>5 DEF Shape, QueueServed, InTab, Active
<1> QED BY <1>1, <1>2, <1>4, <1>6

\* The refresh of a tab is over, and so is every call that waited for it.
LEMMA ReleaseStep ==
  ASSUME Shape, NEW t \in Tab, Release(t, {}), UNCHANGED tabOf,
         call' \in [Call -> ActiveCall \cup {IdleCall}],
         \A c \in Call :
           \/ call'[c] = call[c] /\ ~ (InTab(c, t) /\ call[c].phase \in {"queued", "refreshing"})
           \/ call'[c].phase = "idle" /\ InTab(c, t)
           \/ /\ call'[c].phase \notin {"idle", "queued", "refreshing"}
              /\ Carries(call'[c])
              /\ tabOf[c] = t
  PROVE  (CallsPlaced /\ LockHasOwner /\ QueueServed)'
<1>1. /\ isRefreshing'[t] = FALSE /\ refreshCall'[t] = NoRefresh /\ failedQueue'[t] = {}
      /\ \A u \in Tab \ {t} : /\ isRefreshing'[u] = isRefreshing[u]
                              /\ refreshCall'[u] = refreshCall[u]
                              /\ failedQueue'[u] = failedQueue[u]
  BY DEF Shape, TypeOK, Release
<1>2. CallsPlaced'
  BY DEF Shape, CallsPlaced, Active
<1>3. \A c \in Call : call'[c].phase \in {"queued", "refreshing"} =>
        call'[c] = call[c] /\ InTab(c, tabOf[c]) /\ tabOf[c] \in Tab \ {t}
  BY DEF Shape, CallsPlaced, InTab, Active
<1>4. \A c \in Call, u \in Tab \ {t} :
        InTab(c, u) /\ call[c].phase \in {"queued", "refreshing"} => call'[c] = call[c]
  BY DEF InTab
<1>5. LockHasOwner'
  <2> SUFFICES ASSUME NEW u \in Tab
               PROVE  /\ isRefreshing'[u] <=> refreshCall'[u] # NoRefresh
                      /\ isRefreshing'[u] =>
                           /\ tabOf'[refreshCall'[u].owner] = u
                           /\ call'[refreshCall'[u].owner].phase = "refreshing"
                           /\ call'[refreshCall'[u].owner].retry
    BY DEF LockHasOwner, InTab, Active
  <2>1. CASE u = t
    BY <1>1, <2>1
  <2>2. CASE u # t /\ isRefreshing[u]
    <3>1. /\ refreshCall[u].owner \in Call /\ InTab(refreshCall[u].owner, u)
          /\ call[refreshCall[u].owner].phase = "refreshing"
          /\ call[refreshCall[u].owner].retry
      BY <2>2, RefreshFields DEF Shape, LockHasOwner
    <3>2. call'[refreshCall[u].owner] = call[refreshCall[u].owner]
      BY <2>2, <3>1, <1>4
    <3> QED BY <1>1, <2>2, <3>1, <3>2 DEF Shape, LockHasOwner, InTab, Active
  <2>3. CASE u # t /\ ~isRefreshing[u]
    BY <1>1, <2>3 DEF Shape, LockHasOwner
  <2> QED BY <2>1, <2>2, <2>3
<1>6. \A u \in Tab : \A c \in failedQueue'[u] :
        call'[c].phase = "queued" /\ tabOf'[c] = u
  <2> SUFFICES ASSUME NEW u \in Tab, NEW c \in failedQueue'[u]
               PROVE  call'[c].phase = "queued" /\ tabOf'[c] = u
    OBVIOUS
  <2>1. u # t /\ c \in failedQueue[u] /\ c \in Call
    BY <1>1 DEF Shape, TypeOK
  <2>2. InTab(c, u) /\ call[c].phase = "queued"
    BY <2>1 DEF Shape, QueueServed
  <2> QED BY <2>1, <2>2, <1>4 DEF InTab
<1>7. ASSUME NEW c \in Call
      PROVE  /\ call'[c].phase = "queued" =>
                  c \in failedQueue'[tabOf'[c]] /\ isRefreshing'[tabOf'[c]]
             /\ call'[c].phase = "refreshing" =>
                  isRefreshing'[tabOf'[c]] /\ refreshCall'[tabOf'[c]].owner = c
  BY <1>1, <1>3 DEF Shape, QueueServed
<1> QED BY <1>2, <1>5, <1>6, <1>7 DEF QueueServed, InTab, Active

LEMMA ReleaseTypes ==
  ASSUME TypeOK, NEW t \in Tab, NEW queue \in SUBSET Call, Release(t, queue)
  PROVE  /\ isRefreshing' \in [Tab -> BOOLEAN]
         /\ failedQueue' \in [Tab -> SUBSET Call]
         /\ refreshCall' \in [Tab -> RefreshCall \cup {NoRefresh}]
BY DEF TypeOK, Release

LEMMA LeaveStep ==
  ASSUME Shape, NEW t \in Tab, NEW C \in SUBSET Call, \A c \in C : tabOf[c] = t,
         LeavePage(t, C), UNCHANGED server,
         access_token' \in Token, refresh_token' \in Token, abandoned' \in BOOLEAN
  PROVE  Shape'
<1>1. call' \in [Call -> ActiveCall \cup {IdleCall}]
  BY VerificationType DEF Shape, TypeOK, LeavePage
<1>2. \A c \in Call :
        \/ call'[c] = call[c] /\ ~ InTab(c, t)
        \/ call'[c].phase = "idle" /\ InTab(c, t)
        \/ /\ call'[c].phase = "starting" /\ tabOf[c] = t
           /\ call'[c].body = None /\ call'[c].kind = "verify"
  BY VerificationType DEF LeavePage, IdleCall
<1>3. (CallsPlaced /\ LockHasOwner /\ QueueServed)'
  BY <1>1, <1>2, ReleaseStep DEF LeavePage
<1>4. screen' \in [Tab -> {"closed", "checking", "login", "console"}]
      /\ defaults' \in [Tab -> BOOLEAN] /\ tabOf' = tabOf
  BY DEF Shape, TypeOK, LeavePage
<1>5. TypeOK'
  BY <1>1, <1>4, ReleaseTypes DEF Shape, TypeOK, LeavePage, server
<1> QED BY <1>3, <1>5 DEF Shape

LEMMA LogoutEndsStep ==
  ASSUME Shape, NEW c \in Call, tabOf[c] \in Tab, LogoutEnds(c), UNCHANGED server
  PROVE  Shape'
<1>1. access_token' \in Token /\ refresh_token' \in Token /\ abandoned' \in BOOLEAN
  BY NoneIsToken DEF LogoutEnds, RemoveTokens, StoreTokens
<1> QED BY <1>1, LeaveStep DEF LogoutEnds

\* Every call that waits for the refresh of the tab is rejected.
LEMMA SignOutStep ==
  ASSUME Shape, NEW t \in Tab, NEW C \in SUBSET Call, \A c \in C : InTab(c, t),
         failedQueue[t] \subseteq C,
         \A c \in Call : InTab(c, t) /\ call[c].phase \in {"queued", "refreshing"} => c \in C,
         SignOut(t, C), UNCHANGED server
  PROVE  Shape'
<1>1. CASE \E c \in C : call[c].kind = "logout" /\ LogoutEnds(c)
  BY <1>1, LogoutEndsStep DEF InTab
<1>2. CASE Rejected(t, C) /\ RemoveTokens
  <2>1. Release(t, {}) /\ UNCHANGED <<defaults, tabOf>>
    <3>1. failedQueue[t] \ C = {}
      OBVIOUS
    <3> QED BY <1>2, <3>1 DEF Rejected
  <2>2. /\ call' \in [Call -> ActiveCall \cup {IdleCall}]
        /\ \A c \in Call : call'[c] = IF c \in C THEN IdleCall ELSE call[c]
    BY <1>2 DEF Rejected, Shape, TypeOK
  <2>3. \A c \in Call :
          \/ call'[c] = call[c] /\ ~ (InTab(c, t) /\ call[c].phase \in {"queued", "refreshing"})
          \/ call'[c].phase = "idle" /\ InTab(c, t)
    BY <2>2 DEF IdleCall
  <2>4. (CallsPlaced /\ LockHasOwner /\ QueueServed)'
    BY <2>1, <2>2, <2>3, ReleaseStep
  <2>5. screen' \in [Tab -> {"closed", "checking", "login", "console"}]
    BY <1>2 DEF Rejected, Shape, TypeOK
  <2>6. access_token' \in Token /\ refresh_token' \in Token /\ abandoned' \in BOOLEAN
    BY <1>2, NoneIsToken DEF RemoveTokens, StoreTokens
  <2>7. TypeOK'
    BY <2>1, <2>2, <2>5, <2>6, ReleaseTypes DEF Shape, TypeOK, server
  <2> QED BY <2>4, <2>7 DEF Shape
<1> QED BY <1>1, <1>2 DEF SignOut

\* A call becomes r and the screen of its tab changes at most.
LEMMA SimpleStep ==
  ASSUME Shape, NEW c \in Call, NEW r \in ActiveCall \cup {IdleCall},
         call[c].phase \notin {"queued", "refreshing"},
         r.phase \notin {"queued", "refreshing"},
         r.phase # "idle" => tabOf[c] \in Tab /\ Carries(r),
         call' = [call EXCEPT ![c] = r], UNCHANGED client,
         screen' \in [Tab -> {"closed", "checking", "login", "console"}],
         access_token' \in Token, refresh_token' \in Token, abandoned' \in BOOLEAN,
         issued' \in Token, spent' \subseteq Pair
  PROVE  Shape'
BY CallStep DEF Shape, TypeOK, client

\* The parts of TypeOK that most steps leave to SimpleStep.
LEMMA Types ==
  ASSUME Shape
  PROVE  /\ access_token \in Token /\ refresh_token \in Token /\ abandoned \in BOOLEAN
         /\ issued \in Token /\ spent \subseteq Pair
         /\ screen \in [Tab -> {"closed", "checking", "login", "console"}]
BY DEF Shape, TypeOK

LEMMA SendType ==
  ASSUME Shape, NEW c \in Call, NEW kind \in Kind, NEW body \in Token, Send(c, kind, body)
  PROVE  \E r \in ActiveCall :
           /\ r.phase = "sent" /\ r.kind = kind /\ r.body = body
           /\ call' = [call EXCEPT ![c] = r]
<1>1. HasHeader(c) \in BOOLEAN
  BY DEF HasHeader
<1> DEFINE r == Record(kind, "sent", FALSE, HasHeader(c), body)
<1>2. r \in ActiveCall /\ r.phase = "sent" /\ r.kind = kind /\ r.body = body
  BY <1>1 DEF Record, ActiveCall
<1> QED BY <1>2 DEF Send

LEMMA OpenTabShape == ASSUME Shape, NEW c \in Call, OpenTab(c) PROVE Shape'
<1>1. tabOf[c] \in Tab /\ call[c].phase = "idle"
  BY DEF OpenTab, Free, Active, Shape, TypeOK
<1>2. screen' \in [Tab -> {"closed", "checking", "login", "console"}]
  BY Types DEF OpenTab
<1> QED BY <1>1, <1>2, Types, VerificationType, SimpleStep DEF OpenTab, storage, server

LEMMA CloseTabShape == ASSUME Shape, NEW t \in Tab, CloseTab(t) PROVE Shape'
<1>1. access_token' \in Token /\ refresh_token' \in Token /\ abandoned' \in BOOLEAN
  BY Types DEF CloseTab
<1> QED BY <1>1, LeaveStep DEF CloseTab, server

LEMMA VerifyAuthShape == ASSUME Shape, NEW c \in Call, VerifyAuth(c) PROVE Shape'
<1>1. tabOf[c] \in Tab /\ call[c].phase = "starting"
  BY DEF VerifyAuth, Active, Shape, CallsPlaced
<1>2. CASE Settle(c) /\ screen' = [screen EXCEPT ![tabOf[c]] = "login"]
  <2>1. screen' \in [Tab -> {"closed", "checking", "login", "console"}]
    BY <1>2, Types
  <2> QED BY <1>1, <1>2, <2>1, Types, SimpleStep DEF VerifyAuth, storage, server, Settle, IdleCall
<1>3. CASE Send(c, "verify", None) /\ UNCHANGED screen
  <2>1. PICK r \in ActiveCall : /\ r.phase = "sent" /\ r.kind = "verify" /\ r.body = None
                                /\ call' = [call EXCEPT ![c] = r]
    BY <1>3, SendType, NoneIsToken DEF Kind
  <2> QED BY <1>1, <1>3, <2>1, Types, SimpleStep DEF VerifyAuth, storage, server
<1> QED BY <1>2, <1>3 DEF VerifyAuth

LEMMA StartCallShape ==
  ASSUME Shape, NEW c \in Call, NEW kind \in {"login", "signIn", "load"}, StartCall(c, kind)
  PROVE  Shape'
<1>1. tabOf[c] \in Tab /\ call[c].phase = "idle"
  BY DEF StartCall, Free, Active, Shape, TypeOK
<1>2. PICK r \in ActiveCall : /\ r.phase = "sent" /\ r.kind = kind /\ r.body = None
                              /\ call' = [call EXCEPT ![c] = r]
  BY SendType, NoneIsToken DEF StartCall, Kind
<1> QED BY <1>1, <1>2, Types, SimpleStep DEF StartCall, storage, server

LEMMA StartLogoutShape == ASSUME Shape, NEW c \in Call, StartLogout(c) PROVE Shape'
<1>1. tabOf[c] \in Tab /\ call[c].phase = "idle" /\ UNCHANGED server
  BY DEF StartLogout, Free, Active, Shape, TypeOK
<1>2. CASE LogoutEnds(c)
  BY <1>1, <1>2, LogoutEndsStep
<1>3. CASE refresh_token # None /\ Send(c, "logout", refresh_token)
           /\ UNCHANGED <<storage, client, screen>>
  <2>1. PICK r \in ActiveCall : /\ r.phase = "sent" /\ r.kind = "logout"
                                /\ r.body = refresh_token
                                /\ call' = [call EXCEPT ![c] = r]
    BY <1>3, SendType, Types DEF Kind
  <2> QED BY <1>1, <1>3, <2>1, Types, SimpleStep DEF storage, server
<1> QED BY <1>2, <1>3 DEF StartLogout

\* Steps of the server leave the shape as it is.
LEMMA ServerShape ==
  ASSUME Shape, UNCHANGED <<storage, client, call, screen>>,
         issued' \in Token, spent' \subseteq Pair
  PROVE  Shape'
BY DEF Shape, TypeOK, CallsPlaced, LockHasOwner, QueueServed, InTab, Active, storage, client

LEMMA AnswerType ==
  ASSUME NEW r \in RefreshCall, NEW pair \in Token
  PROVE  LET new == [[r EXCEPT !.phase = "answered"] EXCEPT !.pair = pair] IN
           /\ new \in RefreshCall
           /\ new.phase = "answered" /\ new.pair = pair
           /\ new.owner = r.owner /\ new.token = r.token
BY DEF RefreshCall

LEMMA AnswerShape ==
  ASSUME Shape, NEW t \in Tab, NEW pair \in Token,
         refreshCall[t].phase \in {"sent", "answered"}, AnswerRefresh(t, pair),
         UNCHANGED <<storage, isRefreshing, failedQueue, defaults, tabOf, call, screen>>,
         issued' \in Token, spent' \subseteq Pair
  PROVE  Shape'
<1> DEFINE new == [[refreshCall[t] EXCEPT !.phase = "answered"] EXCEPT !.pair = pair]
<1>1. refreshCall[t] \in RefreshCall /\ refreshCall[t] # NoRefresh
  BY RefreshFields DEF Shape
<1>2. new \in RefreshCall /\ new.owner = refreshCall[t].owner /\ new # NoRefresh
  <2>1. new \in RefreshCall /\ new.phase = "answered" /\ new.owner = refreshCall[t].owner
    BY <1>1, AnswerType
  <2> QED BY <2>1 DEF NoRefresh
<1>3. refreshCall' = [refreshCall EXCEPT ![t] = new]
  BY DEF AnswerRefresh
<1> HIDE DEF new
<1>4. /\ refreshCall' \in [Tab -> RefreshCall \cup {NoRefresh}]
      /\ \A u \in Tab : /\ refreshCall'[u].owner = refreshCall[u].owner
                        /\ refreshCall'[u] # NoRefresh <=> refreshCall[u] # NoRefresh
  BY <1>1, <1>2, <1>3 DEF Shape, TypeOK
<1>5. TypeOK' /\ CallsPlaced' /\ LockHasOwner'
  BY <1>4 DEF Shape, TypeOK, CallsPlaced, LockHasOwner, InTab, Active, storage
<1>6. QueueServed'
  BY <1>4 DEF Shape, CallsPlaced, QueueServed, InTab, Active
<1> QED BY <1>5, <1>6 DEF Shape

LEMMA SignInShape ==
  ASSUME Shape, NEW c \in Call, Pending(c),
         issued < MaxPair, issued' = issued + 1, StoreTokens(issued + 1),
         call' = [call EXCEPT ![c] = Verification], UNCHANGED <<client, screen, spent>>
  PROVE  Shape'
<1>1. issued + 1 \in Token
  BY Types DEF Token, SessionAssumption
<1>2. tabOf[c] \in Tab /\ call[c].phase = "sent"
  BY DEF Pending, Active, Shape, CallsPlaced
<1>3. access_token' \in Token /\ refresh_token' \in Token /\ abandoned' \in BOOLEAN
  BY <1>1 DEF StoreTokens
<1> QED BY <1>1, <1>2, <1>3, Types, VerificationType, SimpleStep

LEMMA SettleShape ==
  ASSUME Shape, NEW c \in Call, Pending(c), Settle(c), UNCHANGED <<client, server>>,
         access_token' \in Token, refresh_token' \in Token, abandoned' \in BOOLEAN,
         screen' \in [Tab -> {"closed", "checking", "login", "console"}]
  PROVE  Shape'
<1>1. IdleCall.phase = "idle"
  BY DEF IdleCall
<1> QED BY <1>1, Types, SimpleStep DEF Pending, Settle, server

LEMMA SucceedShape == ASSUME Shape, NEW c \in Call, Succeed(c) PROVE Shape'
<1>1. Pending(c) /\ tabOf[c] \in Tab
  BY DEF Succeed, Pending, Active, Shape, CallsPlaced
<1>2. CASE Settle(c) /\ UNCHANGED <<storage, client, screen, server>>
  BY <1>1, <1>2, Types, SettleShape DEF storage
<1>3. CASE Settle(c) /\ screen' = [screen EXCEPT ![tabOf[c]] = "console"]
           /\ UNCHANGED <<storage, client, server>>
  <2>1. screen' \in [Tab -> {"closed", "checking", "login", "console"}]
    BY <1>3, Types
  <2> QED BY <1>1, <1>3, <2>1, Types, SettleShape DEF storage
<1>4. CASE /\ issued < MaxPair /\ issued' = issued + 1 /\ StoreTokens(issued + 1)
           /\ call' = [call EXCEPT ![c] = Verification] /\ UNCHANGED <<client, screen, spent>>
  BY <1>1, <1>4, SignInShape
<1>5. CASE LogoutEnds(c) /\ UNCHANGED server
  BY <1>1, <1>5, LogoutEndsStep
<1> QED BY <1>2, <1>3, <1>4, <1>5 DEF Succeed

LEMMA FailShape == ASSUME Shape, NEW c \in Call, Fail(c) PROVE Shape'
<1>1. Pending(c) /\ tabOf[c] \in Tab /\ UNCHANGED server
  BY DEF Fail, Pending, Active, Shape, CallsPlaced
<1>2. CASE Settle(c) /\ UNCHANGED <<storage, client, screen>>
  BY <1>1, <1>2, Types, SettleShape DEF storage
<1>3. CASE Settle(c) /\ RemoveTokens /\ screen' = [screen EXCEPT ![tabOf[c]] = "login"]
           /\ UNCHANGED client
  <2>1. /\ screen' \in [Tab -> {"closed", "checking", "login", "console"}]
        /\ access_token' \in Token /\ refresh_token' \in Token /\ abandoned' \in BOOLEAN
    BY <1>3, Types, NoneIsToken DEF RemoveTokens, StoreTokens
  <2> QED BY <1>1, <1>3, <2>1, SettleShape
<1>4. CASE LogoutEnds(c)
  BY <1>1, <1>4, LogoutEndsStep
<1> QED BY <1>2, <1>3, <1>4 DEF Fail

\* A call in progress goes on, in another phase.
LEMMA Continues ==
  ASSUME Shape, NEW c \in Call, Active(c), NEW retry \in BOOLEAN,
         NEW phase \in {"starting", "sent", "queued", "refreshing"},
         call' = [call EXCEPT ![c] =
           Record(call[c].kind, phase, retry, call[c].header, call[c].body)]
  PROVE  /\ call' \in [Call -> ActiveCall \cup {IdleCall}]
         /\ call'[c].phase = phase /\ call'[c].retry = retry
         /\ call'[c].body = call[c].body /\ call'[c].kind = call[c].kind
         /\ \A d \in Call \ {c} : call'[d] = call[d]
<1>1. Fields(c)
  BY CallFields DEF Shape
<1> DEFINE r == Record(call[c].kind, phase, retry, call[c].header, call[c].body)
<1>2. /\ r \in ActiveCall /\ r.phase = phase /\ r.retry = retry
      /\ r.body = call[c].body /\ r.kind = call[c].kind
  BY <1>1, RecordType DEF Fields
<1> HIDE DEF r
<1>3. call' = [call EXCEPT ![c] = r]
  BY DEF r
<1> QED BY <1>2, <1>3 DEF Shape, TypeOK

LEMMA EnqueueShape == ASSUME Shape, NEW c \in Call, Enqueue(c) PROVE Shape'
<1>1. Active(c) /\ call[c].phase = "sent" /\ tabOf[c] \in Tab
  BY DEF Enqueue, Refreshable, Pending, Active, Shape, CallsPlaced
<1>2. /\ call' \in [Call -> ActiveCall \cup {IdleCall}] /\ call'[c].phase = "queued"
      /\ call'[c].body = call[c].body /\ call'[c].kind = call[c].kind
      /\ \A d \in Call \ {c} : call'[d] = call[d]
  BY <1>1, Continues DEF Enqueue
<1>3. /\ failedQueue' \in [Tab -> SUBSET Call]
      /\ failedQueue'[tabOf[c]] = failedQueue[tabOf[c]] \cup {c}
      /\ \A t \in Tab : t # tabOf[c] => failedQueue'[t] = failedQueue[t]
      /\ isRefreshing[tabOf[c]]
      /\ UNCHANGED <<storage, isRefreshing, defaults, refreshCall, tabOf, screen, server>>
  BY <1>1 DEF Enqueue, Shape, TypeOK
<1>4. TypeOK'
  BY <1>2, <1>3 DEF Shape, TypeOK, storage, server
<1>5. CallsPlaced'
  BY <1>1, <1>2, <1>3 DEF Shape, CallsPlaced, Active
<1>6. \A t \in Tab : isRefreshing[t] => refreshCall[t].owner \in Call \ {c}
  BY <1>1, RefreshFields DEF Shape, LockHasOwner
<1>7. LockHasOwner'
  BY <1>2, <1>3, <1>6 DEF Shape, LockHasOwner, InTab, Active
<1>8. \A t \in Tab : \A d \in failedQueue'[t] :
        InTab(d, t)' /\ call'[d].phase = "queued"
  BY <1>1, <1>2, <1>3 DEF Shape, TypeOK, QueueServed, InTab, Active
<1>9. \A d \in Call :
        /\ call'[d].phase = "queued" => d \in failedQueue'[tabOf[d]] /\ isRefreshing[tabOf[d]]
        /\ call'[d].phase = "refreshing" =>
             isRefreshing[tabOf[d]] /\ refreshCall[tabOf[d]].owner = d
  <2>1. \A d \in Call \ {c} : call[d].phase = "queued" => d \in failedQueue'[tabOf[d]]
    BY <1>3 DEF Shape, QueueServed, CallsPlaced, Active
  <2> QED BY <1>2, <1>3, <2>1 DEF Shape, QueueServed
<1>10. QueueServed'
  BY <1>3, <1>8, <1>9 DEF QueueServed
<1> QED BY <1>4, <1>5, <1>7, <1>10 DEF Shape

LEMMA StartRefreshShape == ASSUME Shape, NEW c \in Call, StartRefresh(c) PROVE Shape'
<1> DEFINE t == tabOf[c]
           new == [phase |-> "sent", owner |-> c, token |-> refresh_token, pair |-> None]
<1>1. Active(c) /\ call[c].phase = "sent" /\ t \in Tab /\ ~isRefreshing[t]
  BY DEF StartRefresh, Refreshable, Pending, Active, Shape, CallsPlaced
<1>2. /\ call' \in [Call -> ActiveCall \cup {IdleCall}]
      /\ call'[c].phase = "refreshing" /\ call'[c].retry = TRUE
      /\ call'[c].body = call[c].body /\ call'[c].kind = call[c].kind
      /\ \A d \in Call \ {c} : call'[d] = call[d]
  BY <1>1, Continues DEF StartRefresh
<1>3. new \in RefreshCall /\ new # NoRefresh /\ new.owner = c
  BY Types, NoneIsToken DEF RefreshCall, NoRefresh
<1> HIDE DEF new
<1>4. /\ refreshCall' = [refreshCall EXCEPT ![t] = new]
      /\ isRefreshing' = [isRefreshing EXCEPT ![t] = TRUE]
      /\ UNCHANGED <<storage, failedQueue, defaults, tabOf, screen, server>>
  BY DEF StartRefresh, new
<1>5. /\ refreshCall' \in [Tab -> RefreshCall \cup {NoRefresh}] /\ refreshCall'[t] = new
      /\ isRefreshing' \in [Tab -> BOOLEAN] /\ isRefreshing'[t] = TRUE
      /\ \A u \in Tab \ {t} : refreshCall'[u] = refreshCall[u]
                              /\ isRefreshing'[u] = isRefreshing[u]
  BY <1>1, <1>3, <1>4 DEF Shape, TypeOK
<1> HIDE DEF t
<1>6. TypeOK'
  BY <1>2, <1>4, <1>5 DEF Shape, TypeOK, storage, server
<1>7. CallsPlaced'
  BY <1>1, <1>2, <1>4 DEF Shape, CallsPlaced, Active, t
<1>8. \A u \in Tab \ {t} : isRefreshing[u] =>
        refreshCall[u].owner \in Call \ {c}
  BY <1>1, RefreshFields DEF Shape, LockHasOwner
<1>9. LockHasOwner'
  <2> SUFFICES ASSUME NEW u \in Tab
               PROVE  /\ isRefreshing'[u] <=> refreshCall'[u] # NoRefresh
                      /\ isRefreshing'[u] =>
                           /\ tabOf[refreshCall'[u].owner] = u
                           /\ call'[refreshCall'[u].owner].phase = "refreshing"
                           /\ call'[refreshCall'[u].owner].retry
    BY <1>4 DEF LockHasOwner, InTab, Active
  <2>1. CASE u = t
    BY <1>2, <1>3, <1>5, <2>1 DEF t
  <2>2. CASE u # t
    BY <1>2, <1>5, <1>8, <2>2 DEF Shape, LockHasOwner, InTab, Active
  <2> QED BY <2>1, <2>2
<1>10. \A u \in Tab : \A d \in failedQueue[u] : InTab(d, u)' /\ call'[d].phase = "queued"
  BY <1>1, <1>2, <1>4 DEF Shape, TypeOK, QueueServed, InTab, Active
<1>11. \A d \in Call :
        /\ call'[d].phase = "queued" => d \in failedQueue[tabOf[d]] /\ isRefreshing'[tabOf[d]]
        /\ call'[d].phase = "refreshing" =>
             isRefreshing'[tabOf[d]] /\ refreshCall'[tabOf[d]].owner = d
  <2>1. \A d \in Call \ {c} :
          call[d].phase \in {"queued", "refreshing"} => tabOf[d] \in Tab \ {t}
    BY <1>1 DEF Shape, QueueServed, CallsPlaced, Active
  <2> QED BY <1>2, <1>3, <1>5, <2>1 DEF Shape, QueueServed, t
<1>12. QueueServed'
  BY <1>4, <1>10, <1>11 DEF QueueServed
<1> QED BY <1>6, <1>7, <1>9, <1>12 DEF Shape

\* Without a refresh in progress nobody waits, so the 401 ends the one call it met.
LEMMA NoRefreshTokenShape == ASSUME Shape, NEW c \in Call, NoRefreshToken(c) PROVE Shape'
<1> DEFINE t == tabOf[c]
<1>1. InTab(c, t) /\ t \in Tab /\ ~isRefreshing[t] /\ SignOut(t, {c}) /\ UNCHANGED server
  BY DEF NoRefreshToken, Refreshable, Pending, InTab, Active, Shape, CallsPlaced
<1>2. failedQueue[t] = {}
  BY <1>1 DEF Shape, TypeOK, QueueServed, InTab
<1>3. \A d \in Call : ~ (InTab(d, t) /\ call[d].phase \in {"queued", "refreshing"})
  BY <1>1 DEF Shape, QueueServed, InTab
<1> HIDE DEF t
<1> QED BY <1>1, <1>2, <1>3, SignOutStep

\* A refresh that was answered has an owner that waits for it, and the queue behind it.
LEMMA RefreshEnds ==
  ASSUME Shape, NEW t \in Tab, refreshCall[t].phase = "answered"
  PROVE  LET C == failedQueue[t] \cup {refreshCall[t].owner} IN
           /\ C \in SUBSET Call /\ refreshCall[t].owner \in Call
           /\ \A c \in C : InTab(c, t) /\ call[c].phase \in {"queued", "refreshing"}
           /\ \A c \in Call :
                InTab(c, t) /\ call[c].phase \in {"queued", "refreshing"} => c \in C
<1>1. refreshCall[t].owner \in Call /\ isRefreshing[t]
  BY RefreshFields DEF Shape, LockHasOwner
<1>2. /\ InTab(refreshCall[t].owner, t)
      /\ call[refreshCall[t].owner].phase = "refreshing"
  BY <1>1 DEF Shape, LockHasOwner
<1> QED BY <1>1, <1>2 DEF Shape, TypeOK, QueueServed, InTab

LEMMA RefreshFailsShape == ASSUME Shape, NEW t \in Tab, RefreshFails(t) PROVE Shape'
<1> DEFINE C == failedQueue[t] \cup {refreshCall[t].owner}
<1>1. /\ C \in SUBSET Call /\ failedQueue[t] \subseteq C
      /\ \A c \in C : InTab(c, t)
      /\ \A c \in Call : InTab(c, t) /\ call[c].phase \in {"queued", "refreshing"} => c \in C
  BY RefreshEnds DEF RefreshFails
<1>2. SignOut(t, C) /\ UNCHANGED server
  BY DEF RefreshFails
<1> HIDE DEF C
<1> QED BY <1>1, <1>2, SignOutStep

\* What the calls of C, sent again, keep.
LEMMA SentAgain ==
  ASSUME Shape, NEW C \in SUBSET Call, \A c \in C : Active(c),
         call' = [c \in Call |->
           IF c \in C THEN Record(call[c].kind, "sent", call[c].retry, TRUE, call[c].body)
                      ELSE call[c]]
  PROVE  /\ call' \in [Call -> ActiveCall \cup {IdleCall}]
         /\ \A c \in C : /\ call'[c].phase = "sent"
                         /\ call'[c].body = call[c].body /\ call'[c].kind = call[c].kind
         /\ \A c \in Call \ C : call'[c] = call[c]
<1>1. \A c \in C :
        LET r == Record(call[c].kind, "sent", call[c].retry, TRUE, call[c].body) IN
          /\ r \in ActiveCall /\ r.phase = "sent"
          /\ r.body = call[c].body /\ r.kind = call[c].kind
  <2> SUFFICES ASSUME NEW c \in C
               PROVE  LET r == Record(call[c].kind, "sent", call[c].retry, TRUE, call[c].body) IN
                        /\ r \in ActiveCall /\ r.phase = "sent"
                        /\ r.body = call[c].body /\ r.kind = call[c].kind
    OBVIOUS
  <2>1. Fields(c)
    BY CallFields DEF Shape
  <2> QED BY <2>1 DEF Record, ActiveCall, Fields
<1> QED BY <1>1 DEF Shape, TypeOK

LEMMA RefreshSucceedsShape == ASSUME Shape, NEW t \in Tab, RefreshSucceeds(t) PROVE Shape'
<1> DEFINE C == failedQueue[t] \cup {refreshCall[t].owner}
<1>1. /\ C \in SUBSET Call
      /\ \A c \in C : InTab(c, t) /\ Active(c)
      /\ \A c \in Call : InTab(c, t) /\ call[c].phase \in {"queued", "refreshing"} => c \in C
  BY RefreshEnds DEF RefreshSucceeds, InTab
<1>2. /\ call' = [c \in Call |->
           IF c \in C THEN Record(call[c].kind, "sent", call[c].retry, TRUE, call[c].body)
                      ELSE call[c]]
      /\ Release(t, {}) /\ UNCHANGED <<tabOf, screen, server>>
      /\ defaults' = [defaults EXCEPT ![t] = TRUE]
      /\ StoreTokens(refreshCall[t].pair)
  BY DEF RefreshSucceeds
<1> HIDE DEF C
<1>3. /\ call' \in [Call -> ActiveCall \cup {IdleCall}]
      /\ \A c \in C : /\ call'[c].phase = "sent"
                      /\ call'[c].body = call[c].body /\ call'[c].kind = call[c].kind
      /\ \A c \in Call \ C : call'[c] = call[c]
  BY <1>1, <1>2, SentAgain
<1>4. \A c \in C : Carries(call[c])
  BY <1>1 DEF Shape, CallsPlaced
<1>5. \A c \in Call :
        \/ call'[c] = call[c] /\ ~ (InTab(c, t) /\ call[c].phase \in {"queued", "refreshing"})
        \/ /\ call'[c].phase \notin {"idle", "queued", "refreshing"}
           /\ Carries(call'[c])
           /\ tabOf[c] = t
  BY <1>1, <1>3, <1>4 DEF InTab
<1>6. (CallsPlaced /\ LockHasOwner /\ QueueServed)'
  BY <1>2, <1>3, <1>5, ReleaseStep
<1>7. refreshCall[t].pair \in Token
  BY RefreshFields DEF RefreshSucceeds, Shape, NoRefresh
<1>8. TypeOK'
  BY <1>2, <1>3, <1>7, ReleaseTypes DEF Shape, TypeOK, StoreTokens, server
<1> QED BY <1>6, <1>8 DEF Shape

LEMMA InitShape == Init => Shape
<1> SUFFICES ASSUME Init PROVE Shape
  OBVIOUS
<1>1. TypeOK
  BY NoneIsToken DEF Init, TypeOK, IdleCall, NoRefresh, Token, None, SessionAssumption
<1>2. \A c \in Call : call[c].phase = "idle"
  BY DEF Init, IdleCall
<1>3. \A t \in Tab : ~isRefreshing[t] /\ refreshCall[t] = NoRefresh /\ failedQueue[t] = {}
  BY DEF Init
<1> QED BY <1>1, <1>2, <1>3 DEF Shape, CallsPlaced, LockHasOwner, QueueServed, Active

-----------------------------------------------------------------------------
(* The tokens: what SpentTokenInFlight needs to be inductive.              *)

\* Only pairs the server issued are in use, and only real tokens are presented.
Held ==
  /\ refresh_token <= issued
  /\ spent \subseteq 1 .. issued
  /\ abandoned => refresh_token # None
  /\ \A c \in Call : Active(c) => call[c].body <= issued
  /\ \A t \in Tab : refreshCall[t].phase # "none" =>
       refreshCall[t].token # None /\ refreshCall[t].token <= issued

\* A pair that is answered, and not stored yet, is used by nobody.
Unused(p) ==
  /\ p <= issued /\ p \notin spent /\ p # refresh_token
  /\ \A c \in Call : Active(c) => call[c].body # p
  /\ \A t \in Tab : refreshCall[t].phase # "none" => refreshCall[t].token # p

AnswersFresh ==
  \A t \in Tab : refreshCall[t].phase = "answered" /\ refreshCall[t].pair # None =>
    /\ Unused(refreshCall[t].pair)
    /\ \A u \in Tab \ {t} :
         refreshCall[u].phase = "answered" => refreshCall[u].pair # refreshCall[t].pair

\* SpentTokenInFlight, without the detour through the tabs.
Covered ==
  refresh_token \in spent =>
    \/ abandoned
    \/ \E c \in Call : Active(c) /\ call[c].body = refresh_token
    \/ \E t \in Tab : refreshCall[t].phase # "none" /\ refreshCall[t].token = refresh_token

Ledger == Held /\ AnswersFresh /\ Covered

\* The stored tokens stay: nobody drops one that is in flight, and who presents one
\* presents the one that is stored.
LEMMA KeepStep ==
  ASSUME Shape, Ledger, UNCHANGED <<storage, server>>,
         \A c \in Call : call'[c].phase # "idle" =>
           \/ call'[c].body = None \/ call'[c].body = refresh_token
           \/ Active(c) /\ call'[c].body = call[c].body,
         \A c \in Call : Active(c) /\ call[c].body # None =>
           call'[c].phase # "idle" /\ call'[c].body = call[c].body,
         \A t \in Tab :
           \/ refreshCall'[t] = refreshCall[t]
           \/ /\ refreshCall[t].phase = "none" /\ refreshCall'[t].phase = "sent"
              /\ refreshCall'[t].token = refresh_token /\ refresh_token # None
  PROVE  Ledger'
<1> USE DEF storage, server
<1>1. issued \in Nat /\ refresh_token \in Nat /\ None <= issued
  BY Types DEF Token, None, SessionAssumption
<1>2. Held'
  BY <1>1 DEF Ledger, Held, Active
<1>3. AnswersFresh'
  <2> SUFFICES ASSUME NEW t \in Tab, refreshCall'[t].phase = "answered",
                      refreshCall'[t].pair # None
               PROVE  /\ (Unused(refreshCall[t].pair))'
                      /\ \A u \in Tab \ {t} : refreshCall'[u].phase = "answered" =>
                           refreshCall'[u].pair # refreshCall'[t].pair
    BY DEF AnswersFresh
  <2>1. refreshCall'[t] = refreshCall[t]
    OBVIOUS
  <2>2. Unused(refreshCall[t].pair)
    BY <2>1 DEF Ledger, AnswersFresh
  <2> QED BY <2>1, <2>2 DEF Ledger, AnswersFresh, Unused, Active
<1>4. Covered'
  <2> SUFFICES ASSUME refresh_token \in spent, ~abandoned
               PROVE  \/ \E c \in Call : Active(c)' /\ call'[c].body = refresh_token
                      \/ \E t \in Tab : /\ refreshCall'[t].phase # "none"
                                        /\ refreshCall'[t].token = refresh_token
    BY DEF Covered
  <2>1. refresh_token # None
    BY <1>1 DEF Ledger, Held, None
  <2>2. CASE \E c \in Call : Active(c) /\ call[c].body = refresh_token
    BY <2>1, <2>2 DEF Active
  <2>3. CASE \E t \in Tab : refreshCall[t].phase # "none" /\ refreshCall[t].token = refresh_token
    BY <2>3
  <2> QED BY <2>2, <2>3 DEF Ledger, Covered
<1> QED BY <1>2, <1>3, <1>4 DEF Ledger

\* The tokens are removed, and nothing new is presented.
LEMMA RemoveStep ==
  ASSUME Shape, Ledger, RemoveTokens, UNCHANGED server,
         \A c \in Call : call'[c].phase # "idle" =>
           call'[c].body = None \/ (Active(c) /\ call'[c].body = call[c].body),
         \A t \in Tab : refreshCall'[t] = refreshCall[t] \/ refreshCall'[t] = NoRefresh
  PROVE  Ledger'
<1>1. /\ issued \in Nat /\ None <= issued /\ refresh_token' = None /\ abandoned' = FALSE
      /\ issued' = issued /\ spent' = spent /\ None \notin spent
  BY Types DEF Token, None, SessionAssumption, RemoveTokens, StoreTokens, server, Pair
<1>2. NoRefresh.phase = "none"
  BY DEF NoRefresh
<1>3. Held'
  BY <1>1, <1>2 DEF Ledger, Held, Active
<1>4. AnswersFresh'
  <2> SUFFICES ASSUME NEW t \in Tab, refreshCall'[t].phase = "answered",
                      refreshCall'[t].pair # None
               PROVE  /\ (Unused(refreshCall[t].pair))'
                      /\ \A u \in Tab \ {t} : refreshCall'[u].phase = "answered" =>
                           refreshCall'[u].pair # refreshCall'[t].pair
    BY DEF AnswersFresh
  <2>1. refreshCall'[t] = refreshCall[t]
    BY <1>2
  <2>2. Unused(refreshCall[t].pair)
    BY <2>1 DEF Ledger, AnswersFresh
  <2> QED BY <1>1, <1>2, <2>1, <2>2 DEF Ledger, AnswersFresh, Unused, Active
<1>5. Covered'
  BY <1>1 DEF Covered
<1> QED BY <1>3, <1>4, <1>5 DEF Ledger

\* One call changes, and keeps the token it presents.
LEMMA KeepCall ==
  ASSUME Shape, Ledger, UNCHANGED <<storage, server, refreshCall>>,
         NEW c \in Call, NEW r \in ActiveCall \cup {IdleCall},
         call' = [call EXCEPT ![c] = r],
         Active(c) => call[c].body = None \/ (r.phase # "idle" /\ r.body = call[c].body),
         r.phase # "idle" =>
           r.body = None \/ r.body = refresh_token \/ (Active(c) /\ r.body = call[c].body)
  PROVE  Ledger'
<1>1. call'[c] = r /\ \A d \in Call \ {c} : call'[d] = call[d]
  BY DEF Shape, TypeOK
<1> QED BY <1>1, KeepStep DEF Active

LEMMA OpenTabLedger == ASSUME Shape, Ledger, NEW c \in Call, OpenTab(c) PROVE Ledger'
BY VerificationType, KeepCall DEF OpenTab, Free, client

LEMMA VerifyAuthLedger == ASSUME Shape, Ledger, NEW c \in Call, VerifyAuth(c) PROVE Ledger'
<1>1. UNCHANGED <<storage, server, refreshCall>> /\ call[c].body = None
  BY DEF VerifyAuth, client, Shape, CallsPlaced, Active
<1>2. CASE Settle(c)
  BY <1>1, <1>2, KeepCall DEF Settle, IdleCall
<1>3. CASE Send(c, "verify", None)
  <2>1. PICK r \in ActiveCall : r.body = None /\ call' = [call EXCEPT ![c] = r]
    BY <1>3, SendType, NoneIsToken DEF Kind
  <2> QED BY <1>1, <1>3, <2>1, KeepCall
<1> QED BY <1>2, <1>3 DEF VerifyAuth

LEMMA StartCallLedger ==
  ASSUME Shape, Ledger, NEW c \in Call, NEW kind \in {"login", "signIn", "load"},
         StartCall(c, kind)
  PROVE  Ledger'
<1>1. PICK r \in ActiveCall : r.body = None /\ call' = [call EXCEPT ![c] = r]
  BY SendType, NoneIsToken DEF StartCall, Kind
<1> QED BY <1>1, KeepCall DEF StartCall, Free, client

\* A page is left: what was not presented to the server by it is dropped.
LEMMA LeaveFrame ==
  ASSUME Shape, NEW t \in Tab, NEW C \in SUBSET Call, LeavePage(t, C)
  PROVE  /\ \A c \in Call : call'[c].phase # "idle" =>
              call'[c].body = None \/ (Active(c) /\ call'[c] = call[c])
         /\ \A c \in Call : c \notin C /\ ~InTab(c, t) => call'[c] = call[c]
         /\ refreshCall'[t] = NoRefresh
         /\ \A u \in Tab \ {t} : refreshCall'[u] = refreshCall[u]
BY VerificationType DEF LeavePage, Release, IdleCall, Active, Shape, TypeOK

LEMMA LogoutEndsLedger ==
  ASSUME Shape, Ledger, NEW c \in Call, tabOf[c] \in Tab, LogoutEnds(c), UNCHANGED server
  PROVE  Ledger'
<1>1. RemoveTokens /\ LeavePage(tabOf[c], {c})
  BY DEF LogoutEnds
<1>2. /\ \A d \in Call : call'[d].phase # "idle" =>
           call'[d].body = None \/ (Active(d) /\ call'[d] = call[d])
      /\ refreshCall'[tabOf[c]] = NoRefresh
      /\ \A u \in Tab \ {tabOf[c]} : refreshCall'[u] = refreshCall[u]
  BY <1>1, LeaveFrame
<1>3. \A d \in Call : call'[d].phase # "idle" =>
        call'[d].body = None \/ (Active(d) /\ call'[d].body = call[d].body)
  BY <1>2
<1>4. \A t \in Tab : refreshCall'[t] = refreshCall[t] \/ refreshCall'[t] = NoRefresh
  BY <1>2
<1> QED BY <1>1, <1>3, <1>4, RemoveStep

LEMMA StartLogoutLedger ==
  ASSUME Shape, Ledger, NEW c \in Call, StartLogout(c) PROVE Ledger'
<1>1. tabOf[c] \in Tab /\ ~Active(c) /\ UNCHANGED server
  BY DEF StartLogout, Free, Shape, TypeOK
<1>2. CASE LogoutEnds(c)
  BY <1>1, <1>2, LogoutEndsLedger
<1>3. CASE Send(c, "logout", refresh_token) /\ UNCHANGED <<storage, client, screen>>
  <2>1. PICK r \in ActiveCall : r.body = refresh_token /\ call' = [call EXCEPT ![c] = r]
    BY <1>3, SendType, Types DEF Kind
  <2> QED BY <1>1, <1>3, <2>1, KeepCall DEF client
<1> QED BY <1>2, <1>3 DEF StartLogout

LEMMA CloseTabLedger == ASSUME Shape, Ledger, NEW t \in Tab, CloseTab(t) PROVE Ledger'
<1>1. /\ UNCHANGED <<refresh_token, spent, issued>> /\ LeavePage(t, {})
      /\ abandoned' = (abandoned \/ refresh_token \in Presented(t))
  BY DEF CloseTab, server
<1>2. /\ \A c \in Call : call'[c].phase # "idle" =>
           call'[c].body = None \/ (Active(c) /\ call'[c] = call[c])
      /\ \A c \in Call : ~InTab(c, t) => call'[c] = call[c]
      /\ refreshCall'[t].phase = "none"
      /\ \A u \in Tab \ {t} : refreshCall'[u] = refreshCall[u]
  BY <1>1, LeaveFrame DEF NoRefresh
<1>3. issued \in Nat /\ refresh_token \in Nat /\ None <= issued
  BY Types DEF Token, None, SessionAssumption
<1>4. refresh_token \in Presented(t) => refresh_token # None
  BY RefreshFields DEF Presented, Ledger, Held, Shape
<1>5. Held'
  BY <1>1, <1>2, <1>3, <1>4 DEF Ledger, Held, Active
<1>6. AnswersFresh'
  <2> SUFFICES ASSUME NEW u \in Tab, refreshCall'[u].phase = "answered",
                      refreshCall'[u].pair # None
               PROVE  /\ (Unused(refreshCall[u].pair))'
                      /\ \A v \in Tab \ {u} : refreshCall'[v].phase = "answered" =>
                           refreshCall'[v].pair # refreshCall'[u].pair
    BY DEF AnswersFresh
  <2>1. refreshCall'[u] = refreshCall[u]
    BY <1>2
  <2>2. Unused(refreshCall[u].pair)
    BY <2>1 DEF Ledger, AnswersFresh
  <2> QED BY <1>1, <1>2, <2>1, <2>2 DEF Ledger, AnswersFresh, Unused, Active
<1>7. Covered'
  <2> SUFFICES ASSUME refresh_token \in spent, ~abandoned'
               PROVE  \/ \E c \in Call : Active(c)' /\ call'[c].body = refresh_token
                      \/ \E u \in Tab : /\ refreshCall'[u].phase # "none"
                                        /\ refreshCall'[u].token = refresh_token
    BY <1>1 DEF Covered
  <2>1. refresh_token \notin Presented(t) /\ ~abandoned /\ refresh_token # None
    <3>1. None \notin spent
      BY Types DEF Pair, None
    <3> QED BY <1>1, <3>1 DEF CloseTab
  <2>2. CASE \E c \in Call : Active(c) /\ call[c].body = refresh_token
    <3>1. PICK c \in Call : Active(c) /\ call[c].body = refresh_token
      BY <2>2
    <3>2. ~InTab(c, t)
      BY <2>1, <3>1 DEF Presented
    <3> QED BY <1>2, <3>1, <3>2 DEF Active
  <2>3. CASE \E u \in Tab : refreshCall[u].phase # "none" /\ refreshCall[u].token = refresh_token
    <3>1. PICK u \in Tab : refreshCall[u].phase # "none" /\ refreshCall[u].token = refresh_token
      BY <2>3
    <3>2. u # t
      BY <2>1, <3>1, RefreshFields DEF Presented, Shape
    <3> QED BY <1>2, <3>1, <3>2
  <2> QED BY <2>1, <2>2, <2>3 DEF Ledger, Covered
<1> QED BY <1>5, <1>6, <1>7 DEF Ledger

LEMMA SettleLedger ==
  ASSUME Shape, Ledger, NEW c \in Call, Pending(c), call[c].kind # "logout", Settle(c),
         UNCHANGED <<storage, client, server>>
  PROVE  Ledger'
<1>1. call[c].body = None
  BY DEF Pending, Shape, CallsPlaced, Active
<1> QED BY <1>1, KeepCall DEF Settle, IdleCall, client

\* A sign-in stores a pair that nobody knew.
LEMMA SignInLedger ==
  ASSUME Shape, Ledger, NEW c \in Call, call[c].body = None,
         issued' = issued + 1, StoreTokens(issued + 1),
         call' = [call EXCEPT ![c] = Verification], UNCHANGED <<client, spent>>
  PROVE  Ledger'
<1>1. /\ issued \in Nat /\ refresh_token' = issued + 1 /\ abandoned' = FALSE /\ None = 0
      /\ refreshCall' = refreshCall
  BY Types DEF Token, SessionAssumption, StoreTokens, None, client
<1>2. /\ call'[c].body = None
      /\ \A d \in Call \ {c} : call'[d] = call[d]
  BY VerificationType DEF Shape, TypeOK
<1>3. \A d \in Call : Active(d) => call[d].body \in Nat
  BY CallFields DEF Shape, Fields, Token
<1>4. \A t \in Tab : refreshCall[t].phase # "none" =>
        refreshCall[t].token \in Nat /\ refreshCall[t].pair \in Nat
  BY RefreshFields DEF Shape, Token
<1>5. issued + 1 \notin spent
  BY <1>1 DEF Ledger, Held
<1>6. Held'
  <2>1. spent \subseteq 1 .. issued + 1
    BY <1>1 DEF Ledger, Held
  <2>2. \A d \in Call : Active(d)' => call'[d].body <= issued + 1
    BY <1>1, <1>2, <1>3 DEF Ledger, Held, Active
  <2>3. \A t \in Tab : refreshCall[t].phase # "none" =>
          refreshCall[t].token # None /\ refreshCall[t].token <= issued + 1
    BY <1>1, <1>4 DEF Ledger, Held
  <2> QED BY <1>1, <2>1, <2>2, <2>3 DEF Held
<1>7. AnswersFresh'
  <2> SUFFICES ASSUME NEW t \in Tab, refreshCall[t].phase = "answered",
                      refreshCall[t].pair # None
               PROVE  (Unused(refreshCall[t].pair))'
    BY <1>1 DEF Ledger, AnswersFresh
  <2>1. Unused(refreshCall[t].pair) /\ refreshCall[t].pair \in Nat
    BY <1>4 DEF Ledger, AnswersFresh
  <2>2. refreshCall[t].pair <= issued + 1 /\ refreshCall[t].pair # issued + 1
    BY <1>1, <2>1 DEF Unused
  <2> QED BY <1>1, <1>2, <2>1, <2>2 DEF Unused, Active
<1>8. Covered'
  BY <1>1, <1>5 DEF Covered
<1> QED BY <1>6, <1>7, <1>8 DEF Ledger

LEMMA SucceedLedger == ASSUME Shape, Ledger, NEW c \in Call, Succeed(c) PROVE Ledger'
<1>1. Pending(c) /\ tabOf[c] \in Tab /\ (call[c].body # None <=> call[c].kind = "logout")
  BY DEF Succeed, Pending, Active, Shape, CallsPlaced
<1>2. CASE call[c].kind # "logout" /\ Settle(c) /\ UNCHANGED <<storage, client, server>>
  BY <1>1, <1>2, SettleLedger
<1>3. CASE /\ call[c].kind # "logout" /\ issued' = issued + 1 /\ StoreTokens(issued + 1)
           /\ call' = [call EXCEPT ![c] = Verification] /\ UNCHANGED <<client, screen, spent>>
  BY <1>1, <1>3, SignInLedger
<1>4. CASE LogoutEnds(c) /\ UNCHANGED server
  BY <1>1, <1>4, LogoutEndsLedger
<1> QED BY <1>2, <1>3, <1>4 DEF Succeed

LEMMA FailLedger == ASSUME Shape, Ledger, NEW c \in Call, Fail(c) PROVE Ledger'
<1>1. Pending(c) /\ tabOf[c] \in Tab /\ UNCHANGED server
  BY DEF Fail, Pending, Active, Shape, CallsPlaced
<1>2. CASE call[c].kind # "logout" /\ Settle(c) /\ UNCHANGED <<storage, client>>
  BY <1>1, <1>2, SettleLedger
<1>3. CASE Settle(c) /\ RemoveTokens /\ UNCHANGED client
  <2>1. \A d \in Call : call'[d].phase # "idle" => call'[d] = call[d]
    BY <1>3 DEF Settle, IdleCall, Shape, TypeOK
  <2> QED BY <1>1, <1>3, <2>1, RemoveStep DEF Active, client
<1>4. CASE LogoutEnds(c)
  BY <1>1, <1>4, LogoutEndsLedger
<1> QED BY <1>2, <1>3, <1>4 DEF Fail

LEMMA EnqueueLedger == ASSUME Shape, Ledger, NEW c \in Call, Enqueue(c) PROVE Ledger'
<1>1. Active(c)
  BY DEF Enqueue, Refreshable, Pending, Active
<1>2. /\ call'[c].phase = "queued" /\ call'[c].body = call[c].body
      /\ \A d \in Call \ {c} : call'[d] = call[d]
  BY <1>1, Continues DEF Enqueue
<1> QED BY <1>1, <1>2, KeepStep DEF Enqueue, Active

LEMMA StartRefreshLedger ==
  ASSUME Shape, Ledger, NEW c \in Call, StartRefresh(c) PROVE Ledger'
<1> DEFINE t == tabOf[c]
           new == [phase |-> "sent", owner |-> c, token |-> refresh_token, pair |-> None]
<1>1. Active(c) /\ t \in Tab /\ ~isRefreshing[t] /\ refresh_token # None
  BY DEF StartRefresh, Refreshable, Pending, Active, Shape, CallsPlaced
<1>2. /\ call'[c].phase = "refreshing" /\ call'[c].body = call[c].body
      /\ \A d \in Call \ {c} : call'[d] = call[d]
  BY <1>1, Continues DEF StartRefresh
<1>3. refreshCall[t].phase = "none"
  BY <1>1 DEF Shape, LockHasOwner, NoRefresh
<1>4. new.phase = "sent" /\ new.token = refresh_token
  OBVIOUS
<1> HIDE DEF new
<1>5. refreshCall' = [refreshCall EXCEPT ![t] = new] /\ UNCHANGED <<storage, server>>
  BY DEF StartRefresh, new
<1>6. refreshCall'[t] = new /\ \A u \in Tab \ {t} : refreshCall'[u] = refreshCall[u]
  BY <1>1, <1>5 DEF Shape, TypeOK
<1> HIDE DEF t
<1> QED BY <1>1, <1>2, <1>3, <1>4, <1>5, <1>6, KeepStep DEF Active

LEMMA SignOutLedger ==
  ASSUME Shape, Ledger, NEW t \in Tab, NEW C \in SUBSET Call, \A c \in C : InTab(c, t),
         SignOut(t, C), UNCHANGED server
  PROVE  Ledger'
<1>1. CASE \E c \in C : call[c].kind = "logout" /\ LogoutEnds(c)
  BY <1>1, LogoutEndsLedger DEF InTab
<1>2. CASE Rejected(t, C) /\ RemoveTokens
  <2>1. \A c \in Call : call'[c].phase # "idle" => call'[c] = call[c]
    BY <1>2 DEF Rejected, IdleCall, Shape, TypeOK
  <2>2. \A u \in Tab : refreshCall'[u] = refreshCall[u] \/ refreshCall'[u] = NoRefresh
    BY <1>2 DEF Rejected, Release, Shape, TypeOK
  <2> QED BY <1>2, <2>1, <2>2, RemoveStep DEF Active
<1> QED BY <1>1, <1>2 DEF SignOut

LEMMA NoRefreshTokenLedger ==
  ASSUME Shape, Ledger, NEW c \in Call, NoRefreshToken(c) PROVE Ledger'
<1>1. InTab(c, tabOf[c]) /\ tabOf[c] \in Tab
  BY DEF NoRefreshToken, Refreshable, Pending, InTab, Active, Shape, CallsPlaced
<1> QED BY <1>1, SignOutLedger DEF NoRefreshToken

LEMMA RefreshFailsLedger ==
  ASSUME Shape, Ledger, NEW t \in Tab, RefreshFails(t) PROVE Ledger'
<1> DEFINE C == failedQueue[t] \cup {refreshCall[t].owner}
<1>1. C \in SUBSET Call /\ \A c \in C : InTab(c, t)
  BY RefreshEnds DEF RefreshFails
<1>2. SignOut(t, C) /\ UNCHANGED server
  BY DEF RefreshFails
<1> HIDE DEF C
<1> QED BY <1>1, <1>2, SignOutLedger

\* The pair that was answered is stored: it was unused, and no other answer has it.
LEMMA RefreshSucceedsLedger ==
  ASSUME Shape, Ledger, NEW t \in Tab, RefreshSucceeds(t) PROVE Ledger'
<1> DEFINE p == refreshCall[t].pair
           C == failedQueue[t] \cup {refreshCall[t].owner}
<1>1. C \in SUBSET Call /\ \A c \in C : Active(c)
  BY RefreshEnds DEF RefreshSucceeds, InTab
<1>2. /\ call' = [c \in Call |->
           IF c \in C THEN Record(call[c].kind, "sent", call[c].retry, TRUE, call[c].body)
                      ELSE call[c]]
      /\ Release(t, {}) /\ UNCHANGED server /\ StoreTokens(p)
      /\ refreshCall[t].phase = "answered" /\ p # None
  BY DEF RefreshSucceeds
<1> HIDE DEF C
<1>3. \A c \in Call : call'[c].phase # "idle" => Active(c) /\ call'[c].body = call[c].body
  BY <1>1, <1>2, SentAgain DEF Active
<1>4. /\ Unused(p)
      /\ \A u \in Tab \ {t} : refreshCall[u].phase = "answered" => refreshCall[u].pair # p
  BY <1>2 DEF Ledger, AnswersFresh
<1> HIDE DEF p
<1>5. /\ refresh_token' = p /\ abandoned' = FALSE /\ issued' = issued /\ spent' = spent
      /\ refreshCall'[t].phase = "none"
      /\ \A u \in Tab \ {t} : refreshCall'[u] = refreshCall[u]
  BY <1>2 DEF StoreTokens, server, Release, NoRefresh, Shape, TypeOK
<1>6. Held'
  BY <1>3, <1>4, <1>5 DEF Ledger, Held, Unused, Active
<1>7. AnswersFresh'
  <2> SUFFICES ASSUME NEW u \in Tab, refreshCall'[u].phase = "answered",
                      refreshCall'[u].pair # None
               PROVE  /\ (Unused(refreshCall[u].pair))'
                      /\ \A v \in Tab \ {u} : refreshCall'[v].phase = "answered" =>
                           refreshCall'[v].pair # refreshCall'[u].pair
    BY DEF AnswersFresh
  <2>1. refreshCall'[u] = refreshCall[u] /\ u # t /\ refreshCall[u].pair # p
    BY <1>4, <1>5
  <2>2. Unused(refreshCall[u].pair)
    BY <2>1 DEF Ledger, AnswersFresh
  <2> QED BY <1>3, <1>5, <2>1, <2>2 DEF Ledger, AnswersFresh, Unused, Active
<1>8. Covered'
  BY <1>4, <1>5 DEF Covered, Unused
<1> QED BY <1>6, <1>7, <1>8 DEF Ledger

\* The server revokes a token that a call presents.
LEMMA SpendStep ==
  ASSUME Shape, Ledger, UNCHANGED <<storage, call, refreshCall, issued>>, NEW token \in Pair,
         spent' = spent \cup {token},
         \/ abandoned /\ token = refresh_token
         \/ \E c \in Call : Active(c) /\ call[c].body = token
  PROVE  Ledger'
<1> USE DEF storage
<1>1. token \in 1 .. issued
  BY Types DEF Ledger, Held, Pair, Token, SessionAssumption
<1>2. Held'
  BY <1>1 DEF Ledger, Held, Active
<1>3. AnswersFresh'
  BY DEF Ledger, AnswersFresh, Unused, Active
<1>4. Covered'
  BY DEF Ledger, Covered, Active
<1> QED BY <1>2, <1>3, <1>4 DEF Ledger

LEMMA PairIsToken == \A p \in Token : p # None <=> p \in Pair
BY DEF Token, Pair, None, SessionAssumption

LEMMA RevokeBodyStep ==
  ASSUME Shape, Ledger, NEW c \in Call, RevokeBody(c) PROVE Shape' /\ Ledger'
<1>1. Active(c) /\ call[c].body \in Pair
  BY CallFields, PairIsToken DEF RevokeBody, Active, Shape, CallsPlaced, Fields
<1>2. /\ UNCHANGED <<storage, client, call, screen, issued>>
      /\ spent' = spent \cup {call[c].body}
  BY DEF RevokeBody
<1>3. Ledger'
  BY <1>1, <1>2, SpendStep DEF client
<1>4. issued' \in Token /\ spent' \subseteq Pair
  BY <1>1, <1>2, Types
<1> QED BY <1>2, <1>3, <1>4, ServerShape

LEMMA AcceptAbandonedStep ==
  ASSUME Shape, Ledger, AcceptAbandoned PROVE Shape' /\ Ledger'
<1>1. refresh_token \in Pair
  BY Types, PairIsToken DEF AcceptAbandoned, Ledger, Held
<1>2. /\ UNCHANGED <<storage, client, call, screen, issued>> /\ abandoned
      /\ spent' = spent \cup {refresh_token}
  BY DEF AcceptAbandoned
<1>3. Ledger'
  BY <1>1, <1>2, SpendStep DEF client
<1>4. issued' \in Token /\ spent' \subseteq Pair
  BY <1>1, <1>2, Types
<1> QED BY <1>2, <1>3, <1>4, ServerShape

\* How the record of a refresh changes when it is answered.
LEMMA AnswerFrame ==
  ASSUME Shape, NEW t \in Tab, NEW pair \in Token,
         refreshCall[t].phase \in {"sent", "answered"}, AnswerRefresh(t, pair)
  PROVE  /\ refreshCall'[t].phase = "answered" /\ refreshCall'[t].pair = pair
         /\ refreshCall'[t].token = refreshCall[t].token
         /\ \A u \in Tab \ {t} : refreshCall'[u] = refreshCall[u]
<1> DEFINE new == [[refreshCall[t] EXCEPT !.phase = "answered"] EXCEPT !.pair = pair]
<1>1. refreshCall[t] \in RefreshCall
  BY RefreshFields DEF Shape
<1>2. new.phase = "answered" /\ new.pair = pair /\ new.token = refreshCall[t].token
  BY <1>1, AnswerType
<1>3. refreshCall' = [refreshCall EXCEPT ![t] = new]
  BY DEF AnswerRefresh
<1> HIDE DEF new
<1> QED BY <1>2, <1>3 DEF Shape, TypeOK

LEMMA LoseRefreshStep ==
  ASSUME Shape, Ledger, NEW t \in Tab, LoseRefresh(t) PROVE Shape' /\ Ledger'
<1>1. /\ refreshCall[t].phase \in {"sent", "answered"} /\ AnswerRefresh(t, None)
      /\ UNCHANGED <<storage, isRefreshing, failedQueue, defaults, tabOf, call, screen, server>>
  BY DEF LoseRefresh
<1>2. /\ refreshCall'[t].phase = "answered" /\ refreshCall'[t].pair = None
      /\ refreshCall'[t].token = refreshCall[t].token
      /\ \A u \in Tab \ {t} : refreshCall'[u] = refreshCall[u]
  BY <1>1, NoneIsToken, AnswerFrame
<1>3. Shape'
  BY <1>1, NoneIsToken, Types, AnswerShape DEF server
<1>4. Held'
  BY <1>1, <1>2 DEF Ledger, Held, Active, storage, server
<1>5. AnswersFresh'
  BY <1>1, <1>2 DEF Ledger, AnswersFresh, Unused, Active, storage, server
<1>6. Covered'
  BY <1>1, <1>2 DEF Ledger, Covered, Active, storage, server
<1> QED BY <1>3, <1>4, <1>5, <1>6 DEF Ledger

\* The server rotates: the token presented is spent, the new pair is unused.
LEMMA AcceptRefreshStep ==
  ASSUME Shape, Ledger, NEW t \in Tab, AcceptRefresh(t) PROVE Shape' /\ Ledger'
<1> DEFINE token == refreshCall[t].token
<1>1. /\ refreshCall[t].phase = "sent" /\ token \notin spent /\ spent' = spent \cup {token}
      /\ issued < MaxPair /\ issued' = issued + 1 /\ AnswerRefresh(t, issued + 1)
      /\ UNCHANGED <<storage, isRefreshing, failedQueue, defaults, tabOf, call, screen>>
  BY DEF AcceptRefresh
<1>2. /\ issued \in Nat /\ issued + 1 \in Token /\ refresh_token \in Nat
  BY <1>1, Types DEF Token, SessionAssumption
<1>3. token \in Pair /\ token <= issued
  BY <1>1, RefreshFields, PairIsToken DEF Ledger, Held, Shape
<1>4. /\ refreshCall'[t].phase = "answered" /\ refreshCall'[t].pair = issued + 1
      /\ refreshCall'[t].token = token
      /\ \A u \in Tab \ {t} : refreshCall'[u] = refreshCall[u]
  BY <1>1, <1>2, AnswerFrame
<1>5. Shape'
  <2>1. issued' \in Token /\ spent' \subseteq Pair
    BY <1>1, <1>2, <1>3, Types
  <2> QED BY <1>1, <1>2, <2>1, AnswerShape
<1>6. \A d \in Call : Active(d) => call[d].body \in Nat
  BY CallFields DEF Shape, Fields, Token
<1>7. \A u \in Tab : refreshCall[u].phase # "none" =>
        refreshCall[u].token \in Nat /\ refreshCall[u].pair \in Nat
  BY RefreshFields DEF Shape, Token
<1> HIDE DEF token
<1>8. Held'
  <2>1. spent' \subseteq 1 .. issued + 1
    <3>1. token \in Nat /\ token >= 1
      BY <1>3 DEF Pair, SessionAssumption
    <3>2. spent \subseteq 1 .. issued + 1
      BY <1>2 DEF Ledger, Held
    <3>3. token \in 1 .. issued + 1
      BY <1>2, <1>3, <3>1
    <3> QED BY <1>1, <3>2, <3>3
  <2>2. \A d \in Call : Active(d) => call[d].body <= issued + 1
    BY <1>2, <1>6 DEF Ledger, Held
  <2>3. \A u \in Tab : refreshCall'[u].phase # "none" =>
          refreshCall'[u].token # None /\ refreshCall'[u].token <= issued + 1
    BY <1>1, <1>2, <1>3, <1>4, <1>7, PairIsToken DEF Ledger, Held, token
  <2>4. refresh_token <= issued + 1 /\ (abandoned => refresh_token # None)
    BY <1>2 DEF Ledger, Held
  <2> QED BY <1>1, <2>1, <2>2, <2>3, <2>4 DEF Held, Active, storage
<1>9. ASSUME NEW u \in Tab \ {t}, refreshCall[u].phase = "answered", refreshCall[u].pair # None
      PROVE  (Unused(refreshCall[u].pair))' /\ refreshCall[u].pair # issued + 1
  <2>1. Unused(refreshCall[u].pair) /\ refreshCall[u].pair \in Nat
    BY <1>7, <1>9 DEF Ledger, AnswersFresh
  <2>2. refreshCall[u].pair <= issued + 1 /\ refreshCall[u].pair # issued + 1
    BY <1>2, <2>1 DEF Unused
  <2>3. refreshCall[u].pair # token
    BY <1>1, <2>1 DEF Unused, token
  <2> QED BY <1>1, <1>4, <2>1, <2>2, <2>3 DEF Unused, Active, storage, token
<1>10. (Unused(refreshCall[t].pair))'
  <2>1. issued + 1 \notin spent' /\ issued + 1 # refresh_token
    BY <1>1, <1>2, <1>3 DEF Ledger, Held
  <2>2. \A d \in Call : Active(d) => call[d].body # issued + 1
    BY <1>2, <1>6 DEF Ledger, Held
  <2>3. \A u \in Tab : refreshCall'[u].phase # "none" => refreshCall'[u].token # issued + 1
    BY <1>2, <1>3, <1>4, <1>7 DEF Ledger, Held
  <2> QED BY <1>1, <1>2, <1>4, <2>1, <2>2, <2>3 DEF Unused, Active, storage
<1>11. AnswersFresh'
  <2> SUFFICES ASSUME NEW u \in Tab, refreshCall'[u].phase = "answered",
                      refreshCall'[u].pair # None
               PROVE  /\ (Unused(refreshCall[u].pair))'
                      /\ \A v \in Tab \ {u} : refreshCall'[v].phase = "answered" =>
                           refreshCall'[v].pair # refreshCall'[u].pair
    BY DEF AnswersFresh
  <2>1. CASE u = t
    <3>1. \A v \in Tab \ {t} : refreshCall[v].phase = "answered" =>
            refreshCall[v].pair # issued + 1
      BY <1>2, <1>9 DEF None
    <3> QED BY <1>4, <1>10, <2>1, <3>1
  <2>2. CASE u # t
    <3>1. refreshCall'[u] = refreshCall[u]
      BY <1>4, <2>2
    <3>2. (Unused(refreshCall[u].pair))' /\ refreshCall[u].pair # issued + 1
      BY <1>9, <2>2, <3>1
    <3> QED BY <1>4, <2>2, <3>1, <3>2 DEF Ledger, AnswersFresh
  <2> QED BY <2>1, <2>2
<1>12. Covered'
  <2> SUFFICES ASSUME refresh_token \in spent', ~abandoned
               PROVE  \/ \E d \in Call : Active(d) /\ call[d].body = refresh_token
                      \/ \E u \in Tab : /\ refreshCall'[u].phase # "none"
                                        /\ refreshCall'[u].token = refresh_token
    BY <1>1 DEF Covered, Active, storage
  <2>1. CASE refresh_token = token
    BY <1>4, <2>1
  <2>2. CASE refresh_token \in spent
    BY <1>1, <1>4, <2>2 DEF Ledger, Covered, token
  <2> QED BY <1>1, <2>1, <2>2
<1> QED BY <1>5, <1>8, <1>11, <1>12 DEF Ledger

-----------------------------------------------------------------------------
(* The theorems.                                                           *)

Inv == Shape /\ Ledger

LEMMA InitInv == Init => Inv
<1> SUFFICES ASSUME Init PROVE Inv
  OBVIOUS
<1>1. /\ refresh_token = None /\ issued = None /\ spent = {} /\ ~abandoned
      /\ \A c \in Call : ~Active(c)
      /\ \A t \in Tab : refreshCall[t].phase = "none"
  BY DEF Init, Active, IdleCall, NoRefresh, None
<1>2. Ledger
  BY <1>1 DEF Ledger, Held, AnswersFresh, Covered, None
<1> QED BY <1>2, InitShape DEF Inv

LEMMA NextInv == Inv /\ [Next]_vars => Inv'
<1> SUFFICES ASSUME Shape, Ledger, [Next]_vars PROVE Shape' /\ Ledger'
  BY DEF Inv
<1>1. CASE UNCHANGED vars
  BY <1>1 DEF vars, Shape, TypeOK, CallsPlaced, LockHasOwner, QueueServed, InTab, Active,
              Ledger, Held, AnswersFresh, Unused, Covered
<1>2. ASSUME NEW t \in Tab, CloseTab(t) PROVE Shape' /\ Ledger'
  BY <1>2, CloseTabShape, CloseTabLedger
<1>3. ASSUME NEW t \in Tab, RefreshSteps(t) PROVE Shape' /\ Ledger'
  BY <1>3, AcceptRefreshStep, LoseRefreshStep, RefreshSucceedsShape, RefreshSucceedsLedger,
     RefreshFailsShape, RefreshFailsLedger DEF RefreshSteps
<1>4. ASSUME NEW c \in Call, OpenTab(c) \/ VerifyAuth(c) \/ StartLogout(c)
      PROVE  Shape' /\ Ledger'
  BY <1>4, OpenTabShape, OpenTabLedger, VerifyAuthShape, VerifyAuthLedger,
     StartLogoutShape, StartLogoutLedger
<1>5. ASSUME NEW c \in Call, NEW kind \in {"login", "signIn", "load"}, StartCall(c, kind)
      PROVE  Shape' /\ Ledger'
  BY <1>5, StartCallShape, StartCallLedger
<1>6. ASSUME NEW c \in Call, RevokeBody(c) PROVE Shape' /\ Ledger'
  BY <1>6, RevokeBodyStep
<1>7. ASSUME NEW c \in Call, Answered(c) PROVE Shape' /\ Ledger'
  <2>1. CASE Succeed(c)
    BY <2>1, SucceedShape, SucceedLedger
  <2>2. CASE Fail(c)
    BY <2>2, FailShape, FailLedger
  <2>3. CASE Enqueue(c)
    BY <2>3, EnqueueShape, EnqueueLedger
  <2>4. CASE NoRefreshToken(c)
    BY <2>4, NoRefreshTokenShape, NoRefreshTokenLedger
  <2>5. CASE StartRefresh(c)
    BY <2>5, StartRefreshShape, StartRefreshLedger
  <2> QED BY <1>7, <2>1, <2>2, <2>3, <2>4, <2>5 DEF Answered
<1>8. CASE AcceptAbandoned
  BY <1>8, AcceptAbandonedStep
<1> QED BY <1>1, <1>2, <1>3, <1>4, <1>5, <1>6, <1>7, <1>8 DEF Next

\* The inductive invariant: lock, queue and calls fit together (axios.js), and a pair the
\* server has just answered is in nobody's hands until it is stored.
THEOREM Invariance == Spec => []Inv
<1> QED BY InitInv, NextInv, PTL DEF Spec

\* Tokens, calls, refreshes and screens stay in their types, for any numbers of them.
THEOREM TypeCorrect == Spec => []TypeOK
<1>1. Inv => TypeOK
  BY DEF Inv, Shape
<1> QED BY <1>1, Invariance, PTL

\* The lock of axios.js is never left behind: while isRefreshing is set, a refresh is in
\* progress whose owner waits for it and will release it.
THEOREM LockHasOwnerHolds == Spec => []LockHasOwner
<1>1. Inv => LockHasOwner
  BY DEF Inv, Shape
<1> QED BY <1>1, Invariance, PTL

\* A queued call is in the queue of its own tab, whose refresh is in progress.
THEOREM QueueServedHolds == Spec => []QueueServed
<1>1. Inv => QueueServed
  BY DEF Inv, Shape
<1> QED BY <1>1, Invariance, PTL

\* A spent refresh token is stored only while the call that presented it is in flight, or
\* after the page that presented it was left.
THEOREM SpentTokenInFlightHolds == Spec => []SpentTokenInFlight
<1>1. ASSUME Inv PROVE SpentTokenInFlight
  <2> SUFFICES ASSUME refresh_token \in spent, ~abandoned
               PROVE  \E t \in Tab : refresh_token \in Presented(t)
    BY DEF SpentTokenInFlight
  <2>1. refresh_token # None
    BY <1>1, Types DEF Inv, Pair, None
  <2>2. CASE \E c \in Call : Active(c) /\ call[c].body = refresh_token
    <3>1. PICK c \in Call : Active(c) /\ call[c].body = refresh_token
      BY <2>2
    <3>2. tabOf[c] \in Tab
      BY <1>1, <3>1 DEF Inv, Shape, CallsPlaced
    <3>3. refresh_token \in Presented(tabOf[c])
      BY <2>1, <3>1 DEF Presented, InTab
    <3> QED BY <3>2, <3>3
  <2>3. CASE \E t \in Tab : refreshCall[t].phase # "none" /\ refreshCall[t].token = refresh_token
    BY <1>1, <2>3, RefreshFields DEF Inv, Shape, Presented
  <2> QED BY <1>1, <2>2, <2>3 DEF Inv, Ledger, Covered
<1> QED BY <1>1, Invariance, PTL
=============================================================================
