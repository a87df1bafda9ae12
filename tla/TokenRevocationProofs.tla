------------------------- MODULE TokenRevocationProofs -------------------------
(***************************************************************************)
(* What holds of TokenRevocation for any number of requests and tokens, any *)
(* lives of the tokens and any resolution of the clock.                    *)
(***************************************************************************)
EXTENDS TokenRevocation, FiniteSetTheorems, TLAPS

USE TimeAssumption

\* Whole seconds never run ahead of the clock.
LEMMA WholeSeconds ==
  ASSUME NEW n \in Nat, NEW s \in Nat \ {0}
  PROVE  /\ n \div s \in Nat
         /\ s * (n \div s) <= n
         /\ n \div s <= n
         /\ n \div s <= (n + 1) \div s
<1>1. n \div s \in Nat /\ n = s * (n \div s) + (n % s) /\ n % s \in 0 .. s - 1
  BY Z3
<1>2. (n + 1) \div s \in Nat /\ n + 1 = s * ((n + 1) \div s) + ((n + 1) % s)
      /\ (n + 1) % s \in 0 .. s - 1
  BY Z3
<1>3. s * (n \div s) <= n
  BY <1>1, Z3
<1>4. n \div s <= s * (n \div s)
  BY <1>1, Z3
<1>5. n \div s <= (n + 1) \div s
  <2> DEFINE a == n \div s
             b == (n + 1) \div s
  <2> SUFFICES ASSUME b < a PROVE FALSE
    BY <1>1, <1>2
  <2>1. s * a <= n /\ n + 1 <= s * b + s - 1
    BY <1>1, <1>2, <1>3
  <2>2. a \in Nat /\ b \in Nat /\ b + 1 <= a
    BY <1>1, <1>2
  <2> HIDE DEF a, b
  <2>3. s * (b + 1) <= s * a
    BY <2>2, Z3
  <2>4. s * (b + 1) = s * b + s
    BY <2>2, Z3
  <2> QED BY <2>1, <2>2, <2>3, <2>4
<1> QED BY <1>1, <1>3, <1>4, <1>5

LEMMA ExpiryType ==
  ASSUME TypeOK, UsesIssued, NEW t \in Token
  PROVE  /\ t[1] \in Pair
         /\ issued[t[1]] \in Nat /\ Seconds \in Nat /\ now \in Nat /\ Expiry(t) \in Nat
         /\ Expiry(t) <= Seconds + AccessLife + RefreshLife
         /\ Second * Seconds <= now /\ Seconds <= now
<1>1. t[1] \in Pair
  BY DEF Token
<1>2. issued[t[1]] \in Nat /\ issued[t[1]] <= Seconds /\ now \in Nat
  BY <1>1 DEF TypeOK, UsesIssued
<1>3. Seconds \in Nat /\ Second * Seconds <= now /\ Seconds <= now
  BY <1>2, WholeSeconds DEF Seconds
<1> QED BY <1>1, <1>2, <1>3 DEF Expiry

\* The time to live _seconds_until computes reaches the exp claim, and no further than
\* a token issued now would.
LEMMA KeyReachesExpiry ==
  ASSUME TypeOK, UsesIssued, NEW t \in Token
  PROVE  /\ now + SecondsUntil(t) * Second \in 0 .. now + Second * (AccessLife + RefreshLife)
         /\ now + SecondsUntil(t) * Second > now
         /\ now + SecondsUntil(t) * Second >= Second * Expiry(t)
<1> DEFINE ttl == SecondsUntil(t)
           life == AccessLife + RefreshLife
<1>1. /\ Expiry(t) \in Nat /\ Seconds \in Nat /\ now \in Nat /\ Second * Seconds <= now
      /\ Expiry(t) <= Seconds + life
  BY ExpiryType
<1>2. ttl \in Nat /\ ttl >= 1 /\ ttl <= life /\ Seconds + ttl >= Expiry(t) /\ life \in Nat
  BY <1>1 DEF SecondsUntil
<1> HIDE DEF ttl, life
<1>3. ttl * Second \in Nat /\ ttl * Second >= Second /\ ttl * Second <= Second * life
  BY <1>2, Z3
<1>4. Second * (Seconds + ttl) >= Second * Expiry(t)
  BY <1>1, <1>2, Z3
<1>5. Second * (Seconds + ttl) = Second * Seconds + ttl * Second
      /\ Second * Seconds \in Nat /\ Second * Expiry(t) \in Nat /\ Second * life \in Nat
  BY <1>1, <1>2, Z3
<1> QED BY <1>1, <1>3, <1>4, <1>5 DEF ttl, life

\* The part of the invariant that speaks of keys, and the part that speaks of requests.
Keys ==
  /\ blacklist \in [Token -> 0 .. now + Second * (AccessLife + RefreshLife)]
  /\ spent \subseteq Token
  /\ SpentUntilExpiry /\ KeysLast
  /\ \A t \in Token : blacklist[t] # 0 \/ t \in spent => issued[t[1]] # 0

RequestsOK ==
  /\ req \in [Worker -> Request \cup {Idle}]
  /\ \A w \in Worker : req[w] # Idle =>
       issued[req[w].token[1]] # 0 /\ issued[req[w].other[1]] # 0

Clocks ==
  /\ now \in Second .. MaxTime /\ issued \in [Pair -> 0 .. MaxTime] /\ active \in BOOLEAN
  /\ \A p \in Pair : issued[p] <= Seconds

LEMMA Parts == IInv <=> Keys /\ RequestsOK /\ Clocks /\ rotations \in [Token -> Nat]
  BY DEF IInv, TypeOK, UsesIssued, Keys, RequestsOK, Clocks

\* Only a rotation counts, and only a crash of Redis forgets.
LEMMA Counts ==
  ASSUME IInv, [Next]_vars
  PROVE  /\ rotations' \in [Token -> Nat]
         /\ \/ rotations' = rotations
            \/ \E w \in Worker : Rotate(w)
            \/ \E S \in SUBSET Token : RedisRestarts(S)
<1>1. rotations \in [Token -> Nat] /\ req \in [Worker -> Request \cup {Idle}]
  BY DEF IInv, TypeOK
<1>2. ASSUME NEW w \in Worker, Rotate(w) PROVE rotations' \in [Token -> Nat]
  <2>1. req[w].token \in Token
    BY <1>1, <1>2 DEF Rotate, Request, Idle
  <2> QED BY <1>1, <1>2, <2>1 DEF Rotate
<1>3. ASSUME NEW S \in SUBSET Token, RedisRestarts(S) PROVE rotations' \in [Token -> Nat]
  BY <1>1, <1>3 DEF RedisRestarts
<1>4. \/ rotations' = rotations
      \/ \E w \in Worker : Rotate(w)
      \/ \E S \in SUBSET Token : RedisRestarts(S)
  BY DEF Next, Tick, SetActive, Login, Arrive, CheckRevoked, LoadUser, AnswerPair,
         RevokeAccess, RevokeRefresh, Abort, vars
<1> QED BY <1>1, <1>2, <1>3, <1>4

\* Revoking an issued token keeps the keys in order, and may give it up with any
\* other token that has a key.
LEMMA RevokeKeepsKeys ==
  ASSUME IInv, NEW t \in Token, issued[t[1]] # 0, Revoke(t), UNCHANGED <<now, issued>>,
         spent' \subseteq Token,
         \A u \in spent' : u \in spent \/ u = t \/ blacklist[u] # 0
  PROVE  Keys'
<1> DEFINE end == now + SecondsUntil(t) * Second
<1>1. /\ end \in 0 .. now + Second * (AccessLife + RefreshLife)
      /\ end > now /\ end >= Second * Expiry(t)
  BY KeyReachesExpiry DEF IInv
<1>2. now \in Nat /\ blacklist \in [Token -> 0 .. now + Second * (AccessLife + RefreshLife)]
  BY DEF IInv, TypeOK
<1>3. blacklist' = [blacklist EXCEPT ![t] = end]
  BY DEF Revoke
<1> HIDE DEF end
<1>4. blacklist' \in [Token -> 0 .. now + Second * (AccessLife + RefreshLife)]
      /\ blacklist'[t] = end /\ \A u \in Token \ {t} : blacklist'[u] = blacklist[u]
  BY <1>1, <1>2, <1>3
<1>5. end # 0
  BY <1>1, <1>2
<1>6. \A u \in Token : Expiry(u)' = Expiry(u) /\ Over(u)' = Over(u)
  BY DEF Expiry, Over
<1>7. KeysLast'
  BY <1>1, <1>2, <1>4, <1>6 DEF IInv, KeysLast
<1>8. SpentUntilExpiry'
  BY <1>4, <1>5, <1>6 DEF IInv, TypeOK, SpentUntilExpiry, Blacklisted
<1>9. \A u \in Token : blacklist'[u] # 0 \/ u \in spent' => issued'[u[1]] # 0
  BY <1>4 DEF IInv, UsesIssued
<1> QED BY <1>4, <1>7, <1>8, <1>9 DEF Keys

\* The places a request can go on to.
Progress == {"user", "rotate", "issue", "revokeAccess", "revokeRefresh"}

\* A request that goes on with its tokens, or ends.
LEMMA MoveKeepsRequests ==
  ASSUME IInv, NEW w \in Worker, req[w].pc # "idle", issued' = issued,
         \/ Finish(w)
         \/ \E pc \in Progress : Goto(w, pc)
  PROVE  RequestsOK'
<1>1. req[w] \in Request /\ req[w] # Idle
  BY DEF IInv, TypeOK, Idle
<1>2. CASE Finish(w)
  BY <1>2 DEF IInv, TypeOK, UsesIssued, RequestsOK, Finish
<1>3. ASSUME NEW pc \in Progress, Goto(w, pc)
      PROVE  RequestsOK'
  <2>1. req' = [req EXCEPT ![w] = [req[w] EXCEPT !.pc = pc]]
    BY <1>3 DEF Goto, IInv, TypeOK
  <2>2. /\ [req[w] EXCEPT !.pc = pc] \in Request
        /\ [req[w] EXCEPT !.pc = pc].token = req[w].token
        /\ [req[w] EXCEPT !.pc = pc].other = req[w].other
    BY <1>1 DEF Request, Progress
  <2> HIDE DEF Request
  <2> QED BY <1>1, <2>1, <2>2 DEF IInv, TypeOK, UsesIssued, RequestsOK
<1> QED BY <1>2, <1>3

\* A new pair's tokens have no key yet, and no request uses them.
LEMMA IssueKeeps ==
  ASSUME IInv, NEW p \in Pair, IssuePair(p), UNCHANGED <<now, blacklist, active, spent>>
  PROVE  /\ Keys' /\ Clocks'
         /\ \A q \in Pair : issued[q] # 0 => issued'[q] = issued[q]
<1>1. issued \in [Pair -> 0 .. MaxTime] /\ now \in Second .. MaxTime /\ now \in Nat
      /\ active \in BOOLEAN
  BY DEF IInv, TypeOK
<1>2. Seconds \in 0 .. MaxTime /\ Seconds' = Seconds /\ Seconds <= now
  BY <1>1, WholeSeconds DEF Seconds
<1>3. /\ issued' \in [Pair -> 0 .. MaxTime] /\ issued'[p] = Seconds /\ issued[p] = 0
      /\ \A q \in Pair \ {p} : issued'[q] = issued[q]
  BY <1>1, <1>2 DEF IssuePair
<1>4. Clocks'
  BY <1>1, <1>2, <1>3 DEF IInv, UsesIssued, Clocks
<1>5. \A t \in Token : blacklist[t] # 0 \/ t \in spent =>
         t[1] # p /\ issued'[t[1]] = issued[t[1]] /\ t[1] \in Pair
  BY <1>3 DEF IInv, UsesIssued, Token
<1>6. \A t \in Token : blacklist[t] # 0 \/ t \in spent =>
         Expiry(t)' = Expiry(t) /\ Over(t)' = Over(t)
  BY <1>5 DEF Expiry, Over
<1>7. KeysLast' /\ SpentUntilExpiry'
  BY <1>6 DEF IInv, TypeOK, KeysLast, SpentUntilExpiry, Blacklisted
<1>8. Keys'
  BY <1>5, <1>7 DEF IInv, TypeOK, UsesIssued, Keys
<1> QED BY <1>3, <1>4, <1>8

\* A tick drops the keys whose last tick it was: none before its token's exp claim.
LEMMA TickKeeps ==
  ASSUME IInv, Tick
  PROVE  Keys' /\ Clocks'
<1>1. /\ now \in Nat /\ now' = now + 1 /\ now' \in Second .. MaxTime
      /\ issued' = issued /\ active' = active /\ spent' = spent
  BY DEF IInv, TypeOK, Tick
<1>2. Seconds \in Nat /\ Seconds' \in Nat /\ Seconds <= Seconds'
  BY <1>1, WholeSeconds DEF Seconds
<1>3. Clocks'
  <2>1. \A p \in Pair : issued[p] \in Nat /\ issued[p] <= Seconds
    BY DEF IInv, TypeOK, UsesIssued
  <2>2. \A p \in Pair : issued'[p] <= Seconds'
    BY <1>1, <1>2, <2>1
  <2> QED BY <1>1, <2>2 DEF IInv, TypeOK, Clocks
<1>4. blacklist' = [t \in Token |-> IF blacklist[t] <= now THEN 0 ELSE blacklist[t]]
  BY DEF Tick
<1> DEFINE top == now + Second * (AccessLife + RefreshLife)
<1>5. blacklist \in [Token -> 0 .. top] /\ top \in Nat
      /\ (now + Second * (AccessLife + RefreshLife))' = top + 1
  <2>1. Second * (AccessLife + RefreshLife) \in Nat
    BY Z3
  <2> QED BY <1>1, <2>1 DEF IInv, TypeOK
<1> HIDE DEF top
<1>6. blacklist' \in [Token -> 0 .. top + 1]
  BY <1>4, <1>5
<1>7. \A t \in Token : Expiry(t)' = Expiry(t) /\ Expiry(t) \in Nat
  BY <1>1, ExpiryType DEF IInv, Expiry
<1>8. \A t \in Token : Second * Expiry(t) \in Nat
  BY <1>7, Z3
<1>9. KeysLast'
  <2> SUFFICES ASSUME NEW t \in Token, blacklist'[t] # 0
               PROVE  blacklist'[t] >= now' /\ blacklist'[t] >= (Second * Expiry(t))'
    BY DEF KeysLast
  <2>1. blacklist'[t] = blacklist[t] /\ blacklist[t] \in Nat /\ blacklist[t] > now
    BY <1>1, <1>4, <1>5
  <2> QED BY <1>1, <1>7, <2>1 DEF IInv, KeysLast
<1>10. SpentUntilExpiry'
  <2> SUFFICES ASSUME NEW t \in spent, blacklist'[t] = 0
               PROVE  now' > (Second * Expiry(t))'
    BY <1>1 DEF SpentUntilExpiry, Blacklisted, Over
  <2>1. t \in Token
    BY DEF IInv, TypeOK
  <2>2. blacklist[t] \in Nat /\ blacklist[t] <= now
    BY <1>1, <1>4, <1>5, <2>1
  <2>3. CASE blacklist[t] # 0
    <3>1. blacklist[t] >= Second * Expiry(t)
      BY <2>1, <2>3 DEF IInv, KeysLast
    <3> QED BY <1>1, <1>7, <1>8, <2>1, <2>2, <3>1
  <2>4. CASE blacklist[t] = 0
    <3>1. now > Second * Expiry(t)
      BY <2>4 DEF IInv, SpentUntilExpiry, Blacklisted, Over
    <3> QED BY <1>1, <1>7, <1>8, <2>1, <3>1
  <2> QED BY <2>3, <2>4
<1>11. \A t \in Token : blacklist'[t] # 0 \/ t \in spent' => issued'[t[1]] # 0
  BY <1>1, <1>4, <1>5 DEF IInv, UsesIssued
<1> QED BY <1>1, <1>3, <1>5, <1>6, <1>9, <1>10, <1>11 DEF Keys, IInv, TypeOK

LEMMA InitIInv == Init => IInv
<1> SUFFICES ASSUME Init PROVE IInv
  OBVIOUS
<1>1. now = Second /\ now \in Second .. MaxTime /\ Seconds \in Nat
  BY WholeSeconds DEF Init, Seconds
<1>2. Second * (AccessLife + RefreshLife) \in Nat
  BY Z3
<1>3. Keys
  BY <1>1, <1>2 DEF Init, Keys, KeysLast, SpentUntilExpiry
<1>4. RequestsOK
  BY DEF Init, RequestsOK
<1>5. Clocks /\ rotations \in [Token -> Nat]
  BY <1>1 DEF Init, Clocks
<1> QED BY <1>3, <1>4, <1>5, Parts

\* One step per action; each leaves two of the three parts as they were, or goes by the
\* lemma on the part it changes.
LEMMA NextIInv == IInv /\ [Next]_vars => IInv'
<1> SUFFICES ASSUME IInv, [Next]_vars PROVE IInv'
  OBVIOUS
<1> DEFINE Same == UNCHANGED <<now, issued, blacklist, spent>>
<1>p. Keys /\ RequestsOK /\ Clocks
  BY Parts
<1>k. Same => Keys'
  BY <1>p DEF Keys, SpentUntilExpiry, KeysLast, Blacklisted, Over, Expiry
<1>r. UNCHANGED <<req, issued>> => RequestsOK'
  BY <1>p DEF RequestsOK
<1>c. UNCHANGED <<now, issued>> /\ active' \in BOOLEAN => Clocks'
  BY <1>p DEF Clocks, Seconds
<1>u. active \in BOOLEAN
  BY <1>p DEF Clocks
<1> SUFFICES Keys' /\ RequestsOK' /\ Clocks'
  BY Counts DEF IInv, TypeOK, UsesIssued, Keys, RequestsOK, Clocks
<1>1. CASE Tick
  <2>1. UNCHANGED <<req, issued>>
    BY <1>1 DEF Tick
  <2> QED BY <1>1, <1>r, <2>1, TickKeeps
<1>2. ASSUME NEW b \in BOOLEAN, SetActive(b) PROVE Keys' /\ RequestsOK' /\ Clocks'
  BY <1>2, <1>k, <1>r, <1>c DEF SetActive
<1>3. ASSUME NEW S \in SUBSET Token, RedisRestarts(S) PROVE Keys' /\ RequestsOK' /\ Clocks'
  <2>1. /\ blacklist' = [t \in Token |-> IF t \in S THEN 0 ELSE blacklist[t]]
        /\ spent' = spent \ S /\ UNCHANGED <<now, issued, active, req>>
    BY <1>3 DEF RedisRestarts
  <2>2. Second * (AccessLife + RefreshLife) \in Nat /\ now \in Nat
    BY Z3, <1>p DEF Clocks
  <2>3. blacklist' \in [Token -> 0 .. now + Second * (AccessLife + RefreshLife)]
    BY <1>p, <2>1, <2>2 DEF Keys
  <2>4. \A t \in Token : Expiry(t)' = Expiry(t) /\ Over(t)' = Over(t)
    BY <2>1 DEF Expiry, Over
  <2>5. SpentUntilExpiry' /\ KeysLast'
    BY <1>p, <2>1, <2>4 DEF Keys, SpentUntilExpiry, KeysLast, Blacklisted
  <2>6. Keys'
    BY <1>p, <2>1, <2>3, <2>5 DEF Keys
  <2> QED BY <1>r, <1>c, <1>u, <2>1, <2>6
<1>4. ASSUME NEW p \in Pair, Login(p) PROVE Keys' /\ RequestsOK' /\ Clocks'
  <2>1. Keys' /\ Clocks' /\ \A q \in Pair : issued[q] # 0 => issued'[q] = issued[q]
    BY <1>4, IssueKeeps DEF Login
  <2>2. req' = req
    BY <1>4 DEF Login
  <2>3. RequestsOK'
    BY <1>p, <2>1, <2>2 DEF RequestsOK, Request, Token
  <2> QED BY <2>1, <2>3
<1>5. ASSUME NEW w \in Worker, NEW t \in Token, NEW o \in Token, NEW k \in {"refresh", "logout"},
             Arrive(w, k, t, o)
      PROVE  Keys' /\ RequestsOK' /\ Clocks'
  <2> DEFINE r == [pc |-> "check", kind |-> k, token |-> t, other |-> o]
  <2>1. req' = [req EXCEPT ![w] = r] /\ UNCHANGED <<now, issued, blacklist, active, spent>>
    BY <1>5 DEF Arrive
  <2>2. r \in Request /\ r.token = t /\ r.other = o
    BY DEF Request
  <2>3. issued[t[1]] # 0 /\ issued[o[1]] # 0
    BY <1>5 DEF Arrive, Decodes
  <2> HIDE DEF r
  <2>4. RequestsOK'
    BY <1>p, <2>1, <2>2, <2>3 DEF RequestsOK
  <2> QED BY <1>k, <1>c, <1>u, <2>1, <2>4
<1>6. ASSUME NEW w \in Worker, CheckRevoked(w) \/ LoadUser(w) \/ Abort(w)
      PROVE  Keys' /\ RequestsOK' /\ Clocks'
  <2>1. UNCHANGED <<now, issued, blacklist, active, spent>> /\ req[w].pc # "idle"
    BY <1>6 DEF CheckRevoked, LoadUser, Abort
  <2>2. \/ Finish(w)
        \/ \E pc \in Progress : Goto(w, pc)
    <3>1. CASE LoadUser(w)
      <4>1. req[w].kind \in {"refresh", "logout"}
        BY <2>1, <1>p DEF RequestsOK, Request, Idle
      <4> QED BY <3>1, <4>1 DEF LoadUser, Progress
    <3>2. CASE CheckRevoked(w) \/ Abort(w)
      BY <3>2 DEF CheckRevoked, Abort, Progress
    <3> QED BY <1>6, <3>1, <3>2
  <2>3. RequestsOK'
    BY <2>1, <2>2, MoveKeepsRequests
  <2> QED BY <1>k, <1>c, <1>u, <2>1, <2>3
<1>7. ASSUME NEW w \in Worker, Rotate(w) \/ RevokeAccess(w) \/ RevokeRefresh(w)
      PROVE  Keys' /\ RequestsOK' /\ Clocks'
  <2>1. UNCHANGED <<now, issued, active>> /\ req[w].pc # "idle"
    BY <1>7 DEF Rotate, RevokeAccess, RevokeRefresh
  <2>2. /\ req[w].token \in Token /\ issued[req[w].token[1]] # 0
        /\ req[w].other \in Token /\ issued[req[w].other[1]] # 0
    BY <1>p, <2>1 DEF RequestsOK, Request, Idle
  <2>3. \/ Finish(w)
        \/ \E pc \in Progress : Goto(w, pc)
    BY <1>7 DEF Progress, Rotate, RevokeAccess, RevokeRefresh
  <2>4. RequestsOK'
    BY <2>1, <2>3, MoveKeepsRequests
  <2>5. spent \subseteq Token
    BY <1>p DEF Keys
  <2>6. CASE Rotate(w)
    <3>1. Revoke(req[w].token) /\ spent' = spent \cup {req[w].token}
      BY <2>6 DEF Rotate
    <3> QED BY <2>1, <2>2, <2>4, <2>5, <3>1, <1>c, <1>u, RevokeKeepsKeys
  <2>7. CASE RevokeAccess(w)
    <3>1. spent' = spent /\ (Revoke(req[w].token) \/ blacklist' = blacklist)
      BY <2>7 DEF RevokeAccess
    <3> QED BY <2>1, <2>2, <2>4, <2>5, <3>1, <1>k, <1>c, <1>u, RevokeKeepsKeys
  <2>8. CASE RevokeRefresh(w)
    <3>1. \/ UNCHANGED <<blacklist, spent>>
          \/ /\ Revoke(req[w].other)
             /\ spent' = spent \cup {req[w].other} \cup
                           (IF Blacklisted(req[w].token) THEN {req[w].token} ELSE {})
      BY <2>8 DEF RevokeRefresh
    <3>2. CASE UNCHANGED <<blacklist, spent>>
      BY <2>1, <2>4, <3>2, <1>k, <1>c, <1>u
    <3>3. CASE ~UNCHANGED <<blacklist, spent>>
      <4>1. /\ spent' \subseteq Token
            /\ \A u \in spent' : u \in spent \/ u = req[w].other \/ blacklist[u] # 0
        BY <2>2, <2>5, <3>1, <3>3 DEF Blacklisted
      <4> QED BY <2>1, <2>2, <2>4, <3>1, <3>3, <4>1, <1>c, <1>u, RevokeKeepsKeys
    <3> QED BY <3>2, <3>3
  <2> QED BY <1>7, <2>6, <2>7, <2>8
<1>8. ASSUME NEW w \in Worker, NEW p \in Pair, AnswerPair(w, p)
      PROVE  Keys' /\ RequestsOK' /\ Clocks'
  <2>1. Keys' /\ Clocks' /\ \A q \in Pair : issued[q] # 0 => issued'[q] = issued[q]
    BY <1>8, IssueKeeps DEF AnswerPair
  <2>2. req' = [req EXCEPT ![w] = Idle]
    BY <1>8 DEF AnswerPair, Finish
  <2>3. RequestsOK'
    BY <1>p, <2>1, <2>2 DEF RequestsOK, Request, Token
  <2> QED BY <2>1, <2>3
<1>9. CASE UNCHANGED vars
  BY <1>9, <1>k, <1>r, <1>c, <1>u DEF vars
<1> QED BY <1>1, <1>2, <1>3, <1>4, <1>5, <1>6, <1>7, <1>8, <1>9 DEF Next

\* The invariant holds of every reachable state.
THEOREM Invariance == Spec => []IInv
<1> QED BY InitIInv, NextIInv, PTL DEF Spec

\* Types, and a blacklist bounded by the lives of the tokens.
THEOREM TypeCorrect == Spec => []TypeOK
<1>1. IInv => TypeOK
  BY DEF IInv
<1> QED BY <1>1, Invariance, PTL

\* A token given up by a rotation or a logout stays in the blacklist until its exp
\* claim, for any lives of the tokens, any clock and any number of requests.
THEOREM SpentUntilExpiryHolds == Spec => []SpentUntilExpiry
<1>1. IInv => SpentUntilExpiry
  BY DEF IInv
<1> QED BY <1>1, Invariance, PTL

\* And no request that begins later passes its check with that token.
THEOREM SpentRefusedHolds == Spec => SpentRefused
<1> DEFINE Refused ==
      \A w \in Worker :
        /\ req[w].pc = "check"
        /\ req[w].token \in spent
        /\ ~Over(req[w].token)
        => req'[w].pc # "user"
<1>1. IInv /\ [Next]_vars => [Refused]_vars
  <2> SUFFICES ASSUME IInv, Next, NEW w \in Worker, req[w].pc = "check",
                      req[w].token \in spent, ~Over(req[w].token), req'[w].pc = "user"
               PROVE  FALSE
    BY DEF Refused
  <2>1. Blacklisted(req[w].token)
    BY DEF IInv, SpentUntilExpiry
  <2>2. req \in [Worker -> Request \cup {Idle}]
    BY DEF IInv, TypeOK
  <2>3. req'[w] # req[w]
    OBVIOUS
  <2>4. ASSUME NEW v \in Worker, v # w, Finish(v) \/ \E pc \in Progress : Goto(v, pc)
        PROVE  req'[w] = req[w]
    BY <2>2, <2>4 DEF Finish, Goto
  <2>5. CASE CheckRevoked(w)
    BY <2>1, <2>2, <2>5 DEF CheckRevoked, Finish, Idle
  <2>6. CASE \E v \in Worker, t, o \in Token, k \in {"refresh", "logout"} : Arrive(v, k, t, o)
    BY <2>2, <2>6 DEF Arrive
  <2>7. CASE Abort(w) \/ \E p \in Pair : AnswerPair(w, p)
    BY <2>2, <2>7 DEF Abort, AnswerPair, Finish, Idle
  <2>8. ASSUME NEW v \in Worker, v # w,
               \/ CheckRevoked(v) \/ LoadUser(v) \/ Rotate(v)
               \/ RevokeAccess(v) \/ RevokeRefresh(v) \/ Abort(v)
               \/ \E p \in Pair : AnswerPair(v, p)
        PROVE  FALSE
    <3>1. \/ Finish(v) \/ \E pc \in Progress : Goto(v, pc)
      <4>1. CASE LoadUser(v)
        <5>1. req[v].kind \in {"refresh", "logout"}
          BY <2>2, <4>1 DEF LoadUser, Request, Idle
        <5> QED BY <4>1, <5>1 DEF LoadUser, Progress
      <4> QED BY <2>8, <4>1 DEF CheckRevoked, Rotate, RevokeAccess, RevokeRefresh, Abort,
                                AnswerPair, Progress
    <3> QED BY <2>3, <2>4, <2>8, <3>1
  <2>9. CASE LoadUser(w) \/ Rotate(w) \/ RevokeAccess(w) \/ RevokeRefresh(w)
    BY <2>9 DEF LoadUser, Rotate, RevokeAccess, RevokeRefresh
  <2>10. CASE Tick \/ (\E b \in BOOLEAN : SetActive(b)) \/ (\E p \in Pair : Login(p))
              \/ (\E S \in SUBSET Token : RedisRestarts(S))
    BY <2>3, <2>10 DEF Tick, SetActive, Login, RedisRestarts
  <2> QED BY <2>5, <2>6, <2>7, <2>8, <2>9, <2>10 DEF Next
<1> QED BY <1>1, Invariance, PTL DEF Spec, SpentRefused
-----------------------------------------------------------------------------
(* One request at a time.                                                  *)

\* A token in use is not issued anew, and what is past its exp claim stays so.
LEMMA OverStays ==
  ASSUME IInv, [Next]_vars, NEW t \in Token, issued[t[1]] # 0, Over(t)
  PROVE  Over(t)'
<1>1. t[1] \in Pair /\ now \in Nat /\ Second * Expiry(t) \in Nat
  <2>1. Expiry(t) \in Nat /\ now \in Nat
    BY ExpiryType DEF IInv
  <2> QED BY <2>1, Z3 DEF Token
<1>2. now' = now \/ now' = now + 1
  BY DEF Next, Tick, SetActive, RedisRestarts, Login, Arrive, CheckRevoked, LoadUser, Rotate,
         AnswerPair, RevokeAccess, RevokeRefresh, Abort, vars
<1>3. issued' = issued \/ \E p \in Pair : IssuePair(p)
  BY DEF Next, Tick, SetActive, RedisRestarts, Login, Arrive, CheckRevoked, LoadUser, Rotate,
         AnswerPair, RevokeAccess, RevokeRefresh, Abort, vars
<1>4. issued'[t[1]] = issued[t[1]]
  BY <1>1, <1>3 DEF IssuePair, IInv, TypeOK
<1>5. Expiry(t)' = Expiry(t)
  BY <1>4 DEF Expiry
<1> QED BY <1>1, <1>2, <1>5 DEF Over

\* The token of the one request becomes spent by its own steps only, and these end it.
LEMMA SequentialStep ==
  ASSUME NEW w, Worker = {w}, IInv, SequentialInv, [Next]_vars
  PROVE  SequentialInv'
<1> DEFINE t == req[w].token
           Safe == t \notin spent \/ Over(t)
<1>t. req \in [Worker -> Request \cup {Idle}]
  BY DEF IInv, TypeOK
<1> SUFFICES ASSUME req'[w].pc \in {"user", "rotate"}
             PROVE  Safe'
  BY DEF SequentialInv
<1>k. ASSUME Safe, req[w] # Idle, req'[w].token = t, spent' \subseteq spent
      PROVE  Safe'
  <2>1. PICK u \in Token : u = t /\ issued[u[1]] # 0
    BY <1>t, <1>k DEF IInv, UsesIssued, Request
  <2>2. Over(u) => Over(u)'
    BY <2>1, OverStays
  <2>3. t' = u
    BY <1>k, <2>1
  <2>4. (Over(t) <=> Over(u)) /\ (Over(t)' <=> Over(u)')
    BY <2>1, <2>3 DEF Over, Expiry
  <2> QED BY <1>k, <2>1, <2>2, <2>3, <2>4
<1> HIDE DEF Safe
<1>i. req[w].pc \in {"user", "rotate"} => Safe /\ req[w] # Idle
  BY DEF SequentialInv, Safe, Idle
<1>1. CASE \/ Tick \/ UNCHANGED vars \/ \E b \in BOOLEAN : SetActive(b)
           \/ \E p \in Pair : Login(p)
           \/ \E S \in SUBSET Token : RedisRestarts(S)
  <2>1. req' = req /\ spent' \subseteq spent
    BY <1>1 DEF Tick, vars, SetActive, Login, RedisRestarts
  <2> QED BY <1>i, <1>k, <2>1
<1>2. CASE CheckRevoked(w)
  <2>1. ~Blacklisted(t) /\ Goto(w, "user") /\ spent' = spent /\ req[w] # Idle
    BY <1>2, <1>t DEF CheckRevoked, Finish, Idle
  <2>2. Safe
    BY <2>1 DEF IInv, SpentUntilExpiry, Safe
  <2>3. req'[w].token = t
    BY <1>t, <2>1 DEF Goto, Request
  <2> QED BY <1>k, <2>1, <2>2, <2>3
<1>3. CASE LoadUser(w)
  <2>1. req[w].pc = "user" /\ spent' = spent
    BY <1>3 DEF LoadUser
  <2>2. req'[w].token = t
    BY <1>3, <1>t DEF LoadUser, Finish, Goto, Idle, Request
  <2> QED BY <1>i, <1>k, <2>1, <2>2
<1>4. CASE \/ \E u, o \in Token, k \in {"refresh", "logout"} : Arrive(w, k, u, o)
           \/ Rotate(w) \/ RevokeAccess(w) \/ RevokeRefresh(w) \/ Abort(w)
           \/ \E p \in Pair : AnswerPair(w, p)
  <2>1. ASSUME NEW pc, Goto(w, pc) PROVE req'[w].pc = pc
    BY <1>t, <2>1 DEF Goto, Request, Idle
  <2>2. ASSUME NEW u \in Token, NEW o \in Token, NEW k \in {"refresh", "logout"},
               Arrive(w, k, u, o)
        PROVE  req'[w].pc = "check"
    BY <1>t, <2>2 DEF Arrive
  <2>3. Finish(w) => req'[w].pc = "idle"
    BY <1>t DEF Finish, Idle
  <2> QED BY <1>4, <2>1, <2>2, <2>3 DEF Rotate, RevokeAccess, RevokeRefresh, Abort, AnswerPair
<1> QED BY <1>1, <1>2, <1>3, <1>4 DEF Next

\* One request at a time, a refresh token answers one pair before its exp claim: only
\* requests that pass their checks together can rotate it twice.
THEOREM SequentialRotation ==
  ASSUME NEW u, Worker = {u}
  PROVE  Spec => SpentNotRotated
<1> DEFINE Once ==
      \A w \in Worker :
        /\ req[w].pc = "rotate" /\ req'[w].pc = "issue"
        /\ ~Over(req[w].token)
        => req[w].token \notin spent
<1>1. Init => SequentialInv
  BY DEF Init, SequentialInv, Idle
<1>2. IInv /\ SequentialInv /\ [Next]_vars => SequentialInv'
  BY SequentialStep
<1>3. SequentialInv /\ [Next]_vars => [Once]_vars
  BY DEF SequentialInv
<1> QED BY <1>1, <1>2, <1>3, Invariance, PTL DEF Spec, SpentNotRotated
-----------------------------------------------------------------------------
(* Any number of requests at a time: how often a token is rotated.         *)

\* Any group of requests can be counted.
LEMMA PassedFinite ==
  ASSUME NEW S \in SUBSET Worker
  PROVE  /\ IsFiniteSet(S) /\ Cardinality(S) \in Nat /\ Cardinality(Worker) \in Nat
         /\ Cardinality(S) <= Cardinality(Worker)
  BY WorkerAssumption, FS_Subset, FS_CardinalityType

\* Nobody joins those past their check with a token that was given up.
LEMMA NobodyJoins ==
  ASSUME IInv, [Next]_vars, NEW t \in spent, ~Over(t)
  PROVE  Passed(t)' \subseteq Passed(t)
<1>t. req \in [Worker -> Request \cup {Idle}]
  BY DEF IInv, TypeOK
<1> SUFFICES ASSUME NEW w \in Worker, req'[w].pc \in {"user", "rotate"}, req'[w].token = t,
                    req'[w] # req[w]
             PROVE  req[w].pc \in {"user", "rotate"} /\ req[w].token = t
  BY DEF Passed
<1>1. ASSUME NEW v \in Worker, NEW pc, req[v].pc # "idle", Goto(v, pc)
      PROVE  v = w /\ req'[w].pc = pc /\ req'[w].token = req[w].token
  <2>1. v = w
    BY <1>t, <1>1 DEF Goto
  <2>2. req[w] \in Request
    BY <1>t, <1>1, <2>1 DEF Idle
  <2> QED BY <1>t, <1>1, <2>1, <2>2 DEF Goto, Request
<1>2. ASSUME NEW v \in Worker, Finish(v) PROVE FALSE
  BY <1>t, <1>2 DEF Finish, Idle
<1>3. ASSUME NEW v \in Worker, CheckRevoked(v) PROVE FALSE
  <2>1. v = w /\ req[w].token = t /\ ~Blacklisted(t)
    BY <1>1, <1>2, <1>3 DEF CheckRevoked
  <2> QED BY <2>1 DEF IInv, SpentUntilExpiry
<1>4. ASSUME NEW v \in Worker, LoadUser(v) PROVE req[w].pc = "user" /\ req[w].token = t
  BY <1>1, <1>2, <1>4 DEF LoadUser
<1>5. ASSUME NEW v \in Worker, Rotate(v) \/ RevokeAccess(v) \/ RevokeRefresh(v) PROVE FALSE
  BY <1>1, <1>2, <1>5 DEF Rotate, RevokeAccess, RevokeRefresh
<1>6. ASSUME NEW v \in Worker, NEW u \in Token, NEW o \in Token,
             NEW k \in {"refresh", "logout"}, Arrive(v, k, u, o)
      PROVE  FALSE
  BY <1>t, <1>6 DEF Arrive
<1>7. ASSUME NEW v \in Worker, Abort(v) \/ \E p \in Pair : AnswerPair(v, p) PROVE FALSE
  BY <1>2, <1>7 DEF Abort, AnswerPair
<1>8. CASE \/ Tick \/ UNCHANGED vars \/ \E b \in BOOLEAN : SetActive(b)
           \/ \E p \in Pair : Login(p)
           \/ \E S \in SUBSET Token : RedisRestarts(S)
  BY <1>8 DEF Tick, vars, SetActive, Login, RedisRestarts
<1> QED BY <1>3, <1>4, <1>5, <1>6, <1>7, <1>8 DEF Next

\* A rotation counts one more and leaves one request fewer that can rotate the token; the
\* first one closes the check to all others until the exp claim.
LEMMA RotationsStep ==
  ASSUME IInv, RotationsCounted, [Next]_vars
  PROVE  RotationsCounted'
<1> SUFFICES ASSUME NEW t \in Token, rotations'[t] > 0
             PROVE  /\ t \in spent'
                    /\ rotations'[t] <= Cardinality(Worker)
                    /\ Over(t)' \/ rotations'[t] + Cardinality(Passed(t)') <= Cardinality(Worker)
  BY DEF RotationsCounted
<1> DEFINE n == Cardinality(Worker)
           Counted == rotations[t] > 0 => /\ t \in spent /\ rotations[t] <= n
                                          /\ Over(t) \/ rotations[t] + Cardinality(Passed(t)) <= n
<1>c. Counted
  BY DEF RotationsCounted
<1>f. /\ Passed(t) \in SUBSET Worker /\ Passed(t)' \in SUBSET Worker
      /\ IsFiniteSet(Passed(t)) /\ Cardinality(Passed(t)) \in Nat
      /\ IsFiniteSet(Passed(t)') /\ Cardinality(Passed(t)') \in Nat
      /\ n \in Nat /\ Cardinality(Passed(t)) <= n /\ Cardinality(Passed(t)') <= n
  <2>1. Passed(t) \in SUBSET Worker /\ Passed(t)' \in SUBSET Worker
    BY DEF Passed
  <2> QED BY <2>1, PassedFinite
<1>t. /\ rotations \in [Token -> Nat] /\ rotations' \in [Token -> Nat]
      /\ req \in [Worker -> Request \cup {Idle}]
  BY Counts DEF IInv, TypeOK
<1> HIDE DEF n, Counted
<1>o. ASSUME t \in spent, Over(t) PROVE Over(t)'
  BY <1>o, OverStays DEF IInv, UsesIssued
\* A token that is not rotated in this step.
<1>1. ASSUME rotations'[t] = rotations[t], t \in spent => t \in spent'
      PROVE  /\ t \in spent' /\ rotations'[t] <= n
             /\ Over(t)' \/ rotations'[t] + Cardinality(Passed(t)') <= n
  <2>1. t \in spent /\ rotations[t] <= n
    BY <1>1, <1>c DEF Counted
  <2>2. CASE Over(t)
    BY <1>1, <1>o, <2>1, <2>2
  <2>3. CASE ~Over(t)
    <3>1. Passed(t)' \subseteq Passed(t)
      BY <2>1, <2>3, NobodyJoins
    <3>2. Cardinality(Passed(t)') <= Cardinality(Passed(t))
      BY <1>f, <3>1, FS_Subset
    <3> QED BY <1>1, <1>c, <1>f, <1>t, <2>1, <2>3, <3>2 DEF Counted
  <2> QED BY <2>2, <2>3
<1>2. ASSUME NEW w \in Worker, Rotate(w), req[w].token # t
      PROVE  rotations'[t] = rotations[t] /\ (t \in spent => t \in spent')
  BY <1>t, <1>2 DEF Rotate
\* The token that is rotated: one count more, and one request fewer is to come.
<1>3. ASSUME NEW w \in Worker, Rotate(w), req[w].token = t
      PROVE  /\ t \in spent' /\ rotations'[t] <= n
             /\ Over(t)' \/ rotations'[t] + Cardinality(Passed(t)') <= n
  <2>1. /\ t \in spent' /\ req[w].pc = "rotate" /\ Goto(w, "issue")
        /\ rotations' = IF Over(t) THEN rotations ELSE [rotations EXCEPT ![t] = @ + 1]
    BY <1>3 DEF Rotate
  <2>2. CASE Over(t)
    <3>1. rotations'[t] = rotations[t]
      BY <2>1, <2>2
    <3>2. t \in spent /\ rotations[t] <= n
      BY <1>c, <3>1 DEF Counted
    <3> QED BY <1>o, <2>1, <2>2, <3>1, <3>2
  <2>3. CASE ~Over(t)
    <3>1. rotations'[t] = rotations[t] + 1
      BY <1>t, <2>1, <2>3
    <3>2. w \in Passed(t)
      BY <1>3, <2>1 DEF Passed
    <3>3. Passed(t)' = Passed(t) \ {w}
      <4>1. req[w] \in Request
        BY <1>t, <2>1 DEF Idle
      <4>2. /\ req'[w].pc = "issue"
            /\ \A v \in Worker \ {w} : req'[v] = req[v]
        BY <1>t, <2>1, <4>1 DEF Goto, Request
      <4> QED BY <4>2 DEF Passed
    <3>4. Cardinality(Passed(t)') = Cardinality(Passed(t)) - 1
      BY <1>f, <3>2, <3>3, FS_RemoveElement
    <3>5. rotations[t] + Cardinality(Passed(t)) <= n
      BY <1>t, <1>c, <1>f, <2>3 DEF Counted
    <3> QED BY <1>f, <1>t, <2>1, <3>1, <3>4, <3>5
  <2> QED BY <2>2, <2>3
<1>4. ASSUME NEW S \in SUBSET Token, RedisRestarts(S)
      PROVE  rotations'[t] = rotations[t] /\ (t \in spent => t \in spent')
  BY <1>t, <1>4 DEF RedisRestarts
<1>5. CASE rotations' = rotations /\ ~\E S \in SUBSET Token : RedisRestarts(S)
  <2>1. t \in spent => t \in spent'
    BY <1>5 DEF Next, Tick, SetActive, Login, Arrive, CheckRevoked, LoadUser, Rotate,
                AnswerPair, RevokeAccess, RevokeRefresh, Abort, vars
  <2> QED BY <1>1, <1>5, <2>1 DEF n
<1> QED BY <1>1, <1>2, <1>3, <1>4, <1>5, Counts DEF n

\* However many requests race, a refresh token is rotated before its exp claim at most
\* as often as requests can run at the same time.
THEOREM RotationsBoundedHolds == Spec => []RotationsBounded
<1>1. Init => RotationsCounted
  BY DEF Init, RotationsCounted
<1>2. IInv /\ RotationsCounted /\ [Next]_vars => RotationsCounted'
  BY RotationsStep
<1>3. IInv /\ RotationsCounted => RotationsBounded
  <2> SUFFICES ASSUME IInv, RotationsCounted, NEW t \in Token
               PROVE  rotations[t] <= Cardinality(Worker)
    BY DEF RotationsBounded
  <2>1. rotations[t] \in Nat /\ Cardinality(Worker) \in Nat
    BY WorkerAssumption, FS_CardinalityType DEF IInv, TypeOK
  <2> QED BY <2>1 DEF RotationsCounted
<1> QED BY <1>1, <1>2, <1>3, Invariance, PTL DEF Spec
=============================================================================
