------------------------- MODULE AccountLockoutProofs -------------------------
(***************************************************************************)
(* What holds of AccountLockout for any number of concurrent requests, any *)
(* LOGIN_MAX_ATTEMPTS, any period; that the documented limit is exact when *)
(* requests run one at a time; and how far two at a time can exceed it.    *)
(***************************************************************************)
EXTENDS AccountLockout, TLAPS

USE LockoutAssumption

\* The new row of a request that commits, field by field.
LEMMA ClearedType ==
  ASSUME TypeOK, NEW w \in Worker, req[w] # Idle
  PROVE  /\ Cleared(req[w]) \in Account
         /\ Cleared(req[w]).lockedUntil \in {0, account.lockedUntil}
         /\ Cleared(req[w]).lockedUntil = 0 =>
              account.lockedUntil = 0 \/ req[w].lockedUntil # 0
  BY DEF TypeOK, Cleared, Account, Request, Idle

\* What a login loads is a request, and its lock is within the period.
LEMMA Loaded ==
  ASSUME IInv, NEW w \in Worker, NEW p \in Password, Authenticate(w, p) \/ StartReset(w, p)
  PROVE  /\ req'[w] \in Request /\ RequestOK(req'[w])
         /\ \A v \in Worker \ {w} : req'[v] = req[v]
         /\ req' \in [Worker -> Request \cup {Idle}]
<1> DEFINE loaded(pc, lockout) ==
      [pc |-> pc, attempts |-> account.attempts, lockedUntil |-> account.lockedUntil,
       lockout |-> lockout, password |-> p]
<1>1. account.attempts \in Nat /\ account.lockedUntil \in Nat /\ clock \in Nat
  BY DEF IInv, TypeOK, Account
<1>2. LockoutUntil(account.attempts) \in Nat
      /\ LockoutUntil(account.attempts) <= clock + LockoutPeriod
  BY <1>1 DEF LockoutUntil
<1>3. \E r \in Request : req' = [req EXCEPT ![w] = r] /\ RequestOK(r)
  <2>1. CASE req' = [req EXCEPT ![w] = loaded("failed", LockoutUntil(account.attempts))]
    <3>1. loaded("failed", LockoutUntil(account.attempts)) \in Request
      BY <1>1, <1>2 DEF Request
    <3>2. RequestOK(loaded("failed", LockoutUntil(account.attempts)))
      BY <1>2 DEF RequestOK
    <3> QED BY <2>1, <3>1, <3>2
  <2>2. CASE ~Locked /\ req' = [req EXCEPT ![w] = loaded("succeeded", 0)]
    <3>1. loaded("succeeded", 0) \in Request
      BY <1>1 DEF Request
    <3>2. RequestOK(loaded("succeeded", 0))
      BY <1>1, <2>2 DEF RequestOK, Locked
    <3> QED BY <2>2, <3>1, <3>2
  <2>3. CASE req' = [req EXCEPT ![w] = loaded("reset", 0)]
    <3>1. loaded("reset", 0) \in Request
      BY <1>1 DEF Request
    <3>2. RequestOK(loaded("reset", 0))
      BY DEF RequestOK
    <3> QED BY <2>3, <3>1, <3>2
  <2> QED BY <2>1, <2>2, <2>3 DEF Authenticate, StartReset, Load
<1>4. clock' = clock
  BY DEF Authenticate, StartReset
<1> QED BY <1>3, <1>4 DEF IInv, TypeOK, RequestOK

LEMMA InitIInv == Init => IInv
<1> SUFFICES ASSUME Init PROVE IInv
  OBVIOUS
<1>1. clock = 1 /\ failures = 0 /\ account \in Account /\ account.lockedUntil = 0
  BY DEF Init, Account
<1>2. req \in [Worker -> Request \cup {Idle}] /\ \A w \in Worker : req[w].pc = "idle"
  BY DEF Init, Idle
<1> QED BY <1>1, <1>2 DEF IInv, TypeOK, LockWithinPeriod, RequestOK

LEMMA NextIInv == IInv /\ [Next]_vars => IInv'
<1> SUFFICES ASSUME IInv, [Next]_vars PROVE IInv'
  OBVIOUS
<1>t. /\ clock \in Nat /\ clock \in 1 .. MaxTime /\ account \in Account
      /\ req \in [Worker -> Request \cup {Idle}] /\ failures \in Nat
  BY DEF IInv, TypeOK
<1>a. account.attempts \in Nat /\ account.lockedUntil \in Nat
      /\ account.password \in Password /\ account.active \in BOOLEAN
  BY <1>t DEF Account
<1>1. CASE Tick
  <2>1. clock' = clock + 1 /\ clock' \in 1 .. MaxTime
        /\ UNCHANGED <<account, req, failures>>
    BY <1>1, <1>t DEF Tick
  <2>2. \A w \in Worker : RequestOK(req[w])'
    <3> SUFFICES ASSUME NEW w \in Worker PROVE RequestOK(req[w])'
      OBVIOUS
    <3>1. CASE req[w] = Idle
      BY <2>1, <3>1 DEF RequestOK, Idle
    <3>2. CASE req[w] \in Request
      <4>1. req[w].lockout \in Nat /\ req[w].lockedUntil \in Nat /\ RequestOK(req[w])
        BY <3>2 DEF Request, IInv
      <4> QED BY <1>t, <2>1, <4>1 DEF RequestOK
    <3> QED BY <1>t, <3>1, <3>2
  <2> QED BY <1>t, <1>a, <2>1, <2>2 DEF IInv, TypeOK, LockWithinPeriod
<1>2. ASSUME NEW p \in Password, NEW b \in BOOLEAN, UpdateUser(p, b) PROVE IInv'
  <2>1. account' = [[account EXCEPT !.password = p] EXCEPT !.active = b]
        /\ UNCHANGED <<clock, req, failures>>
    BY <1>2 DEF UpdateUser
  <2>2. [account EXCEPT !.password = p] \in Account
    BY <1>t DEF Account
  <2>3. account' \in Account /\ account'.lockedUntil = account.lockedUntil
    BY <2>1, <2>2, <1>t DEF Account
  <2> QED BY <1>t, <2>1, <2>3 DEF IInv, TypeOK, LockWithinPeriod, RequestOK
<1>3. ASSUME NEW w \in Worker, NEW p \in Password, Authenticate(w, p) \/ StartReset(w, p)
      PROVE  IInv'
  <2>1. UNCHANGED <<clock, account, failures>>
    BY <1>3 DEF Authenticate, StartReset
  <2>2. \A v \in Worker : RequestOK(req[v])'
    BY <1>3, <2>1, Loaded DEF IInv, RequestOK
  <2>3. req' \in [Worker -> Request \cup {Idle}]
    BY <1>3, Loaded
  <2> QED BY <1>t, <2>1, <2>2, <2>3 DEF IInv, TypeOK, LockWithinPeriod
<1>4. ASSUME NEW w \in Worker, \/ RecordFailedLogin(w) \/ RecordSuccessfulLogin(w)
                               \/ CommitReset(w) \/ Abort(w)
      PROVE  IInv'
  <2>1. /\ clock' = clock /\ req' = [req EXCEPT ![w] = Idle] /\ req[w].pc # "idle"
    BY <1>4 DEF RecordFailedLogin, RecordSuccessfulLogin, CommitReset, Abort, Finish
  <2>2. req[w] \in Request /\ RequestOK(req[w]) /\ req[w] # Idle
    BY <1>t, <2>1 DEF IInv, Idle
  <2>3. /\ account' \in Account /\ failures' \in Nat
        /\ account'.lockedUntil <= clock + LockoutPeriod
    <3>1. CASE RecordFailedLogin(w)
      <4>1. /\ account' = [account EXCEPT !.attempts = req[w].attempts + 1,
                 !.lockedUntil = IF req[w].lockout # 0 THEN req[w].lockout ELSE @]
            /\ failures' = IF req[w].lockout # 0 THEN 0 ELSE failures + 1
            /\ req[w].pc = "failed"
        BY <3>1 DEF RecordFailedLogin
      <4>2. req[w].lockout \in Nat /\ req[w].lockout <= clock + LockoutPeriod
            /\ req[w].attempts + 1 \in Nat
        BY <2>2, <4>1 DEF Request, RequestOK
      <4>3. account.lockedUntil <= clock + LockoutPeriod
        BY DEF IInv, LockWithinPeriod
      <4>4. PICK u \in Nat : /\ u <= clock + LockoutPeriod
                             /\ account' = [[account EXCEPT !.attempts = req[w].attempts + 1]
                                             EXCEPT !.lockedUntil = u]
        <5>1. CASE req[w].lockout # 0
          BY <4>1, <4>2, <5>1
        <5>2. CASE req[w].lockout = 0
          BY <1>a, <4>1, <4>3, <5>2
        <5> QED BY <5>1, <5>2
      <4>5. [account EXCEPT !.attempts = req[w].attempts + 1] \in Account
        BY <1>t, <4>2 DEF Account
      <4>6. account' \in Account /\ account'.lockedUntil = u
        BY <4>4, <4>5 DEF Account
      <4> QED BY <1>t, <4>1, <4>4, <4>6
    <3>2. CASE RecordSuccessfulLogin(w)
      BY <1>t, <2>2, <3>2, ClearedType DEF RecordSuccessfulLogin, IInv, LockWithinPeriod
    <3>3. CASE CommitReset(w)
      <4>1. account' = [Cleared(req[w]) EXCEPT !.password = req[w].password]
            /\ failures' = 0
        BY <3>3 DEF CommitReset
      <4>2. req[w].password \in Password
        BY <2>2 DEF Request
      <4>3. Cleared(req[w]) \in Account
            /\ Cleared(req[w]).lockedUntil <= clock + LockoutPeriod
        BY <1>t, <2>2, ClearedType DEF IInv, LockWithinPeriod
      <4> QED BY <4>1, <4>2, <4>3 DEF Account
    <3>4. CASE Abort(w)
      BY <1>t, <3>4 DEF Abort, IInv, LockWithinPeriod
    <3> QED BY <1>4, <3>1, <3>2, <3>3, <3>4
  <2>4. \A v \in Worker : RequestOK(req[v])'
    BY <1>t, <2>1 DEF IInv, RequestOK, Idle
  <2> QED BY <1>t, <2>1, <2>3, <2>4 DEF IInv, TypeOK, LockWithinPeriod
<1>5. CASE UNCHANGED vars
  BY <1>5 DEF vars, IInv, TypeOK, LockWithinPeriod, RequestOK
<1> QED BY <1>1, <1>2, <1>3, <1>4, <1>5 DEF Next

\* The invariant the theorems rest on.
THEOREM Invariance == Spec => []IInv
  BY InitIInv, NextIInv, PTL DEF Spec

\* Counter, lock and requests stay in their types.
THEOREM TypeCorrect == Spec => []TypeOK
<1>1. IInv => TypeOK
  BY DEF IInv
<1> QED BY <1>1, Invariance, PTL

\* However many requests record failures, no lock outlives LOGIN_LOCKOUT_MINUTES.
THEOREM LockWithinPeriodHolds == Spec => []LockWithinPeriod
<1>1. IInv => LockWithinPeriod
  BY DEF IInv
<1> QED BY <1>1, Invariance, PTL

\* An active lock is lifted only by a reset, or a login, that itself loaded a lock.
THEOREM LockLiftedKnowinglyHolds == Spec => LockLiftedKnowingly
<1> DEFINE Knowingly ==
      Locked /\ account'.lockedUntil = 0 =>
        \E w \in Worker :
          \/ req[w].pc = "reset" /\ req[w].lockedUntil > 0
          \/ req[w].pc = "succeeded" /\ req[w].lockedUntil \in 1 .. clock
<1>1. IInv /\ [Next]_vars => [Knowingly]_vars
  <2> SUFFICES ASSUME IInv, Next, Locked, account'.lockedUntil = 0
               PROVE  \E w \in Worker :
                        \/ req[w].pc = "reset" /\ req[w].lockedUntil > 0
                        \/ req[w].pc = "succeeded" /\ req[w].lockedUntil \in 1 .. clock
    OBVIOUS
  <2>t. clock \in Nat /\ account \in Account /\ req \in [Worker -> Request \cup {Idle}]
    BY DEF IInv, TypeOK
  <2>1. account.lockedUntil # 0
    BY <2>t DEF Locked, Account
  <2>2. PICK w \in Worker : RecordFailedLogin(w) \/ RecordSuccessfulLogin(w) \/ CommitReset(w)
    <3>1. ~Tick /\ (\A p \in Password, b \in BOOLEAN : ~UpdateUser(p, b))
      BY <2>t, <2>1 DEF Tick, UpdateUser, Account
    <3>2. \A w \in Worker, p \in Password : ~Authenticate(w, p) /\ ~StartReset(w, p)
      BY <2>1 DEF Authenticate, StartReset
    <3>3. \A w \in Worker : ~Abort(w)
      BY <2>1 DEF Abort
    <3> QED BY <3>1, <3>2, <3>3 DEF Next
  <2>3. req[w] \in Request /\ RequestOK(req[w]) /\ req[w] # Idle
    BY <2>t, <2>2 DEF RecordFailedLogin, RecordSuccessfulLogin, CommitReset, Idle, IInv
  <2>4. req[w].lockedUntil \in Nat
    BY <2>3 DEF Request
  <2>5. CASE RecordFailedLogin(w)
    BY <2>t, <2>1, <2>5 DEF RecordFailedLogin, Account
  <2>6. CASE RecordSuccessfulLogin(w)
    <3>1. req[w].pc = "succeeded" /\ account' = Cleared(req[w])
      BY <2>6 DEF RecordSuccessfulLogin
    <3>2. req[w].lockedUntil # 0
      BY <2>1, <2>3, <3>1, ClearedType DEF IInv
    <3> QED BY <2>t, <2>3, <2>4, <3>1, <3>2 DEF RequestOK
  <2>7. CASE CommitReset(w)
    <3>1. req[w].pc = "reset"
          /\ account' = [Cleared(req[w]) EXCEPT !.password = req[w].password]
      BY <2>7 DEF CommitReset
    <3>2. Cleared(req[w]) \in Account
      BY <2>3, ClearedType DEF IInv
    <3>3. Cleared(req[w]).lockedUntil = 0
      BY <3>1, <3>2 DEF Account
    <3>4. req[w].lockedUntil # 0
      BY <2>1, <2>3, <3>3, ClearedType DEF IInv
    <3> QED BY <2>4, <3>1, <3>4
  <2> QED BY <2>2, <2>5, <2>6, <2>7
<1> QED BY <1>1, Invariance, PTL DEF Spec, LockLiftedKnowingly

-----------------------------------------------------------------------------
(* One request at a time.                                                  *)

LEMMA SequentialStep ==
  ASSUME NEW w, Worker = {w}, IInv, SequentialInv, [Next]_vars
  PROVE  SequentialInv'
<1>t. /\ clock \in Nat /\ account \in Account /\ failures \in Nat
      /\ req \in [Worker -> Request \cup {Idle}]
  BY DEF IInv, TypeOK
<1>a. account.attempts \in Nat
  BY <1>t DEF Account
<1>s. /\ failures < MaxAttempts /\ failures <= account.attempts
      /\ req[w].pc = "failed" =>
           /\ req[w].attempts = account.attempts
           /\ req[w].lockout = 0 => account.attempts + 1 < MaxAttempts
  BY DEF SequentialInv
<1>1. CASE Tick \/ UNCHANGED vars
  BY <1>1 DEF Tick, vars, SequentialInv
<1>2. ASSUME NEW p \in Password, NEW b \in BOOLEAN, UpdateUser(p, b)
      PROVE  SequentialInv'
  <2>1. account'.attempts = account.attempts /\ UNCHANGED <<req, failures>>
    BY <1>2, <1>t DEF UpdateUser, Account
  <2> QED BY <2>1 DEF SequentialInv
<1>3. ASSUME NEW p \in Password, Authenticate(w, p) \/ StartReset(w, p)
      PROVE  SequentialInv'
  <2>1. UNCHANGED <<clock, account, failures>>
    BY <1>3 DEF Authenticate, StartReset
  <2>2. req'[w].pc = "failed" =>
          /\ req'[w].attempts = account.attempts
          /\ req'[w].lockout = LockoutUntil(account.attempts)
    BY <1>3, <1>t DEF Authenticate, StartReset, Load
  <2>3. LockoutUntil(account.attempts) = 0 => account.attempts + 1 < MaxAttempts
    BY <1>t, <1>a DEF LockoutUntil
  <2> QED BY <1>s, <2>1, <2>2, <2>3 DEF SequentialInv
<1>4. CASE RecordFailedLogin(w)
  <2>1. /\ req[w].pc = "failed" /\ req' = [req EXCEPT ![w] = Idle]
        /\ account'.attempts = account.attempts + 1
        /\ failures' = IF req[w].lockout # 0 THEN 0 ELSE failures + 1
    BY <1>4, <1>s, <1>t DEF RecordFailedLogin, Finish, Account
  <2>2. req'[w].pc = "idle"
    BY <1>t, <2>1 DEF Idle
  <2>3. failures' < MaxAttempts /\ failures' <= account'.attempts
    BY <1>s, <1>t, <1>a, <2>1
  <2> QED BY <2>2, <2>3 DEF SequentialInv
<1>5. CASE RecordSuccessfulLogin(w) \/ CommitReset(w)
  <2>1. failures' = 0 /\ req' = [req EXCEPT ![w] = Idle]
    BY <1>5 DEF RecordSuccessfulLogin, CommitReset, Finish
  <2>2. req'[w].pc = "idle"
    BY <1>t, <2>1 DEF Idle
  <2>3. account'.attempts \in Nat
    BY <1>5, NextIInv DEF IInv, TypeOK, Account
  <2> QED BY <2>1, <2>2, <2>3 DEF SequentialInv
<1>6. CASE Abort(w)
  <2>1. UNCHANGED <<clock, account, failures>> /\ req' = [req EXCEPT ![w] = Idle]
    BY <1>6 DEF Abort, Finish
  <2>2. req'[w].pc = "idle"
    BY <1>t, <2>1 DEF Idle
  <2> QED BY <1>s, <2>1, <2>2 DEF SequentialInv
<1> QED BY <1>1, <1>2, <1>3, <1>4, <1>5, <1>6 DEF Next

\* One request at a time, the account is locked at wrong password number
\* LOGIN_MAX_ATTEMPTS exactly as documented: only concurrency lets more be tried.
THEOREM SequentialLockout ==
  ASSUME NEW w, Worker = {w}
  PROVE  Spec => []LockedAfterMaxAttempts
<1>1. Init => SequentialInv
  <2> SUFFICES ASSUME Init PROVE SequentialInv
    OBVIOUS
  <2>1. failures = 0 /\ account.attempts = 0 /\ \A v \in Worker : req[v].pc = "idle"
    BY DEF Init, Idle
  <2> QED BY <2>1 DEF SequentialInv
<1>2. IInv /\ SequentialInv /\ [Next]_vars => SequentialInv'
  BY SequentialStep
<1>3. SequentialInv => LockedAfterMaxAttempts
  BY DEF SequentialInv, LockedAfterMaxAttempts
<1> QED BY <1>1, <1>2, <1>3, Invariance, PTL DEF Spec

\* No request runs beside the reset, and an administrator does not touch the lock.
LEMMA ResetCurrentStep ==
  ASSUME NEW w, Worker = {w}, IInv, ResetCurrent, [Next]_vars
  PROVE  ResetCurrent'
<1>t. account \in Account /\ req \in [Worker -> Request \cup {Idle}]
  BY DEF IInv, TypeOK
<1> SUFFICES ASSUME req'[w].pc = "reset"
             PROVE  req'[w].lockedUntil = account'.lockedUntil
  BY DEF ResetCurrent
<1>1. CASE Tick \/ UNCHANGED vars
  BY <1>1 DEF Tick, vars, ResetCurrent
<1>2. ASSUME NEW p \in Password, NEW b \in BOOLEAN, UpdateUser(p, b)
      PROVE  req'[w].lockedUntil = account'.lockedUntil
  BY <1>2, <1>t DEF UpdateUser, Account, ResetCurrent
<1>3. ASSUME NEW p \in Password, Authenticate(w, p) \/ StartReset(w, p)
      PROVE  req'[w].lockedUntil = account'.lockedUntil
  BY <1>3, <1>t DEF Authenticate, StartReset, Load
<1>4. CASE RecordFailedLogin(w) \/ RecordSuccessfulLogin(w) \/ CommitReset(w) \/ Abort(w)
  <2>1. req'[w] = Idle
    BY <1>4, <1>t DEF RecordFailedLogin, RecordSuccessfulLogin, CommitReset, Abort, Finish
  <2> QED BY <2>1 DEF Idle
<1> QED BY <1>1, <1>2, <1>3, <1>4 DEF Next

\* One request at a time, whoever resets the password can sign in with it: the reset
\* loads the lock that is stored and clears it.  Only concurrency leaves one behind.
THEOREM SequentialReset ==
  ASSUME NEW u, Worker = {u}
  PROVE  Spec => ResetUnlocks
<1> DEFINE Unlocks == \A w \in Worker : CommitReset(w) => ~Locked'
<1>1. Init => ResetCurrent
  BY DEF Init, ResetCurrent, Idle
<1>2. IInv /\ ResetCurrent /\ [Next]_vars => ResetCurrent'
  BY ResetCurrentStep
<1>3. IInv /\ ResetCurrent /\ [Next]_vars => [Unlocks]_vars
  <2> SUFFICES ASSUME IInv, ResetCurrent, NEW w \in Worker, CommitReset(w)
               PROVE  ~Locked'
    OBVIOUS
  <2>1. /\ account' = [Cleared(req[w]) EXCEPT !.password = req[w].password]
        /\ req[w].pc = "reset" /\ clock' = clock
    BY DEF CommitReset
  <2>2. clock \in Nat /\ account \in Account /\ req[w] # Idle
    BY <2>1 DEF IInv, TypeOK, Idle
  <2>3. Cleared(req[w]) \in Account
        /\ Cleared(req[w]).lockedUntil \in {0, account.lockedUntil}
    BY <2>2, ClearedType DEF IInv
  <2>4. req[w].lockedUntil = account.lockedUntil
    BY <2>1 DEF ResetCurrent
  <2>5. Cleared(req[w]).lockedUntil = 0
    BY <2>2, <2>4 DEF Cleared, Account
  <2>6. account'.lockedUntil = 0
    BY <2>1, <2>3, <2>5 DEF Account
  <2> QED BY <2>1, <2>2, <2>6 DEF Locked
<1> QED BY <1>1, <1>2, <1>3, Invariance, PTL DEF Spec, ResetUnlocks, Locked

-----------------------------------------------------------------------------
(* Two requests at a time.                                                 *)

\* Twice a triangular number grows with its root.
LEMMA Triangular ==
  ASSUME NEW k \in Nat, NEW i \in Nat, k <= i
  PROVE  /\ k * (k + 1) \in Nat
         /\ k * (k + 1) <= i * (i + 1)
         /\ k < i => k * (k + 1) + 2 * i <= i * (i + 1)
<1>1. k * (k + 1) \in Nat
  OBVIOUS
<1>2. PICK d \in Nat : i = k + d
  <2>1. i - k \in Nat /\ i = k + (i - k)
    OBVIOUS
  <2> QED BY <2>1
<1>3. i * (i + 1) = k * (k + 1) + d * (2 * k) + d * d + d
  BY <1>2
<1>4. d * (2 * k) \in Nat /\ d * d \in Nat
  OBVIOUS
<1>5. k * (k + 1) <= i * (i + 1)
  BY <1>1, <1>3, <1>4
<1>6. ASSUME k < i PROVE k * (k + 1) + 2 * i <= i * (i + 1)
  <2>1. PICK e \in Nat : d = e + 1
    <3>1. d - 1 \in Nat /\ d = (d - 1) + 1
      BY <1>2, <1>6
    <3> QED BY <3>1
  <2>2. d * (2 * k) = e * (2 * k) + 2 * k /\ d * d + d = e * e + e + 2 * d
    BY <2>1
  <2>3. e * (2 * k) \in Nat /\ e * e \in Nat
    OBVIOUS
  <2> QED BY <1>1, <1>2, <1>3, <2>2, <2>3
<1> QED BY <1>1, <1>5, <1>6

\* ToCome is a number, does not depend on the order, and does not grow towards the limit.
LEMMA ToComeMonotone ==
  ASSUME NEW i \in Nat, NEW j \in Nat, NEW k \in 0 .. i, NEW l \in 0 .. j
  PROVE  /\ ToCome(i, j) \in Nat /\ ToCome(k, l) \in Nat
         /\ ToCome(i, j) = ToCome(j, i)
         /\ ToCome(k, l) <= ToCome(i, j)
         /\ k < i => ToCome(k, l) + 2 <= ToCome(i, j)
         /\ l < j => ToCome(k, l) + 2 <= ToCome(i, j)
<1>1. k \in Nat /\ l \in Nat /\ k <= i /\ l <= j
  OBVIOUS
<1>2. i * (i + 1) \in Nat /\ j * (j + 1) \in Nat /\ k * (k + 1) \in Nat /\ l * (l + 1) \in Nat
  BY <1>1
<1>3. /\ k * (k + 1) <= i * (i + 1)
      /\ k < i => k * (k + 1) + 2 * i <= i * (i + 1)
      /\ l * (l + 1) <= j * (j + 1)
      /\ l < j => l * (l + 1) + 2 * j <= j * (j + 1)
  BY <1>1, Triangular
<1>4. k >= l /\ i < j => k * (k + 1) + 2 * j <= j * (j + 1)
  BY <1>1, Triangular
<1>5. l > k /\ i >= j /\ l < i => l * (l + 1) + 2 * i <= i * (i + 1)
  BY <1>1, Triangular
<1> HIDE DEF ToCome
<1> DEFINE I == i * (i + 1)
           J == j * (j + 1)
           K == k * (k + 1)
           L == l * (l + 1)
<1>6. /\ i >= j => ToCome(i, j) = I + 2 * j
      /\ i < j => ToCome(i, j) = J + 2 * i
      /\ k >= l => ToCome(k, l) = K + 2 * l
      /\ k < l => ToCome(k, l) = L + 2 * k
      /\ j >= i => ToCome(j, i) = J + 2 * i
      /\ j < i => ToCome(j, i) = I + 2 * j
      /\ i = j => I = J
      /\ l = i => L = I
  BY <1>1 DEF ToCome
<1>7. I \in Nat /\ J \in Nat /\ K \in Nat /\ L \in Nat
  BY <1>2
<1>8. /\ K <= I
      /\ k < i => K + 2 * i <= I
      /\ L <= J
      /\ l < j => L + 2 * j <= J
      /\ k >= l /\ i < j => K + 2 * j <= J
      /\ l > k /\ i >= j /\ l < i => L + 2 * i <= I
  BY <1>3, <1>4, <1>5
<1> HIDE DEF I, J, K, L
<1>9. ToCome(i, j) \in Nat /\ ToCome(k, l) \in Nat /\ ToCome(i, j) = ToCome(j, i)
  BY <1>1, <1>6, <1>7
<1>10. ToCome(k, l) <= ToCome(i, j)
  BY <1>1, <1>6, <1>7, <1>8
<1>11. k < i => ToCome(k, l) + 2 <= ToCome(i, j)
  BY <1>1, <1>6, <1>7, <1>8
<1>12. l < j => ToCome(k, l) + 2 <= ToCome(i, j)
  BY <1>1, <1>6, <1>7, <1>8
<1> QED BY <1>9, <1>10, <1>11, <1>12

\* Setting the counter back from the level nearer to the limit to one above the other's.
LEMMA ToComeSetBack ==
  ASSUME NEW d \in Nat \ {0}, NEW j \in 0 .. d
  PROVE  ToCome(d - 1, d - 1) + 2 <= ToCome(d, j)
<1>1. (d - 1) * ((d - 1) + 1) + 2 * d = d * (d + 1)
  OBVIOUS
<1>2. (d - 1) * ((d - 1) + 1) \in Nat /\ d * (d + 1) \in Nat
  OBVIOUS
<1>3. ToCome(d - 1, d - 1) = (d - 1) * ((d - 1) + 1) + 2 * (d - 1)
      /\ ToCome(d, j) = d * (d + 1) + 2 * j
  BY DEF ToCome
<1> QED BY <1>1, <1>2, <1>3

\* The further the counter, the fewer failures left.
LEMMA AheadOf ==
  ASSUME NEW n \in Nat, NEW m \in Nat, n <= m
  PROVE  /\ Ahead(n) \in 0 .. MaxAttempts - 1 /\ Ahead(m) \in 0 .. Ahead(n)
         /\ n < m /\ m < MaxAttempts => Ahead(m) < Ahead(n)
  BY DEF Ahead

\* Levels that do not fall leave no more to come; from no levels is there more to come
\* than from two accounts without failures.
LEMMA LevelsRise ==
  ASSUME NEW x \in Nat, NEW y \in Nat, NEW x1 \in Nat, NEW y1 \in Nat, x <= x1, y <= y1
  PROVE  /\ ToCome(Ahead(x1), Ahead(y1)) \in Nat /\ ToCome(Ahead(x), Ahead(y)) \in Nat
         /\ ToCome(Ahead(x1), Ahead(y1)) <= ToCome(Ahead(x), Ahead(y))
         /\ ToCome(Ahead(x), Ahead(y)) <= ToCome(MaxAttempts - 1, MaxAttempts - 1)
         /\ x < x1 /\ x1 < MaxAttempts =>
              ToCome(Ahead(x1), Ahead(y1)) + 2 <= ToCome(Ahead(x), Ahead(y))
<1>1. /\ Ahead(x) \in Nat /\ Ahead(y) \in Nat /\ MaxAttempts - 1 \in Nat
      /\ Ahead(x1) \in 0 .. Ahead(x) /\ Ahead(y1) \in 0 .. Ahead(y)
      /\ Ahead(x) \in 0 .. MaxAttempts - 1 /\ Ahead(y) \in 0 .. MaxAttempts - 1
      /\ x < x1 /\ x1 < MaxAttempts => Ahead(x1) < Ahead(x)
  BY AheadOf
<1> QED BY <1>1, ToComeMonotone

\* A wrong password committed at level l + 1 by a request at level x: the other request
\* stays above its level, or falls to the one committed.
LEMMA CommitCounted ==
  ASSUME NEW l \in Nat, NEW x \in Nat, NEW y \in Nat, NEW y1 \in Nat,
         l + 1 < MaxAttempts, x <= l, y <= y1 \/ (x = l /\ y1 = l + 1 /\ l <= y)
  PROVE  ToCome(Ahead(l + 1), Ahead(y1)) + 2 <= ToCome(Ahead(x), Ahead(y))
<1>1. CASE y <= y1
  BY <1>1, LevelsRise
<1>2. CASE x = l /\ y1 = l + 1 /\ l <= y
  <2>1. Ahead(l) \in Nat \ {0} /\ Ahead(l + 1) = Ahead(l) - 1
    BY DEF Ahead
  <2>2. Ahead(y) \in 0 .. Ahead(l)
    BY <1>2, AheadOf
  <2> QED BY <1>2, <2>1, <2>2, ToComeSetBack
<1> QED BY <1>1, <1>2

\* A step of one of the two requests.
LEMMA ConcurrentStepOf ==
  ASSUME NEW v, NEW w, v # w, Worker = {v, w}, IInv, IInv', ConcurrentInv(v, w),
         \/ \E p \in Password : Authenticate(v, p) \/ StartReset(v, p)
         \/ RecordFailedLogin(v) \/ RecordSuccessfulLogin(v) \/ CommitReset(v) \/ Abort(v)
  PROVE  ConcurrentInv(v, w)'
<1> DEFINE A == account.attempts
           X == LevelOf(v)
           Y == LevelOf(w)
           Most == ToCome(MaxAttempts - 1, MaxAttempts - 1)
<1>t. /\ A \in Nat /\ A' \in Nat /\ failures \in Nat /\ failures' \in Nat
      /\ req \in [Worker -> Request \cup {Idle}]
      /\ \A u \in Worker : req[u].pc = "failed" => req[u].attempts \in Nat
      /\ \A u \in Worker : req'[u].pc = "failed" => req'[u].attempts \in Nat
  BY DEF IInv, TypeOK, Account, Request, Idle
<1>n. /\ X \in Nat /\ Y \in Nat /\ X' \in Nat /\ Y' \in Nat
      /\ Most \in Nat
  <2>1. X \in Nat /\ Y \in Nat /\ X' \in Nat /\ Y' \in Nat
    BY <1>t DEF LevelOf
  <2>2. MaxAttempts - 1 \in Nat /\ MaxAttempts - 1 \in 0 .. MaxAttempts - 1
    OBVIOUS
  <2> QED BY <2>1, <2>2, ToComeMonotone
<1>c. /\ 2 * failures + ToCome(Ahead(X), Ahead(Y)) <= Most
      /\ ToCome(Ahead(X), Ahead(Y)) \in Nat
  BY <1>n, LevelsRise DEF ConcurrentInv, GuessesCounted
<1>s. \A u \in {v, w} :
        req[u].pc = "failed" /\ req[u].lockout = 0 => req[u].attempts + 1 < MaxAttempts
  BY DEF ConcurrentInv
<1>q. /\ 2 * failures' + ToCome(Ahead(X'), Ahead(Y')) <= Most
      /\ \A u \in {v, w} :
           req'[u].pc = "failed" /\ req'[u].lockout = 0 => req'[u].attempts + 1 < MaxAttempts
      => ConcurrentInv(v, w)'
  BY DEF ConcurrentInv, GuessesCounted, Ahead
<1>1. CASE \E p \in Password : Authenticate(v, p) \/ StartReset(v, p)
  <2>1. PICK p \in Password : Authenticate(v, p) \/ StartReset(v, p)
    BY <1>1
  <2>2. /\ UNCHANGED <<account, failures>> /\ req[v].pc = "idle" /\ req'[w] = req[w]
        /\ req'[v].attempts = A
        /\ req'[v].pc = "failed" => req'[v].lockout = LockoutUntil(A)
    BY <2>1, <1>t DEF Authenticate, StartReset, Load
  <2>3. X' = X /\ Y' = Y
    BY <1>t, <2>2 DEF LevelOf
  <2>4. LockoutUntil(A) = 0 => A + 1 < MaxAttempts
    <3>1. clock \in Nat
      BY DEF IInv, TypeOK
    <3> QED BY <1>t, <3>1 DEF LockoutUntil
  <2>5. 2 * failures' + ToCome(Ahead(X'), Ahead(Y')) <= Most
    BY <1>c, <2>2, <2>3
  <2> QED BY <1>s, <1>q, <2>2, <2>4, <2>5
<1>2. ASSUME \/ RecordFailedLogin(v) \/ RecordSuccessfulLogin(v) \/ CommitReset(v) \/ Abort(v)
      PROVE  ConcurrentInv(v, w)'
  <2>1. req'[v].pc = "idle" /\ req'[w] = req[w]
    BY <1>2, <1>t DEF RecordFailedLogin, RecordSuccessfulLogin, CommitReset, Abort, Finish, Idle
  <2>2. \A u \in {v, w} :
          req'[u].pc = "failed" /\ req'[u].lockout = 0 => req'[u].attempts + 1 < MaxAttempts
    BY <1>s, <2>1
  <2>3. X' = A'
    BY <2>1 DEF LevelOf
  <2>4. CASE failures' = 0
    <3>1. ToCome(Ahead(X'), Ahead(Y')) \in Nat /\ ToCome(Ahead(X'), Ahead(Y')) <= Most
      BY <1>n, LevelsRise
    <3> QED BY <1>n, <1>q, <2>2, <2>4, <3>1
  <2>5. CASE Abort(v)
    <3>1. UNCHANGED <<account, failures>>
      BY <2>5 DEF Abort
    <3>2. X <= X' /\ Y' = Y
      BY <1>t, <2>1, <2>3, <3>1 DEF LevelOf
    <3>3. /\ ToCome(Ahead(X'), Ahead(Y')) <= ToCome(Ahead(X), Ahead(Y))
          /\ ToCome(Ahead(X'), Ahead(Y')) \in Nat
      BY <1>n, <3>2, LevelsRise
    <3> QED BY <1>t, <1>n, <1>c, <1>q, <2>2, <3>1, <3>3
  <2>6. CASE RecordFailedLogin(v) /\ failures' # 0
    <3> DEFINE l == req[v].attempts
    <3>1. req[v].pc = "failed" /\ l \in Nat
      BY <1>t, <2>6 DEF RecordFailedLogin
    <3>2. req[v].lockout = 0 /\ failures' = failures + 1 /\ A' = l + 1
      <4>1. req[v].lockout = 0 /\ failures' = failures + 1
        BY <2>6 DEF RecordFailedLogin
      <4>2. account'.attempts = l + 1
        <5>1. account \in Account
          BY DEF IInv, TypeOK
        <5> QED BY <2>6, <5>1 DEF RecordFailedLogin, Account
      <4> QED BY <4>1, <4>2
    <3>3. l + 1 < MaxAttempts
      BY <1>s, <3>1, <3>2
    <3>4. X <= l /\ (l < A => X = l)
      BY <1>t, <3>1 DEF LevelOf
    <3>5. Y <= Y' \/ (X = l /\ Y' = l + 1 /\ l <= Y)
      <4>1. CASE req[w].pc = "failed" /\ req[w].attempts < l + 1
        BY <1>t, <2>1, <3>1, <3>2, <4>1 DEF LevelOf
      <4>2. CASE ~(req[w].pc = "failed" /\ req[w].attempts < l + 1)
        <5>1. Y' = l + 1 /\ Y <= A
          BY <1>t, <2>1, <3>1, <3>2, <4>2 DEF LevelOf
        <5> QED BY <1>t, <1>n, <3>1, <3>4, <5>1
      <4> QED BY <4>1, <4>2
    <3>6. X' = l + 1
      BY <2>3, <3>2
    <3>7. ToCome(Ahead(X'), Ahead(Y')) + 2 <= ToCome(Ahead(X), Ahead(Y))
      <4>1. ToCome(Ahead(l + 1), Ahead(Y')) + 2 <= ToCome(Ahead(X), Ahead(Y))
        <5> HIDE DEF X, Y, l
        <5> QED BY <1>n, <3>1, <3>3, <3>4, <3>5, CommitCounted
      <4> QED BY <3>6, <4>1
    <3>8. ToCome(Ahead(X'), Ahead(Y')) \in Nat
      BY <1>n, LevelsRise
    <3> QED BY <1>t, <1>n, <1>c, <1>q, <2>2, <3>2, <3>7, <3>8
  <2>7. failures' = 0 \/ Abort(v) \/ (RecordFailedLogin(v) /\ failures' # 0)
    BY <1>2 DEF RecordSuccessfulLogin, CommitReset
  <2> QED BY <2>4, <2>5, <2>6, <2>7
<1> QED BY <1>1, <1>2

\* Any step: the two requests may change places in the count.
LEMMA ConcurrentStep ==
  ASSUME NEW v, NEW w, v # w, Worker = {v, w}, IInv, ConcurrentInv(v, w), [Next]_vars
  PROVE  ConcurrentInv(v, w)'
<1>i. IInv'
  BY NextIInv
<1>l. /\ LevelOf(v) \in Nat /\ LevelOf(w) \in Nat
      /\ LevelOf(v)' \in Nat /\ LevelOf(w)' \in Nat
  BY <1>i DEF IInv, TypeOK, Account, Request, Idle, LevelOf
<1>s. \A x \in Nat, y \in Nat : ToCome(Ahead(x), Ahead(y)) = ToCome(Ahead(y), Ahead(x))
  <2> SUFFICES ASSUME NEW x \in Nat, NEW y \in Nat
               PROVE  ToCome(Ahead(x), Ahead(y)) = ToCome(Ahead(y), Ahead(x))
    OBVIOUS
  <2>1. Ahead(x) \in Nat /\ Ahead(y) \in Nat
    BY DEF Ahead
  <2> QED BY <2>1 DEF ToCome
<1>1. ASSUME \/ \E p \in Password : Authenticate(v, p) \/ StartReset(v, p)
             \/ RecordFailedLogin(v) \/ RecordSuccessfulLogin(v) \/ CommitReset(v) \/ Abort(v)
      PROVE  ConcurrentInv(v, w)'
  BY <1>i, <1>1, ConcurrentStepOf
<1>2. ASSUME \/ \E p \in Password : Authenticate(w, p) \/ StartReset(w, p)
             \/ RecordFailedLogin(w) \/ RecordSuccessfulLogin(w) \/ CommitReset(w) \/ Abort(w)
      PROVE  ConcurrentInv(v, w)'
  <2>1. ConcurrentInv(w, v)
    BY <1>l, <1>s DEF ConcurrentInv, GuessesCounted
  <2>2. ConcurrentInv(w, v)'
    BY <1>i, <1>2, <2>1, ConcurrentStepOf
  <2>3. GuessesCounted(v, w)'
    <3>1. ToCome(Ahead(LevelOf(v)'), Ahead(LevelOf(w)'))
            = ToCome(Ahead(LevelOf(w)'), Ahead(LevelOf(v)'))
      BY <1>l, <1>s
    <3> QED BY <2>2, <3>1 DEF ConcurrentInv, GuessesCounted, Ahead
  <2> QED BY <2>2, <2>3 DEF ConcurrentInv
<1>3. CASE Tick \/ (\E p \in Password, b \in BOOLEAN : UpdateUser(p, b)) \/ UNCHANGED vars
  <2>1. account'.attempts = account.attempts /\ UNCHANGED <<req, failures>>
    BY <1>3 DEF Tick, UpdateUser, vars, IInv, TypeOK, Account
  <2>2. LevelOf(v)' = LevelOf(v) /\ LevelOf(w)' = LevelOf(w)
    BY <2>1 DEF LevelOf
  <2> QED BY <2>1, <2>2 DEF ConcurrentInv, GuessesCounted, Ahead
<1> QED BY <1>1, <1>2, <1>3 DEF Next

\* Two logins at a time lose updates of the counter, but never more than one per level:
\* whatever LOGIN_MAX_ATTEMPTS is, the account is locked after wrong password number
\* LOGIN_MAX_ATTEMPTS * (LOGIN_MAX_ATTEMPTS + 1) / 2 at the latest.
THEOREM GuessesBoundedHolds ==
  ASSUME NEW v, NEW w, v # w, Worker = {v, w}
  PROVE  Spec => []GuessesBounded
<1>1. Init => ConcurrentInv(v, w)
  <2> SUFFICES ASSUME Init PROVE ConcurrentInv(v, w)
    OBVIOUS
  <2>1. failures = 0 /\ account.attempts = 0 /\ req[v].pc = "idle" /\ req[w].pc = "idle"
    BY DEF Init, Idle
  <2>2. LevelOf(v) = 0 /\ LevelOf(w) = 0
    BY <2>1 DEF LevelOf
  <2>3. Ahead(0) = MaxAttempts - 1
    BY DEF Ahead
  <2>4. ToCome(MaxAttempts - 1, MaxAttempts - 1) \in Nat
    <3>1. MaxAttempts - 1 \in Nat /\ MaxAttempts - 1 \in 0 .. MaxAttempts - 1
      OBVIOUS
    <3> QED BY <3>1, ToComeMonotone
  <2> QED BY <2>1, <2>2, <2>3, <2>4 DEF ConcurrentInv, GuessesCounted
<1>2. IInv /\ ConcurrentInv(v, w) /\ [Next]_vars => ConcurrentInv(v, w)'
  BY ConcurrentStep
<1>3. IInv /\ ConcurrentInv(v, w) => GuessesBounded
  <2> SUFFICES ASSUME IInv, ConcurrentInv(v, w) PROVE GuessesBounded
    OBVIOUS
  <2> DEFINE Most == ToCome(MaxAttempts - 1, MaxAttempts - 1)
             P == MaxAttempts * (MaxAttempts + 1)
  <2>1. failures \in Nat /\ LevelOf(v) \in Nat /\ LevelOf(w) \in Nat
    BY DEF IInv, TypeOK, Account, Request, Idle, LevelOf
  <2>2. ToCome(Ahead(LevelOf(v)), Ahead(LevelOf(w))) \in Nat
    BY <2>1, LevelsRise
  <2>3. Most = P - 2 /\ P \in Nat
    BY DEF ToCome
  <2>4. 2 * failures <= P - 2
    BY <2>1, <2>2, <2>3 DEF ConcurrentInv, GuessesCounted
  <2>5. failures < P \div 2
    <3> HIDE DEF P
    <3> QED BY <2>1, <2>3, <2>4
  <2> QED BY <2>5 DEF GuessesBounded
<1> QED BY <1>1, <1>2, <1>3, Invariance, PTL DEF Spec
=============================================================================
