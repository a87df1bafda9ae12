---------------------------- MODULE AccountLockout ----------------------------
(***************************************************************************)
(* One account: its password, its counter of failed logins and its lock,   *)
(* under concurrent logins and password resets.                            *)
(*                                                                         *)
(* A login or a reset loads the user, decides, and commits.  There is no   *)
(* await between the SELECT and the assignments (hashing is synchronous),  *)
(* so a request is two actions: what it loads and decides, and its commit. *)
(* The UPDATE that SQLAlchemy emits holds only the columns whose value     *)
(* differs from the one loaded: a stale request overwrites what it changed *)
(* and leaves the rest.                                                    *)
(***************************************************************************)
EXTENDS Integers, FiniteSets

CONSTANTS
  Worker,         \* the requests that may run at the same time
  Password,
  MaxAttempts,    \* LOGIN_MAX_ATTEMPTS
  LockoutPeriod,  \* LOGIN_LOCKOUT_MINUTES, in ticks of the clock
  MaxTime         \* bound: the clock stops here

ASSUME LockoutAssumption ==
  /\ MaxAttempts \in Nat \ {0}
  /\ LockoutPeriod \in Nat \ {0}
  /\ MaxTime \in Nat \ {0}

VARIABLES
  clock,
  account,    \* the row of users; lockedUntil is 0 for NULL
  req,        \* what each request loaded, decided and stands before
  failures    \* history: wrong passwords recorded since the last success, reset or lock

vars == <<clock, account, req, failures>>

Account ==
  [attempts : Nat, lockedUntil : Nat, password : Password, active : BOOLEAN]

Request ==
  [pc          : {"failed", "succeeded", "reset"},
   attempts    : Nat,            \* loaded
   lockedUntil : Nat,            \* loaded
   lockout     : Nat,            \* the lock decided on, 0 for None
   password    : Password]       \* the one sent

Idle == [pc |-> "idle"]

\* account.locked_until > now
Locked == account.lockedUntil > clock

Init ==
  /\ clock = 1
  /\ \E p \in Password :
       account = [attempts |-> 0, lockedUntil |-> 0, password |-> p, active |-> TRUE]
  /\ req = [w \in Worker |-> Idle]
  /\ failures = 0

Finish(w) == req' = [req EXCEPT ![w] = Idle]

\* The user as this request has it from now on, and what it is about to commit.
Load(w, pc, lockout, password) ==
  req' = [req EXCEPT ![w] =
            [pc |-> pc, attempts |-> account.attempts,
             lockedUntil |-> account.lockedUntil, lockout |-> lockout,
             password |-> password]]

\* Mutant of LockoutUntil: the counter compared before it is incremented.
LockoutUntilLate(attempts) ==
  IF attempts >= MaxAttempts THEN clock + LockoutPeriod ELSE 0

\* lockout_until, None while attempts remain.
LockoutUntil(attempts) ==
  IF attempts + 1 >= MaxAttempts THEN clock + LockoutPeriod ELSE 0

\* POST /auth/login up to the commit.  A login refused because the account is
\* locked, or inactive, changes nothing and is no action here.
Authenticate(w, password) ==
  /\ req[w].pc = "idle"
  /\ ~Locked
  /\ IF password # account.password
       THEN Load(w, "failed", LockoutUntil(account.attempts), password)
       ELSE account.active /\ Load(w, "succeeded", 0, password)
  /\ UNCHANGED <<clock, account, failures>>

\* Mutant of RecordFailedLogin: a lock that is already stored is extended.
RecordFailedLoginExtends(w) ==
  LET r == req[w] IN
  /\ r.pc = "failed"
  /\ account' = [account EXCEPT
       !.attempts = r.attempts + 1,
       !.lockedUntil = IF r.lockout = 0 THEN @
                       ELSE IF Locked THEN @ + LockoutPeriod ELSE r.lockout]
  /\ failures' = IF r.lockout # 0 THEN 0 ELSE failures + 1
  /\ Finish(w)
  /\ UNCHANGED clock

RecordFailedLogin(w) ==
  LET r == req[w] IN
  /\ r.pc = "failed"
  /\ account' = [account EXCEPT !.attempts = r.attempts + 1,
                                !.lockedUntil = IF r.lockout # 0 THEN r.lockout ELSE @]
  /\ failures' = IF r.lockout # 0 THEN 0 ELSE failures + 1
  /\ Finish(w)
  /\ UNCHANGED clock

\* Mutants of Cleared: the counter is reduced by what was loaded; every column is
\* written, changed or not.
ClearedRelative(r) ==
  [account EXCEPT !.attempts = @ - r.attempts,
                  !.lockedUntil = IF r.lockedUntil = 0 THEN @ ELSE 0]

ClearedAlways(r) == [account EXCEPT !.attempts = 0, !.lockedUntil = 0]

\* failed_login_attempts = 0, locked_until = None, on what the request loaded.
Cleared(r) ==
  [account EXCEPT !.attempts = IF r.attempts = 0 THEN @ ELSE 0,
                  !.lockedUntil = IF r.lockedUntil = 0 THEN @ ELSE 0]

RecordSuccessfulLogin(w) ==
  /\ req[w].pc = "succeeded"
  /\ account' = Cleared(req[w])
  /\ failures' = 0
  /\ Finish(w)
  /\ UNCHANGED clock

\* POST /auth/reset-password; and what /auth/forgot-password/verify-otp does to the
\* account, whose code PasswordReset adds.
StartReset(w, password) ==
  /\ req[w].pc = "idle"
  /\ Load(w, "reset", 0, password)
  /\ UNCHANGED <<clock, account, failures>>

CommitReset(w) ==
  /\ req[w].pc = "reset"
  /\ account' = [Cleared(req[w]) EXCEPT !.password = req[w].password]
  /\ failures' = 0
  /\ Finish(w)
  /\ UNCHANGED clock

\* The commit fails or the process dies: nothing was written.
Abort(w) ==
  /\ req[w].pc # "idle"
  /\ Finish(w)
  /\ UNCHANGED <<clock, account, failures>>

\* PUT /users/{id}: what an administrator writes depends on nothing loaded, so
\* the handler is one step.  It does not touch the counter or the lock.
UpdateUser(password, active) ==
  /\ account' = [account EXCEPT !.password = password, !.active = active]
  /\ UNCHANGED <<clock, req, failures>>

Tick ==
  /\ clock < MaxTime
  /\ clock' = clock + 1
  /\ UNCHANGED <<account, req, failures>>

Next ==
  \/ Tick
  \/ \E p \in Password, b \in BOOLEAN : UpdateUser(p, b)
  \/ \E w \in Worker :
       \/ \E p \in Password : Authenticate(w, p) \/ StartReset(w, p)
       \/ RecordFailedLogin(w) \/ RecordSuccessfulLogin(w) \/ CommitReset(w) \/ Abort(w)

Spec == Init /\ [][Next]_vars

-----------------------------------------------------------------------------
(* Properties.                                                             *)

\* Counter, lock and requests stay in their types.
TypeOK ==
  /\ clock \in 1 .. MaxTime
  /\ account \in Account
  /\ req \in [Worker -> Request \cup {Idle}]
  /\ failures \in Nat

\* No lock outlives its period: whatever stale requests commit, the account opens
\* again at most LockoutPeriod from now.
LockWithinPeriod == account.lockedUntil <= clock + LockoutPeriod

\* Lost updates of the counter are bounded: when two requests run at a time, a stale
\* commit sets the counter back once per level, and the account is locked at the
\* latest by wrong password number MaxAttempts * (MaxAttempts + 1) / 2.
GuessesBounded == failures < (MaxAttempts * (MaxAttempts + 1)) \div 2

\* An active lock is lifted early by nobody who did not know of a lock: only by a
\* reset or a login that itself loaded one, expired in the case of a login.
LockLiftedKnowingly ==
  [][ Locked /\ account'.lockedUntil = 0 =>
        \E w \in Worker :
          \/ req[w].pc = "reset" /\ req[w].lockedUntil > 0
          \/ req[w].pc = "succeeded" /\ req[w].lockedUntil \in 1 .. clock ]_vars

\* "Account lockout after LOGIN_MAX_ATTEMPTS failed logins": fewer wrong passwords
\* than that are answered before the account is locked.
LockedAfterMaxAttempts == failures < MaxAttempts

\* "Password reset successfully. You can now sign in with your new password": the
\* account is not locked when a reset has been committed.
ResetUnlocks == [][\A w \in Worker : CommitReset(w) => ~Locked']_vars

-----------------------------------------------------------------------------
(* What the proofs need to know of the requests under way.                 *)

\* A lock decided on and not yet stored is within its period too, and a login was
\* let in only past a lock that had run out.
RequestOK(r) ==
  /\ r.pc = "failed" => r.lockout <= clock + LockoutPeriod
  /\ r.pc = "succeeded" => r.lockedUntil <= clock

IInv == TypeOK /\ LockWithinPeriod /\ \A w \in Worker : RequestOK(req[w])

\* With a single request at a time, what a login loaded is still what is stored.
SequentialInv ==
  /\ failures < MaxAttempts
  /\ failures <= account.attempts
  /\ \A w \in Worker : req[w].pc = "failed" =>
       /\ req[w].attempts = account.attempts
       /\ req[w].lockout = 0 => account.attempts + 1 < MaxAttempts

\* And the lock a reset has loaded is still the one that is stored.
ResetCurrent ==
  \A w \in Worker : req[w].pc = "reset" => req[w].lockedUntil = account.lockedUntil

\* With two requests at a time.  Failures left between a level of the counter and the
\* limit; the level a request can set the counter back to, or goes on from.
Ahead(level) == IF level < MaxAttempts THEN MaxAttempts - 1 - level ELSE 0

LevelOf(w) ==
  IF req[w].pc = "failed" /\ req[w].attempts < account.attempts
    THEN req[w].attempts ELSE account.attempts

\* Twice the wrong passwords two requests can still try before the lock, from levels i
\* and j failures away from it: the nearer one climbs to the limit, then the other one
\* sets the counter back, and so on from each level.
ToCome(i, j) == IF i >= j THEN i * (i + 1) + 2 * j ELSE j * (j + 1) + 2 * i

\* Tried and to come are never more than what an account without failures allows.
GuessesCounted(v, w) ==
  2 * failures + ToCome(Ahead(LevelOf(v)), Ahead(LevelOf(w)))
    <= ToCome(MaxAttempts - 1, MaxAttempts - 1)

ConcurrentInv(v, w) ==
  /\ GuessesCounted(v, w)
  /\ \A u \in {v, w} :
       req[u].pc = "failed" /\ req[u].lockout = 0 => req[u].attempts + 1 < MaxAttempts
=============================================================================
