---------------------------- MODULE PasswordReset -----------------------------
(***************************************************************************)
(* The one-time codes of "forgot password", beside everything else that    *)
(* may happen to the account.                                              *)
(*                                                                         *)
(* An address has one key in Redis.  Sending a code sets it, mails the     *)
(* code, and deletes the key when the mail failed.  Verifying one loads    *)
(* the user, reads the key, compares, commits the new password and deletes *)
(* the key.  Each of these is awaited and other requests run in between;   *)
(* both deletions name the address, not the code.                          *)
(*                                                                         *)
(* To the account a verification is a reset (StartReset, CommitReset): the *)
(* steps of AccountLockout are extended, and this module implements it.    *)
(***************************************************************************)
EXTENDS AccountLockout

CONSTANTS
  Code,            \* the values a code may be drawn with; nothing keeps two draws apart
  MaxInterrupted   \* bound: once so many requests with one code have failed between the
                   \* commit and the DEL, none does any more

ASSUME WorkersAssumption == IsFiniteSet(Worker)
ASSUME InterruptedAssumption == MaxInterrupted \in Nat

VARIABLES
  stored,       \* the code under pwd_reset_otp:<address>, {} when there is no such key
  otp,          \* where each request for or with a code stands
  uses,         \* history: passwords set with a code since it was last drawn, or brought
                \* back by Redis
  interrupted   \* history: those of them whose request failed before the DEL

history == <<uses, interrupted>>
codeVars == <<stored, otp, history>>
allVars == <<vars, codeVars>>

SendRequest == [pc : {"mail", "undelivered"}]
VerifyRequest == [pc : {"lookup", "accepted", "delete"}, code : Code]

CodeInit ==
  /\ Init
  /\ stored = {}
  /\ otp = [w \in Worker |-> Idle]
  /\ uses = [c \in Code |-> 0]
  /\ interrupted = [c \in Code |-> 0]

Free(w) == req[w] = Idle /\ otp[w] = Idle

GotoCode(w, pc) == otp' = [otp EXCEPT ![w].pc = pc]

Done(w) == otp' = [otp EXCEPT ![w] = Idle]

\* The history of c begins.
Anew(c) ==
  /\ uses' = [uses EXCEPT ![c] = 0]
  /\ interrupted' = [interrupted EXCEPT ![c] = 0]

\* send_password_reset_otp: a code is drawn and replaces the one before it.
SendOtp(w, c) ==
  /\ Free(w)
  /\ stored' = {c}
  /\ Anew(c)
  /\ otp' = [otp EXCEPT ![w] = [pc |-> "mail"]]
  /\ UNCHANGED vars

\* send_otp_email: some transport took the mail, and the request is answered ...
MailSent(w) ==
  /\ otp[w].pc = "mail"
  /\ Done(w)
  /\ UNCHANGED <<vars, stored, history>>

\* ... or every transport refused it, or none is configured.
MailFails(w) ==
  /\ otp[w].pc = "mail"
  /\ GotoCode(w, "undelivered")
  /\ UNCHANGED <<vars, stored, history>>

\* DEL of the address: by now the key may hold the code of another request.
DeleteUndelivered(w) ==
  /\ otp[w].pc = "undelivered"
  /\ stored' = {}
  /\ Done(w)
  /\ UNCHANGED <<vars, history>>

\* verify_otp_and_reset loads the user ...
StartVerify(w, c, password) ==
  /\ Free(w)
  /\ StartReset(w, password)
  /\ otp' = [otp EXCEPT ![w] = [pc |-> "lookup", code |-> c]]
  /\ UNCHANGED <<stored, history>>

\* ... reads the key and compares, or refuses ...
LookupCode(w) ==
  /\ otp[w].pc = "lookup"
  /\ IF otp[w].code \in stored
       THEN GotoCode(w, "accepted") /\ UNCHANGED vars
       ELSE Done(w) /\ Abort(w)
  /\ UNCHANGED <<stored, history>>

\* ... commits the password with a cleared counter and lock ...
CommitVerified(w) ==
  /\ otp[w].pc = "accepted"
  /\ CommitReset(w)
  /\ GotoCode(w, "delete")
  /\ uses' = [uses EXCEPT ![otp[w].code] = @ + 1]
  /\ UNCHANGED <<stored, interrupted>>

\* Mutant of DeleteCode: the key of the address as typed, not in lower case.
DeleteCodeAsTyped(w) ==
  /\ otp[w].pc = "delete"
  /\ Done(w)
  /\ UNCHANGED <<vars, stored, history>>

\* ... and deletes the key, whichever code it holds, before it answers the tokens.
DeleteCode(w) ==
  /\ otp[w].pc = "delete"
  /\ stored' = {}
  /\ Done(w)
  /\ UNCHANGED <<vars, history>>

\* A command, a statement or the process fails: what was done before it stays, also a
\* password whose code is then not deleted.
FailCode(w) ==
  /\ otp[w] # Idle
  /\ Done(w)
  /\ IF req[w] = Idle THEN UNCHANGED vars ELSE Abort(w)
  /\ IF otp[w].pc = "delete"
       THEN /\ \A c \in Code : interrupted[c] < MaxInterrupted
            /\ interrupted' = [interrupted EXCEPT ![otp[w].code] = @ + 1]
       ELSE UNCHANGED interrupted
  /\ UNCHANGED <<stored, uses>>

\* OTP_EXPIRE_MINUTES have passed, at any moment, since no property counts them; or
\* Redis came back without the key.
CodeExpires ==
  /\ stored # {}
  /\ stored' = {}
  /\ UNCHANGED <<vars, otp, history>>

\* Redis comes back with the key of its last snapshot, perhaps of a code already used:
\* that one counts as drawn anew.  Which codes were ever drawn is not kept.
RedisRestarts(c) ==
  /\ stored' = {c}
  /\ Anew(c)
  /\ UNCHANGED <<vars, otp>>

\* Logins, resets without a code, an administrator and the clock.
AccountStep ==
  /\ \/ Tick
     \/ \E p \in Password, b \in BOOLEAN : UpdateUser(p, b)
     \/ \E w \in Worker :
          /\ otp[w] = Idle
          /\ \/ \E p \in Password : Authenticate(w, p) \/ StartReset(w, p)
             \/ RecordFailedLogin(w) \/ RecordSuccessfulLogin(w) \/ CommitReset(w) \/ Abort(w)
  /\ UNCHANGED codeVars

CodeStep(w) ==
  \/ \E c \in Code : SendOtp(w, c) \/ \E p \in Password : StartVerify(w, c, p)
  \/ MailSent(w) \/ MailFails(w) \/ DeleteUndelivered(w)
  \/ LookupCode(w) \/ CommitVerified(w) \/ DeleteCode(w)
  \/ FailCode(w)

CodeNext ==
  \/ AccountStep
  \/ CodeExpires
  \/ \E c \in Code : RedisRestarts(c)
  \/ \E w \in Worker : CodeStep(w)

CodeSpec == CodeInit /\ [][CodeNext]_allVars

-----------------------------------------------------------------------------
(* Properties.                                                             *)

\* Key, requests and history stay in their types, and a verification up to its
\* commit is a reset of the account.
CodeTypeOK ==
  /\ TypeOK
  /\ stored \in {{}} \cup {{c} : c \in Code}
  /\ otp \in [Worker -> {Idle} \cup SendRequest \cup VerifyRequest]
  /\ uses \in [Code -> Nat]
  /\ interrupted \in [Code -> 0 .. MaxInterrupted]
  /\ \A w \in Worker : otp[w].pc \in {"lookup", "accepted"} => req[w].pc = "reset"

\* "Use the 6-digit OTP below to complete the reset": a code sets a password at most
\* once for every request that can run at the same time.  Comparing and deleting race,
\* but only among requests that read the key before the first of them deleted it: nobody
\* who comes later, not even one of them again, is let in with that code.  The exception
\* is a verification that fails between its commit and the DEL: it has set a password
\* and leaves the code as good as it was, so each of these may add one.
UsesBounded == \A c \in Code : uses[c] <= Cardinality(Worker) + interrupted[c]

-----------------------------------------------------------------------------
(* What the proofs need to know of the requests under way.                 *)

\* Those about to set a password with c, and those about to delete it.
Entering(c) == {w \in Worker : otp[w].pc = "accepted" /\ otp[w].code = c}
Deleting(c) == {w \in Worker : otp[w].pc = "delete" /\ otp[w].code = c}

\* Either nobody has deleted c yet, and whoever set a password with it is about to or was
\* interrupted; or it is gone, and only requests that entered before may still set one.
Counted(c) ==
  \/ uses[c] <= interrupted[c] + Cardinality(Deleting(c))
  \/ /\ c \notin stored
     /\ uses[c] + Cardinality(Entering(c)) <= interrupted[c] + Cardinality(Worker)

UsesCounted == \A c \in Code : Counted(c)

CodeIInv == CodeTypeOK /\ UsesCounted
=============================================================================
