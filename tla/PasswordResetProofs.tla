------------------------- MODULE PasswordResetProofs --------------------------
(***************************************************************************)
(* PasswordReset implements AccountLockout, so that what is proved of the  *)
(* account holds beside reset codes; and a code sets at most one password  *)
(* per request that can run at a time, and one per request that fails      *)
(* before it deletes the code, for any number of requests and codes.       *)
(***************************************************************************)
EXTENDS PasswordReset, AccountLockoutProofs, FiniteSetTheorems

USE WorkersAssumption, InterruptedAssumption

\* A step on a code is, to the account, a step of AccountLockout or none.
LEMMA CodeStepImplements ==
  ASSUME NEW w \in Worker, CodeStep(w)
  PROVE  [Next]_vars
<1>1. CASE \E c \in Code : SendOtp(w, c)
  BY <1>1 DEF SendOtp
<1>2. ASSUME NEW c \in Code, NEW p \in Password, StartVerify(w, c, p) PROVE Next
  BY <1>2 DEF StartVerify, Next
<1>3. CASE MailSent(w) \/ MailFails(w) \/ DeleteUndelivered(w) \/ DeleteCode(w)
  BY <1>3 DEF MailSent, MailFails, DeleteUndelivered, DeleteCode, vars
<1>4. CASE LookupCode(w) \/ CommitVerified(w) \/ FailCode(w)
  BY <1>4 DEF LookupCode, CommitVerified, FailCode, Next
<1> QED BY <1>1, <1>2, <1>3, <1>4 DEF CodeStep

LEMMA NextImplements == [CodeNext]_allVars => [Next]_vars
<1>1. AccountStep => [Next]_vars
  BY DEF AccountStep, Next
<1>2. CodeExpires \/ (\E c \in Code : RedisRestarts(c)) => UNCHANGED vars
  BY DEF CodeExpires, RedisRestarts, vars
<1>3. UNCHANGED allVars => UNCHANGED vars
  BY DEF allVars
<1> QED BY <1>1, <1>2, <1>3, CodeStepImplements DEF CodeNext

\* Reset codes leave nothing to the account that logins and resets may not do.
THEOREM Implements == CodeSpec => Spec
<1>1. CodeInit => Init
  BY DEF CodeInit
<1> QED BY <1>1, NextImplements, PTL DEF CodeSpec, Spec

-----------------------------------------------------------------------------
(* The invariant.                                                          *)

\* What a step leaves or makes of the requests of the account, seen from the codes:
\* only a request the codes do not know moves, or w does.
LEMMA AccountKeepsOthers ==
  ASSUME CodeIInv, AccountStep
  PROVE  \A w \in Worker : otp[w].pc \in {"lookup", "accepted"} => req'[w] = req[w]
<1> SUFFICES ASSUME NEW v \in Worker, otp[v].pc \in {"lookup", "accepted"}
             PROVE  req'[v] = req[v]
  OBVIOUS
<1>1. req \in [Worker -> Request \cup {Idle}] /\ otp[v] # Idle
  BY DEF CodeIInv, CodeTypeOK, TypeOK, Idle
<1>2. CASE Tick \/ \E p \in Password, b \in BOOLEAN : UpdateUser(p, b)
  BY <1>2 DEF Tick, UpdateUser
<1>3. ASSUME NEW w \in Worker, otp[w] = Idle,
             \/ \E p \in Password : Authenticate(w, p) \/ StartReset(w, p)
             \/ RecordFailedLogin(w) \/ RecordSuccessfulLogin(w) \/ CommitReset(w) \/ Abort(w)
      PROVE  req'[v] = req[v]
  BY <1>1, <1>3 DEF Authenticate, StartReset, Load, RecordFailedLogin,
                    RecordSuccessfulLogin, CommitReset, Abort, Finish
<1> QED BY <1>2, <1>3 DEF AccountStep

\* No request is about to commit and to delete at once.
LEMMA HoldersOfCode ==
  ASSUME NEW c \in Code
  PROVE  /\ IsFiniteSet(Entering(c)) /\ Cardinality(Entering(c)) \in Nat
         /\ IsFiniteSet(Deleting(c)) /\ Cardinality(Deleting(c)) \in Nat
         /\ Cardinality(Worker) \in Nat
         /\ Cardinality(Entering(c)) + Cardinality(Deleting(c)) <= Cardinality(Worker)
<1>1. /\ Entering(c) \in SUBSET Worker /\ Deleting(c) \in SUBSET Worker
      /\ Entering(c) \cup Deleting(c) \in SUBSET Worker /\ Entering(c) \cap Deleting(c) = {}
  BY DEF Entering, Deleting
<1>2. /\ IsFiniteSet(Entering(c)) /\ IsFiniteSet(Deleting(c))
      /\ Cardinality(Entering(c) \cup Deleting(c)) <= Cardinality(Worker)
      /\ Cardinality(Worker) \in Nat
  BY <1>1, FS_Subset, FS_CardinalityType
<1>3. Cardinality(Entering(c)) \in Nat /\ Cardinality(Deleting(c)) \in Nat
  BY <1>2, FS_CardinalityType
<1>4. Cardinality(Entering(c) \cup Deleting(c))
        = Cardinality(Entering(c)) + Cardinality(Deleting(c)) - Cardinality({})
  BY <1>1, <1>2, FS_Union
<1> QED BY <1>2, <1>3, <1>4, FS_EmptySet

\* The count of a code that begins anew, or that nobody comes nearer to using unless
\* the code is there.
LEMMA StaysCounted ==
  ASSUME CodeIInv, CodeTypeOK', NEW c \in Code,
         \/ uses'[c] = 0
         \/ /\ uses'[c] = uses[c] /\ interrupted'[c] = interrupted[c]
            /\ Deleting(c)' = Deleting(c)
            /\ c \in stored \/ Entering(c)' \subseteq Entering(c)
            /\ c \in stored' => c \in stored
  PROVE  Counted(c)'
<1>1. /\ uses[c] \in Nat /\ uses'[c] \in Nat /\ interrupted[c] \in Nat /\ interrupted'[c] \in Nat
      /\ Counted(c)
  BY DEF CodeIInv, CodeTypeOK, UsesCounted
<1>2. Cardinality(Deleting(c)') \in Nat /\ Cardinality(Entering(c)') \in Nat
  <2>1. Deleting(c)' \in SUBSET Worker /\ Entering(c)' \in SUBSET Worker
    BY DEF Deleting, Entering
  <2> QED BY <2>1, FS_Subset, FS_CardinalityType
<1>3. CASE uses'[c] = 0
  BY <1>1, <1>2, <1>3 DEF Counted
<1>4. ASSUME uses'[c] = uses[c], interrupted'[c] = interrupted[c], Deleting(c)' = Deleting(c),
             c \in stored \/ Entering(c)' \subseteq Entering(c), c \in stored' => c \in stored
      PROVE  Counted(c)'
  <2>1. CASE uses[c] <= interrupted[c] + Cardinality(Deleting(c))
    BY <1>4, <2>1 DEF Counted
  <2>2. CASE /\ c \notin stored
             /\ uses[c] + Cardinality(Entering(c)) <= interrupted[c] + Cardinality(Worker)
    <3>1. Cardinality(Entering(c)') <= Cardinality(Entering(c))
      BY <1>4, <2>2, HoldersOfCode, FS_Subset
    <3>2. uses'[c] + Cardinality(Entering(c)') <= interrupted'[c] + Cardinality(Worker)
      BY <1>1, <1>2, <1>4, <2>2, <3>1, HoldersOfCode
    <3> QED BY <1>4, <2>2, <3>2 DEF Counted
  <2> QED BY <1>1, <2>1, <2>2 DEF Counted
<1> QED BY <1>3, <1>4

\* What a step that moves one request makes of the types and of the requests with a code.
LEMMA CodeMoves ==
  ASSUME CodeIInv, TypeOK', NEW w \in Worker,
         NEW r \in {Idle} \cup SendRequest \cup VerifyRequest,
         otp' = [otp EXCEPT ![w] = r],
         \A v \in Worker \ {w} : req'[v] = req[v],
         r.pc \in {"lookup", "accepted"} => req'[w].pc = "reset",
         stored' \in {{}} \cup {{c} : c \in Code},
         uses' \in [Code -> Nat],
         interrupted' \in [Code -> 0 .. MaxInterrupted]
  PROVE  /\ CodeTypeOK'
         /\ \A c \in Code :
              /\ Entering(c)' = IF r.pc = "accepted" /\ r.code = c THEN Entering(c) \cup {w}
                                                                    ELSE Entering(c) \ {w}
              /\ Deleting(c)' = IF r.pc = "delete" /\ r.code = c THEN Deleting(c) \cup {w}
                                                                  ELSE Deleting(c) \ {w}
<1>1. otp \in [Worker -> {Idle} \cup SendRequest \cup VerifyRequest]
  BY DEF CodeIInv, CodeTypeOK
<1>2. otp'[w] = r /\ \A v \in Worker \ {w} : otp'[v] = otp[v]
  BY <1>1
<1>3. \A v \in Worker : otp'[v].pc \in {"lookup", "accepted"} => req'[v].pc = "reset"
  BY <1>2 DEF CodeIInv, CodeTypeOK
<1>4. CodeTypeOK'
  BY <1>1, <1>3 DEF CodeTypeOK
<1>5. ASSUME NEW c \in Code
      PROVE  Entering(c)' = IF r.pc = "accepted" /\ r.code = c THEN Entering(c) \cup {w}
                                                                ELSE Entering(c) \ {w}
  BY <1>2 DEF Entering
<1>6. ASSUME NEW c \in Code
      PROVE  Deleting(c)' = IF r.pc = "delete" /\ r.code = c THEN Deleting(c) \cup {w}
                                                              ELSE Deleting(c) \ {w}
  BY <1>2 DEF Deleting
<1> QED BY <1>4, <1>5, <1>6

\* How the request of the account moves under the steps on a code.
LEMMA RequestMoves ==
  ASSUME TypeOK, NEW w \in Worker, Abort(w) \/ CommitReset(w)
  PROVE  \A v \in Worker \ {w} : req'[v] = req[v]
  BY DEF TypeOK, Abort, CommitReset, Finish

\* Sending a code.
LEMMA SendSteps ==
  ASSUME CodeIInv, TypeOK', NEW w \in Worker,
         \/ \E c \in Code : SendOtp(w, c)
         \/ MailSent(w) \/ MailFails(w) \/ DeleteUndelivered(w)
  PROVE  CodeIInv'
<1>t. /\ otp \in [Worker -> {Idle} \cup SendRequest \cup VerifyRequest]
      /\ stored \in {{}} \cup {{c} : c \in Code} /\ uses \in [Code -> Nat]
      /\ interrupted \in [Code -> 0 .. MaxInterrupted]
  BY DEF CodeIInv, CodeTypeOK
<1>r. req' = req
  BY DEF SendOtp, MailSent, MailFails, DeleteUndelivered, vars
<1>n. \A d \in Code : w \notin Deleting(d)
  BY DEF SendOtp, Free, Idle, MailSent, MailFails, DeleteUndelivered, Deleting
<1>1. ASSUME NEW c \in Code, SendOtp(w, c) PROVE CodeIInv'
  <2> DEFINE r == [pc |-> "mail"]
  <2>1. r \in SendRequest /\ r.pc = "mail" /\ otp' = [otp EXCEPT ![w] = r] /\ stored' = {c}
        /\ uses' = [uses EXCEPT ![c] = 0] /\ interrupted' = [interrupted EXCEPT ![c] = 0]
    BY <1>1 DEF SendOtp, Anew, SendRequest
  <2>2. uses' \in [Code -> Nat] /\ stored' \in {{}} \cup {{d} : d \in Code}
        /\ interrupted' \in [Code -> 0 .. MaxInterrupted]
    BY <1>t, <2>1
  <2> HIDE DEF r
  <2>3. CodeTypeOK' /\ \A d \in Code : /\ Entering(d)' = Entering(d) \ {w}
                                       /\ Deleting(d)' = Deleting(d) \ {w}
    BY <1>r, <2>1, <2>2, CodeMoves
  <2>4. \A d \in Code : uses'[d] = 0 \/ (uses'[d] = uses[d] /\ interrupted'[d] = interrupted[d]
                                         /\ d \notin stored')
    BY <1>t, <2>1
  <2>5. \A d \in Code : Deleting(d)' = Deleting(d) /\ Entering(d)' \subseteq Entering(d)
    BY <1>n, <2>3
  <2>6. \A d \in Code : Counted(d)'
    BY <2>3, <2>4, <2>5, StaysCounted
  <2> QED BY <2>3, <2>6 DEF CodeIInv, UsesCounted
<1>2. CASE MailSent(w) \/ DeleteUndelivered(w)
  <2>1. otp' = [otp EXCEPT ![w] = Idle] /\ stored' \in {{}, stored} /\ uses' = uses
        /\ interrupted' = interrupted
    BY <1>2 DEF MailSent, DeleteUndelivered, Done, history
  <2>2. Idle.pc = "idle" /\ stored' \in {{}} \cup {{d} : d \in Code}
    BY <1>t, <2>1 DEF Idle
  <2>3. CodeTypeOK' /\ \A d \in Code : /\ Entering(d)' = Entering(d) \ {w}
                                       /\ Deleting(d)' = Deleting(d) \ {w}
    BY <1>t, <1>r, <2>1, <2>2, CodeMoves
  <2>4. \A d \in Code : Counted(d)'
    BY <1>n, <2>1, <2>3, StaysCounted
  <2> QED BY <2>3, <2>4 DEF CodeIInv, UsesCounted
<1>3. CASE MailFails(w)
  <2> DEFINE r == [otp[w] EXCEPT !.pc = "undelivered"]
  <2>1. otp[w] \in SendRequest
    BY <1>3, <1>t DEF MailFails, VerifyRequest, Idle
  <2>2. r \in SendRequest /\ r.pc = "undelivered"
    BY <2>1 DEF SendRequest
  <2>3. otp' = [otp EXCEPT ![w] = r] /\ stored' = stored /\ uses' = uses
        /\ interrupted' = interrupted
    BY <1>3 DEF MailFails, GotoCode, history
  <2> HIDE DEF r
  <2>4. CodeTypeOK' /\ \A d \in Code : /\ Entering(d)' = Entering(d) \ {w}
                                       /\ Deleting(d)' = Deleting(d) \ {w}
    BY <1>t, <1>r, <2>2, <2>3, CodeMoves
  <2>5. \A d \in Code : Counted(d)'
    BY <1>n, <2>3, <2>4, StaysCounted
  <2> QED BY <2>4, <2>5 DEF CodeIInv, UsesCounted
<1> QED BY <1>1, <1>2, <1>3

\* Verifying a code, up to the commit.
LEMMA VerifySteps ==
  ASSUME CodeIInv, TypeOK', NEW w \in Worker,
         (\E c \in Code, p \in Password : StartVerify(w, c, p)) \/ LookupCode(w)
  PROVE  CodeIInv'
<1>t. /\ otp \in [Worker -> {Idle} \cup SendRequest \cup VerifyRequest]
      /\ stored \in {{}} \cup {{c} : c \in Code} /\ uses \in [Code -> Nat]
      /\ interrupted \in [Code -> 0 .. MaxInterrupted]
      /\ req \in [Worker -> Request \cup {Idle}] /\ TypeOK
  BY DEF CodeIInv, CodeTypeOK, TypeOK
<1>u. stored' = stored /\ uses' = uses /\ interrupted' = interrupted
  BY DEF StartVerify, LookupCode, history
<1>n. \A d \in Code : w \notin Deleting(d)
  BY DEF StartVerify, Free, Idle, LookupCode, Deleting
<1>1. ASSUME NEW c \in Code, NEW p \in Password, StartVerify(w, c, p) PROVE CodeIInv'
  <2> DEFINE r == [pc |-> "lookup", code |-> c]
  <2>1. r \in VerifyRequest /\ r.pc = "lookup" /\ otp' = [otp EXCEPT ![w] = r]
    BY <1>1 DEF StartVerify, VerifyRequest
  <2>2. req'[w].pc = "reset" /\ \A v \in Worker \ {w} : req'[v] = req[v]
    BY <1>1, <1>t DEF StartVerify, StartReset, Load
  <2> HIDE DEF r
  <2>3. CodeTypeOK' /\ \A d \in Code : /\ Entering(d)' = Entering(d) \ {w}
                                       /\ Deleting(d)' = Deleting(d) \ {w}
    BY <1>t, <1>u, <2>1, <2>2, CodeMoves
  <2>4. \A d \in Code : Counted(d)'
    BY <1>n, <1>u, <2>3, StaysCounted
  <2> QED BY <2>3, <2>4 DEF CodeIInv, UsesCounted
<1>2. CASE LookupCode(w) /\ otp[w].code \notin stored
  <2>1. otp' = [otp EXCEPT ![w] = Idle] /\ Idle.pc = "idle" /\ Abort(w)
    BY <1>2 DEF LookupCode, Done, Idle
  <2>2. CodeTypeOK' /\ \A d \in Code : /\ Entering(d)' = Entering(d) \ {w}
                                       /\ Deleting(d)' = Deleting(d) \ {w}
    BY <1>t, <1>u, <2>1, RequestMoves, CodeMoves
  <2>3. \A d \in Code : Counted(d)'
    BY <1>n, <1>u, <2>2, StaysCounted
  <2> QED BY <2>2, <2>3 DEF CodeIInv, UsesCounted
<1>3. CASE LookupCode(w) /\ otp[w].code \in stored
  <2> DEFINE r == [otp[w] EXCEPT !.pc = "accepted"]
  <2>1. PICK c \in Code : otp[w] \in VerifyRequest /\ otp[w].code = c
    BY <1>3, <1>t DEF LookupCode, SendRequest, VerifyRequest, Idle
  <2>2. r \in VerifyRequest /\ r.pc = "accepted" /\ r.code = c
    BY <2>1 DEF VerifyRequest
  <2>3. otp' = [otp EXCEPT ![w] = r] /\ req' = req
    BY <1>3 DEF LookupCode, GotoCode, vars
  <2>4. req[w].pc = "reset"
    BY <1>3 DEF LookupCode, CodeIInv, CodeTypeOK
  <2>5. c \in stored
    BY <1>3, <2>1
  <2> HIDE DEF r
  <2>6. /\ CodeTypeOK'
        /\ \A d \in Code : Deleting(d)' = Deleting(d) \ {w}
        /\ \A d \in Code \ {c} : Entering(d)' = Entering(d) \ {w}
    BY <1>t, <1>u, <2>2, <2>3, <2>4, CodeMoves
  <2>7. \A d \in Code : d \in stored \/ Entering(d)' \subseteq Entering(d)
    BY <2>5, <2>6
  <2>8. \A d \in Code : Counted(d)'
    BY <1>n, <1>u, <2>6, <2>7, StaysCounted
  <2> QED BY <2>6, <2>8 DEF CodeIInv, UsesCounted
<1> QED BY <1>1, <1>2, <1>3 DEF LookupCode

\* The commit: the password is counted, and one request fewer is to come.
LEMMA CommitStep ==
  ASSUME CodeIInv, TypeOK', NEW w \in Worker, CommitVerified(w)
  PROVE  CodeIInv'
<1> DEFINE r == [otp[w] EXCEPT !.pc = "delete"]
<1>t. /\ otp \in [Worker -> {Idle} \cup SendRequest \cup VerifyRequest]
      /\ stored \in {{}} \cup {{d} : d \in Code} /\ uses \in [Code -> Nat]
      /\ interrupted \in [Code -> 0 .. MaxInterrupted] /\ TypeOK
  BY DEF CodeIInv, CodeTypeOK
<1>1. PICK c \in Code : otp[w] \in VerifyRequest /\ otp[w].pc = "accepted" /\ otp[w].code = c
  BY <1>t DEF CommitVerified, SendRequest, VerifyRequest, Idle
<1>2. r \in VerifyRequest /\ r.pc = "delete" /\ r.code = c
  BY <1>1 DEF VerifyRequest
<1>3. /\ otp' = [otp EXCEPT ![w] = r] /\ CommitReset(w)
      /\ stored' = stored /\ interrupted' = interrupted
      /\ uses' = [uses EXCEPT ![c] = uses[c] + 1]
  BY <1>1 DEF CommitVerified, GotoCode
<1>w. w \in Entering(c) /\ \A d \in Code : w \notin Deleting(d)
  BY <1>1 DEF Entering, Deleting
<1> HIDE DEF r
<1>4. /\ uses' \in [Code -> Nat] /\ uses'[c] = uses[c] + 1
      /\ \A d \in Code \ {c} : uses'[d] = uses[d]
  BY <1>t, <1>1, <1>3
<1>5. /\ CodeTypeOK'
      /\ \A d \in Code : Entering(d)' = Entering(d) \ {w}
      /\ Deleting(c)' = Deleting(c) \cup {w}
      /\ \A d \in Code \ {c} : Deleting(d)' = Deleting(d)
  <2>1. \A v \in Worker \ {w} : req'[v] = req[v]
    BY <1>t, <1>3, RequestMoves
  <2>2. /\ CodeTypeOK'
        /\ \A d \in Code :
             /\ Entering(d)' = Entering(d) \ {w}
             /\ Deleting(d)' = IF d = c THEN Deleting(d) \cup {w} ELSE Deleting(d) \ {w}
    <3>1. /\ stored' \in {{}} \cup {{d} : d \in Code}
          /\ interrupted' \in [Code -> 0 .. MaxInterrupted]
          /\ r \in {Idle} \cup SendRequest \cup VerifyRequest
      BY <1>t, <1>2, <1>3
    <3>2. /\ CodeTypeOK'
          /\ \A d \in Code :
               /\ Entering(d)' = IF r.pc = "accepted" /\ r.code = d THEN Entering(d) \cup {w}
                                                                     ELSE Entering(d) \ {w}
               /\ Deleting(d)' = IF r.pc = "delete" /\ r.code = d THEN Deleting(d) \cup {w}
                                                                   ELSE Deleting(d) \ {w}
      BY <1>2, <1>3, <1>4, <2>1, <3>1, CodeMoves
    <3> QED BY <1>2, <3>2
  <2>3. \A d \in Code \ {c} : Deleting(d)' = Deleting(d)
    BY <1>w, <2>2
  <2> QED BY <2>2, <2>3
<1>6. \A d \in Code \ {c} : Counted(d)'
  BY <1>3, <1>4, <1>5, StaysCounted
<1>7. Counted(c)'
  <2>1. /\ Cardinality(Entering(c)') = Cardinality(Entering(c)) - 1
        /\ Cardinality(Deleting(c)') = Cardinality(Deleting(c)) + 1
        /\ Cardinality(Entering(c)) \in Nat /\ Cardinality(Deleting(c)) \in Nat
        /\ Cardinality(Worker) \in Nat
    <3>1. Entering(c)' = Entering(c) \ {w} /\ Deleting(c)' = Deleting(c) \cup {w}
      BY <1>1, <1>5
    <3>2. Cardinality(Entering(c) \ {w}) = Cardinality(Entering(c)) - 1
      BY <1>w, HoldersOfCode, FS_RemoveElement
    <3>3. Cardinality(Deleting(c) \cup {w}) = Cardinality(Deleting(c)) + 1
      BY <1>w, HoldersOfCode, FS_AddElement
    <3> QED BY <3>1, <3>2, <3>3, HoldersOfCode
  <2>2. uses[c] \in Nat /\ interrupted[c] \in Nat /\ Counted(c)
    BY <1>t, <1>1 DEF CodeIInv, UsesCounted
  <2> QED BY <1>3, <1>4, <2>1, <2>2 DEF Counted
<1> QED BY <1>5, <1>6, <1>7 DEF CodeIInv, UsesCounted

\* The deletion of the key: whoever is about to set a password with the code, or to
\* delete it again, is one of the requests there are.
LEMMA DeleteStep ==
  ASSUME CodeIInv, TypeOK', NEW w \in Worker, DeleteCode(w)
  PROVE  CodeIInv'
<1>t. /\ otp \in [Worker -> {Idle} \cup SendRequest \cup VerifyRequest]
      /\ uses \in [Code -> Nat] /\ interrupted \in [Code -> 0 .. MaxInterrupted]
  BY DEF CodeIInv, CodeTypeOK
<1>1. /\ otp[w].pc = "delete" /\ otp' = [otp EXCEPT ![w] = Idle] /\ Idle.pc = "idle"
      /\ stored' = {} /\ uses' = uses /\ interrupted' = interrupted /\ req' = req
  BY DEF DeleteCode, Done, Idle, vars, history
<1>2. PICK c \in Code : otp[w].code = c
  BY <1>t, <1>1 DEF SendRequest, VerifyRequest, Idle
<1>3. /\ CodeTypeOK'
      /\ \A d \in Code : Entering(d)' = Entering(d) \ {w} /\ Deleting(d)' = Deleting(d) \ {w}
  BY <1>t, <1>1, CodeMoves
<1>w. w \notin Entering(c) /\ \A d \in Code \ {c} : w \notin Deleting(d)
  BY <1>1, <1>2 DEF Entering, Deleting
<1>4. \A d \in Code \ {c} : Counted(d)'
  BY <1>1, <1>3, <1>w, StaysCounted
<1>5. Counted(c)'
  <2>1. Entering(c)' = Entering(c)
    BY <1>2, <1>3, <1>w
  <2>2. uses[c] \in Nat /\ interrupted[c] \in Nat /\ Counted(c)
    BY <1>t, <1>2 DEF CodeIInv, UsesCounted
  <2>3. uses[c] + Cardinality(Entering(c)) <= interrupted[c] + Cardinality(Worker)
    BY <1>2, <2>2, HoldersOfCode DEF Counted
  <2> QED BY <1>1, <2>1, <2>3 DEF Counted
<1> QED BY <1>3, <1>4, <1>5 DEF CodeIInv, UsesCounted

\* A request that fails at any point; one that fails before the deletion is counted.
LEMMA FailStep ==
  ASSUME CodeIInv, TypeOK', NEW w \in Worker, FailCode(w)
  PROVE  CodeIInv'
<1>t. /\ otp \in [Worker -> {Idle} \cup SendRequest \cup VerifyRequest] /\ TypeOK
      /\ stored \in {{}} \cup {{d} : d \in Code} /\ uses \in [Code -> Nat]
      /\ interrupted \in [Code -> 0 .. MaxInterrupted]
  BY DEF CodeIInv, CodeTypeOK
<1>1. /\ stored' = stored /\ uses' = uses /\ otp' = [otp EXCEPT ![w] = Idle] /\ Idle.pc = "idle"
  BY DEF FailCode, Done, Idle
<1>2. \A v \in Worker \ {w} : req'[v] = req[v]
  BY <1>t, RequestMoves DEF FailCode, vars
<1>3. CASE otp[w].pc # "delete"
  <2>1. interrupted' = interrupted
    BY <1>3 DEF FailCode
  <2>2. CodeTypeOK' /\ \A d \in Code : /\ Entering(d)' = Entering(d) \ {w}
                                       /\ Deleting(d)' = Deleting(d) \ {w}
    BY <1>t, <1>1, <1>2, <2>1, CodeMoves
  <2>3. \A d \in Code : w \notin Deleting(d)
    BY <1>3 DEF Deleting
  <2>4. \A d \in Code : Counted(d)'
    BY <1>1, <2>1, <2>2, <2>3, StaysCounted
  <2> QED BY <2>2, <2>4 DEF CodeIInv, UsesCounted
<1>4. CASE otp[w].pc = "delete"
  <2>1. PICK c \in Code : otp[w].code = c
    BY <1>t, <1>4 DEF SendRequest, VerifyRequest, Idle
  <2>2. /\ interrupted[c] < MaxInterrupted
        /\ interrupted' = [interrupted EXCEPT ![c] = interrupted[c] + 1]
    BY <1>4, <2>1 DEF FailCode
  <2>w. w \in Deleting(c) /\ w \notin Entering(c) /\ \A d \in Code \ {c} : w \notin Deleting(d)
    BY <1>4, <2>1 DEF Entering, Deleting
  <2>3. /\ interrupted' \in [Code -> 0 .. MaxInterrupted]
        /\ interrupted'[c] = interrupted[c] + 1
        /\ \A d \in Code \ {c} : interrupted'[d] = interrupted[d]
    BY <1>t, <2>1, <2>2
  <2>4. CodeTypeOK' /\ \A d \in Code : /\ Entering(d)' = Entering(d) \ {w}
                                       /\ Deleting(d)' = Deleting(d) \ {w}
    BY <1>t, <1>1, <1>2, <2>3, CodeMoves
  <2>5. \A d \in Code \ {c} : Counted(d)'
    BY <1>1, <2>3, <2>4, <2>w, StaysCounted
  <2>6. Counted(c)'
    <3>1. /\ Cardinality(Deleting(c)') = Cardinality(Deleting(c)) - 1
          /\ Entering(c)' = Entering(c)
          /\ Cardinality(Entering(c)) \in Nat /\ Cardinality(Deleting(c)) \in Nat
          /\ Cardinality(Worker) \in Nat
      <4>1. Deleting(c)' = Deleting(c) \ {w} /\ Entering(c)' = Entering(c)
        BY <2>1, <2>4, <2>w
      <4>2. Cardinality(Deleting(c) \ {w}) = Cardinality(Deleting(c)) - 1
        BY <2>w, HoldersOfCode, FS_RemoveElement
      <4> QED BY <4>1, <4>2, HoldersOfCode
    <3>2. uses[c] \in Nat /\ interrupted[c] \in Nat /\ Counted(c)
      BY <1>t, <2>1 DEF CodeIInv, UsesCounted
    <3> QED BY <1>1, <2>3, <3>1, <3>2 DEF Counted
  <2> QED BY <2>4, <2>5, <2>6 DEF CodeIInv, UsesCounted
<1> QED BY <1>3, <1>4

\* Steps that leave the requests with codes where they are.
LEMMA OtherSteps ==
  ASSUME CodeIInv, TypeOK', AccountStep \/ CodeExpires \/ UNCHANGED allVars
  PROVE  CodeIInv'
<1>1. /\ otp' = otp /\ uses' = uses /\ interrupted' = interrupted
      /\ stored' = stored \/ stored' = {}
  BY DEF AccountStep, CodeExpires, allVars, codeVars, history
<1>2. \A w \in Worker : otp[w].pc \in {"lookup", "accepted"} => req'[w] = req[w]
  BY AccountKeepsOthers DEF CodeExpires, allVars, vars
<1>3. CodeTypeOK'
  BY <1>1, <1>2 DEF CodeIInv, CodeTypeOK
<1>4. \A d \in Code : Entering(d)' = Entering(d) /\ Deleting(d)' = Deleting(d)
  BY <1>1 DEF Entering, Deleting
<1>5. \A d \in Code : Counted(d)'
  BY <1>1, <1>3, <1>4, StaysCounted
<1> QED BY <1>3, <1>5 DEF CodeIInv, UsesCounted

\* A code that Redis brings back has not been used since.
LEMMA RestartStep ==
  ASSUME CodeIInv, TypeOK', NEW c \in Code, RedisRestarts(c)
  PROVE  CodeIInv'
<1>1. /\ stored' = {c} /\ otp' = otp /\ req' = req
      /\ uses' = [uses EXCEPT ![c] = 0] /\ interrupted' = [interrupted EXCEPT ![c] = 0]
      /\ uses \in [Code -> Nat] /\ interrupted \in [Code -> 0 .. MaxInterrupted]
  BY DEF RedisRestarts, Anew, vars, CodeIInv, CodeTypeOK
<1>2. CodeTypeOK'
  BY <1>1 DEF CodeIInv, CodeTypeOK
<1>3. \A d \in Code : Entering(d)' = Entering(d) /\ Deleting(d)' = Deleting(d)
  BY <1>1 DEF Entering, Deleting
<1>4. \A d \in Code : uses'[d] = 0 \/ (uses'[d] = uses[d] /\ interrupted'[d] = interrupted[d]
                                       /\ d \notin stored')
  BY <1>1
<1>5. \A d \in Code : Counted(d)'
  BY <1>2, <1>3, <1>4, StaysCounted
<1> QED BY <1>2, <1>5 DEF CodeIInv, UsesCounted

LEMMA CodeInitIInv == CodeInit => CodeIInv
<1> SUFFICES ASSUME CodeInit PROVE CodeIInv
  OBVIOUS
<1>1. TypeOK
  BY InitIInv DEF CodeInit, IInv
<1>2. stored = {} /\ otp = [w \in Worker |-> Idle] /\ Idle.pc = "idle"
      /\ uses = [c \in Code |-> 0] /\ interrupted = [c \in Code |-> 0]
  BY DEF CodeInit, Idle
<1>3. \A c \in Code : Counted(c)
  BY <1>2, HoldersOfCode DEF Counted
<1> QED BY <1>1, <1>2, <1>3 DEF CodeIInv, CodeTypeOK, UsesCounted

LEMMA CodeNextIInv == CodeIInv /\ TypeOK' /\ [CodeNext]_allVars => CodeIInv'
  BY SendSteps, VerifySteps, CommitStep, DeleteStep, FailStep, RestartStep, OtherSteps
  DEF CodeNext, CodeStep

\* What holds of the account without codes holds beside them.
THEOREM AccountInvariance == CodeSpec => []IInv
  BY Implements, Invariance

\* The invariant the theorems rest on.
THEOREM CodeInvariance == CodeSpec => []CodeIInv
<1>1. IInv => TypeOK
  BY DEF IInv
<1> QED BY <1>1, CodeInitIInv, CodeNextIInv, AccountInvariance, PTL DEF CodeSpec

\* However many requests send, verify, fail and repeat codes, a code drawn once sets at
\* most as many passwords as requests can run at the same time, and one more for each
\* request that failed between setting one and deleting the code.
THEOREM UsesBoundedHolds == CodeSpec => []UsesBounded
<1>1. CodeIInv => UsesBounded
  <2> SUFFICES ASSUME CodeIInv, NEW c \in Code
               PROVE  uses[c] <= Cardinality(Worker) + interrupted[c]
    BY DEF UsesBounded
  <2>1. uses[c] \in Nat /\ interrupted[c] \in Nat /\ Counted(c)
    BY DEF CodeIInv, CodeTypeOK, UsesCounted
  <2> QED BY <2>1, HoldersOfCode DEF Counted
<1> QED BY <1>1, CodeInvariance, PTL

\* Requests for and with codes neither prolong a lock nor lift one unknowingly.
THEOREM LocksBesideCodes == CodeSpec => []LockWithinPeriod /\ LockLiftedKnowingly
  BY Implements, LockWithinPeriodHolds, LockLiftedKnowinglyHolds

\* Nor do codes let two requests at a time try more wrong passwords before the lock.
THEOREM GuessesBesideCodes ==
  ASSUME NEW v, NEW w, v # w, Worker = {v, w}
  PROVE  CodeSpec => []GuessesBounded
  BY Implements, GuessesBoundedHolds

\* One request at a time, a code sets one password and another one only after a request
\* that failed before it deleted the code, the documented limit is exact, and a reset with
\* a code, too, leaves no lock behind.
THEOREM SequentialBesideCodes ==
  ASSUME NEW w, Worker = {w}
  PROVE  CodeSpec => /\ [](\A c \in Code : uses[c] <= 1 + interrupted[c])
                     /\ []LockedAfterMaxAttempts
                     /\ ResetUnlocks
<1>1. UsesBounded => \A c \in Code : uses[c] <= 1 + interrupted[c]
  BY FS_Singleton DEF UsesBounded
<1>2. CodeSpec => []LockedAfterMaxAttempts
  BY Implements, SequentialLockout
<1>3. CodeSpec => ResetUnlocks
  BY Implements, SequentialReset
<1> QED BY <1>1, <1>2, <1>3, UsesBoundedHolds, PTL
=============================================================================
