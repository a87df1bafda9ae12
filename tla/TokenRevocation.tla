---------------------------- MODULE TokenRevocation ----------------------------
(***************************************************************************)
(* Token pairs of one user: issued by a login, rotated by a refresh,       *)
(* revoked by a refresh or a logout, accepted or refused by everything     *)
(* else.  A revoked token is a key in Redis that expires by itself.        *)
(*                                                                         *)
(* Tokens carry whole seconds; the process and Redis read a clock that is  *)
(* finer.  The clock ticks Second times a second.  A request is one action *)
(* per command it awaits (Redis, Postgres) and one for its first decoding. *)
(***************************************************************************)
EXTENDS Integers, FiniteSets

CONSTANTS
  Worker,                      \* the requests that may run at the same time
  Pair,                        \* the token pairs that may be issued
  Second,                      \* ticks in a second
  AccessLife, RefreshLife,     \* seconds
  MaxTime                      \* bound: the clock stops here

Token == Pair \X {"access", "refresh"}

ASSUME TimeAssumption ==
  /\ Second \in Nat \ {0}
  /\ AccessLife \in Nat \ {0}
  /\ RefreshLife \in Nat \ {0}
  /\ MaxTime \in Nat /\ MaxTime >= Second

ASSUME WorkerAssumption == IsFiniteSet(Worker)

VARIABLES
  now,
  issued,      \* [Pair -> seconds of its iat, 0 while not issued]
  blacklist,   \* [Token -> the last tick of its revoked_jti key, 0 for no key]
  active,      \* the user exists and is_active
  req,         \* where each request stands
  spent,       \* history: refresh tokens rotated, and both tokens of a logout that
               \* was answered 204, less those whose key a crash of Redis lost
  rotations    \* history: the requests that rotated a token before its exp claim, since
               \* it was issued or a crash of Redis lost its key

vars == <<now, issued, blacklist, active, req, spent, rotations>>

Idle == [pc |-> "idle"]

Request ==
  [pc    : {"check", "user", "rotate", "issue", "revokeAccess", "revokeRefresh"},
   kind  : {"refresh", "logout"},
   token : Token,    \* the one that authenticates: bearer, or the one to rotate
   other : Token]    \* logout: the refresh token of its body

Seconds == now \div Second

Expiry(t) ==
  issued[t[1]] + (IF t[2] = "access" THEN AccessLife ELSE RefreshLife)

\* jwt.decode accepts a token up to and including its expiry second.
Decodes(t) == issued[t[1]] # 0 /\ Seconds <= Expiry(t)

\* The end of the token's life as its exp claim states it.
Over(t) == now > Second * Expiry(t)

Blacklisted(t) == blacklist[t] # 0

\* Mutant of SecondsUntil: every key lives as long as an access token does.
SecondsUntilAccess(t) == AccessLife

\* Mutant of SecondsUntil: the exp claim itself is the time to live.
SecondsUntilAbsolute(t) == Expiry(t)

\* _seconds_until: SETEX takes no less than a second.
SecondsUntil(t) == IF Expiry(t) - Seconds > 1 THEN Expiry(t) - Seconds ELSE 1

Init ==
  /\ now = Second
  /\ issued = [p \in Pair |-> 0]
  /\ blacklist = [t \in Token |-> 0]
  /\ active = TRUE
  /\ req = [w \in Worker |-> Idle]
  /\ spent = {}
  /\ rotations = [t \in Token |-> 0]

Finish(w) == req' = [req EXCEPT ![w] = Idle]

Goto(w, pc) == req' = [req EXCEPT ![w] = [@ EXCEPT !.pc = pc]]

\* SET key 1 EX ttl.  Redis counts from the arrival of the command: later than the
\* moment ttl was computed, which only prolongs the key.
Revoke(t) == blacklist' = [blacklist EXCEPT ![t] = now + SecondsUntil(t) * Second]

\* Both tokens of a pair get the same iat: no property compares them.
IssuePair(p) ==
  /\ issued[p] = 0
  /\ issued' = [issued EXCEPT ![p] = Seconds]

\* Any of the logins: by password, by Google, by a reset code.  The user may be
\* inactive: a reset code never asks, the others asked some awaits ago.
Login(p) ==
  /\ IssuePair(p)
  /\ UNCHANGED <<now, blacklist, active, req, spent, rotations>>

\* A request arrives: refresh decodes the token of its body, logout the bearer
\* (get_current_user).  Every other endpoint takes the first steps of a logout and
\* ends, as Abort does.  Refused at once, a request changes nothing.
Arrive(w, kind, t, other) ==
  /\ req[w].pc = "idle"
  /\ Decodes(t)
  /\ t[2] = IF kind = "refresh" THEN "refresh" ELSE "access"
  /\ IF kind = "logout" THEN other[2] = "refresh" /\ issued[other[1]] # 0 ELSE other = t
  /\ req' = [req EXCEPT ![w] =
               [pc |-> "check", kind |-> kind, token |-> t, other |-> other]]
  /\ UNCHANGED <<now, issued, blacklist, active, spent, rotations>>

\* Mutant of CheckRevoked: only a bearer is looked up, not the token to rotate.
CheckRevokedBearer(w) ==
  /\ req[w].pc = "check"
  /\ IF Blacklisted(req[w].token) /\ req[w].kind = "logout" THEN Finish(w) ELSE Goto(w, "user")
  /\ UNCHANGED <<now, issued, blacklist, active, spent, rotations>>

\* redis.exists(revoked_jti:...) = 1: 401.
CheckRevoked(w) ==
  /\ req[w].pc = "check"
  /\ IF Blacklisted(req[w].token) THEN Finish(w) ELSE Goto(w, "user")
  /\ UNCHANGED <<now, issued, blacklist, active, spent, rotations>>

\* The user is read anew for every request: an inactive one is refused.
LoadUser(w) ==
  LET next == [refresh |-> "rotate", logout |-> "revokeAccess"] IN
  /\ req[w].pc = "user"
  /\ IF ~active THEN Finish(w) ELSE Goto(w, next[req[w].kind])
  /\ UNCHANGED <<now, issued, blacklist, active, spent, rotations>>

\* refresh revokes the old token, without looking again whether another did ...
Rotate(w) ==
  LET t == req[w].token IN
  /\ req[w].pc = "rotate"
  /\ Revoke(t)
  /\ spent' = spent \cup {t}
  /\ rotations' = IF Over(t) THEN rotations ELSE [rotations EXCEPT ![t] = @ + 1]
  /\ Goto(w, "issue")
  /\ UNCHANGED <<now, issued, active>>

\* ... and answers the new pair.
AnswerPair(w, p) ==
  /\ req[w].pc = "issue"
  /\ IssuePair(p)
  /\ Finish(w)
  /\ UNCHANGED <<now, blacklist, active, spent, rotations>>

\* logout decodes the bearer again (it may have expired by now) and revokes it,
RevokeAccess(w) ==
  LET t == req[w].token IN
  /\ req[w].pc = "revokeAccess"
  /\ IF Decodes(t)
       THEN Revoke(t) /\ Goto(w, "revokeRefresh")
       ELSE Finish(w) /\ UNCHANGED blacklist
  /\ UNCHANGED <<now, issued, active, spent, rotations>>

\* Mutant of RevokeRefresh: the answer is 204 before the refresh token is revoked.
RevokeRefreshNot(w) ==
  LET t == req[w].other IN
  /\ req[w].pc = "revokeRefresh"
  /\ spent' = IF Decodes(t) THEN spent \cup {req[w].token, t} ELSE spent
  /\ Finish(w)
  /\ UNCHANGED <<now, issued, blacklist, active, rotations>>

\* then decodes and revokes the refresh token; a refresh token that is out of date
\* makes the answer 401, with the access token revoked.
RevokeRefresh(w) ==
  LET t == req[w].other IN
  /\ req[w].pc = "revokeRefresh"
  /\ IF Decodes(t)
       THEN Revoke(t) /\ spent' = spent \cup {t} \cup
                            (IF Blacklisted(req[w].token) THEN {req[w].token} ELSE {})
       ELSE UNCHANGED <<blacklist, spent>>
  /\ Finish(w)
  /\ UNCHANGED <<now, issued, active, rotations>>

\* A command fails or the process dies: the request ends where it stands.
Abort(w) ==
  /\ req[w].pc # "idle"
  /\ Finish(w)
  /\ UNCHANGED <<now, issued, blacklist, active, spent, rotations>>

\* Redis restarts from its last snapshot: the keys set since are gone.
RedisRestarts(S) ==
  /\ S # {} /\ S \subseteq {t \in Token : Blacklisted(t)}
  /\ blacklist' = [t \in Token |-> IF t \in S THEN 0 ELSE blacklist[t]]
  /\ spent' = spent \ S
  /\ rotations' = [t \in Token |-> IF t \in S THEN 0 ELSE rotations[t]]
  /\ UNCHANGED <<now, issued, active, req>>

\* PUT /users/{id} with is_active.
SetActive(b) ==
  /\ active' = b
  /\ UNCHANGED <<now, issued, blacklist, req, spent, rotations>>

\* Redis serves a key up to and including its last tick, then drops it.
Tick ==
  /\ now < MaxTime
  /\ now' = now + 1
  /\ blacklist' = [t \in Token |-> IF blacklist[t] <= now THEN 0 ELSE blacklist[t]]
  /\ UNCHANGED <<issued, active, req, spent, rotations>>

Next ==
  \/ Tick
  \/ \E b \in BOOLEAN : SetActive(b)
  \/ \E S \in SUBSET Token : RedisRestarts(S)
  \/ \E p \in Pair : Login(p)
  \/ \E w \in Worker :
       \/ \E t, o \in Token, k \in {"refresh", "logout"} : Arrive(w, k, t, o)
       \/ CheckRevoked(w) \/ LoadUser(w) \/ Rotate(w)
       \/ \E p \in Pair : AnswerPair(w, p)
       \/ RevokeAccess(w) \/ RevokeRefresh(w) \/ Abort(w)

Spec == Init /\ [][Next]_vars

-----------------------------------------------------------------------------
(* Properties.                                                             *)

\* Times, tokens and requests stay in their types; no key outlives the longest token
\* that could be issued now, so the blacklist does not grow without bound.
TypeOK ==
  /\ now \in Second .. MaxTime
  /\ issued \in [Pair -> 0 .. MaxTime]
  /\ blacklist \in [Token -> 0 .. now + Second * (AccessLife + RefreshLife)]
  /\ active \in BOOLEAN
  /\ req \in [Worker -> Request \cup {Idle}]
  /\ spent \subseteq Token
  /\ rotations \in [Token -> Nat]

\* "blacklists a token's jti until its natural expiry": the key of a token that a
\* rotation or a logout gave up outlives its exp claim, although exp and the key's
\* time to live are cut to whole seconds at different moments and several requests may
\* set the key; only a crash of Redis takes it earlier.
SpentUntilExpiry == \A t \in spent : Blacklisted(t) \/ Over(t)

\* The invariant of the proofs: a key in the blacklist belongs to a token that was
\* issued and lasts until that token's exp claim.
KeysLast ==
  \A t \in Token : blacklist[t] # 0 => blacklist[t] >= now /\ blacklist[t] >= Second * Expiry(t)

UsesIssued ==
  /\ \A p \in Pair : issued[p] <= Seconds
  /\ \A t \in Token : blacklist[t] # 0 \/ t \in spent => issued[t[1]] # 0
  /\ \A w \in Worker : req[w] # Idle =>
       issued[req[w].token[1]] # 0 /\ issued[req[w].other[1]] # 0

IInv == TypeOK /\ SpentUntilExpiry /\ KeysLast /\ UsesIssued

\* What was rotated or logged out never authenticates a new request before its expiry:
\* a refresh or a logout that begins later is refused at its check.
SpentRefused ==
  [][\A w \in Worker :
       /\ req[w].pc = "check"
       /\ req[w].token \in spent
       /\ ~Over(req[w].token)
       => req'[w].pc # "user"]_vars

\* "Rotate: revoke the old refresh token so it cannot be reused": no refresh answers a
\* pair for a token that was already rotated or logged out and is not past its exp claim.
SpentNotRotated ==
  [][\A w \in Worker :
       /\ req[w].pc = "rotate" /\ req'[w].pc = "issue"
       /\ ~Over(req[w].token)
       => req[w].token \notin spent]_vars

\* How far that goes: a token is rotated at most once for every request that can run at
\* the same time.  Its revocation is looked up and written apart, but it lets in only
\* the requests that looked before the first of them wrote.
RotationsBounded == \A t \in Token : rotations[t] <= Cardinality(Worker)

\* The requests past their check with a token, and the rotations they may still add.
Passed(t) == {w \in Worker : req[w].pc \in {"user", "rotate"} /\ req[w].token = t}

RotationsCounted ==
  \A t \in Token : rotations[t] > 0 =>
    /\ t \in spent
    /\ rotations[t] <= Cardinality(Worker)
    /\ Over(t) \/ rotations[t] + Cardinality(Passed(t)) <= Cardinality(Worker)

\* The invariant of a single request at a time: past its check, its token was not given
\* up, or is past its exp claim by now.
SequentialInv ==
  \A w \in Worker :
    req[w].pc \in {"user", "rotate"} => req[w].token \notin spent \/ Over(req[w].token)
=============================================================================
