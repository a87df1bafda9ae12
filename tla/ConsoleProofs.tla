------------------------------ MODULE ConsoleProofs ------------------------------
(***************************************************************************)
(* What holds of Console for any addresses, rows, servers and roles and    *)
(* any number of loads and writes in progress.                             *)
(***************************************************************************)
EXTENDS Console, TLAPS, FiniteSetTheorems, SequenceTheorems

-----------------------------------------------------------------------------
(* The login page.                                                         *)

\* One request at a time, none beside a verified code, and a request for a code is for
\* the address of the form unless that was edited.
LoginShape ==
  /\ \A r \in requests : requests = {r}
  /\ loginLoading <=> (requests # {} \/ accepted)
  /\ accepted => requests = {}
  /\ \A r \in requests :
       r.kind = "sendOtp" \/ (r.kind = "resendOtp" /\ mode = "forgot" /\ otpStep = 2) =>
         email = r.email \/ edited
  /\ CodeFormNamesAddress

LoginInv == LoginTypeOK /\ LoginShape

LEMMA RequestType ==
  ASSUME LoginTypeOK, NEW r \in requests
  PROVE  r.email \in Address
BY DEF LoginTypeOK, Requests

LEMMA LoginFrame == LoginInv /\ UNCHANGED loginVars => LoginInv'
BY DEF LoginInv, LoginTypeOK, LoginShape, CodeFormNamesAddress, loginVars, LoginAssumption

LEMMA NoChecks == 0 \in 0 .. MaxCheck
BY LoginAssumption DEF LoginAssumption

\* Every reset of the page ends in a state that satisfies the invariant.
LEMMA FreshPage ==
  ASSUME mode = "login", otpStep = 1, email = NoAddress, loginLoading = FALSE,
         googleLoading = FALSE, googleModalOpen = FALSE, requests = {}, googleRequest = "none",
         checks = 0, accepted = FALSE, due = FALSE, codeFor = NoAddress, edited = FALSE
  PROVE  LoginInv
<1>1. LoginTypeOK
  BY NoChecks DEF LoginTypeOK, Mode, GoogleRequest
<1>2. LoginShape
  BY DEF LoginShape, CodeFormNamesAddress
<1> QED BY <1>1, <1>2 DEF LoginInv

LEMMA LoginInitInv == LoginInit => LoginInv
BY FreshPage DEF LoginInit

LEMMA LoginUnmountInv == ASSUME LoginUnmount PROVE LoginInv'
<1>1. LoginTypeOK'
  BY NoChecks DEF LoginUnmount, LoginTypeOK, Mode, GoogleRequest
<1>2. LoginShape'
  BY DEF LoginUnmount, LoginShape, CodeFormNamesAddress
<1> QED BY <1>1, <1>2 DEF LoginInv

\* The fields and the links.
LEMMA LinksInv ==
  ASSUME LoginInv,
         (\E e \in Address : EditEmail(e)) \/ SwitchMode \/ ForgotPassword \/ ChangeEmail
  PROVE  LoginInv'
<1> USE DEF google, reset
<1>1. ASSUME NEW e \in Address, EditEmail(e) PROVE LoginInv'
  <2>1. LoginTypeOK'
    BY <1>1 DEF EditEmail, LoginInv, LoginTypeOK
  <2>2. LoginShape'
    BY <1>1 DEF EditEmail, LoginInv, LoginShape, CodeFormNamesAddress
  <2> QED BY <2>1, <2>2 DEF LoginInv
<1>2. ASSUME SwitchMode \/ ForgotPassword \/ ChangeEmail PROVE LoginInv'
  <2>1. LoginTypeOK'
    BY <1>2 DEF SwitchMode, ForgotPassword, ChangeEmail, SetMode, LoginInv, LoginTypeOK, Mode
  <2>2. LoginShape'
    BY <1>2 DEF SwitchMode, ForgotPassword, ChangeEmail, SetMode, LoginInv, LoginShape,
                CodeFormNamesAddress
  <2> QED BY <2>1, <2>2 DEF LoginInv
<1> QED BY <1>1, <1>2

\* A form is submitted only while nothing is in flight.
LEMMA RequestInv ==
  ASSUME LoginInv, ~loginLoading,
         NEW kind \in {"login", "register", "sendOtp", "resendOtp", "verifyOtp"},
         Request(kind), edited' = edited \/ edited' = FALSE,
         kind # "sendOtp" => edited' = edited,
         kind = "sendOtp" => otpStep = 1
  PROVE  LoginInv'
<1> USE DEF google
<1> DEFINE r == [kind |-> kind, email |-> email]
<1>1. email \in Address /\ requests = {} /\ ~accepted
  BY DEF Request, LoginInv, LoginTypeOK, LoginShape
<1>2. r \in Requests /\ r.email = email /\ r.kind = kind
  BY <1>1 DEF Requests
<1>3. requests' = {r} /\ loginLoading'
  BY <1>1 DEF Request
<1> HIDE DEF r
<1>4. LoginTypeOK'
  BY <1>2, <1>3 DEF Request, LoginInv, LoginTypeOK
<1>5. LoginShape'
  BY <1>1, <1>2, <1>3 DEF Request, LoginInv, LoginTypeOK, LoginShape, CodeFormNamesAddress
<1> QED BY <1>4, <1>5 DEF LoginInv

LEMMA FormsInv ==
  ASSUME LoginInv, HandleSubmit \/ HandleSendOtp \/ HandleResendOtp \/ HandleVerifyOtp
  PROVE  LoginInv'
<1>1. LoginTypeOK
  BY DEF LoginInv
<1>2. CASE HandleSubmit
  BY <1>1, <1>2, RequestInv DEF HandleSubmit, CredentialsForm
<1>3. CASE HandleSendOtp
  BY <1>1, <1>3, RequestInv DEF HandleSendOtp, EmailForm, LoginTypeOK
<1>4. CASE HandleResendOtp
  BY <1>1, <1>4, RequestInv DEF HandleResendOtp, CodeForm
<1>5. CASE HandleVerifyOtp
  BY <1>1, <1>5, RequestInv DEF HandleVerifyOtp, CodeForm
<1> QED BY <1>2, <1>3, <1>4, <1>5

\* The answer to the one request in flight.
LEMMA AnswersInv == ASSUME LoginInv, LoginAnswers PROVE LoginInv'
<1> USE DEF google, reset
<1>1. ASSUME NEW r \in requests, FormSucceeds(r) PROVE LoginInv'
  <2>1. r.email \in Address /\ requests = {r} /\ ~accepted
    BY RequestType DEF LoginInv, LoginShape
  <2>2. requests' = {} /\ checks' \in 0 .. MaxCheck
    BY <1>1, <2>1, LoginAssumption DEF FormSucceeds, OnLogin, LoginInv, LoginTypeOK
  <2>3. LoginTypeOK'
    <3>1. mode' \in Mode /\ otpStep' \in {1, 2} /\ codeFor' \in Address \cup {NoAddress}
      BY <1>1, <2>1 DEF FormSucceeds, LoginInv, LoginTypeOK, Mode
    <3>2. loginLoading' \in BOOLEAN /\ accepted' \in BOOLEAN /\ due' \in BOOLEAN
      BY <1>1 DEF FormSucceeds, LoginInv, LoginTypeOK
    <3>3. /\ email' = email /\ googleLoading' = googleLoading
          /\ googleModalOpen' = googleModalOpen /\ googleRequest' = googleRequest
          /\ edited' = edited /\ requests' \subseteq Requests
      BY <1>1, <2>2 DEF FormSucceeds
    <3>4. /\ email' \in Address \cup {NoAddress} /\ googleLoading' \in BOOLEAN
          /\ googleModalOpen' \in BOOLEAN /\ googleRequest' \in GoogleRequest
          /\ edited' \in BOOLEAN
      BY <3>3 DEF LoginInv, LoginTypeOK
    <3> QED BY <2>2, <3>1, <3>2, <3>3, <3>4 DEF LoginTypeOK
  <2>4. LoginShape'
    BY <1>1, <2>1, <2>2 DEF FormSucceeds, LoginInv, LoginShape, CodeFormNamesAddress
  <2> QED BY <2>3, <2>4 DEF LoginInv
<1>2. ASSUME NEW r \in requests, FormFails(r) PROVE LoginInv'
  <2>1. requests = {r} /\ ~accepted
    BY DEF LoginInv, LoginShape
  <2>2. requests' = {}
    BY <1>2, <2>1 DEF FormFails
  <2>3. LoginTypeOK'
    BY <1>2, <2>2 DEF FormFails, LoginInv, LoginTypeOK
  <2>4. LoginShape'
    BY <1>2, <2>1, <2>2 DEF FormFails, LoginInv, LoginShape, CodeFormNamesAddress
  <2> QED BY <2>3, <2>4 DEF LoginInv
<1>3. CASE TimerFires
  <2>1. LoginTypeOK'
    <3>1. checks' \in 0 .. MaxCheck
      BY <1>3, LoginAssumption DEF LoginAssumption, TimerFires, OnLogin, LoginInv, LoginTypeOK
    <3> QED BY <1>3, <3>1 DEF TimerFires, LoginInv, LoginTypeOK
  <2>2. LoginShape'
    BY <1>3 DEF TimerFires, LoginInv, LoginShape, CodeFormNamesAddress
  <2> QED BY <2>1, <2>2 DEF LoginInv
<1> QED BY <1>1, <1>2, <1>3 DEF LoginAnswers

\* Google's sign-in touches nothing of the forms.
LEMMA GoogleInv ==
  ASSUME LoginInv,
         \/ HandleGoogleClick \/ PromptAnswered \/ CloseGoogleModal
         \/ HandleGoogleModalSubmit \/ GoogleAnswered \/ CheckFails
  PROVE  LoginInv'
<1> USE DEF google, reset
<1>1. /\ UNCHANGED <<mode, otpStep, email, loginLoading, requests, reset>>
      /\ checks' \in 0 .. MaxCheck
  BY LoginAssumption
     DEF HandleGoogleClick, PromptAnswered, CloseGoogleModal, HandleGoogleModalSubmit,
         GoogleAnswered, CheckFails, Google, OnLogin, LoginInv, LoginTypeOK
<1>2. googleLoading' \in BOOLEAN /\ googleModalOpen' \in BOOLEAN /\ googleRequest' \in GoogleRequest
  BY DEF HandleGoogleClick, PromptAnswered, CloseGoogleModal, HandleGoogleModalSubmit,
         GoogleAnswered, CheckFails, Google, LoginInv, LoginTypeOK, GoogleRequest
<1>3. LoginTypeOK'
  BY <1>1, <1>2 DEF LoginInv, LoginTypeOK
<1>4. LoginShape'
  BY <1>1 DEF LoginInv, LoginShape, CodeFormNamesAddress
<1> QED BY <1>3, <1>4 DEF LoginInv

LEMMA LoginNextInv == ASSUME LoginInv, LoginNext PROVE LoginInv'
BY LinksInv, FormsInv, AnswersInv, GoogleInv DEF LoginNext

LEMMA LoginInvImplies == LoginInv => FormLocked /\ CodeFormNamesAddress
<1> SUFFICES ASSUME LoginInv PROVE FormLocked /\ CodeFormNamesAddress
  OBVIOUS
<1>1. Cardinality(requests) <= 1
  <2>1. CASE requests = {}
    <3>1. Cardinality({}) = 0
      BY FS_EmptySet
    <3> QED BY <2>1, <3>1
  <2>2. CASE requests # {}
    <3>1. PICK r \in requests : requests = {r}
      BY <2>2 DEF LoginInv, LoginShape
    <3>2. Cardinality({r}) = 1
      BY FS_Singleton
    <3> QED BY <3>1, <3>2
  <2> QED BY <2>1, <2>2
<1> QED BY <1>1 DEF LoginInv, LoginShape, FormLocked

-----------------------------------------------------------------------------
(* The pages: types, sharper than those of the specification in that every *)
(* load and every write is one of the page that is mounted.                *)

LoadOf(p) == [param : Filters(p), phase : {"sent", "answered"}, answer : Tables(p),
              missed : SUBSET Item, late : BOOLEAN]

WriteOf(p) == [kind : {"create", "read", "delete"}, item : Rows[p],
               mark : Marks(p) \cup {Absent}, param : Filters(p), phase : {"sent", "applied"}]

Form == [open : BOOLEAN, submitting : BOOLEAN, error : BOOLEAN]

Place == role \in Role /\ page \in Page /\ choice \in Filters(page)

View ==
  /\ loading \in BOOLEAN /\ refreshing \in BOOLEAN /\ error \in BOOLEAN
  /\ list \in Tables(page) /\ table \in Tables(page)
  /\ overtaken \in BOOLEAN /\ outdated \in BOOLEAN /\ missed \subseteq Item

LoadsTyped == loads \in Seq(LoadOf(page)) /\ Len(loads) <= MaxLoads

WritesTyped == writes \subseteq WriteOf(page)

\* What "Saving..." shows, without counting.
Submission ==
  /\ form \in Form
  /\ \A v, w \in writes : v.kind = "create" /\ w.kind = "create" => v = w
  /\ form.submitting <=> \E w \in writes : w.kind = "create"

PagesShape == Place /\ View /\ LoadsTyped /\ WritesTyped /\ Submission

\* The parts that do not mention what a step changes are kept by it.
LEMMA PlaceFrame == ASSUME Place, UNCHANGED <<role, page, choice>> PROVE Place'
BY DEF Place

LEMMA ViewFrame ==
  ASSUME View, UNCHANGED <<page, loading, refreshing, error, list, table, overtaken, outdated, missed>>
  PROVE  View'
BY DEF View

LEMMA LoadsFrame == ASSUME LoadsTyped, UNCHANGED <<page, loads>> PROVE LoadsTyped'
BY DEF LoadsTyped

LEMMA WritesFrame == ASSUME WritesTyped, UNCHANGED <<page, writes>> PROVE WritesTyped'
BY DEF WritesTyped

LEMMA SubmissionFrame == ASSUME Submission, UNCHANGED <<form, writes>> PROVE Submission'
BY DEF Submission

\* Rows, the answers read from them, and the loads that carry these.
LEMMA RowsArePages == ASSUME NEW p \in Page PROVE Rows[p] \subseteq Item
BY PagesAssumption DEF PagesAssumption

LEMMA NoRowsType == ASSUME NEW p PROVE NoRows \in Tables(p)
BY DEF NoRows, Tables, Absent

LEMMA TableType ==
  ASSUME NEW p, NEW t \in Tables(p)
  PROVE  /\ t \in [Item -> Marks(p) \cup {Absent}]
         /\ \A i \in Item : t[i] # Absent => i \in Rows[p]
BY DEF Tables

LEMMA AnswerType ==
  ASSUME NEW p, NEW param, NEW t \in Tables(p)
  PROVE  Answer(p, param, t) \in Tables(p)
<1>1. t \in [Item -> Marks(p) \cup {Absent}] /\ \A i \in Item \ Rows[p] : t[i] = Absent
  BY DEF Tables
<1>2. Answer(p, param, t) \in [Item -> Marks(p) \cup {Absent}]
  BY <1>1 DEF Answer
<1>3. \A i \in Item \ Rows[p] : Answer(p, param, t)[i] = Absent
  BY <1>1 DEF Answer
<1> QED BY <1>2, <1>3 DEF Tables

LEMMA SentType ==
  ASSUME NEW p, NEW param \in Filters(p)
  PROVE  /\ Sent(param) \in LoadOf(p)
         /\ Sent(param).param = param /\ Sent(param).phase = "sent" /\ ~Sent(param).late
<1>1. NoRows \in Tables(p)
  BY NoRowsType
<1> QED BY <1>1 DEF Sent, LoadOf

\* RemoveAt of the community modules.
LEMMA RemoveAtProperties ==
  ASSUME NEW S, NEW s \in Seq(S), NEW n \in 1 .. Len(s)
  PROVE  /\ RemoveAt(s, n) \in Seq(S)
         /\ Len(RemoveAt(s, n)) = Len(s) - 1
         /\ \A m \in 1 .. Len(s) - 1 : RemoveAt(s, n)[m] = IF m < n THEN s[m] ELSE s[m + 1]
<1> DEFINE front == SubSeq(s, 1, n - 1)
           back == SubSeq(s, n + 1, Len(s))
<1>1. Len(s) \in Nat /\ \A i \in 1 .. Len(s) : s[i] \in S
  BY LenProperties, ElementOfSeq
<1>2. /\ front \in Seq(S) /\ Len(front) = n - 1
      /\ \A i \in 1 .. n - 1 : front[i] = s[i]
  BY <1>1, SubSeqProperties
<1>3. /\ back \in Seq(S) /\ Len(back) = Len(s) - n
      /\ \A i \in 1 .. Len(s) - n : back[i] = s[n + i]
  BY <1>1, SubSeqProperties
<1>4. RemoveAt(s, n) = front \o back
  BY DEF RemoveAt
<1> HIDE DEF front, back
<1>5. /\ front \o back \in Seq(S)
      /\ Len(front \o back) = Len(front) + Len(back)
      /\ \A i \in 1 .. Len(front) + Len(back) :
           (front \o back)[i] = IF i <= Len(front) THEN front[i] ELSE back[i - Len(front)]
  BY <1>2, <1>3, ConcatProperties
<1>6. \A m \in 1 .. Len(s) - 1 : (front \o back)[m] = IF m < n THEN s[m] ELSE s[m + 1]
  <2>1. TAKE m \in 1 .. Len(s) - 1
  <2>2. CASE m < n
    BY <1>1, <1>2, <1>3, <1>5, <2>2
  <2>3. CASE ~ (m < n)
    <3>1. m - (n - 1) \in 1 .. Len(s) - n /\ n + (m - (n - 1)) = m + 1
      BY <1>1, <2>3
    <3>2. (front \o back)[m] = back[m - (n - 1)]
      BY <1>1, <1>2, <1>3, <1>5, <2>3
    <3>3. back[m - (n - 1)] = s[n + (m - (n - 1))]
      BY <1>3, <3>1
    <3> QED BY <2>3, <3>1, <3>2, <3>3
  <2> QED BY <2>2, <2>3
<1> QED BY <1>1, <1>2, <1>3, <1>4, <1>5, <1>6

\* What becomes of one load: it is read, overtaken, or misses a row.
LEMMA LoadChanges ==
  ASSUME NEW p, NEW l \in LoadOf(p)
  PROVE  /\ l.param \in Filters(p) /\ l.answer \in Tables(p) /\ l.missed \subseteq Item
         /\ l.phase \in {"sent", "answered"} /\ l.late \in BOOLEAN
         /\ /\ [l EXCEPT !.late = TRUE] \in LoadOf(p)
            /\ [l EXCEPT !.late = TRUE].late
         /\ \A i \in Item :
              /\ [l EXCEPT !.missed = @ \cup {i}] \in LoadOf(p)
              /\ [l EXCEPT !.missed = @ \cup {i}].missed = l.missed \cup {i}
              /\ [l EXCEPT !.missed = @ \cup {i}].param = l.param
              /\ [l EXCEPT !.missed = @ \cup {i}].phase = l.phase
              /\ [l EXCEPT !.missed = @ \cup {i}].answer = l.answer
              /\ [l EXCEPT !.missed = @ \cup {i}].late = l.late
BY DEF LoadOf

LEMMA LoadsFacts ==
  ASSUME LoadsTyped
  PROVE  /\ Len(loads) \in Nat /\ DOMAIN loads = 1 .. Len(loads)
         /\ loads \in [1 .. Len(loads) -> LoadOf(page)]
         /\ \A n \in DOMAIN loads : loads[n] \in LoadOf(page)
BY LenProperties, ElementOfSeq DEF LoadsTyped

LEMMA BeginProperties ==
  ASSUME NEW p, NEW remaining \in Seq(LoadOf(p)), NEW param \in Filters(p), Begin(remaining, param)
  PROVE  /\ loads' \in Seq(LoadOf(p)) /\ Len(loads') = Len(remaining) + 1
         /\ Len(loads') <= MaxLoads
         /\ loads'[Len(loads')] = Sent(param)
         /\ \A m \in 1 .. Len(remaining) : loads'[m] = remaining[m]
         /\ error' = FALSE /\ outdated' = (param # choice')
<1>1. Sent(param) \in LoadOf(p)
  BY SentType
<1>2. Len(remaining) \in Nat
  BY LenProperties
<1>3. Len(remaining) < MaxLoads /\ loads' = Append(remaining, Sent(param))
  BY DEF Begin
<1>4. Len(remaining) + 1 <= MaxLoads
  BY <1>2, <1>3, PagesAssumption DEF PagesAssumption
<1>5. /\ loads' \in Seq(LoadOf(p)) /\ Len(loads') = Len(remaining) + 1
      /\ loads'[Len(remaining) + 1] = Sent(param)
      /\ \A m \in 1 .. Len(remaining) : loads'[m] = remaining[m]
  BY <1>1, <1>2, <1>3
<1> QED BY <1>4, <1>5 DEF Begin

LEMMA OvertakeProperties ==
  ASSUME LoadsTyped, NEW n \in DOMAIN loads
  PROVE  /\ Overtake(n) \in Seq(LoadOf(page)) /\ Len(Overtake(n)) = Len(loads) - 1
         /\ \A m \in 1 .. Len(loads) - 1 :
              Overtake(n)[m] = IF m < n THEN [loads[m] EXCEPT !.late = TRUE] ELSE loads[m + 1]
<1> DEFINE marked == [m \in DOMAIN loads |->
                        IF m < n THEN [loads[m] EXCEPT !.late = TRUE] ELSE loads[m]]
<1>1. /\ Len(loads) \in Nat /\ DOMAIN loads = 1 .. Len(loads)
      /\ \A m \in DOMAIN loads : loads[m] \in LoadOf(page)
  BY LoadsFacts
<1>2. \A m \in 1 .. Len(loads) : marked[m] \in LoadOf(page)
  BY <1>1, LoadChanges
<1>3. marked \in [1 .. Len(loads) -> LoadOf(page)]
  BY <1>1, <1>2
<1>4. marked \in Seq(LoadOf(page)) /\ Len(marked) = Len(loads)
  BY <1>1, <1>3, SeqDef
<1>5. \A m \in 1 .. Len(loads) :
        marked[m] = IF m < n THEN [loads[m] EXCEPT !.late = TRUE] ELSE loads[m]
  BY <1>1
<1>6. Overtake(n) = RemoveAt(marked, n)
  BY DEF Overtake
<1> HIDE DEF marked
<1>7. /\ RemoveAt(marked, n) \in Seq(LoadOf(page)) /\ Len(RemoveAt(marked, n)) = Len(loads) - 1
      /\ \A m \in 1 .. Len(loads) - 1 :
           RemoveAt(marked, n)[m] = IF m < n THEN marked[m] ELSE marked[m + 1]
  BY <1>1, <1>4, RemoveAtProperties
<1>8. ASSUME NEW m \in 1 .. Len(loads) - 1
      PROVE  Overtake(n)[m] = IF m < n THEN [loads[m] EXCEPT !.late = TRUE] ELSE loads[m + 1]
  <2>1. m \in 1 .. Len(loads) /\ m + 1 \in 1 .. Len(loads) /\ n \in Nat /\ m \in Nat
    BY <1>1
  <2>2. CASE m < n
    BY <1>5, <1>6, <1>7, <2>1, <2>2
  <2>3. CASE ~ (m < n)
    <3>1. ~ (m + 1 < n)
      BY <2>1, <2>3
    <3> QED BY <1>5, <1>6, <1>7, <2>1, <2>3, <3>1
  <2> QED BY <2>2, <2>3
<1> QED BY <1>6, <1>7, <1>8

LEMMA MissProperties ==
  ASSUME LoadsTyped, missed \subseteq Item, NEW i \in Item, Miss(i)
  PROVE  /\ loads' \in Seq(LoadOf(page)) /\ Len(loads') = Len(loads)
         /\ \A n \in DOMAIN loads :
              loads'[n] = IF loads[n].phase = "answered"
                          THEN [loads[n] EXCEPT !.missed = @ \cup {i}] ELSE loads[n]
         /\ missed' = missed \cup {i} /\ missed' \subseteq Item
<1>1. /\ Len(loads) \in Nat /\ DOMAIN loads = 1 .. Len(loads)
      /\ \A m \in DOMAIN loads : loads[m] \in LoadOf(page)
  BY LoadsFacts
<1>2. \A n \in DOMAIN loads :
        /\ [loads[n] EXCEPT !.missed = @ \cup {i}] \in LoadOf(page)
        /\ loads[n] \in LoadOf(page)
  BY <1>1, LoadChanges
<1>3. loads' = [n \in DOMAIN loads |->
        IF loads[n].phase = "answered" THEN [loads[n] EXCEPT !.missed = @ \cup {i}] ELSE loads[n]]
  BY DEF Miss
<1>4. loads' \in [1 .. Len(loads) -> LoadOf(page)]
  BY <1>1, <1>2, <1>3
<1>5. loads' \in Seq(LoadOf(page)) /\ Len(loads') = Len(loads)
  BY <1>1, <1>4, SeqDef
<1> QED BY <1>3, <1>5 DEF Miss

-----------------------------------------------------------------------------
(* What a page shows, and why.  A row can be relied on unless its own      *)
(* write took effect and is not yet answered (Touched) or others changed   *)
(* it.  While the newest load is in progress the list does not matter: it  *)
(* is what that load has read that must be right.  Once it was answered    *)
(* (the loads that are left are late), the list must be.                   *)

Touched == {w.item : w \in {v \in writes : v.phase = "applied"}}

Shows(rows, param, gaps) ==
  \A i \in Item \ (gaps \cup Touched) : rows[i] = Answer(page, param, table)[i]

\* Late loads are older than the others.
LatePrefix == \A m, n \in DOMAIN loads : m < n /\ loads[n].late => loads[m].late

Newest == loads[Len(loads)]

Pending == Len(loads) > 0 /\ ~Newest.late

NewestMatches ==
  /\ outdated <=> Newest.param # choice
  /\ Newest.phase = "answered" => Shows(Newest.answer, Newest.param, Newest.missed)

ListMatches == ~overtaken /\ ~outdated => Shows(list, choice, missed)

\* A failed load leaves an error until the next one is begun, so nothing is claimed then.
Current ==
  page \notin Plain /\ ~error => (Pending => NewestMatches) /\ (~Pending => ListMatches)

PagesInv == PagesShape /\ LatePrefix /\ Current

\* An answer depends on each row by itself.
LEMMA AnswerByRow ==
  ASSUME NEW p, NEW param, NEW t, NEW u, NEW i \in Item, t[i] = u[i]
  PROVE  Answer(p, param, t)[i] = Answer(p, param, u)[i]
BY DEF Answer

\* Rows that were right stay so, while no row but the touched ones changes.
LEMMA ShowsKept ==
  ASSUME NEW rows, NEW param, NEW gaps, Shows(rows, param, gaps), page' = page,
         NEW i \in Item, i \notin gaps \cup Touched, table'[i] = table[i]
  PROVE  rows[i] = Answer(page', param, table')[i]
<1>1. rows[i] = Answer(page, param, table)[i]
  BY DEF Shows
<1>2. Answer(page, param, table)[i] = Answer(page, param, table')[i]
  BY AnswerByRow
<1> QED BY <1>1, <1>2

LEMMA CurrentKept ==
  ASSUME Current, UNCHANGED <<page, choice, error, list, loads, overtaken, outdated, missed>>,
         \A i \in Item \ Touched' : i \notin Touched /\ table'[i] = table[i]
  PROVE  Current'
<1>1. SUFFICES ASSUME page \notin Plain, ~error
               PROVE  (Pending' => NewestMatches') /\ (~Pending' => ListMatches')
  BY DEF Current
<1>2. Newest' = Newest /\ Pending' = Pending
  BY DEF Newest, Pending
<1>3. ASSUME Pending PROVE NewestMatches'
  <2>1. NewestMatches
    BY <1>1, <1>3 DEF Current
  <2>2. ASSUME Newest.phase = "answered"
        PROVE  Shows(Newest.answer, Newest.param, Newest.missed)'
    <3>1. Shows(Newest.answer, Newest.param, Newest.missed)
      BY <2>1, <2>2 DEF NewestMatches
    <3>2. \A i \in Item \ (Newest.missed \cup Touched') :
            Newest.answer[i] = Answer(page', Newest.param, table')[i]
      BY <3>1, ShowsKept
    <3> QED BY <1>2, <3>2 DEF Shows
  <2> QED BY <1>2, <2>1, <2>2 DEF NewestMatches
<1>4. ASSUME ~Pending PROVE ListMatches'
  <2>1. ListMatches
    BY <1>1, <1>4 DEF Current
  <2>2. ASSUME ~overtaken, ~outdated PROVE Shows(list, choice, missed)'
    <3>1. Shows(list, choice, missed)
      BY <2>1, <2>2 DEF ListMatches
    <3>2. \A i \in Item \ (missed \cup Touched') : list[i] = Answer(page', choice, table')[i]
      BY <3>1, ShowsKept
    <3> QED BY <3>2 DEF Shows
  <2> QED BY <2>2 DEF ListMatches
<1> QED BY <1>2, <1>3, <1>4

\* A row that is missed from now on.
LEMMA CurrentMissed ==
  ASSUME Current, LoadsTyped, missed \subseteq Item, NEW i \in Item, Miss(i),
         UNCHANGED <<page, choice, error, list, overtaken, outdated>>,
         \A j \in Item \ (Touched' \cup {i}) : j \notin Touched /\ table'[j] = table[j]
  PROVE  Current'
<1>1. SUFFICES ASSUME page \notin Plain, ~error
               PROVE  (Pending' => NewestMatches') /\ (~Pending' => ListMatches')
  BY DEF Current
<1>2. /\ Len(loads') = Len(loads) /\ missed' = missed \cup {i}
      /\ \A n \in DOMAIN loads :
           loads'[n] = IF loads[n].phase = "answered"
                       THEN [loads[n] EXCEPT !.missed = @ \cup {i}] ELSE loads[n]
  BY MissProperties
<1>3. Len(loads) \in Nat /\ DOMAIN loads = 1 .. Len(loads)
  BY LoadsFacts
<1>4. ASSUME Len(loads) > 0
      PROVE  /\ Newest'.param = Newest.param /\ Newest'.phase = Newest.phase
             /\ Newest'.late = Newest.late /\ Newest'.answer = Newest.answer
             /\ Newest.phase = "answered" => Newest'.missed = Newest.missed \cup {i}
  <2>1. Len(loads) \in DOMAIN loads /\ Newest \in LoadOf(page)
    BY <1>3, <1>4, LoadsFacts DEF Newest
  <2>2. Newest' = IF Newest.phase = "answered"
                  THEN [Newest EXCEPT !.missed = @ \cup {i}] ELSE Newest
    BY <1>2, <2>1 DEF Newest
  <2>3. CASE Newest.phase = "answered"
    BY <2>1, <2>2, <2>3, LoadChanges
  <2>4. CASE Newest.phase # "answered"
    BY <2>2, <2>4
  <2> QED BY <2>3, <2>4
<1>5. Pending' = Pending
  BY <1>2, <1>4 DEF Pending
<1>6. ASSUME Pending PROVE NewestMatches'
  <2>1. NewestMatches /\ Len(loads) > 0
    BY <1>1, <1>6 DEF Current, Pending
  <2>2. ASSUME Newest.phase = "answered"
        PROVE  Shows(Newest.answer, Newest.param, Newest.missed)'
    <3>1. Shows(Newest.answer, Newest.param, Newest.missed)
      BY <2>1, <2>2 DEF NewestMatches
    <3>2. ASSUME NEW j \in Item \ ((Newest.missed \cup {i}) \cup Touched')
          PROVE  Newest.answer[j] = Answer(page', Newest.param, table')[j]
      <4>1. j \notin Newest.missed \cup Touched /\ table'[j] = table[j]
        OBVIOUS
      <4> QED BY <3>1, <4>1, ShowsKept
    <3> QED BY <1>4, <2>1, <2>2, <3>2 DEF Shows
  <2> QED BY <1>4, <2>1, <2>2 DEF NewestMatches
<1>7. ASSUME ~Pending PROVE ListMatches'
  <2>1. ListMatches
    BY <1>1, <1>7 DEF Current
  <2>2. ASSUME ~overtaken, ~outdated PROVE Shows(list, choice, missed)'
    <3>1. Shows(list, choice, missed)
      BY <2>1, <2>2 DEF ListMatches
    <3>2. ASSUME NEW j \in Item \ ((missed \cup {i}) \cup Touched')
          PROVE  list[j] = Answer(page', choice, table')[j]
      <4>1. j \notin missed \cup Touched /\ table'[j] = table[j]
        OBVIOUS
      <4> QED BY <3>1, <4>1, ShowsKept
    <3> QED BY <1>2, <3>2 DEF Shows
  <2> QED BY <2>2 DEF ListMatches
<1> QED BY <1>5, <1>6, <1>7

-----------------------------------------------------------------------------
(* A page is mounted.                                                      *)

LEMMA EmptyForm == ClosedForm \in Form /\ ~ClosedForm.submitting
BY DEF ClosedForm, Form

LEMMA MountInv ==
  ASSUME NEW p \in Page, NEW c \in Filters(p), Mount(p, c), role' \in Role
  PROVE  PagesInv'
<1>1. Place'
  BY DEF Mount, Place
<1>2. View'
  <2>1. NoRows \in Tables(p) /\ {} \subseteq Item /\ (p \in Loading) \in BOOLEAN
    BY NoRowsType
  <2> QED BY <2>1 DEF Mount, View
<1>3. ASSUME p \in Loading PROVE LoadsTyped' /\ LatePrefix' /\ Current'
  <2>1. loads' = <<Sent(c)>> /\ Sent(c) \in LoadOf(p) /\ Sent(c).param = c
        /\ Sent(c).phase = "sent" /\ ~Sent(c).late
    BY <1>3, SentType DEF Mount
  <2>2. loads' \in Seq(LoadOf(p)) /\ Len(loads') = 1 /\ loads'[1] = Sent(c)
    BY <2>1
  <2>3. 1 <= MaxLoads
    BY PagesAssumption DEF PagesAssumption
  <2>4. LoadsTyped'
    BY <2>2, <2>3 DEF Mount, LoadsTyped
  <2>5. LatePrefix'
    BY <2>1, <2>2 DEF LatePrefix
  <2>6. Newest' = Sent(c)
    BY <2>2 DEF Newest
  <2>7. NewestMatches' /\ Pending'
    BY <2>1, <2>2, <2>6 DEF Mount, NewestMatches, Pending
  <2> QED BY <2>4, <2>5, <2>7 DEF Current
<1>4. ASSUME p \notin Loading PROVE LoadsTyped' /\ LatePrefix' /\ Current'
  <2>1. loads' = <<>>
    BY <1>4 DEF Mount
  <2>2. loads' \in Seq(LoadOf(p)) /\ Len(loads') = 0
    BY <2>1
  <2>3. LoadsTyped'
    BY <2>2, PagesAssumption DEF Mount, LoadsTyped, PagesAssumption
  <2>4. LatePrefix'
    BY <2>1 DEF LatePrefix
  <2>5. page' \in Plain
    BY <1>4 DEF Mount, Page, Plain
  <2> QED BY <2>3, <2>4, <2>5 DEF Current
<1>5. LoadsTyped' /\ LatePrefix' /\ Current'
  BY <1>3, <1>4
<1>6. WritesTyped' /\ Submission'
  BY EmptyForm DEF Mount, WritesTyped, Submission
<1> QED BY <1>1, <1>2, <1>5, <1>6 DEF PagesInv, PagesShape

-----------------------------------------------------------------------------
(* The loads.                                                              *)

LEMMA BegunInv ==
  ASSUME NEW remaining \in Seq(LoadOf(page)), NEW param \in Filters(page),
         \A m, n \in 1 .. Len(remaining) : m < n /\ remaining[n].late => remaining[m].late,
         Begin(remaining, param), page' = page
  PROVE  /\ LoadsTyped' /\ LatePrefix' /\ Current'
         /\ error' \in BOOLEAN /\ outdated' \in BOOLEAN
<1>1. /\ loads' \in Seq(LoadOf(page)) /\ Len(loads') = Len(remaining) + 1
      /\ Len(loads') <= MaxLoads
      /\ loads'[Len(loads')] = Sent(param)
      /\ \A m \in 1 .. Len(remaining) : loads'[m] = remaining[m]
      /\ error' = FALSE /\ outdated' = (param # choice')
  BY BeginProperties
<1>2. Sent(param).param = param /\ Sent(param).phase = "sent" /\ ~Sent(param).late
  BY SentType
<1>3. Len(remaining) \in Nat /\ DOMAIN loads' = 1 .. Len(loads')
  BY <1>1, LenProperties
<1>4. LoadsTyped'
  BY <1>1 DEF LoadsTyped
<1>5. ASSUME NEW m \in DOMAIN loads', NEW n \in DOMAIN loads', m < n, loads'[n].late
      PROVE  loads'[m].late
  <2>1. n # Len(loads')
    BY <1>1, <1>2, <1>5
  <2>2. n \in 1 .. Len(remaining) /\ m \in 1 .. Len(remaining)
    BY <1>1, <1>3, <1>5, <2>1
  <2> QED BY <1>1, <1>5, <2>2
<1>6. LatePrefix'
  BY <1>5 DEF LatePrefix
<1>7. Newest' = Sent(param)
  BY <1>1 DEF Newest
<1>8. NewestMatches'
  BY <1>1, <1>2, <1>7 DEF NewestMatches
<1>9. Pending'
  BY <1>1, <1>2, <1>3, <1>7 DEF Pending
<1> QED BY <1>1, <1>4, <1>6, <1>8, <1>9 DEF Current

LEMMA RefreshInv == ASSUME PagesInv, Refresh PROVE PagesInv'
<1> USE DEF PagesInv, PagesShape
<1>1. /\ UNCHANGED <<role, page, choice, loading, list, writes, form, table, overtaken, missed>>
      /\ Begin(loads, choice) /\ refreshing' = TRUE
  BY DEF Refresh
<1>2. loads \in Seq(LoadOf(page)) /\ choice \in Filters(page)
  BY DEF LoadsTyped, Place
<1>3. \A m, n \in 1 .. Len(loads) : m < n /\ loads[n].late => loads[m].late
  BY LoadsFacts DEF LatePrefix
<1>4. /\ LoadsTyped' /\ LatePrefix' /\ Current'
      /\ error' \in BOOLEAN /\ outdated' \in BOOLEAN
  BY <1>1, <1>2, <1>3, BegunInv
<1>5. View'
  BY <1>1, <1>4 DEF View
<1> QED BY <1>1, <1>4, <1>5, PlaceFrame, WritesFrame, SubmissionFrame

LEMMA ChooseInv ==
  ASSUME PagesInv, NEW c \in Filters(page), Choose(c) PROVE PagesInv'
<1> USE DEF PagesInv, PagesShape
<1>1. /\ UNCHANGED <<role, page, refreshing, list, writes, form, table, overtaken, missed>>
      /\ Begin(loads, c) /\ choice' = c /\ loading' = TRUE
  BY DEF Choose
<1>2. loads \in Seq(LoadOf(page))
  BY DEF LoadsTyped
<1>3. \A m, n \in 1 .. Len(loads) : m < n /\ loads[n].late => loads[m].late
  BY LoadsFacts DEF LatePrefix
<1>4. /\ LoadsTyped' /\ LatePrefix' /\ Current'
      /\ error' \in BOOLEAN /\ outdated' \in BOOLEAN
  BY <1>1, <1>2, <1>3, BegunInv
<1>5. View'
  BY <1>1, <1>4 DEF View
<1>6. Place'
  BY <1>1 DEF Place
<1> QED BY <1>1, <1>4, <1>5, <1>6, WritesFrame, SubmissionFrame

LEMMA ReadInv ==
  ASSUME PagesInv, NEW n \in DOMAIN loads, Read(n) PROVE PagesInv'
<1> USE DEF PagesInv, PagesShape
<1> DEFINE rows == Answer(page, loads[n].param, table)
           read == [[loads[n] EXCEPT !.phase = "answered"] EXCEPT !.answer = rows]
<1>1. /\ UNCHANGED <<role, page, choice, loading, refreshing, error, list, writes, form, table,
                     overtaken, outdated, missed>>
      /\ loads' = [loads EXCEPT ![n] = read]
  BY DEF Read, view, history
<1>2. Len(loads) \in Nat /\ n \in 1 .. Len(loads) /\ loads[n] \in LoadOf(page)
  BY LoadsFacts
<1>3. rows \in Tables(page)
  BY AnswerType DEF View
<1>4. /\ read \in LoadOf(page) /\ read.param = loads[n].param /\ read.late = loads[n].late
      /\ read.missed = loads[n].missed /\ read.answer = rows
  BY <1>2, <1>3 DEF LoadOf
<1>5. rows = Answer(page, loads[n].param, table)
  OBVIOUS
<1> HIDE DEF read, rows
<1>6. /\ loads' \in Seq(LoadOf(page)) /\ Len(loads') = Len(loads)
      /\ \A m \in 1 .. Len(loads) : loads'[m] = IF m = n THEN read ELSE loads[m]
  BY <1>1, <1>2, <1>4, ExceptSeq DEF LoadsTyped
<1>7. LoadsTyped'
  BY <1>1, <1>6 DEF LoadsTyped
<1>8. DOMAIN loads = 1 .. Len(loads) /\ DOMAIN loads' = 1 .. Len(loads)
  BY <1>6, LoadsFacts, LenProperties
<1>9. LatePrefix'
  BY <1>4, <1>6, <1>8 DEF LatePrefix
<1>10. Touched' = Touched /\ table' = table
  BY <1>1 DEF Touched
<1>11. CASE n # Len(loads)
  <2>1. Newest' = Newest /\ Pending' = Pending
    <3>1. ASSUME Len(loads) > 0 PROVE Newest' = Newest
      BY <1>2, <1>6, <1>11, <3>1 DEF Newest
    <3> QED BY <1>2, <1>6, <3>1 DEF Pending
  <2>2. NewestMatches' = NewestMatches /\ ListMatches' = ListMatches
    BY <1>1, <1>10, <2>1 DEF NewestMatches, ListMatches, Shows
  <2>3. Current'
    BY <1>1, <2>1, <2>2 DEF Current
  <2> QED BY <1>1, <1>7, <1>9, <2>3, PlaceFrame, ViewFrame, WritesFrame, SubmissionFrame
<1>12. CASE n = Len(loads)
  <2>1. Newest = loads[n] /\ Newest' = read
    BY <1>2, <1>6, <1>12 DEF Newest
  <2>2. Pending' = Pending
    BY <1>4, <1>6, <2>1 DEF Pending
  <2>3. \A i \in Item : Newest'.answer[i] = Answer(page', Newest'.param, table')[i]
    BY <1>1, <1>4, <1>5, <2>1
  <2>4. (outdated <=> Newest.param # choice) => NewestMatches'
    BY <1>1, <1>4, <2>1, <2>3 DEF NewestMatches, Shows
  <2>5. ListMatches' = ListMatches
    BY <1>1, <1>10 DEF ListMatches, Shows
  <2>6. Current'
    BY <1>1, <2>2, <2>4, <2>5 DEF Current, NewestMatches
  <2> QED BY <1>1, <1>7, <1>9, <2>6, PlaceFrame, ViewFrame, WritesFrame, SubmissionFrame
<1> QED BY <1>11, <1>12

\* What is left keeps its order.
LEMMA OvertakeLate ==
  ASSUME LoadsTyped, LatePrefix, NEW n \in DOMAIN loads
  PROVE  \A l, m \in 1 .. Len(Overtake(n)) :
           l < m /\ Overtake(n)[m].late => Overtake(n)[l].late
<1>1. /\ Len(Overtake(n)) = Len(loads) - 1
      /\ \A m \in 1 .. Len(loads) - 1 :
           Overtake(n)[m] = IF m < n THEN [loads[m] EXCEPT !.late = TRUE] ELSE loads[m + 1]
  BY OvertakeProperties
<1>2. /\ Len(loads) \in Nat /\ DOMAIN loads = 1 .. Len(loads)
      /\ \A m \in DOMAIN loads : loads[m] \in LoadOf(page)
  BY LoadsFacts
<1> SUFFICES ASSUME NEW l \in 1 .. Len(loads) - 1, NEW m \in 1 .. Len(loads) - 1,
                    l < m, Overtake(n)[m].late
             PROVE  Overtake(n)[l].late
  BY <1>1
<1>3. CASE l < n
  <2>1. l \in DOMAIN loads /\ loads[l] \in LoadOf(page)
    BY <1>2
  <2>2. [loads[l] EXCEPT !.late = TRUE].late
    BY <2>1, LoadChanges
  <2> QED BY <1>1, <1>3, <2>2
<1>4. CASE ~ (l < n)
  <2>1. ~ (m < n) /\ l + 1 \in DOMAIN loads /\ m + 1 \in DOMAIN loads /\ l + 1 < m + 1
    BY <1>2, <1>4
  <2>2. loads[m + 1].late
    BY <1>1, <2>1
  <2>3. loads[l + 1].late
    BY <2>1, <2>2 DEF LatePrefix
  <2> QED BY <1>1, <1>4, <2>3
<1> QED BY <1>3, <1>4

LEMMA DefaultsType ==
  ASSUME Place, NEW n PROVE Defaults(n) \subseteq Filters(page)
BY DEF Place, Defaults, Filters

\* The answer that is shown is the newest load's, or an older one's.
LEMMA ArrivalCurrent ==
  ASSUME View, LoadsTyped, LatePrefix, Current, NEW n \in DOMAIN loads,
         loads[n].phase = "answered", list' = loads[n].answer, overtaken' = loads[n].late,
         missed' = loads[n].missed, loads' = Overtake(n),
         UNCHANGED <<page, choice, error, outdated, table, writes>>
  PROVE  Current'
<1>1. SUFFICES ASSUME page \notin Plain, ~error
               PROVE  (Pending' => NewestMatches') /\ (~Pending' => ListMatches')
  BY DEF Current
<1>2. /\ Len(loads) \in Nat /\ n \in 1 .. Len(loads) /\ DOMAIN loads = 1 .. Len(loads)
      /\ \A m \in DOMAIN loads : loads[m] \in LoadOf(page)
  BY LoadsFacts
<1>3. /\ Len(loads') = Len(loads) - 1
      /\ \A m \in 1 .. Len(loads) - 1 :
           loads'[m] = IF m < n THEN [loads[m] EXCEPT !.late = TRUE] ELSE loads[m + 1]
  BY OvertakeProperties
<1>4. Touched' = Touched
  BY DEF Touched
<1>5. CASE n = Len(loads)
  <2>1. Newest = loads[n]
    BY <1>5 DEF Newest
  <2>2. ~Pending'
    <3>1. CASE Len(loads) = 1
      BY <1>3, <3>1 DEF Pending
    <3>2. CASE Len(loads) # 1
      <4>1. Len(loads) - 1 \in 1 .. Len(loads) - 1 /\ Len(loads) - 1 < n
            /\ Len(loads) - 1 \in DOMAIN loads
        BY <1>2, <1>5, <3>2
      <4>2. Newest' = [loads[Len(loads) - 1] EXCEPT !.late = TRUE]
        BY <1>3, <4>1 DEF Newest
      <4>3. [loads[Len(loads) - 1] EXCEPT !.late = TRUE].late
        BY <1>2, <4>1, LoadChanges
      <4> QED BY <4>2, <4>3 DEF Pending
    <3> QED BY <3>1, <3>2
  <2>3. ASSUME ~overtaken', ~outdated' PROVE Shows(list, choice, missed)'
    <3>1. Pending
      BY <1>2, <2>1, <2>3 DEF Pending
    <3>2. NewestMatches
      BY <1>1, <3>1 DEF Current
    <3>3. Shows(loads[n].answer, choice, loads[n].missed)
      BY <2>1, <2>3, <3>2 DEF NewestMatches
    <3> QED BY <1>4, <3>3 DEF Shows
  <2> QED BY <2>2, <2>3 DEF ListMatches
<1>6. CASE n # Len(loads)
  <2>1. Len(loads) - 1 \in 1 .. Len(loads) - 1 /\ ~ (Len(loads) - 1 < n)
        /\ Len(loads) \in DOMAIN loads /\ n < Len(loads) /\ (Len(loads) - 1) + 1 = Len(loads)
    BY <1>2, <1>6
  <2>2. Newest' = Newest
    BY <1>3, <2>1 DEF Newest
  <2>3. Pending' = Pending
    BY <1>2, <1>3, <2>1, <2>2 DEF Pending
  <2>4. ASSUME Pending PROVE NewestMatches'
    <3>1. NewestMatches
      BY <1>1, <2>4 DEF Current
    <3> QED BY <1>4, <2>2, <3>1 DEF NewestMatches, Shows
  <2>5. ASSUME ~Pending PROVE ListMatches'
    <3>1. loads[Len(loads)].late
      BY <1>2, <2>1, <2>5 DEF Pending, Newest
    <3>2. loads[n].late
      BY <2>1, <3>1 DEF LatePrefix
    <3> QED BY <3>2 DEF ListMatches
  <2> QED BY <2>3, <2>4, <2>5
<1> QED BY <1>5, <1>6

LEMMA LoadArrivesInv ==
  ASSUME PagesInv, NEW n \in DOMAIN loads, LoadArrives(n) PROVE PagesInv'
<1> USE DEF PagesInv, PagesShape
<1>1. /\ loads[n].phase = "answered" /\ list' = loads[n].answer
      /\ overtaken' = loads[n].late /\ missed' = loads[n].missed
      /\ choice' \in Defaults(n) /\ refreshing' = FALSE
      /\ UNCHANGED <<role, page, writes, form, table>>
  BY DEF LoadArrives
<1>2. /\ Len(loads) \in Nat /\ DOMAIN loads = 1 .. Len(loads) /\ n \in 1 .. Len(loads)
      /\ loads[n] \in LoadOf(page)
  BY LoadsFacts
<1>3. /\ loads[n].answer \in Tables(page) /\ loads[n].missed \subseteq Item
      /\ loads[n].late \in BOOLEAN
  BY <1>2, LoadChanges
<1>4. Place'
  BY <1>1, DefaultsType DEF Place
<1>5. /\ Overtake(n) \in Seq(LoadOf(page)) /\ Len(Overtake(n)) = Len(loads) - 1
      /\ \A m \in 1 .. Len(loads) - 1 :
           Overtake(n)[m] = IF m < n THEN [loads[m] EXCEPT !.late = TRUE] ELSE loads[m + 1]
  BY OvertakeProperties
<1>6. \A l, m \in 1 .. Len(Overtake(n)) : l < m /\ Overtake(n)[m].late => Overtake(n)[l].late
  BY OvertakeLate
<1>7. CASE choice' # choice
  <2>1. Begin(Overtake(n), choice') /\ loading' = TRUE
    BY <1>7 DEF LoadArrives
  <2>2. choice' \in Filters(page)
    BY <1>1, <1>4 DEF Place
  <2>3. /\ LoadsTyped' /\ LatePrefix' /\ Current'
        /\ error' \in BOOLEAN /\ outdated' \in BOOLEAN
    BY <1>1, <1>5, <1>6, <2>1, <2>2, BegunInv
  <2>4. View'
    BY <1>1, <1>3, <2>1, <2>3 DEF View
  <2> QED BY <1>1, <1>4, <2>3, <2>4, WritesFrame, SubmissionFrame
<1>8. CASE choice' = choice
  <2>1. loads' = Overtake(n) /\ loading' = FALSE /\ error' = error /\ outdated' = outdated
    BY <1>8 DEF LoadArrives, Begin
  <2>2. View'
    BY <1>1, <1>3, <2>1 DEF View
  <2>3. LoadsTyped'
    BY <1>1, <1>2, <1>5, <2>1, PagesAssumption DEF LoadsTyped, PagesAssumption
  <2>4. DOMAIN loads' = 1 .. Len(loads')
    BY <1>5, <2>1, LenProperties
  <2>5. LatePrefix'
    BY <1>6, <2>1, <2>4 DEF LatePrefix
  <2>6. Current'
    <3>1. View /\ LoadsTyped /\ LatePrefix /\ Current
      OBVIOUS
    <3>2. UNCHANGED <<page, choice, error, outdated, table, writes>>
      BY <1>1, <1>8, <2>1
    <3> HIDE DEF PagesInv, PagesShape
    <3> QED BY <1>1, <2>1, <3>1, <3>2, ArrivalCurrent
  <2>7. WritesTyped' /\ Submission'
    BY <1>1, WritesFrame, SubmissionFrame
  <2> QED BY <1>4, <2>2, <2>3, <2>5, <2>6, <2>7
<1> QED BY <1>7, <1>8

\* A load that fails leaves an error wherever there are rows.
LEMMA LoadFailsInv ==
  ASSUME PagesInv, NEW n \in DOMAIN loads, LoadFails(n) PROVE PagesInv'
<1> USE DEF PagesInv, PagesShape
<1>1. /\ loads' = RemoveAt(loads, n) /\ loading' = FALSE /\ refreshing' = FALSE
      /\ error' = (page # "profile")
      /\ UNCHANGED <<role, page, choice, list, writes, form, table, overtaken, outdated, missed>>
  BY DEF LoadFails, history
<1>2. Len(loads) \in Nat /\ DOMAIN loads = 1 .. Len(loads) /\ n \in 1 .. Len(loads)
  BY LoadsFacts
<1>3. /\ loads' \in Seq(LoadOf(page)) /\ Len(loads') = Len(loads) - 1
      /\ \A m \in 1 .. Len(loads) - 1 :
           loads'[m] = IF m < n THEN loads[m] ELSE loads[m + 1]
  BY <1>1, <1>2, RemoveAtProperties DEF LoadsTyped
<1>4. LoadsTyped'
  BY <1>1, <1>2, <1>3, PagesAssumption DEF LoadsTyped, PagesAssumption
<1>5. DOMAIN loads' = 1 .. Len(loads) - 1
  BY <1>3, LenProperties
<1>6. ASSUME NEW l \in DOMAIN loads', NEW m \in DOMAIN loads', l < m, loads'[m].late
      PROVE  loads'[l].late
  <2>1. PICK k \in DOMAIN loads : loads'[m] = loads[k] /\ k >= m /\ (k = m <=> m < n) /\ k <= m + 1
    <3>1. CASE m < n
      BY <1>2, <1>3, <1>5, <3>1
    <3>2. CASE ~ (m < n)
      BY <1>2, <1>3, <1>5, <3>2
    <3> QED BY <3>1, <3>2
  <2>2. PICK j \in DOMAIN loads : loads'[l] = loads[j] /\ j < k
    <3>1. CASE l < n
      BY <1>2, <1>3, <1>5, <1>6, <2>1, <3>1
    <3>2. CASE ~ (l < n)
      <4>1. l + 1 \in DOMAIN loads /\ l + 1 < k /\ loads'[l] = loads[l + 1]
        BY <1>2, <1>3, <1>5, <1>6, <2>1, <3>2
      <4> QED BY <4>1
    <3> QED BY <3>1, <3>2
  <2> QED BY <1>6, <2>1, <2>2 DEF LatePrefix
<1>7. LatePrefix'
  BY <1>6 DEF LatePrefix
<1>8. Current'
  BY <1>1 DEF Current, Plain
<1>9. View'
  BY <1>1 DEF View
<1> QED BY <1>1, <1>4, <1>7, <1>8, <1>9, PlaceFrame, WritesFrame, SubmissionFrame

LEMMA LoadStepsInv == ASSUME PagesInv, LoadSteps PROVE PagesInv'
BY ReadInv, LoadArrivesInv, LoadFailsInv DEF LoadSteps

-----------------------------------------------------------------------------
(* The writes.                                                             *)

\* What is left of a page by a step of its dialog and its buttons: the loads, the rows and
\* the view of them are not touched.
LEMMA UntouchedInv ==
  ASSUME PagesInv,
         UNCHANGED <<role, page, choice, loading, refreshing, error, list, loads, table,
                     overtaken, outdated, missed>>,
         Touched' = Touched, WritesTyped', Submission'
  PROVE  PagesInv'
<1> USE DEF PagesInv, PagesShape
<1>1. Current'
  BY CurrentKept
<1>2. LatePrefix'
  BY DEF LatePrefix
<1> QED BY <1>1, <1>2, PlaceFrame, ViewFrame, LoadsFrame

LEMMA DialogInv ==
  ASSUME PagesInv, OpenForm \/ CloseForm \/ NoServerSelected PROVE PagesInv'
<1>1. /\ UNCHANGED <<role, page, choice, loading, refreshing, error, list, loads, table, writes,
                     overtaken, outdated, missed>>
      /\ \/ form' = [form EXCEPT !.open = TRUE]
         \/ form' = [form EXCEPT !.open = FALSE]
         \/ form' = [form EXCEPT !.error = TRUE]
  BY DEF OpenForm, CloseForm, NoServerSelected, view, history
<1>2. form' \in Form /\ form'.submitting = form.submitting
  BY <1>1 DEF PagesInv, PagesShape, Submission, Form
<1>3. WritesTyped' /\ Submission'
  BY <1>1, <1>2, WritesFrame DEF PagesInv, PagesShape, Submission
<1>4. Touched' = Touched
  BY <1>1 DEF Touched
<1> QED BY <1>1, <1>3, <1>4, UntouchedInv

\* A write that is sent.
LEMMA StartProperties ==
  ASSUME WritesTyped, Place, NEW kind \in {"create", "read", "delete"}, NEW i \in Rows[page],
         NEW mark \in Marks(page) \cup {Absent}, Start(kind, i, mark), page' = page
  PROVE  /\ WritesTyped' /\ Touched' = Touched
         /\ \E new : new.kind = kind /\ writes' = writes \cup {new}
<1> DEFINE new == [kind |-> kind, item |-> i, mark |-> mark, param |-> choice, phase |-> "sent"]
<1>1. new \in WriteOf(page) /\ new.phase = "sent" /\ new.kind = kind
  BY DEF WriteOf, Place
<1>2. writes' = writes \cup {new}
  BY DEF Start
<1> HIDE DEF new
<1>3. WritesTyped'
  BY <1>1, <1>2 DEF WritesTyped
<1>4. Touched' = Touched
  BY <1>1, <1>2 DEF Touched
<1> QED BY <1>1, <1>2, <1>3, <1>4

LEMMA ClickInv ==
  ASSUME PagesInv, NEW kind \in {"read", "delete"}, NEW i \in Item,
         NEW mark \in Marks(page) \cup {Absent}, ClickRow(kind, i, mark)
  PROVE  PagesInv'
<1> USE DEF PagesInv, PagesShape
<1>1. /\ UNCHANGED <<role, page, choice, loading, refreshing, error, list, loads, form, table,
                     overtaken, outdated, missed>>
      /\ Start(kind, i, mark) /\ list[i] # Absent
  BY DEF ClickRow, view, history, Displayed
<1>2. i \in Rows[page]
  BY <1>1, TableType DEF View
<1>3. WritesTyped' /\ Touched' = Touched /\ \E new : new.kind = kind /\ writes' = writes \cup {new}
  BY <1>1, <1>2, StartProperties
<1>4. Submission'
  BY <1>1, <1>3 DEF Submission
<1> QED BY <1>1, <1>3, <1>4, UntouchedInv

LEMMA RowButtonsInv ==
  ASSUME PagesInv, NEW i \in Item,
         HandleMarkRead(i) \/ HandleDeleteAlert(i) \/ HandleDeleteServer(i)
  PROVE  PagesInv'
<1>1. CASE HandleMarkRead(i)
  BY <1>1, ClickInv DEF HandleMarkRead, Marks
<1>2. CASE HandleDeleteAlert(i) \/ HandleDeleteServer(i)
  BY <1>2, ClickInv DEF HandleDeleteAlert, HandleDeleteServer
<1> QED BY <1>1, <1>2

\* A submission is sent only while none is in progress.
LEMMA SubmitInv ==
  ASSUME PagesInv, NEW i \in Item, HandleAddServer(i) \/ HandleCreateMetric(i)
  PROVE  PagesInv'
<1> USE DEF PagesInv, PagesShape
<1>1. Submit(i) /\ ~form.submitting
  BY DEF HandleAddServer, HandleCreateMetric, ServerDialog, MetricDialog
<1>2. /\ UNCHANGED <<role, page, choice, loading, refreshing, error, list, loads, table,
                     overtaken, outdated, missed>>
      /\ i \in Rows[page]
      /\ form' = [open |-> TRUE, submitting |-> TRUE, error |-> FALSE]
  BY <1>1 DEF Submit, view, history
<1>3. PICK mark \in Marks(page) : Start("create", i, mark)
  BY <1>1 DEF Submit
<1>4. /\ WritesTyped' /\ Touched' = Touched
      /\ \E new : new.kind = "create" /\ writes' = writes \cup {new}
  BY <1>2, <1>3, StartProperties
<1>5. \A w \in writes : w.kind # "create"
  BY <1>1 DEF Submission
<1>6. Submission'
  BY <1>2, <1>4, <1>5 DEF Submission, Form
<1> QED BY <1>2, <1>4, <1>6, UntouchedInv

LEMMA WriteFacts ==
  ASSUME WritesTyped, NEW w \in writes
  PROVE  /\ w \in WriteOf(page) /\ w.kind \in {"create", "read", "delete"}
         /\ w.item \in Rows[page] /\ w.mark \in Marks(page) \cup {Absent}
         /\ w.param \in Filters(page) /\ w.phase \in {"sent", "applied"}
BY DEF WritesTyped, WriteOf

\* A table of which one row was changed.
LEMMA RowChanged ==
  ASSUME NEW p \in Page, NEW t \in Tables(p), NEW i \in Rows[p], NEW mark \in Marks(p) \cup {Absent}
  PROVE  [t EXCEPT ![i] = mark] \in Tables(p)
<1>1. i \in Item
  BY RowsArePages
<1> QED BY <1>1 DEF Tables

LEMMA ApplyInv ==
  ASSUME PagesInv, NEW w \in writes, Apply(w) PROVE PagesInv'
<1> USE DEF PagesInv, PagesShape
<1> DEFINE done == [w EXCEPT !.phase = "applied"]
<1>1. /\ UNCHANGED <<role, page, choice, loading, refreshing, error, list, loads, form,
                     overtaken, outdated, missed>>
      /\ table' = [table EXCEPT ![w.item] = w.mark]
      /\ writes' = (writes \ {w}) \cup {done} /\ w.phase = "sent"
  BY DEF Apply, view, history
<1>2. /\ w \in WriteOf(page) /\ w.item \in Rows[page] /\ w.mark \in Marks(page) \cup {Absent}
  BY WriteFacts
<1>3. /\ done \in WriteOf(page) /\ done.kind = w.kind /\ done.item = w.item
      /\ done.phase = "applied"
  BY <1>2 DEF WriteOf
<1> HIDE DEF done
<1>4. WritesTyped'
  BY <1>1, <1>3 DEF WritesTyped
<1>5. Submission'
  BY <1>1, <1>3 DEF Submission
<1>6. table' \in Tables(page)
  BY <1>1, <1>2, RowChanged DEF View, Place
<1>7. View'
  BY <1>1, <1>6 DEF View
<1>8. Touched' = Touched \cup {w.item}
  BY <1>1, <1>3 DEF Touched
<1>9. ASSUME NEW i \in Item \ Touched' PROVE i \notin Touched /\ table'[i] = table[i]
  BY <1>1, <1>8, TableType DEF View
<1>10. Current'
  BY <1>1, <1>9, CurrentKept
<1>11. LatePrefix'
  BY <1>1 DEF LatePrefix
<1> QED BY <1>1, <1>4, <1>5, <1>7, <1>10, <1>11, PlaceFrame, LoadsFrame

\* A write that is answered is gone, and with it its submission.
LEMMA AnsweredWrite ==
  ASSUME WritesTyped, Submission, NEW w \in writes, writes' = writes \ {w}, page' = page,
         form' \in Form, w.kind = "create" => ~form'.submitting,
         w.kind # "create" => form' = form
  PROVE  WritesTyped' /\ Submission'
<1>1. WritesTyped'
  BY DEF WritesTyped
<1>2. CASE w.kind = "create"
  <2>1. \A v \in writes' : v.kind # "create"
    BY <1>2 DEF Submission
  <2> QED BY <1>1, <1>2, <2>1 DEF Submission
<1>3. CASE w.kind # "create"
  BY <1>1, <1>3 DEF Submission
<1> QED BY <1>2, <1>3

LEMMA WriteSucceedsInv ==
  ASSUME PagesInv, NEW w \in writes, WriteSucceeds(w) PROVE PagesInv'
<1> USE DEF PagesInv, PagesShape
<1>1. /\ UNCHANGED <<role, page, choice, loading, list, table, overtaken, missed>>
      /\ writes' = writes \ {w} /\ form' = IF w.kind = "create" THEN ClosedForm ELSE form
      /\ Begin(loads, w.param) /\ refreshing' = TRUE
  BY DEF WriteSucceeds
<1>2. form' \in Form /\ (w.kind = "create" => ~form'.submitting)
      /\ (w.kind # "create" => form' = form)
  BY <1>1, EmptyForm DEF Submission
<1>3. WritesTyped' /\ Submission'
  BY <1>1, <1>2, AnsweredWrite
<1>4. w.param \in Filters(page) /\ loads \in Seq(LoadOf(page))
  BY WriteFacts DEF LoadsTyped
<1>5. \A m, n \in 1 .. Len(loads) : m < n /\ loads[n].late => loads[m].late
  BY LoadsFacts DEF LatePrefix
<1>6. /\ LoadsTyped' /\ LatePrefix' /\ Current'
      /\ error' \in BOOLEAN /\ outdated' \in BOOLEAN
  BY <1>1, <1>4, <1>5, BegunInv
<1>7. View'
  BY <1>1, <1>6 DEF View
<1> QED BY <1>1, <1>3, <1>6, <1>7, PlaceFrame

\* A row that is missed changes neither the order of the loads nor their types.
LEMMA MissedLoads ==
  ASSUME LoadsTyped, LatePrefix, missed \subseteq Item, NEW i \in Item, Miss(i), page' = page
  PROVE  LoadsTyped' /\ LatePrefix' /\ missed' \subseteq Item
<1>1. /\ loads' \in Seq(LoadOf(page)) /\ Len(loads') = Len(loads)
      /\ \A n \in DOMAIN loads :
           loads'[n] = IF loads[n].phase = "answered"
                       THEN [loads[n] EXCEPT !.missed = @ \cup {i}] ELSE loads[n]
      /\ missed' \subseteq Item
  BY MissProperties
<1>2. /\ DOMAIN loads = 1 .. Len(loads) /\ \A n \in DOMAIN loads : loads[n] \in LoadOf(page)
      /\ DOMAIN loads' = 1 .. Len(loads)
  BY <1>1, LoadsFacts, LenProperties
<1>3. ASSUME NEW n \in DOMAIN loads PROVE loads'[n].late = loads[n].late
  <2>1. [loads[n] EXCEPT !.missed = @ \cup {i}].late = loads[n].late
    BY <1>2, LoadChanges
  <2> QED BY <1>1, <2>1
<1>4. LatePrefix'
  BY <1>2, <1>3 DEF LatePrefix
<1> QED BY <1>1, <1>4 DEF LoadsTyped

LEMMA WriteFailsInv ==
  ASSUME PagesInv, NEW w \in writes, WriteFails(w) PROVE PagesInv'
<1> USE DEF PagesInv, PagesShape
<1>1. /\ UNCHANGED <<role, page, choice, loading, refreshing, error, list, table,
                     overtaken, outdated>>
      /\ writes' = writes \ {w}
      /\ form' = IF w.kind = "create"
                 THEN [[form EXCEPT !.submitting = FALSE] EXCEPT !.error = TRUE] ELSE form
      /\ IF w.phase = "applied" THEN Miss(w.item) ELSE UNCHANGED <<missed, loads>>
  BY DEF WriteFails, view
<1>2. form' \in Form /\ (w.kind = "create" => ~form'.submitting)
      /\ (w.kind # "create" => form' = form)
  BY <1>1 DEF Submission, Form
<1>3. WritesTyped' /\ Submission'
  BY <1>1, <1>2, AnsweredWrite
<1>4. w.item \in Item
  BY WriteFacts, RowsArePages DEF Place
<1>5. CASE w.phase = "applied"
  <2>1. Miss(w.item) /\ missed \subseteq Item
    BY <1>1, <1>5 DEF View
  <2>2. LoadsTyped' /\ LatePrefix' /\ missed' \subseteq Item
    BY <1>1, <1>4, <2>1, MissedLoads
  <2>3. Touched \subseteq Touched' \cup {w.item}
    BY <1>1 DEF Touched
  <2>4. \A j \in Item \ (Touched' \cup {w.item}) : j \notin Touched /\ table'[j] = table[j]
    BY <1>1, <2>3
  <2>5. Current'
    BY <1>1, <1>4, <2>1, <2>4, CurrentMissed
  <2>6. View'
    BY <1>1, <2>2 DEF View
  <2> QED BY <1>1, <1>3, <2>2, <2>5, <2>6, PlaceFrame
<1>6. CASE w.phase # "applied"
  <2>1. UNCHANGED <<missed, loads>>
    BY <1>1, <1>6
  <2>2. Touched' = Touched
    BY <1>1, <1>6 DEF Touched
  <2> QED BY <1>1, <1>3, <2>1, <2>2, UntouchedInv
<1> QED BY <1>5, <1>6

LEMMA WriteStepsInv ==
  ASSUME PagesInv, NEW kind, WriteSteps(kind) PROVE PagesInv'
BY ApplyInv, WriteSucceedsInv, WriteFailsInv DEF WriteSteps

LEMMA OthersChangeInv ==
  ASSUME PagesInv, NEW i \in Item, OthersChange(i) PROVE PagesInv'
<1> USE DEF PagesInv, PagesShape
<1>1. /\ UNCHANGED <<role, page, choice, loading, refreshing, error, list, writes, form,
                     overtaken, outdated>>
      /\ Miss(i)
  BY DEF OthersChange, view
<1>2. PICK t \in Tables(page) : t[i] # table[i] /\ table' = [table EXCEPT ![i] = t[i]]
  BY DEF OthersChange
<1>3. table' \in Tables(page)
  BY <1>2 DEF View, Tables
<1>4. missed \subseteq Item
  BY DEF View
<1>5. LoadsTyped' /\ LatePrefix' /\ missed' \subseteq Item
  BY <1>1, <1>4, MissedLoads
<1>6. Touched' = Touched
  BY <1>1 DEF Touched
<1>7. \A j \in Item \ (Touched' \cup {i}) : j \notin Touched /\ table'[j] = table[j]
  BY <1>2, <1>6, TableType DEF View
<1>8. Current'
  BY <1>1, <1>4, <1>7, CurrentMissed
<1>9. View'
  BY <1>1, <1>3, <1>5 DEF View
<1> QED BY <1>1, <1>5, <1>8, <1>9, PlaceFrame, WritesFrame, SubmissionFrame

-----------------------------------------------------------------------------
(* The links, and the pages together.                                      *)

LEMMA InitialFiltersType == ASSUME NEW p PROVE InitialFilters(p) \subseteq Filters(p)
BY DEF InitialFilters, Filters

LEMMA NavigationInv ==
  ASSUME PagesInv, NEW p \in Page, FollowLink(p) \/ Traverse(p) PROVE PagesInv'
<1>1. PICK c \in InitialFilters(p) : Mount(p, c)
  BY DEF FollowLink, Traverse
<1>2. role' \in Role
  BY DEF FollowLink, Traverse, PagesInv, PagesShape, Place
<1>3. c \in Filters(p)
  BY InitialFiltersType
<1> QED BY <1>1, <1>2, <1>3, MountInv

\* The rows of the prediction table lead to pages that exist.
LEMMA OpenDetailsInv ==
  ASSUME PagesInv, NEW i \in Item, OpenDetails(i) PROVE PagesInv'
<1>1. Mount("details", i) /\ role' \in Role
  BY DEF OpenDetails, PagesInv, PagesShape, Place
<1>2. i \in Rows[page] /\ page \in {"dashboard", "predictions"}
  BY TableType DEF OpenDetails, Displayed, PagesInv, PagesShape, View
<1>3. i \in Filters("details")
  BY <1>2, PagesAssumption DEF PagesAssumption, Filters
<1>4. "details" \in Page
  BY DEF Page, Loading
<1> QED BY <1>1, <1>3, <1>4, MountInv

LEMMA PagesNextInv == ASSUME PagesInv, PagesNext PROVE PagesInv'
<1>1. CASE Refresh \/ OpenForm \/ CloseForm \/ NoServerSelected \/ LoadSteps
  BY <1>1, RefreshInv, DialogInv, LoadStepsInv
<1>2. CASE \E c \in Filters(page) : Choose(c)
  BY <1>2, ChooseInv
<1>3. ASSUME NEW i \in Item,
             \/ HandleMarkRead(i) \/ HandleDeleteAlert(i) \/ HandleDeleteServer(i)
             \/ HandleAddServer(i) \/ HandleCreateMetric(i)
             \/ OpenDetails(i) \/ OthersChange(i)
      PROVE  PagesInv'
  BY <1>3, RowButtonsInv, SubmitInv, OpenDetailsInv, OthersChangeInv
<1>4. CASE \E kind \in {"create", "read", "delete"} : WriteSteps(kind)
  BY <1>4, WriteStepsInv
<1>5. CASE \E p \in Page : FollowLink(p) \/ Traverse(p)
  BY <1>5, NavigationInv
<1> QED BY <1>1, <1>2, <1>3, <1>4, <1>5 DEF PagesNext

LEMMA PagesFrame == ASSUME PagesInv, UNCHANGED pageVars PROVE PagesInv'
<1>1. /\ UNCHANGED <<role, page, choice, loading, refreshing, error, list, loads, form, table, writes,
                     overtaken, outdated, missed>>
  BY DEF pageVars
<1>2. Touched' = Touched
  BY <1>1 DEF Touched
<1>3. WritesTyped' /\ Submission'
  BY <1>1, WritesFrame, SubmissionFrame DEF PagesInv, PagesShape
<1> QED BY <1>1, <1>2, <1>3, UntouchedInv

-----------------------------------------------------------------------------
(* The console.                                                            *)

\* While the login page is shown no page is mounted.
Inv ==
  /\ screen \in {"login", "console"} /\ LoginInv /\ PagesInv
  /\ screen = "login" => page = "settings"

LEMMA SettingsPage == "settings" \in Page /\ "settings" \in Plain /\ Filters("settings") = {"none"}
BY DEF Page, Plain, Filters

LEMMA InitInv == Init => Inv
<1> SUFFICES ASSUME Init PROVE Inv
  OBVIOUS
<1> USE SettingsPage DEF Init
<1>1. LoginInv
  BY LoginInitInv
<1>2. Place
  <2>1. SomeRole \in Role
    BY PagesAssumption DEF PagesAssumption, SomeRole
  <2> QED BY <2>1 DEF Place
<1>3. View
  <2>1. NoRows \in Tables("settings")
    BY NoRowsType
  <2> QED BY <2>1 DEF View
<1>4. LoadsTyped
  <2>1. <<>> \in Seq(LoadOf("settings")) /\ Len(<<>>) = 0
    OBVIOUS
  <2> QED BY <2>1, PagesAssumption DEF LoadsTyped, PagesAssumption
<1>5. WritesTyped /\ Submission
  BY EmptyForm DEF WritesTyped, Submission
<1>6. LatePrefix /\ Current
  BY DEF LatePrefix, Current
<1> QED BY <1>1, <1>2, <1>3, <1>4, <1>5, <1>6 DEF Inv, PagesInv, PagesShape

LEMMA NextInv == Inv /\ [Next]_vars => Inv'
<1> SUFFICES ASSUME Inv, [Next]_vars PROVE Inv'
  OBVIOUS
<1> USE DEF Inv
<1>1. CASE AtLogin /\ LoginNext
  <2>1. screen' = screen /\ page' = page /\ UNCHANGED pageVars
    BY <1>1 DEF AtLogin, pageVars
  <2>2. LoginInv'
    BY <1>1, LoginNextInv
  <2>3. PagesInv'
    BY <2>1, PagesFrame
  <2> QED BY <2>1, <2>2, <2>3
<1>2. CASE InConsole /\ PagesNext
  <2>1. screen = "console" /\ screen' = screen /\ UNCHANGED loginVars
    BY <1>2 DEF InConsole
  <2>2. LoginInv'
    BY <2>1, LoginFrame
  <2>3. PagesInv'
    BY <1>2, PagesNextInv
  <2> QED BY <2>1, <2>2, <2>3
<1>3. CASE SignedIn
  <2>1. PICK p \in Page : \E c \in InitialFilters(p) : Mount(p, c)
    BY <1>3 DEF SignedIn
  <2>2. PICK c \in InitialFilters(p) : Mount(p, c)
    BY <2>1
  <2>3. c \in Filters(p) /\ role' \in Role /\ screen' = "console"
    BY <1>3, InitialFiltersType DEF SignedIn
  <2>4. PagesInv'
    BY <2>2, <2>3, MountInv
  <2>5. LoginInv'
    BY <1>3, LoginUnmountInv DEF SignedIn
  <2> QED BY <2>3, <2>4, <2>5
<1>4. CASE SignedOut
  <2>1. Mount("settings", "none") /\ role' = SomeRole /\ screen' = "login" /\ UNCHANGED loginVars
    BY <1>4 DEF SignedOut
  <2>2. role' \in Role
    BY <2>1, PagesAssumption DEF PagesAssumption, SomeRole
  <2>3. PagesInv'
    BY <2>1, <2>2, SettingsPage, MountInv
  <2>4. LoginInv'
    BY <2>1, LoginFrame
  <2>5. page' = "settings"
    BY <2>1 DEF Mount
  <2> QED BY <2>1, <2>3, <2>4, <2>5
<1>5. CASE UNCHANGED vars
  <2>1. screen' = screen /\ UNCHANGED loginVars /\ UNCHANGED pageVars /\ page' = page
    BY <1>5 DEF vars, pageVars
  <2> QED BY <2>1, LoginFrame, PagesFrame
<1> QED BY <1>1, <1>2, <1>3, <1>4, <1>5 DEF Next

\* The two pages, and what is in progress on them, keep the shape on which every other
\* result rests.
THEOREM Invariance == Spec => []Inv
BY InitInv, NextInv, PTL DEF Spec

LEMMA InvTypes == Inv => TypeOK
<1> SUFFICES ASSUME Inv PROVE TypeOK
  OBVIOUS
<1> USE DEF Inv, PagesInv, PagesShape
<1>1. page \in Page
  BY DEF Place
<1>2. \A n \in DOMAIN loads : loads[n] \in Load
  <2>1. TAKE n \in DOMAIN loads
  <2>2. loads[n] \in LoadOf(page)
    BY LoadsFacts
  <2>3. loads[n].answer \in [Item -> (UNION {Marks(p) : p \in Page}) \cup {Absent}]
    <3>1. loads[n].answer \in [Item -> Marks(page) \cup {Absent}]
      BY <2>2 DEF LoadOf, Tables
    <3>2. Marks(page) \cup {Absent} \subseteq (UNION {Marks(p) : p \in Page}) \cup {Absent}
      BY <1>1
    <3> QED BY <3>1, <3>2
  <2>4. loads[n].param \in UNION {Filters(p) : p \in Page}
    BY <1>1, <2>2 DEF LoadOf
  <2> QED BY <2>2, <2>3, <2>4 DEF LoadOf, Load
<1>3. ASSUME NEW w \in writes PROVE w \in Write
  <2>1. w \in WriteOf(page)
    BY DEF WritesTyped
  <2>2. /\ w.item \in Item
        /\ w.mark \in (UNION {Marks(p) : p \in Page}) \cup {Absent}
        /\ w.param \in UNION {Filters(p) : p \in Page}
    BY <1>1, <2>1, RowsArePages DEF WriteOf
  <2> QED BY <2>1, <2>2 DEF WriteOf, Write
<1>4. PagesTypeOK
  <2>1. role \in Role /\ page \in Page /\ choice \in Filters(page)
    BY DEF Place
  <2>2. Len(loads) <= MaxLoads
    BY DEF LoadsTyped
  <2>3. form \in Form
    BY DEF Submission
  <2> QED BY <1>2, <1>3, <2>1, <2>2, <2>3 DEF View, Form, PagesTypeOK
<1> QED BY <1>4 DEF LoginInv, TypeOK

\* Every variable stays in its type: an answer has the rows of some page, a form three
\* flags, and no more loads are in progress than the bound allows.
THEOREM TypeCorrect == Spec => []TypeOK
BY Invariance, InvTypes, PTL

\* The forms of the login page never have two requests in flight.
THEOREM FormLockedHolds == Spec => []FormLocked
<1>1. Inv => FormLocked
  BY LoginInvImplies DEF Inv
<1> QED BY <1>1, Invariance, PTL

\* The code form names the address its code went to, unless that was edited in between.
THEOREM CodeFormNamesAddressHolds == Spec => []CodeFormNamesAddress
<1>1. Inv => CodeFormNamesAddress
  BY LoginInvImplies DEF Inv
<1> QED BY <1>1, Invariance, PTL

\* A dialog never has two submissions in progress.
THEOREM OneSubmissionHolds == Spec => []OneSubmission
<1>1. ASSUME Inv PROVE OneSubmission
  <2> DEFINE creates == {w \in writes : w.kind = "create"}
  <2>1. Submission
    BY <1>1 DEF Inv, PagesInv, PagesShape
  <2>2. \A v, w \in creates : v = w
    BY <2>1 DEF Submission
  <2>3. form.submitting <=> creates # {}
    BY <2>1 DEF Submission
  <2> HIDE DEF creates
  <2>4. Cardinality(creates) <= 1
    <3>1. CASE creates = {}
      <4>1. Cardinality({}) = 0
        BY FS_EmptySet
      <4> QED BY <3>1, <4>1
    <3>2. CASE creates # {}
      <4>1. PICK w : creates = {w}
        BY <2>2, <3>2
      <4>2. Cardinality({w}) = 1
        BY FS_Singleton
      <4> QED BY <4>1, <4>2
    <3> QED BY <3>1, <3>2
  <2> QED BY <2>3, <2>4 DEF OneSubmission, creates
<1> QED BY <1>1, Invariance, PTL

\* Whatever the order of the answers, a page with nothing loading and no error shows what
\* the server has, but for the four gaps the property names.
THEOREM ListIsCurrentHolds == Spec => []ListIsCurrent
<1>1. ASSUME Inv PROVE ListIsCurrent
  <2> SUFFICES ASSUME loads = <<>>, ~error, ~overtaken, ~outdated,
                      NEW i \in Item \ (missed \cup {w.item : w \in writes})
               PROVE  list[i] = Answer(page, choice, table)[i]
    BY DEF ListIsCurrent
  <2>1. View /\ Current
    BY <1>1 DEF Inv, PagesInv, PagesShape
  <2>2. CASE page \in Plain
    <3>1. Rows[page] = {}
      BY <2>2, PagesAssumption DEF PagesAssumption
    <3>2. Answer(page, choice, table) \in Tables(page)
      BY <2>1, AnswerType DEF View
    <3>3. list[i] = Absent /\ Answer(page, choice, table)[i] = Absent
      BY <2>1, <3>1, <3>2 DEF View, Tables
    <3> QED BY <3>3
  <2>3. CASE page \notin Plain
    <3>1. ~Pending
      BY DEF Pending
    <3>2. Shows(list, choice, missed)
      BY <2>1, <2>3, <3>1 DEF Current, ListMatches
    <3>3. i \notin missed \cup Touched
      BY DEF Touched
    <3> QED BY <3>2, <3>3 DEF Shows
  <2> QED BY <2>2, <2>3
<1> QED BY <1>1, Invariance, PTL
=============================================================================
