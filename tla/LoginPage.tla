------------------------------- MODULE LoginPage -------------------------------
(***************************************************************************)
(* The login page of the console (pages/Login.jsx): three modes, the two   *)
(* steps of the password reset by mailed code, and the Google sign-in      *)
(* beside them.  An answer acts on the page as it is when it arrives, not  *)
(* as it was when the request was sent: the links that switch the mode and *)
(* the e-mail field stay usable meanwhile.                                 *)
(*                                                                         *)
(* What the server answers is chosen when the answer arrives.  Messages,   *)
(* passwords and the checks of the fields that only refuse a submission    *)
(* are abstracted.                                                         *)
(***************************************************************************)
EXTENDS Naturals, FiniteSets

CONSTANTS
  Address,    \* e-mail addresses the user may type
  NoAddress,  \* the empty field
  MaxCheck    \* bound: verifyAuth runs at the same time

ASSUME LoginAssumption == NoAddress \notin Address /\ MaxCheck \in Nat

VARIABLES
  mode, otpStep, email, loginLoading,    \* state of Login
  googleLoading, googleModalOpen,
  requests,        \* requests of the forms in flight
  googleRequest,   \* the Google sign-in in progress
  checks,          \* verifyAuth runs started by onLogin
  accepted,        \* a code was verified: onLogin is due, or was called
  due,             \* the timer of 400 ms that calls onLogin
  codeFor,         \* history: the address the last code was sent to
  edited           \* history: e-mail field edited while its code was being requested

loginVars == <<mode, otpStep, email, loginLoading, googleLoading, googleModalOpen,
               requests, googleRequest, checks, accepted, due, codeFor, edited>>

google == <<googleLoading, googleModalOpen, googleRequest>>
reset == <<accepted, due, codeFor, edited>>

Mode == {"login", "register", "forgot"}

Requests == [kind : {"login", "register", "sendOtp", "resendOtp", "verifyOtp"},
             email : Address]

\* prompt: Google's own window, which the user may dismiss for good; dialog: the page's.
GoogleRequest == {"none", "prompt", "dismissed", "sdk", "dialog"}

LoginInit ==
  /\ mode = "login" /\ otpStep = 1 /\ email = NoAddress /\ loginLoading = FALSE
  /\ googleLoading = FALSE /\ googleModalOpen = FALSE
  /\ requests = {} /\ googleRequest = "none"
  /\ checks = 0 /\ accepted = FALSE /\ due = FALSE
  /\ codeFor = NoAddress /\ edited = FALSE

\* The page is left, and what it waited for is dropped with it.
LoginUnmount ==
  /\ mode' = "login" /\ otpStep' = 1 /\ email' = NoAddress /\ loginLoading' = FALSE
  /\ googleLoading' = FALSE /\ googleModalOpen' = FALSE
  /\ requests' = {} /\ googleRequest' = "none"
  /\ checks' = 0 /\ accepted' = FALSE /\ due' = FALSE
  /\ codeFor' = NoAddress /\ edited' = FALSE

-----------------------------------------------------------------------------
(* The fields and the links, which no request disables.                    *)

\* The e-mail field is in every form but the one that asks for the code.
EditEmail(e) ==
  /\ ~ (mode = "forgot" /\ otpStep = 2)
  /\ email' = e
  /\ edited' = (edited \/ (e # email /\ \E r \in requests : r.kind = "sendOtp"))
  /\ UNCHANGED <<mode, otpStep, loginLoading, google, requests, checks, accepted, due, codeFor>>

SetMode(m, step) ==
  /\ mode' = m /\ otpStep' = step
  /\ UNCHANGED <<email, loginLoading, google, requests, checks, reset>>

\* "Sign up", "Sign in", "Back to Sign In".
SwitchMode ==
  \/ mode = "login" /\ SetMode("register", otpStep)
  \/ mode # "login" /\ SetMode("login", otpStep)

\* Mutant of ForgotPassword: setOtpStep(1) is forgotten.
ForgotPasswordSameStep == mode = "login" /\ SetMode("forgot", otpStep)

\* "Forgot password?"
ForgotPassword == mode = "login" /\ SetMode("forgot", 1)

\* "Change email"
ChangeEmail == mode = "forgot" /\ otpStep = 2 /\ SetMode("forgot", 1)

-----------------------------------------------------------------------------
(* The forms: each sets loading, which disables every submit button.       *)

\* The form that is shown, when its buttons are enabled.
CredentialsForm == mode \in {"login", "register"} /\ ~loginLoading
EmailForm == mode = "forgot" /\ otpStep = 1 /\ ~loginLoading
CodeForm == mode = "forgot" /\ otpStep = 2 /\ ~loginLoading

Request(kind) ==
  /\ email # NoAddress
  /\ requests' = requests \cup {[kind |-> kind, email |-> email]}
  /\ loginLoading' = TRUE
  /\ UNCHANGED <<mode, otpStep, email, google, checks, accepted, due, codeFor>>

\* Sign in or create an account.
HandleSubmit == CredentialsForm /\ Request(mode) /\ UNCHANGED edited

\* Step 1 of the reset.
HandleSendOtp == EmailForm /\ Request("sendOtp") /\ edited' = FALSE

\* Mutant of HandleResendOtp: the link is not disabled.
HandleResendOtpAlways ==
  mode = "forgot" /\ otpStep = 2 /\ Request("resendOtp") /\ UNCHANGED edited

HandleResendOtp == CodeForm /\ Request("resendOtp") /\ UNCHANGED edited

\* Step 2 of the reset, with a code of six digits and matching passwords.
HandleVerifyOtp == CodeForm /\ Request("verifyOtp") /\ UNCHANGED edited

\* onLogin is verifyAuth of App.
OnLogin == checks < MaxCheck /\ checks' = checks + 1

\* A 2xx answer changes the mode or the step whatever the page shows by now.  After a
\* verified code loading is left set: the page is expected to go.
FormSucceeds(r) ==
  /\ r \in requests
  /\ requests' = requests \ {r}
  /\ mode' = IF r.kind = "register" THEN "login" ELSE mode
  /\ otpStep' = IF r.kind = "sendOtp" THEN 2 ELSE otpStep
  /\ codeFor' = IF r.kind \in {"sendOtp", "resendOtp"} THEN r.email ELSE codeFor
  /\ IF r.kind = "verifyOtp" THEN accepted' = TRUE /\ due' = TRUE /\ UNCHANGED loginLoading
                             ELSE loginLoading' = FALSE /\ UNCHANGED <<accepted, due>>
  /\ IF r.kind = "login" THEN OnLogin ELSE UNCHANGED checks
  /\ UNCHANGED <<email, google, edited>>

\* Mutant of FormFails: setLoading(false) is missing on the error path.
FormFailsLocked(r) ==
  /\ r \in requests
  /\ requests' = requests \ {r}
  /\ UNCHANGED <<mode, otpStep, email, loginLoading, google, checks, reset>>

\* Any error, a lost answer included, is shown and unlocks the forms.  A code may have been
\* sent although its request failed.
FormFails(r) ==
  /\ r \in requests
  /\ requests' = requests \ {r}
  /\ loginLoading' = FALSE
  /\ UNCHANGED <<mode, otpStep, email, google, checks, reset>>

\* setTimeout: 400 ms after the code was verified.
TimerFires ==
  /\ due /\ due' = FALSE
  /\ OnLogin
  /\ UNCHANGED <<mode, otpStep, email, loginLoading, google, requests, accepted, codeFor, edited>>

-----------------------------------------------------------------------------
(* Google, which no form waits for.                                        *)

Google(loading, open, request) ==
  /\ googleLoading' = loading /\ googleModalOpen' = open /\ googleRequest' = request
  /\ UNCHANGED <<mode, otpStep, email, loginLoading, requests, reset>>

GoogleButton == mode # "forgot" /\ ~googleLoading /\ ~loginLoading

\* Google's own prompt where the SDK is configured, else the dialog of the page.
HandleGoogleClick ==
  /\ GoogleButton
  /\ Google(TRUE, googleModalOpen, "prompt") \/ Google(FALSE, TRUE, googleRequest)
  /\ UNCHANGED checks

\* The callback of the prompt is called with a credential, or never.
PromptAnswered ==
  /\ googleRequest = "prompt"
  /\ \E r \in {"sdk", "dismissed"} : Google(TRUE, googleModalOpen, r)
  /\ UNCHANGED checks

\* The dialog can be closed at any time, which does not cancel its request.
CloseGoogleModal ==
  /\ googleModalOpen
  /\ Google(googleLoading, FALSE, googleRequest)
  /\ UNCHANGED checks

HandleGoogleModalSubmit ==
  /\ googleModalOpen /\ ~googleLoading
  /\ Google(TRUE, TRUE, "dialog")
  /\ UNCHANGED checks

\* The dialog closes itself when its sign-in succeeds.
GoogleAnswered ==
  /\ googleRequest \in {"sdk", "dialog"}
  /\ \/ /\ Google(FALSE, googleModalOpen /\ googleRequest = "sdk", "none")
        /\ OnLogin
     \/ /\ Google(FALSE, googleModalOpen, "none")
        /\ UNCHANGED checks

\* verifyAuth failed: the tokens are removed and the page stays as it is.
CheckFails ==
  /\ checks > 0 /\ checks' = checks - 1
  /\ UNCHANGED <<mode, otpStep, email, loginLoading, google, requests, reset>>

-----------------------------------------------------------------------------

LoginAnswers == (\E r \in requests : FormSucceeds(r) \/ FormFails(r)) \/ TimerFires

LoginNext ==
  \/ \E e \in Address : EditEmail(e)
  \/ SwitchMode \/ ForgotPassword \/ ChangeEmail
  \/ HandleSubmit \/ HandleSendOtp \/ HandleResendOtp \/ HandleVerifyOtp
  \/ HandleGoogleClick \/ PromptAnswered \/ CloseGoogleModal \/ HandleGoogleModalSubmit
  \/ GoogleAnswered \/ CheckFails
  \/ LoginAnswers

-----------------------------------------------------------------------------
(* Properties of the page.                                                 *)

LoginTypeOK ==
  /\ mode \in Mode /\ otpStep \in {1, 2} /\ email \in Address \cup {NoAddress}
  /\ loginLoading \in BOOLEAN /\ googleLoading \in BOOLEAN /\ googleModalOpen \in BOOLEAN
  /\ requests \subseteq Requests /\ googleRequest \in GoogleRequest
  /\ checks \in 0 .. MaxCheck /\ accepted \in BOOLEAN /\ due \in BOOLEAN
  /\ codeFor \in Address \cup {NoAddress} /\ edited \in BOOLEAN

\* The forms never have two requests in flight, whatever is clicked meanwhile, and the
\* spinner of their buttons means one of two things: a request is in flight, or a code was
\* verified (Login.jsx then leaves loading set, so a session check that fails afterwards
\* leaves a page whose forms stay disabled).
FormLocked ==
  /\ Cardinality(requests) <= 1
  /\ loginLoading <=> (requests # {} \/ accepted)

\* "Enter the 6-digit code sent to ${email}": the address shown is the one the last code
\* went to, unless the field was edited while that code was being requested, which
\* nothing prevents.
CodeFormNamesAddress ==
  mode = "forgot" /\ otpStep = 2 => email = codeFor \/ edited
=============================================================================
