--------------------------------- MODULE Console ---------------------------------
(***************************************************************************)
(* What App renders once its first check is over: the login page, or one   *)
(* of the console's pages.  A sign-in whose verifyAuth succeeds mounts the *)
(* page of the URL; a refresh refused or a later check that fails          *)
(* (auth_logout, see FrontendSession) shows the login page again, at any   *)
(* moment, and drops what the page had in progress.                        *)
(***************************************************************************)
EXTENDS LoginPage, ConsolePages

VARIABLE screen   \* authenticated of App

vars == <<screen, loginVars, pageVars>>

SomeRole == CHOOSE r \in Role : TRUE

\* No page is mounted, which the variables show as a page without rows.
Init ==
  /\ screen = "login" /\ LoginInit
  /\ page = "settings" /\ choice = "none" /\ role = SomeRole
  /\ list = NoRows /\ error = FALSE /\ refreshing = FALSE /\ loading = FALSE
  /\ loads = <<>> /\ writes = {} /\ form = ClosedForm /\ table = NoRows
  /\ overtaken = FALSE /\ outdated = FALSE /\ missed = {}

AtLogin == screen = "login" /\ UNCHANGED <<screen, pageVars>>

InConsole == screen = "console" /\ UNCHANGED <<screen, loginVars>>

\* getMe answered: the user is set and the login page gives way to the page of the URL.
SignedIn ==
  /\ screen = "login" /\ checks > 0
  /\ screen' = "console"
  /\ role' \in Role
  /\ \E p \in Page : \E c \in InitialFilters(p) : Mount(p, c)
  /\ LoginUnmount

\* setAuthenticated(false), by auth_logout or by the end of a later check.
SignedOut ==
  /\ screen = "console"
  /\ screen' = "login"
  /\ Mount("settings", "none") /\ role' = SomeRole
  /\ UNCHANGED loginVars

Next ==
  \/ AtLogin /\ LoginNext
  \/ InConsole /\ PagesNext
  \/ SignedIn \/ SignedOut

Spec == Init /\ [][Next]_vars

\* Requests end with an answer or an error, timers fire and effects run; the users are
\* free.
FairSpec ==
  /\ Spec
  /\ WF_vars(AtLogin /\ LoginAnswers)
  /\ WF_vars((AtLogin /\ CheckFails) \/ SignedIn)
  /\ WF_vars(InConsole /\ LoadSteps)
  /\ WF_vars(InConsole /\ WriteSteps("create"))

-----------------------------------------------------------------------------
(* Properties.                                                             *)

\* Both pages stay in their types.
TypeOK == screen \in {"login", "console"} /\ LoginTypeOK /\ PagesTypeOK

\* A form of the login page that waits for the server can be used again, or the page gives
\* way to the console.  A verified code is the exception: when the session check that
\* follows it fails, nothing clears loading.
LoginUnlocks ==
  []<>(screen = "login" /\ loginLoading => accepted)
=============================================================================
