------------------------------ MODULE ConsolePages ------------------------------
(***************************************************************************)
(* The pages behind the login (src/frontend/src/pages): exactly one is     *)
(* mounted, with the list it loads, the writes its buttons send, and its   *)
(* dialog.  Every loading page has the same cycle: a load reads the server *)
(* with the filter its closure captured, and its answer replaces the list  *)
(* and clears both spinners whatever was started since.  No request is     *)
(* ever cancelled, so answers arrive in any order.                         *)
(*                                                                         *)
(* A row of the server is a mark (the column the page's filter and buttons *)
(* look at) or Absent.  Other users and the ML service change rows at any  *)
(* time.  What the pages make of their rows is in ConsoleViews.            *)
(***************************************************************************)
EXTENDS Naturals, FiniteSets, Sequences, SequencesExt

CONSTANTS
  Item,      \* ids of rows
  Rows,      \* the rows that exist, per page
  Server,    \* servers the metric form offers
  NoServer,  \* serverId = ""
  Role,      \* roles of the users who sign in
  MaxLoads,  \* bound: loads in progress
  MaxWrites  \* bound: writes in progress, per page

Loading == {"dashboard", "servers", "metrics", "predictions", "details", "alerts", "profile"}
Page == Loading \cup {"analytics", "settings"}
Plain == {"profile", "analytics", "settings"}   \* pages without rows
Absent == "absent"

\* Every row of a prediction table has a page of its own.
ASSUME PagesAssumption ==
  /\ Rows \in [Page -> SUBSET Item]
  /\ \A p \in Plain : Rows[p] = {}
  /\ Rows["dashboard"] \cup Rows["predictions"] \subseteq Rows["details"]
  /\ NoServer \notin Server /\ Role # {}
  /\ MaxLoads \in Nat \ {0} /\ MaxWrites \in [Page -> Nat]

VARIABLES
  role,                        \* currentUser.role
  page,                        \* the route
  choice,                      \* unreadOnly, serverId or predictionId
  loading, refreshing, error,  \* state of the page
  list,                        \* the rows of the last answer
  loads,                       \* loads in progress, oldest first
  writes,                      \* writes in progress
  form,                        \* the dialog of the page
  table,                       \* server: the page's rows
  overtaken,                   \* history: the answer shown is of an older load than another
  outdated,                    \* history: the last load was begun by an old closure
  missed                       \* history: rows others changed since the answer shown was read

pageVars == <<role, page, choice, loading, refreshing, error, list, loads, writes, form,
              table, overtaken, outdated, missed>>

view == <<loading, refreshing, error, list>>
history == <<overtaken, outdated, missed>>

\* The column of a row that decides what can be done with it.
Marks(p) ==
  IF p = "alerts" THEN {"unread", "read"} ELSE {"present"}

Tables(p) == {t \in [Item -> Marks(p) \cup {Absent}] : \A i \in Item \ Rows[p] : t[i] = Absent}

NoRows == [i \in Item |-> Absent]

\* What the state a load depends on can be; a details page has the id of its route.
Filters(p) ==
  CASE p = "alerts"  -> {"all", "unread"}
    [] p = "metrics" -> Server \cup {NoServer}
    [] p = "details" -> Rows["details"]
    [] OTHER         -> {"none"}

\* The filter a page is mounted with.
InitialFilters(p) ==
  CASE p = "alerts"  -> {"all"}
    [] p = "metrics" -> {NoServer}
    [] OTHER         -> Filters(p)

\* The rows the server answers: the alerts may be filtered, a prediction is read by id.
Answer(p, param, t) ==
  [i \in Item |->
     IF \/ p = "alerts" /\ param = "unread" /\ t[i] = "read"
        \/ p = "details" /\ i # param
     THEN Absent ELSE t[i]]

Displayed == {i \in Item : list[i] # Absent}

ClosedForm == [open |-> FALSE, submitting |-> FALSE, error |-> FALSE]

CanEdit == role \in {"operator", "admin", "ml_engineer"}
CanDelete == role = "admin"

-----------------------------------------------------------------------------
(* The load cycle.                                                         *)

Load == [param : UNION {Filters(p) : p \in Page}, phase : {"sent", "answered"},
         answer : [Item -> (UNION {Marks(p) : p \in Page}) \cup {Absent}],
         missed : SUBSET Item, late : BOOLEAN]

Sent(param) == [param |-> param, phase |-> "sent", answer |-> NoRows,
                missed |-> {}, late |-> FALSE]

\* A load is begun after the loads that remain, with the param its closure captured.  The
\* caller sets a spinner.
Begin(remaining, param) ==
  /\ Len(remaining) < MaxLoads
  /\ loads' = Append(remaining, Sent(param))
  /\ error' = FALSE
  /\ outdated' = (param # choice')

\* A component is mounted: fresh state, and the effect that loads.  The rows the server has
\* are those that others make before the load is read.
Mount(p, c) ==
  /\ page' = p /\ choice' = c
  /\ list' = NoRows /\ error' = FALSE /\ refreshing' = FALSE
  /\ loading' = (p \in Loading)
  /\ loads' = IF p \in Loading THEN <<Sent(c)>> ELSE <<>>
  /\ writes' = {} /\ form' = ClosedForm
  /\ table' = NoRows
  /\ overtaken' = FALSE /\ outdated' = FALSE /\ missed' = {}

\* Where "Refresh", or "Retry" beside an error, can be clicked.  Retry is not disabled on the
\* first three pages, and the page of one prediction has none: it shows an error alone.
AlertsRefresh == page = "alerts" /\ (~refreshing \/ error)
ServersRefresh == page = "servers" /\ (~refreshing \/ error)
MetricsRefresh == page = "metrics" /\ (~refreshing \/ error)
PredictionsRefresh == page = "predictions" /\ ~refreshing
DashboardRefresh == page = "dashboard" /\ ~refreshing /\ (~loading \/ error)
DetailsShown == ~loading /\ ~error /\ Displayed # {}
DetailsRefresh == page = "details" /\ ~refreshing /\ DetailsShown

RefreshEnabled ==
  \/ AlertsRefresh \/ ServersRefresh \/ MetricsRefresh
  \/ PredictionsRefresh \/ DashboardRefresh \/ DetailsRefresh

Refresh ==
  /\ RefreshEnabled
  /\ UNCHANGED <<role, page, choice, loading, list, writes, form, table, overtaken, missed>>
  /\ Begin(loads, choice)
  /\ refreshing' = TRUE

\* The server reads the rows for a load.
Read(n) ==
  /\ loads[n].phase = "sent"
  /\ page = "details" => table[loads[n].param] # Absent
  /\ loads' = [loads EXCEPT ![n] =
       [[@ EXCEPT !.phase = "answered"] EXCEPT !.answer = Answer(page, loads[n].param, table)]]
  /\ UNCHANGED <<role, page, choice, view, writes, form, table, history>>

\* The loads that are left when load n is answered: the older ones are late by now.
Overtake(n) ==
  RemoveAt([m \in DOMAIN loads |->
              IF m < n THEN [loads[m] EXCEPT !.late = TRUE] ELSE loads[m]], n)

\* The metrics page then selects the first server for its form, if there is one and the
\* load began with none selected: the effect tests the serverId of its own time, so it may
\* replace what the user chose while the load was in progress.
Defaults(n) ==
  {choice} \cup (IF page = "metrics" /\ loads[n].param = NoServer THEN Server ELSE {})

\* The answer is shown and both spinners are cleared; a server selected by default makes
\* the effect load again.
LoadArrives(n) ==
  /\ loads[n].phase = "answered"
  /\ list' = loads[n].answer
  /\ overtaken' = loads[n].late /\ missed' = loads[n].missed
  /\ choice' \in Defaults(n)
  /\ \/ /\ choice' = choice
        /\ loads' = Overtake(n) /\ loading' = FALSE
        /\ UNCHANGED <<error, outdated>>
     \/ /\ choice' # choice
        /\ Begin(Overtake(n), choice') /\ loading' = TRUE
  /\ refreshing' = FALSE
  /\ UNCHANGED <<role, page, writes, form, table>>

\* Mutant of LoadFails: the spinners are cleared only when a load succeeds.
LoadFailsSpinning(n) ==
  /\ loads' = RemoveAt(loads, n)
  /\ error' = (page # "profile")
  /\ UNCHANGED <<role, page, choice, loading, refreshing, list, writes, form, table, history>>

\* The server refuses, a prediction is not found, or the answer is lost: the list is kept
\* and the error shown, but not on the profile, which falls back to placeholders.
LoadFails(n) ==
  /\ loads' = RemoveAt(loads, n)
  /\ loading' = FALSE /\ refreshing' = FALSE
  /\ error' = (page # "profile")
  /\ UNCHANGED <<role, page, choice, list, writes, form, table, history>>

\* The user sets the filter, the server of the metric in its dialog or, by the browser's
\* history, the id of the details page: the effect loads again.
Choose(c) ==
  /\ c # choice /\ c \in Filters(page)
  /\ page = "metrics" => form.open
  /\ choice' = c
  /\ Begin(loads, c) /\ loading' = TRUE
  /\ UNCHANGED <<role, page, refreshing, list, writes, form, table, overtaken, missed>>

-----------------------------------------------------------------------------
(* Writes.                                                                 *)

Write == [kind : {"create", "read", "delete"}, item : Item,
          mark : (UNION {Marks(p) : p \in Page}) \cup {Absent},
          param : UNION {Filters(p) : p \in Page}, phase : {"sent", "applied"}]

\* A write that leaves the row with the given mark; its closure keeps the filter.
Start(kind, i, mark) ==
  /\ Cardinality(writes) < MaxWrites[page]
  /\ writes' = writes \cup {[kind |-> kind, item |-> i, mark |-> mark, param |-> choice,
                             phase |-> "sent"]}

\* The buttons of a row that is shown.  Nothing keeps a row from being clicked again while
\* its write is in progress.
ClickRow(kind, i, mark) ==
  /\ ~loading /\ i \in Displayed
  /\ Start(kind, i, mark)
  /\ UNCHANGED <<role, page, choice, view, loads, form, table, history>>

HandleMarkRead(i) == page = "alerts" /\ list[i] = "unread" /\ ClickRow("read", i, "read")

HandleDeleteAlert(i) == page = "alerts" /\ CanDelete /\ ClickRow("delete", i, Absent)

HandleDeleteServer(i) == page = "servers" /\ CanDelete /\ ClickRow("delete", i, Absent)

\* "Add Server", "Submit Metric", and the card of the general settings.
OpenForm ==
  /\ ~form.open
  /\ (page \in {"servers", "metrics"} /\ CanEdit) \/ page = "settings"
  /\ form' = [form EXCEPT !.open = TRUE]
  /\ UNCHANGED <<role, page, choice, view, loads, writes, table, history>>

\* Mutant of CloseForm: closing forgets the submission in progress.
CloseFormReset ==
  /\ form.open
  /\ form' = ClosedForm
  /\ UNCHANGED <<role, page, choice, view, loads, writes, table, history>>

\* The cross, Cancel or Done: a submission in progress is not cancelled, nor is the error
\* of the last one cleared.
CloseForm ==
  /\ form.open
  /\ form' = [form EXCEPT !.open = FALSE]
  /\ UNCHANGED <<role, page, choice, view, loads, writes, table, history>>

\* The dialogs whose submit button is enabled.
ServerDialog == page = "servers" /\ form.open /\ ~form.submitting
MetricDialog == page = "metrics" /\ form.open /\ ~form.submitting

\* One submission at a time.
Submit(i) ==
  /\ i \in Rows[page]
  /\ form' = [open |-> TRUE, submitting |-> TRUE, error |-> FALSE]
  /\ \E mark \in Marks(page) : Start("create", i, mark)
  /\ UNCHANGED <<role, page, choice, view, loads, table, history>>

HandleAddServer(i) == ServerDialog /\ Submit(i)

\* A metric needs a server.
HandleCreateMetric(i) == MetricDialog /\ choice # NoServer /\ Submit(i)

NoServerSelected ==
  /\ MetricDialog /\ choice = NoServer
  /\ form' = [form EXCEPT !.error = TRUE]
  /\ UNCHANGED <<role, page, choice, view, loads, writes, table, history>>

\* The server accepts a write: a new row, or a change of one that is there.
Apply(w) ==
  /\ w.phase = "sent"
  /\ w.kind = "create" <=> table[w.item] = Absent
  /\ table' = [table EXCEPT ![w.item] = w.mark]
  /\ writes' = (writes \ {w}) \cup {[w EXCEPT !.phase = "applied"]}
  /\ UNCHANGED <<role, page, choice, view, loads, form, history>>

\* Mutant of WriteSucceeds: the list is not loaded again.
WriteSucceedsQuietly(w) ==
  /\ w.phase = "applied"
  /\ writes' = writes \ {w}
  /\ form' = IF w.kind = "create" THEN ClosedForm ELSE form
  /\ UNCHANGED <<role, page, choice, view, loads, table, history>>

\* A successful create closes the dialog; every write loads the list again, as a refresh,
\* with the filter of the time it was clicked.
WriteSucceeds(w) ==
  /\ w.phase = "applied"
  /\ writes' = writes \ {w}
  /\ form' = IF w.kind = "create" THEN ClosedForm ELSE form
  /\ UNCHANGED <<role, page, choice, loading, list, table, overtaken, missed>>
  /\ Begin(loads, w.param)
  /\ refreshing' = TRUE

\* Rows that the answers read so far do not have as the server has them.
Miss(i) ==
  /\ missed' = missed \cup {i}
  /\ loads' = [n \in DOMAIN loads |->
       IF loads[n].phase = "answered" THEN [loads[n] EXCEPT !.missed = @ \cup {i}] ELSE loads[n]]

\* A write refused, or whose answer was lost: the dialog shows it, the alerts page does
\* not.  The list is not loaded again, even when the server had accepted the write.
WriteFails(w) ==
  /\ writes' = writes \ {w}
  /\ form' = IF w.kind = "create" THEN [[form EXCEPT !.submitting = FALSE] EXCEPT !.error = TRUE]
                                  ELSE form
  /\ IF w.phase = "applied" THEN Miss(w.item) ELSE UNCHANGED <<missed, loads>>
  /\ UNCHANGED <<role, page, choice, view, table, overtaken, outdated>>

\* Another user, or a prediction, changes a row.
OthersChange(i) ==
  /\ \E t \in Tables(page) : t[i] # table[i] /\ table' = [table EXCEPT ![i] = t[i]]
  /\ Miss(i)
  /\ UNCHANGED <<role, page, choice, view, writes, form, overtaken, outdated>>

-----------------------------------------------------------------------------
(* Navigation: the same route keeps its component, another mounts its own.  *)

\* Every page has the sidebar and the top bar, whose search leads to the servers.
SidebarLinks == Page \ {"details"}
TopbarLinks == {"servers", "alerts", "metrics"}
HeroLinks == {"predictions", "metrics"}
SettingsLinks == {"alerts", "predictions", "profile", "servers"}

LinksOf(p) ==
  SidebarLinks \cup TopbarLinks \cup
  CASE p = "dashboard" -> HeroLinks
    [] p = "settings"  -> SettingsLinks
    [] p = "details"   -> {"predictions"}
    [] OTHER           -> {}

FollowLink(p) ==
  /\ p \in LinksOf(page) \ {page}
  /\ \E c \in InitialFilters(p) : Mount(p, c)
  /\ UNCHANGED role

\* Mutant of OpenDetails: the row leads to the page without its id.
OpenDetailsWithoutId(i) ==
  /\ page \in {"dashboard", "predictions"} /\ ~loading /\ i \in Displayed
  /\ Mount("details", "none")
  /\ UNCHANGED role

\* A row of the prediction table.
OpenDetails(i) ==
  /\ page \in {"dashboard", "predictions"} /\ ~loading /\ i \in Displayed
  /\ Mount("details", i)
  /\ UNCHANGED role

\* The browser's history or the address bar, where no link leads.
Traverse(p) ==
  /\ p \notin LinksOf(page) \cup {page}
  /\ \E c \in InitialFilters(p) : Mount(p, c)
  /\ UNCHANGED role

-----------------------------------------------------------------------------

LoadSteps == \E n \in DOMAIN loads : Read(n) \/ LoadArrives(n) \/ LoadFails(n)

WriteSteps(kind) ==
  \E w \in writes : w.kind = kind /\ (Apply(w) \/ WriteSucceeds(w) \/ WriteFails(w))

PagesNext ==
  \/ Refresh \/ OpenForm \/ CloseForm \/ NoServerSelected \/ LoadSteps
  \/ \E c \in Filters(page) : Choose(c)
  \/ \E i \in Item :
       \/ HandleMarkRead(i) \/ HandleDeleteAlert(i) \/ HandleDeleteServer(i)
       \/ HandleAddServer(i) \/ HandleCreateMetric(i)
       \/ OpenDetails(i) \/ OthersChange(i)
  \/ \E kind \in {"create", "read", "delete"} : WriteSteps(kind)
  \/ \E p \in Page : FollowLink(p) \/ Traverse(p)

-----------------------------------------------------------------------------
(* Properties of the pages.                                                *)

PagesTypeOK ==
  /\ role \in Role /\ page \in Page /\ choice \in Filters(page)
  /\ loading \in BOOLEAN /\ refreshing \in BOOLEAN /\ error \in BOOLEAN
  /\ list \in Tables(page) /\ table \in Tables(page)
  /\ Len(loads) <= MaxLoads /\ \A n \in DOMAIN loads : loads[n] \in Load
  /\ writes \subseteq Write
  /\ form \in [open : BOOLEAN, submitting : BOOLEAN, error : BOOLEAN]
  /\ overtaken \in BOOLEAN /\ outdated \in BOOLEAN /\ missed \subseteq Item

\* When nothing is loading and no error is shown, the page shows every row as the server
\* has it under the filter the user sees, own writes included.  The code leaves four gaps,
\* and only these: an answer of an older load came last, the last load was begun by a write
\* clicked under another filter, others changed the row since, and the row's own write is
\* in progress (or took effect although it was reported as failed).
ListIsCurrent ==
  (loads = <<>> /\ ~error /\ ~overtaken /\ ~outdated) =>
    \A i \in Item \ (missed \cup {w.item : w \in writes}) :
      list[i] = Answer(page, choice, table)[i]

\* The dialog never has two submissions in progress, however often it is closed and opened
\* again meanwhile, and "Saving..." is shown exactly while one is.
OneSubmission ==
  LET creates == {w \in writes : w.kind = "create"} IN
    Cardinality(creates) <= 1 /\ (form.submitting <=> creates # {})

\* A spinner does not stay: on a page that is not left, each of the three ends, whatever
\* fails.
SpinnersEnd ==
  \/ []<><<page' # page>>_page
  \/ []<>(~loading) /\ []<>(~refreshing) /\ []<>(~form.submitting)
=============================================================================
