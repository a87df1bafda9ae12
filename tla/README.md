# Verification of the infrastructure failure prediction service

TLA+ models of the FastAPI backend, the ML verdict and the React console of this repository, TLC configurations that check them on small instances, and theorems
about them that TLAPS proves for every size. Paths are relative to the repository.

## 1. Inventory

### Components

| component | code | state it keeps | operations that write |
|---|---|---|---|
| risk verdict | `ml/predict.py`, `ml/features.py`, `ml/model_loader.py` | none (the loaded model) | `predict_failure` (pure) |
| prediction pipeline | `app/services/prediction_service.py`, `metric_service.py`, their repositories and endpoints, `app/db/session.py` | tables `metrics`, `predictions`; one SQLAlchemy session per request | `create_metric`, `create_prediction*`, `update_metric`, `delete_metric`, `delete_prediction` |
| alerts | `app/services/alert_service.py`, `alert_repository.py`, `app/models/alert.py` | table `alerts` | `create_alert_from_prediction`, `update_alert`, `delete_alert` |
| servers | `app/services/server_service.py`, `server_repository.py`, `app/models/server.py` | table `servers` | `create_server`, `update_server`, `delete_server` |
| login and lockout | `app/services/auth_service.py`, `user_repository.py` | `users.failed_login_attempts`, `locked_until`, `role` | `authenticate`, `register_user`, `authenticate_google` |
| tokens and revocation | `auth_service.py`, `app/core/security.py`, `app/api/deps.py` | Redis `revoked_jti:*` with a time to live | `refresh`, `logout`, `get_current_user` (reads) |
| password-reset codes | `auth_service.py`, `app/core/email.py` | Redis `pwd_reset_otp:<address>` with a time to live | `send_password_reset_otp`, `verify_otp_and_reset`, `reset_password` |
| roles and user management | `user_service.py`, `deps.require_role` | table `users` | `update_user`, `delete_user` |
| browser session | `frontend/src/api/axios.js`, `auth.js`, `App.jsx`, `Sidebar.jsx` | `localStorage` tokens, `isRefreshing`, `failedQueue`, `authenticated` | interceptor, login, logout, session check |
| login page | `frontend/src/pages/Login.jsx` | mode, step of the reset, fields, two spinners | the four forms, Google's sign-in |
| console pages | the other `frontend/src/pages/*.jsx`, `Sidebar.jsx`, `Topbar.jsx` | what is displayed, filter, spinners, dialog | loads, refreshes, deletions, submissions, navigation |
| console views | `Dashboard.jsx`, `PredictionDetails.jsx`, `components/*.jsx` | none | figures, rows, trend and legend computed from the loaded rows |
| the rest | shell, schemas, migrations, training scripts | none at run time | - |

### How they interact

`POST /metrics` commits a metric, then `PredictionService` scores it, commits the
prediction, then calls `AlertService`, which commits the alert, then reloads the
prediction: **four transactions on one session**, with other requests in between. `POST
/predictions` joins that path for a metric stored earlier. Deletions reach the other
tables through ORM cascades and through the database's `ON DELETE` clauses. Every request
first passes `get_current_user`, which reads Redis and `users`. The browser talks to all
of this through one axios instance, whose interceptor refreshes tokens behind the pages'
backs; `logout` runs through that interceptor too.

### What is hard, and what makes each component correct

* **Pipeline.** Hard: requests interleave between the commits; a crash, a failed statement
  or a failing model leaves a prefix of them; retries find the prefix. Correct: one prediction
  per metric, at most one alert per prediction, no risk without its alert unless a fault
  took it, severity equal to the verdict, no dangling row, every request answered.
* **Verdict.** Hard: thresholds on an unrounded float, a rounded copy in the table and a
  flag computed separately. Correct: alert exactly when the risk is not low; severity monotone.
* **Servers.** Hard: three cascades, one of them missing in the ORM. Correct: deletable,
  nothing left behind.
* **Lockout.** Hard: a counter read, incremented and written by concurrent requests; time.
  Correct: locked after `LOGIN_MAX_ATTEMPTS` failures; an active lock stays; one first administrator.
* **Tokens.** Hard: check-then-revoke; entries that expire in Redis by the second. Correct: a
  refresh token is used once; a revoked token is refused until it expires.
* **Reset codes.** Hard: read, compare, commit, delete as four steps; both deletions name the address,
  so a slow one deletes a newer code. Correct: once a verification was answered, nobody who comes
  later is let in with its code.
* **Browser session.** Hard: many 401s, one refresh, a queue of waiters; logout during
  a refresh; tabs that share the tokens and not the lock. Correct: every call settles, one refresh
  at a time in a tab, no spent refresh token kept but while it is presented.
* **Login page.** Hard: links and fields stay usable while a request is in flight, and its answer
  acts on the page as it is by then. Correct: one request at a time, the forms come back, the code
  form names the address the code went to.
* **Console pages.** Hard: no request is cancelled, so loads are answered in any order; writes load
  the list again with the filter of their click; dialogs close over a submission. Correct: what is
  shown is what the server has, or stale for a reason that can be named; no double submission; no
  spinner for ever.
* **Console views.** Hard: the same predictions counted in several places by two different columns,
  rounded separately. Correct: the figures agree with one another and with the rows.

`PROJECT.json` lists each of these hazards at its line, with the property that covers it.

## 2. What is modelled

### `RiskModel` - the verdict

Operators only: `RiskLevel`, `PredictedFailure`, `StoredProbability`, `Verdict` are
`predict_failure`; `AlertSeverity` is the branch of `create_alert_from_prediction`. The
classifier and the scaler are represented by their result, the probability of class 1, an
integer in units of 1/100000 so that thresholds (0.30, 0.70), the tie of `model.predict` and
`round(p, 4)` are exact. (A real rounding tie, a fifth digit of exactly 5, rounds up here; in
binary floating point it may go either way, which stays within what the properties allow.)

### `PredictionPipeline` - servers, metrics, predictions, alerts and the requests

The tables are functions from ids to rows; an id is `Unused`, `Deleted` or holds a row,
since uuids are never drawn twice. `req[w]` is what worker `w`'s request holds in its local
variables and the step it is at:

| step | the code it waits before | action(s) |
|---|---|---|
| `idle` | the endpoint | `IngestMetric`, `IngestRejected`, `RequestPrediction`, `StartDeleteServer` |
| `saved` | `session.refresh(metric)` | `RefreshMetric` |
| `lookup` | `metric_repository.get_by_id` | `LookupMetric` |
| `check` | `get_by_metric_id` | `CheckExisting` |
| `score` | `predict_failure`, then commit of the prediction | `InsertPrediction`, `InsertRejected`, `ScoringFails` |
| `stored` | `session.refresh(prediction)`, then the severity branch | `RefreshPrediction` |
| `alert` | commit of the alert | `RaiseAlert`, `AlertFails` |
| `alertSaved` | `session.refresh(alert)` | `RefreshAlert` |
| `reload` | `get_by_id` after the alert | `Reload` |
| `deleteServer` | the flush of `DELETE /servers/{id}` | `DeleteServer`, `DeleteServerFails` |

`DatabaseFails` and `Crash` may strike at any of them; which faults may happen is the
constant `Faults`. `CreateServer`, `UpdateMetric`, `DeleteMetric`, `DeletePrediction`,
`DeleteAlert` and `MarkAlertRead` are the other writing handlers, one action each: they look a
row up and write it by its id, and if something vanished in between nothing is written.
Unique and foreign keys are guards of the inserts, as Postgres checks them on
writing. Two history variables, `raised` (the severity committed for a prediction) and `lost`
(predictions whose request gave up on the alert), are read by no guard.

Points of the code that shape the model:

* `AlertRepository.create` rolls back on failure. The session is shared, `rollback` expires
  its objects, and `saved_prediction.id` is read next: the request fails (`AlertFails`).
* `expire_on_commit=False`: after a *successful* commit nothing is expired, so
  the response is built from what the request holds.
* `Server.metrics` and `Server.predictions` leave deletion to the database
  (`passive_deletes`), but the backref `Server.alerts` does not, hence the two steps of
  `DELETE /servers/{id}` and `sawAlerts`.
* `Metric.prediction` cascades; `Alert.prediction` is set to NULL.

### `PredictionLedger` - what the pipeline promises

An abstract ledger of verdicts: a verdict is issued on a metric with none standing, never
changes, is withdrawn for good; its alarm is raised at most once, with the severity it calls
for, while it stands. `PredictionPipeline!KeepsLedger` is the refinement: `verdict` is read off
`predictions`, `alarm` is `raised`.

### `AccountLockout` - password logins, resets and the lock of one account

The row of `users` and, per worker, what its request loaded, what it decided and what it is
about to commit. `authenticate`, `reset_password` and `verify_otp_and_reset` await the
`SELECT` and then nothing until the commit (bcrypt runs synchronously), so each is two actions:
`Authenticate` or `StartReset` (of a verified code: see `PasswordReset`), then `RecordFailedLogin`, `RecordSuccessfulLogin` or
`CommitReset`. Between them another request of the same event loop, or of the second worker
process of `gunicorn`, commits its own. Points of the code that shape the model:

* `failed_login_attempts += 1` is computed in Python from the loaded value and written as a number.
* SQLAlchemy's `UPDATE` names only the columns whose value differs from the loaded one: setting
  `locked_until = None` on a row loaded without a lock writes nothing (`Cleared`).
* Neither an expired lock nor a stored lock resets the counter.
* A refused login changes nothing; `authenticate_google` neither reads the lock nor touches the
  counter; an administrator's `PUT /users/{id}` changes password and `is_active` alone
  (`UpdateUser`).

`failures` is a history variable: wrong passwords recorded since the last success, reset or lock.

### `PasswordReset` - the codes of "forgot password", beside the account's other requests

Extends `AccountLockout` with the one key an address has in Redis (`stored`, a set of at most one
code) and, per worker, where its request for or with a code stands. `SendOtp` is the draw and the
`SET`; `MailSent` or `MailFails` what the transports answered; `DeleteUndelivered` the `DEL` that
follows a refusal. `StartVerify` loads the user (and is a `StartReset` of the account), `LookupCode` is
the `GET` and the comparison, `CommitVerified` the `UPDATE` (a `CommitReset`), `DeleteCode` the `DEL` and the
answer. `FailCode` ends a request at any of these awaits, `CodeExpires` is the time to live,
`RedisRestarts` a Redis that comes back with an older code. Two draws may give the same
code. The rest of `Next` is `AccountLockout`'s (`AccountStep`), for workers without a code. `uses` is the
history variable: passwords set with a code since it was last drawn or brought back, counted at the
commit; `interrupted` counts those of them whose request failed before the `DEL`, which leaves the code
usable.

### `TokenRevocation` - token pairs and the Redis blacklist

A token pair is an id with the second of its `iat`; `exp` follows. The clock ticks `Second` times
a second, tokens see whole seconds, Redis sees ticks. A request is where it stands and the
tokens it came with: `Arrive` decodes, `CheckRevoked` and `LoadUser` are the two awaits all
authenticated requests begin with (`get_current_user`; `refresh` has its own copy), then `Rotate`
and `AnswerPair`, or `RevokeAccess` and `RevokeRefresh`. Endpoints other than refresh and logout
are such a request that ends after `LoadUser`. `logout` takes any refresh token in its body: the
client may retry it with a newer bearer beside an older refresh token. `Login` may serve
an inactive user, since `verify_otp_and_reset` does not ask and the other logins asked earlier.
`RedisRestarts` loses keys written since the last snapshot (the image's default persistence).
Two history variables: `spent`, what a rotation or a logout answered 204 gave up, less what such
a restart lost; and `rotations`, the requests that rotated a token before its `exp` claim, counted
again from 0 when a restart loses its key.

### `FrontendSession` - the tokens and the axios client of each tab

`localStorage` is `access_token` and `refresh_token`, shared by all tabs; `isRefreshing`,
`failedQueue`, `defaults` (the header that a refresh leaves in `api.defaults`) and `refreshCall` (the
bare `axios.post('/auth/refresh')` in progress) belong to a tab. `call[c]` is one call made
through `api/*.js`:

| phase | the code it waits in | left by |
|---|---|---|
| `starting` | `verifyAuth`, before it reads `localStorage` | `VerifyAuth` |
| `sent` | the request, first or second | `Succeed`, `Fail`, `Enqueue`, `StartRefresh`, `NoRefreshToken` |
| `queued` | the promise pushed on `failedQueue` | `RefreshSucceeds`, `RefreshFails` |
| `refreshing` | `await axios.post(...)` of the owner of the lock | the same |

A step is what a script runs without yielding. `OpenTab` is the first effect of `App`, `CloseTab`
a closed or reloaded tab at any moment, `StartCall` and `StartLogout` what the user does. The server
is nondeterministic but for refresh tokens: it revokes the one presented (`AcceptRefresh`,
`RevokeBody`, `AcceptAbandoned` for a page that is gone), and may do so although the
answer is lost (`LoseRefresh`). Points of the code that shape the model:

* A queued call is not marked `_retry` (`axios.js:46`), only the owner is: after the refresh it may
  meet a second 401 and begin another one.
* `/auth/login` alone is exempt from the refresh, so a 401 to Google's sign-in or to a reset code is
  "refreshed" as well when a token is left over.
* `logoutUser` removes the tokens however its request ends, and the sidebar then loads `/`: every
  other call of the page ends with it.
* `auth_logout` hides the console but does not end the first check, which ends by itself.

### `LoginPage`, `ConsolePages`, `Console` - what the user sees

`LoginPage` is `Login.jsx`: `mode`, `otpStep`, `email` and the two spinners are its state, `requests`
what its forms have in flight. The mode links and the e-mail field are never disabled. `codeFor`
(the address of the last code) and `edited` (the field was edited while a code was being
requested) are history variables. Google's prompt may be dismissed without calling back, which
leaves its button disabled (`Login.jsx:200`, `PromptAnswered`).

`ConsolePages` is the cycle that all loading pages share, for the one page that is mounted: `loads`
are the loads in progress, oldest first, each with the filter its closure captured; `Read` is the
server's `SELECT`, `LoadArrives` and `LoadFails` the two ends of the `try` block. `writes` are clicks
and submissions in progress: `Apply` is the server's commit, `WriteSucceeds` the answer, which
loads the list again with the filter of the *click*, `WriteFails` a refusal or a lost answer. `table`
holds the rows of the server that the page is about, by the one column that matters to it (`Marks`);
`OthersChange` is everybody else. Where the pages differ is in named guards (`RefreshEnabled`,
`Filters`, `Defaults`, `LinksOf`, the handlers of the rows and dialogs). `overtaken`, `outdated` and
`missed` are history variables that name why a list may be stale.

`Console` composes them as `App` does: the login page until a `verifyAuth` succeeds (`SignedIn`),
then a page, until `auth_logout` shows the login page again at any moment (`SignedOut`). How a
session comes to its end is `FrontendSession`'s subject; here it may end at any step.

Points of the code that shape the model:

* An answer clears both spinners whatever was started since, so an older answer hides a newer load.
* `setError('')` is called when a load begins and not when one succeeds: a later
  success beside an earlier failure leaves the error on the page.
* The effect of `Metrics.jsx` depends on `serverId` and selects the first server if its closure's
  `serverId` was empty: an answer may move the form (`Defaults`), and changing the server loads again.
* `formError` is cleared by a submission, not by reopening the dialog. The details page shows an
  error without a Retry. The profile shows no error at all.

Seen on the way, and no contradiction of a document: the search of the top bar is read by the
servers page when it is mounted only (`Servers.jsx:20`), so it has no effect there; the unread badge
is read once per mount (`Topbar.jsx:39`); `Settings.jsx:359` says "Active Polling (30s)" and nothing
polls; "latest" in `Metrics.jsx:144` is the database's order, since `list_all` sorts nothing.

### `ConsoleViews`, `RiskScan` - the figures

`ConsoleViews` holds operators only: what dashboard, donut, table, trend and details page compute from
a list of predictions, each as its component does. Percentages are integers in the unit they are shown
in; an exact half may be rounded either way, as it is in doubles (23/40 shows 57) (`Rounded`). The trend's stable sort by time is given by each row's place in it (`Place`). `RiskScan` is the
state machine that visits every probability and builds every list, and states what should
hold of them; `MCRiskModel` gives it its instance.

## 3. Runs

| run | question | bounds |
|---|---|---|
| `risk_verdicts` | do thresholds, flag, rounding and severity fit; do the console's views of a list agree? | all 100001 probabilities; all lists of up to 4 rows over one score per kind of verdict, 2 servers, equal or later times |
| `pipeline_safety` | do the tables stay consistent, is an alert lost only to a fault, does the pipeline implement the ledger? | 2 servers, 1 metric, 2 predictions, 2 alerts, 2 workers, readings on both sides of a threshold and of the tie, every fault |
| `pipeline_progress` | do requests end, do metrics and risks get what they are owed? | 1 server, 1 metric, 2 predictions, 2 alerts, 2 workers, 2 readings, every fault |
| `alert_failure` (violated) | "Alert creation must never make the prediction API fail" | as above, database faults only |
| `server_deletion` (violated) | "Admin can delete server (204)" | as above, no fault |
| `account_lockout` | do locks end, who lifts them, how many guesses get through, how many passwords does a code set? | `PasswordReset`: 2 requests at a time, 2 passwords, 2 codes, limit 5 (the default), a lock of 1 tick, 2 ticks, at most 1 interrupted request per code |
| `lockout_attempts` (violated) | "Account lockout after `LOGIN_MAX_ATTEMPTS` failed logins" | `AccountLockout`: 2 requests at a time, limit 3, 4 ticks |
| `lockout_reset` (violated) | "You can now sign in with your new password" | as above, limit 3 |
| `token_revocation` | is a token that was given up refused until it expires, and how often can one be rotated? | 2 requests at a time, 2 pairs, lives of 1 s and 2 s, half-second ticks up to two and a half seconds |
| `token_reuse` (violated) | "revoke the old refresh token so it cannot be reused" | the same |
| `frontend_session` | does every call settle, does the first check end, when is a spent refresh token stored? | 3 calls in one tab or one call in each of two tabs, 2 token pairs |
| `console` | is a list stale only for a named reason, is anything submitted twice, does a spinner stay, do the forms unlock? | 2 addresses, 2 checks at a time, 2 loads, 2 writes (1 on the alerts page), 1 row per page and 2 details pages, 2 servers in the metric form, an administrator |

Why the bounds are enough to see the interesting cases: the races are between two requests
on one metric; a second server shows a request whose server differs from
the metric's; a second prediction id lets a metric be predicted again after its prediction was
deleted; a second alert id lets a second alert be raised. The readings 0.29999, 0.50000 and
0.50001 give no alert, a warning and a critical alert. The same safety properties were also checked with
two metrics (about 860 thousand states). `IdToSpare` is the only bound in a guard: it keeps an
id for every insertion, so that running out of ids is never mistaken for a stuck request.
Symmetry is used in safety runs only: of workers and servers, of passwords, of codes, of token pairs.

The lockout races need two requests, a lock that expires and a clock that goes on after; 2 ticks
hold a lock of one tick from beginning to end and the next. Two codes are the one verified and a
newer one (or a wrong guess). `MaxInterrupted` bounds the requests with one code that fail between
their commit and the `DEL`; one is enough to use the code again, and the theorem holds for every value. For tokens, half-second ticks are enough for every way of cutting
two moments to whole seconds; the shorter life expires within the bound, the longer one too for a
pair issued at the start, and a second pair lets a logout carry tokens of different pairs.

In the browser, three calls of one tab are an owner of the lock, a call in its queue and a third that
meets its 401 before, during or after; with two tabs the refreshes compete for one token. `MaxPair` bounds
how often a refresh can succeed: two pairs are a pair and its successor. A queued call is not marked
`_retry`, so each further refresh may queue it again, and `EveryCallSettles` is shown for that bound only:
behind ever new calls that refresh before it, on a server that accepts every refresh and then refuses
the new access token, it could be queued again and again. On a page, two loads are enough for every order
of an older and a newer one, and with a write the second load has another filter. The properties of
`ListIsCurrent` speak of one row at a time, so one row is enough for a list; a details page
needs a second id to change to. `Role` is an administrator, whom every button is shown to: the
other roles have fewer. `MaxLoads` and `MaxWrites` bound how often the user clicks while nothing
is answered. `LegendAddsUp` allows 99 to 101; 99 is reached with three rows, 101 needs six
(shares 1, 1 and 4), which is beyond the bound.

`CHECK_DEADLOCK FALSE` is set because ids run out: a finite instance stops after
every id was used; the probability scan stops at 1 and a list at its bound; a session check of the
console is bounded as well. In the lockout, token and session models somebody
can always act, so deadlock is checked.

**Fairness.** `FairSpec` adds weak fairness of `Step(w)` for each worker: an event loop runs each
request it holds to its next await, and the database answers or fails. Nothing is assumed of
clients, administrators or faults: a fault is never obliged to happen.

In the browser, fairness is given to what the event loop runs when it is due and to requests, which
end with an answer or with an error: per call (`VerifyAuth`, `Answered`) and per tab's refresh in
`FrontendSession`; answers of the login page, the session check, loads and submissions in `Console`.
Fairness of an answer does not say which: it may be a failure every time. Users are free, so the
liveness properties allow for a page that is left (`SpinnersEnd`) and do not need a click.

## 4. Findings

* **A failed alert fails the prediction** (`alert_failure`). `prediction_service.py:48`: "Alert
  creation must never make the prediction API fail." TLC's trace: metric stored, prediction
  committed, alert insert fails, answer 500. The prediction stays; a retry finds it and returns it
  without raising the alert, so the alert is lost (`lost`, `RiskGetsAlert`).
* **A server with an alert cannot be deleted** (`server_deletion`). `tests/integration/
  test_server_endpoints.py:91` deletes a server that never had one.

* **More guesses than the limit** (`lockout_attempts`). Two failed logins load the same counter
  and store the same successor. `GuessesBounded` says how bad it gets with two requests at a time:
  a stale commit can undo each level of the counter once, so the lock comes at the latest with
  wrong password number M(M+1)/2, and TLC finds that one fewer does not hold.
* **A reset that leaves the account locked** (`lockout_reset`). The reset loads no lock, a failed
  login stores one, the reset commits `locked_until = None` as no change.
* **A refresh token used twice** (`token_reuse`). Both requests look the key up before either
  writes it. The same race lets a refresh outlive a logout of its own token. `RotationsBounded` says how
  bad it gets: until its `exp` a token is rotated at most once by each of the requests that run at the
  same time.

Each of the five has its cause proved, not only its trace found: without the database's fault (or a
deletion of the request's own rows), the stored alert or the second request it cannot happen (section 5).

Not a contradiction of any document, but worth knowing: python-jose accepts a token during the
whole of its `exp` second, while the key may end as that second begins. A revoked token
can therefore be accepted once more in its last second. `SpentUntilExpiry` and
`SpentRefused` promise the time up to `exp` ("until its natural expiry", `redis_client.py:4`).

## 5. Proofs

`PredictionPipelineProofs` proves, for any sets of servers, metrics, predictions, alerts and
workers, any readings and any subset of the faults, that `Spec` implies `[]` of `TypeOK`,
`NoDanglingRows`, `OneAlertPerPrediction`, `AlertMatchesVerdict` and `AlertLostOnlyByFault`. The assumptions are `ReadingAssumption`, `FaultsAssumption` and
`MarkersAssumption` (the markers are not rows or ids).

The invariants are not inductive alone. `OneAlertPerPrediction` needs to know that a request about
to raise an alert is the only one that owns its prediction and that the
prediction never had an alert; that in turn needs what `CheckExisting` relied on to survive the
other requests' steps. `IInv` adds:

* `OnePredictionPerMetric`: the unique key of `predictions`;
* `RequestOK`: per step, what the request's fields say of the tables (its metric belongs to its
  server, its prediction was drawn, `raised` is "none" until its alert is committed);
* `OneOwner`: no two requests stand between storing and alerting the same prediction;
* `HistoryOK`: only drawn predictions were alerted, and an attached alert was recorded.

Layout: lemmas on the verdict (`VerdictType`, `SeverityType`), on moving a request (`RequestStep`,
`ReplyStep`, `MoveStep`), on removing rows (`DeleteRows`, which covers all four
deletions), one lemma per writing action, then `NextIInv` and the theorems.

`PredictionLedgerProofs` proves the refinement, `KeepsLedgerHolds`, from the same invariant, one action
at a time: `InsertPrediction` issues a verdict on a metric that the unique key says has none standing,
`RaiseAlert` raises the alarm of a standing verdict once, with the severity that verdict calls for,
the deletions withdraw, and everything else stutters. `CreatedImpliesAlertedHolds` needs `Unanswered`
beside it (`UnansweredHolds`): a request under way has given no status yet, so that the 201 is only
given at the end of the branch that raised the alert or had nothing to raise.

Three more theorems of the pipeline assume something of the faults, as named in each statement.
`EveryRiskAlerted`: if neither the database fails nor a process dies, every stored risk was alerted or
its request is about to (`AlertedOrOwed`), so deletions, retries, races and failed scorings never lose
an alert; it follows from `AlertLostOnlyByFault` and the fact that nothing but those two faults adds to
`lost`. Without the database's faults, the
other two say of one prediction and of one server that nothing else breaks the promises of the two
violated runs. `StoredFailsOnlyByFaultOrDeletion`: whatever else is deleted, updated, retried or dies, a
request that stored the prediction is answered 201 or cut off, as long as no step deletes that
prediction or its alert (`KeepsPrediction`); such deletions do make it fail, in `RefreshPrediction`,
`AlertFails`, `RefreshAlert` and `Reload`. `FindsStored` is its inductive invariant.
`DeletionFailsOnlyByAlert`: as long as no deletion of the server begins while it has an alert
(`BeginsUnalerted`), none of them answers 500, with any readings, alerts of other servers, and alerts
raised on this one after a deletion began; `SeesNoAlerts` is its inductive invariant. Both assumptions
are about steps, `[][...]_vars` beside `Spec`; without them TLC finds both conclusions false. `OwnRequest` says that
a request is changed by its own steps only.

`AccountLockoutProofs`, for any number of requests, any limit, any period: `TypeOK`,
`LockWithinPeriod` and `LockLiftedKnowingly`, from `IInv`, which adds `RequestOK`: a lock decided on
but not stored is within its period as well, and a login that got in loaded no lock or an expired one.
`SequentialLockout` proves `LockedAfterMaxAttempts` when there is a single worker: the
code is right for requests one after another, and concurrency alone breaks it. Its invariant
`SequentialInv` says that what the one request loaded is still what is stored. `SequentialReset` proves
`ResetUnlocks` likewise, from `ResetCurrent`: a reset under way has loaded the lock that is stored.
`GuessesBoundedHolds` proves `GuessesBounded` when there are two. Each request has a level
(`LevelOf`): the counter, or the older value it will set the counter back from. `ToCome` is twice the most that two
requests can still try from two levels, and `GuessesCounted` says that tried and to come never exceed what
an account without failures allows. A load or an abort takes no level down; a wrong password that is
recorded takes two off `ToCome`, whether it raises its own level (`ToComeMonotone`) or sets the other
request's back (`ToComeSetBack`); from no failures `ToCome` is M(M+1) - 2, twice the bound less two.

`PasswordResetProofs`, for any finite number of requests and any codes: `Implements`, the refinement
`CodeSpec => Spec` of `AccountLockout`, by which its theorems hold beside codes (`AccountInvariance`,
`LocksBesideCodes`, `GuessesBesideCodes`); and `UsesBounded`. It speaks of passwords
set, not of answers: a verification that fails between its commit and the `DEL` has set one and leaves the
code usable, so each of these (`interrupted`) may add one to the bound. The bound is not inductive: it has
to count the requests let in and not yet done. `UsesCounted` says that one of two things holds. Either
nobody has deleted the code, and whoever set a password with it is about to delete it (`Deleting`) or was
interrupted; or the code is gone, and what was set, with the requests past the comparison (`Entering`), is
within the bound, since nobody can join them. With one request at a time
`SequentialBesideCodes` gathers what then holds beside codes: a code sets one password, and another only
after an interrupted request; the limit is exact; a reset unlocks.

`TokenRevocationProofs`, for any number of requests and pairs, any lives and any resolution
of the clock: `TypeOK`, `SpentUntilExpiry` and `SpentRefused`. `WholeSeconds` states what cutting to
seconds loses; `KeyReachesExpiry` that `_seconds_until` makes up for it. `IInv` adds `KeysLast`
(every key, not only those of tokens given up, lasts to `exp`: a logout may give up a
token whose key another request set) and `UsesIssued` (a pair without tokens has no keys,
so issuing it cannot move an expiry under a key). `SpentRefused` then follows step by step.
`RotationsBoundedHolds` proves `RotationsBounded` for any number of requests. Like the codes' bound it
has to count who may still rotate: `RotationsCounted` says that a token once rotated stays in `spent`, and that its
rotations together with the requests past their check with it (`Passed`) are no more than the workers, until
its `exp` has passed. Nobody joins `Passed` while the key is there (`NobodyJoins`), and each `Rotate` moves a
request from one number to the other (`RotationsStep`). `OverStays`: the clock never takes a token
back before its `exp`. `SequentialRotation` proves, for a single worker, that a token
answers one pair (`SpentNotRotated`, the property of `token_reuse`). Both speak of the time before `exp`: in
the second of `exp` itself the key may be gone, as said above.

`FrontendSessionProofs`, for any number of tabs, calls and pairs: `TypeOK`, `QueueServed`,
`SpentTokenInFlight`, and `LockHasOwner`, which the others rest on. `Inv` has two halves. `Shape` says
that each call is in its tab, that a lock that is set has exactly one refresh and one owner, and that
queue and phases agree; `ReleaseStep` is the lemma about the end of a refresh, on whichever path.
`Ledger` says of the tokens that a pair is issued before it is stored, that the answer of a refresh
in progress is nobody else's (`AnswersFresh`), and `Covered`: a stored token that the server has
revoked is carried by some request. A logout that is retried after a refresh carries an *older*
token, and a tab may be closed between revocation and answer, which is why `Covered` speaks
of all tabs and of `abandoned`. The latter is an exception and not a detail of the proof: a page reloaded
while its refresh is at the server leaves the spent token in the browser, with no answer on its way, until
a call that needs it is refused and the client signs out.

`ConsoleProofs`, for any addresses, rows, servers, roles and bounds: `TypeOK`, `FormLocked`,
`CodeFormNamesAddress`, `OneSubmission` and `ListIsCurrent`. The assumptions are
`LoginAssumption` and `PagesAssumption`. `LoginInv` adds that a request for a code is for the address
in the field unless that was edited. `PagesInv` gives loads and writes the types of the page that is
mounted (so a step of one page never meets an answer of another) and adds, for `ListIsCurrent`:

* `LatePrefix`: loads that were overtaken are older than all others in progress;
* `Current`: while the newest load is in progress (`Pending`) it is what *that load* has read that
  matches the server (`NewestMatches`); once it was answered it is the list (`ListMatches`); and after a
  failure nothing is claimed until a load begins. A row is excepted while its own write is applied
  and not yet answered (`Touched`), and once others changed it after the read (`missed`).

`ListIsCurrent` alone is not inductive because it says nothing while a load is in progress, which is
when the answer that will be shown is read. `NewestMatches` cannot be had for older loads either: a write
that succeeds makes them wrong, and it is the load begun then that makes up for it. Layout:
sequence lemmas (`RemoveAtProperties`, `OvertakeProperties`, `MissProperties`), `CurrentKept` and
`CurrentMissed` for the steps that leave loads alone, `BegunInv` for those that begin one,
`MountInv` for navigation and sign-in, then one lemma per action.

`RiskScanProofs`, for any scores, servers and lists of any length: every property of `risk_verdicts`,
and `SeverityMonotone` (a larger probability never gets a milder alert), which no run repeats. The
verdict is arithmetic at the thresholds (`VerdictParts`). For the lists, counts are cardinalities of sets of
positions, so no induction over the list is needed: `Halves` and `Disjoint` split a list in two and in
three, `FiguresAddUp` and `Counted` apply them to the figures, and `RoundedBounds` bounds what rounding
adds, for the failure rate (`RateIsNear`) and for the legend (`PercentsAddUp`). `IInv`
adds `NewestFirst`, that the rows of the newest millisecond form a prefix: `CurrentIsNewest` rests on it.

Model-checked only: liveness (`EveryRequestAnswered`, `MetricGetsPrediction`, `RiskGetsAlert`,
`EveryCallSettles`, `CheckingEnds`, `SpinnersEnd`, `LoginUnlocks`), since the prover has no fairness and no
`ENABLED`. `GuessesBounded` is stated and proved for two requests; with more of them the counter can be
set back more often, the bound would be a recursion over the requests, and nothing is claimed.

## 6. Not modelled

Reading endpoints; validation and schemas; logging and middleware; the mail transports; the
classifier; training scripts and migrations. In the console: drawing, wording and layout; the search
and filter fields that choose among rows already loaded; the theme; profile and unread badge of
sidebar and top bar, read once per mount; `Analytics.jsx`, which is static; the cards and charts of
the metrics page, which show columns as they are. Registration and
the management of users do not appear (see the plan), except for what an administrator writes to
one account (`UpdateUser`). No property says that a delivered code works until it
expires: a newer request replaces it, and the code lets a failed mail delete it
(`DeleteUndelivered`). The unique `hostname` and the descriptive columns of a
server are left out: no property reads them. Connection-pool limits are covered by
`DatabaseFails`: a request that gets no connection fails.

## 7. Plan

In order; each entry is a module with its checks and proofs.

1. `RiskModel`, `RiskScan`, `RiskScanProofs`, `PredictionPipeline`, `PredictionLedger`, `PredictionPipelineProofs`,
   `PredictionLedgerProofs` - done.
2. `AccountLockout`, `AccountLockoutProofs` - done.
3. `TokenRevocation`, `TokenRevocationProofs` - done.
4. `FrontendSession`, `FrontendSessionProofs` - done.
5. `LoginPage`, `ConsolePages`, `Console`, `ConsoleProofs`, `ConsoleViews` - done.
6. `PasswordReset`, `PasswordResetProofs` - done.
7. `UserAdministration` - left to do: registration (by form and by Google), what an administrator does to
   other users, and requests admitted before their caller lost the role. To state: administrators nobody
   appointed are at most as many as requests run at the same time, and so are the writes of a
   deposed administrator. To settle: `auth.py:68` ("New users always start as VIEWER") against
   `auth_service.py:67` and `auth_service.py:169`, where the first user becomes an administrator. That nothing
   keeps the last administrator is recorded as a hazard.
