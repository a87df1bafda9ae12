-------------------------- MODULE PredictionPipeline --------------------------
(***************************************************************************)
(* From a metric to its prediction to its alert: the tables servers,       *)
(* metrics, predictions and alerts, and the requests that gunicorn's       *)
(* workers run against them.                                               *)
(*                                                                         *)
(* Every repository method of the code commits, so a request is a sequence *)
(* of database statements between which other requests run.  One action is *)
(* one such statement with the code that follows it up to the next.  The   *)
(* DELETE and PUT handlers that look a row up and then write it by its id  *)
(* are one action: when the row, or one written with it, vanishes in       *)
(* between, nothing is written and only the answer differs.  The deletion  *)
(* of a server is two (see below).                                         *)
(*                                                                         *)
(* Postgres runs at READ COMMITTED; uniqueness and foreign keys are        *)
(* checked when the row is written.  Ids are uuid4: never used twice.      *)
(***************************************************************************)
EXTENDS Integers, FiniteSets, RiskModel

CONSTANTS
  ServerId, MetricId, PredictionId, AlertId,  \* the uuids that may be drawn
  Worker,       \* the requests that may run at the same time
  Reading,      \* the scores the classifier gives to the metrics sent
  Faults,       \* what may go wrong around the code, a subset of FaultKinds
  Unused, Deleted,   \* an id never drawn, an id whose row was deleted
  None               \* SQL NULL, and a field of a request not set yet

FaultKinds == {"scoring", "database", "crash"}

MetricRow == [server : ServerId, reading : Reading]

PredictionRow ==
  [metric : MetricId, server : ServerId, verdict : Verdicts]

AlertRow ==
  [server : ServerId, prediction : PredictionId \cup {None},
   severity : Severity, read : BOOLEAN]

ASSUME ReadingAssumption == Reading \subseteq Probability

ASSUME FaultsAssumption == Faults \subseteq FaultKinds

ASSUME MarkersAssumption ==
  /\ Unused # Deleted
  /\ {Unused, Deleted} \cap (MetricRow \cup PredictionRow \cup AlertRow) = {}
  /\ None \notin ServerId \cup MetricId \cup PredictionId \cup AlertId \cup Reading

VARIABLES
  servers,       \* [ServerId -> {"unused", "live", "deleted"}]
  metrics, predictions, alerts,   \* the tables, by id
  req,           \* what each worker's request knows and where it stands
  raised,        \* history: the severity committed for a prediction, or "none"
  lost           \* history: predictions whose alert a request gave up on

vars == <<servers, metrics, predictions, alerts, req, raised, lost>>

Steps == {"idle", "saved", "lookup", "check", "score", "stored", "alert",
          "alertSaved", "reload", "deleteServer"}

Request ==
  [pc         : Steps,
   server     : ServerId \cup {None},
   metric     : MetricId \cup {None},
   reading    : Reading \cup {None},
   prediction : PredictionId \cup {None},
   alert      : AlertId \cup {None},
   sawAlerts  : BOOLEAN,                  \* rows of Server.alerts were loaded
   status     : {0, 201, 204, 404, 500}]  \* the last answer, 0 while none

IdleRequest ==
  [pc |-> "idle", server |-> None, metric |-> None, reading |-> None,
   prediction |-> None, alert |-> None, sawAlerts |-> FALSE, status |-> 0]

Live(table, id) == table[id] \notin {Unused, Deleted}

PredictionsOf(m) ==
  {p \in PredictionId : Live(predictions, p) /\ predictions[p].metric = m}

\* The request has stored its prediction and not yet tried the alert.
OwesAlert(r) ==
  /\ r.pc \in {"stored", "alert"}
  /\ Live(predictions, r.prediction)
  /\ NeedsAlert(predictions[r.prediction].verdict)

Init ==
  /\ servers = [s \in ServerId |-> "unused"]
  /\ metrics = [m \in MetricId |-> Unused]
  /\ predictions = [p \in PredictionId |-> Unused]
  /\ alerts = [a \in AlertId |-> Unused]
  /\ req = [w \in Worker |-> IdleRequest]
  /\ raised = [p \in PredictionId |-> "none"]
  /\ lost = {}

tables == <<servers, metrics, predictions, alerts>>
history == <<raised, lost>>

\* Answer the client; the worker is free for its next request.
Reply(w, code) == req' = [req EXCEPT ![w] = [IdleRequest EXCEPT !.status = code]]

Goto(w, step) == req' = [req EXCEPT ![w] = [@ EXCEPT !.pc = step]]

-----------------------------------------------------------------------------
(* POST /metrics: save the metric, then predict from it.                   *)

CreateServer(s) ==
  /\ servers[s] = "unused"
  /\ servers' = [servers EXCEPT ![s] = "live"]
  /\ UNCHANGED <<metrics, predictions, alerts, req, history>>

IngestMetric(w, m, s, r) ==
  /\ req[w].pc = "idle"
  /\ metrics[m] = Unused
  /\ servers[s] = "live"
  /\ metrics' = [metrics EXCEPT ![m] = [server |-> s, reading |-> r]]
  /\ req' = [req EXCEPT ![w] =
               [IdleRequest EXCEPT !.pc = "saved", !.metric = m, !.server = s]]
  /\ UNCHANGED <<servers, predictions, alerts, history>>

\* The foreign key metrics.server_id fails: the payload names no server.
IngestRejected(w, s) ==
  /\ req[w].pc = "idle"
  /\ servers[s] # "live"
  /\ Reply(w, 500)
  /\ UNCHANGED <<tables, history>>

\* Mutant of RefreshMetric: the handler answers once the metric is saved.
RefreshMetricOnly(w) ==
  /\ req[w].pc = "saved"
  /\ Reply(w, IF Live(metrics, req[w].metric) THEN 201 ELSE 500)
  /\ UNCHANGED <<tables, history>>

\* session.refresh(metric): the features used are those of the row now.
RefreshMetric(w) ==
  /\ req[w].pc = "saved"
  /\ IF Live(metrics, req[w].metric)
       THEN req' = [req EXCEPT ![w] =
              [@ EXCEPT !.pc = "check", !.reading = metrics[req[w].metric].reading]]
       ELSE Reply(w, 500)
  /\ UNCHANGED <<tables, history>>

-----------------------------------------------------------------------------
(* POST /predictions: predict from a metric stored earlier.                *)

RequestPrediction(w, m, s) ==
  /\ req[w].pc = "idle"
  /\ IF PredictionsOf(m) # {}
       THEN Reply(w, 201)
       ELSE req' = [req EXCEPT ![w] =
              [IdleRequest EXCEPT !.pc = "lookup", !.metric = m, !.server = s]]
  /\ UNCHANGED <<tables, history>>

LookupMetric(w) ==
  LET r == req[w] IN
  /\ r.pc = "lookup"
  /\ IF ~Live(metrics, r.metric)
       THEN Reply(w, 404)
       ELSE IF metrics[r.metric].server # r.server
       THEN Reply(w, 500)
       ELSE req' = [req EXCEPT ![w] =
              [@ EXCEPT !.pc = "check", !.reading = metrics[r.metric].reading]]
  /\ UNCHANGED <<tables, history>>

-----------------------------------------------------------------------------
(* Both: score the metric, store the prediction, raise the alert.          *)

\* Mutant of CheckExisting: a retry that finds the prediction raises its alert.
CheckExistingAlerts(w) ==
  LET found == PredictionsOf(req[w].metric) IN
  /\ req[w].pc = "check"
  /\ IF found # {}
       THEN \E p \in found :
              req' = [req EXCEPT ![w] = [@ EXCEPT !.pc = "stored", !.prediction = p]]
       ELSE Goto(w, "score")
  /\ UNCHANGED <<tables, history>>

CheckExisting(w) ==
  /\ req[w].pc = "check"
  /\ IF PredictionsOf(req[w].metric) # {} THEN Reply(w, 201) ELSE Goto(w, "score")
  /\ UNCHANGED <<tables, history>>

\* predict_failure raises: the model cannot be loaded, a feature is invalid.
ScoringFails(w) ==
  /\ "scoring" \in Faults
  /\ req[w].pc = "score"
  /\ Reply(w, 500)
  /\ UNCHANGED <<tables, history>>

\* Mutant of Insertable: metric_id without its unique constraint.
InsertableTwice(m) == Live(metrics, m)

\* predictions.metric_id is a foreign key and unique.
Insertable(m) == Live(metrics, m) /\ PredictionsOf(m) = {}

\* Mutant of InsertPrediction: a service wired without its alert service.
InsertPredictionUnwired(w, p) ==
  LET r == req[w] IN
  /\ r.pc = "score"
  /\ Insertable(r.metric)
  /\ predictions[p] = Unused
  /\ predictions' = [predictions EXCEPT ![p] =
       [metric |-> r.metric, server |-> r.server, verdict |-> Verdict(r.reading)]]
  /\ req' = [req EXCEPT ![w] = [@ EXCEPT !.pc = "reload", !.prediction = p]]
  /\ UNCHANGED <<servers, metrics, alerts, history>>

InsertPrediction(w, p) ==
  LET r == req[w] IN
  /\ r.pc = "score"
  /\ Insertable(r.metric)
  /\ predictions[p] = Unused
  /\ predictions' = [predictions EXCEPT ![p] =
       [metric |-> r.metric, server |-> r.server, verdict |-> Verdict(r.reading)]]
  /\ req' = [req EXCEPT ![w] = [@ EXCEPT !.pc = "stored", !.prediction = p]]
  /\ UNCHANGED <<servers, metrics, alerts, history>>

InsertRejected(w) ==
  /\ req[w].pc = "score"
  /\ ~Insertable(req[w].metric)
  /\ Reply(w, 500)
  /\ UNCHANGED <<tables, history>>

\* Mutants of RefreshPrediction: medium risk without a predicted failure raises
\* no alert; every prediction raises one.
RefreshPredictionFailuresOnly(w) ==
  LET r == req[w] IN
  /\ r.pc = "stored"
  /\ IF ~Live(predictions, r.prediction)
       THEN Reply(w, 500)
       ELSE Goto(w, IF predictions[r.prediction].verdict.failure
                    THEN "alert" ELSE "reload")
  /\ UNCHANGED <<tables, history>>

RefreshPredictionAlways(w) ==
  LET r == req[w] IN
  /\ r.pc = "stored"
  /\ IF ~Live(predictions, r.prediction) THEN Reply(w, 500) ELSE Goto(w, "alert")
  /\ UNCHANGED <<tables, history>>

\* session.refresh(prediction), then the branch of create_alert_from_prediction.
RefreshPrediction(w) ==
  LET r == req[w] IN
  /\ r.pc = "stored"
  /\ IF ~Live(predictions, r.prediction)
       THEN Reply(w, 500)
       ELSE Goto(w, IF NeedsAlert(predictions[r.prediction].verdict)
                    THEN "alert" ELSE "reload")
  /\ UNCHANGED <<tables, history>>

LoseAlert(w) ==
  lost' = lost \cup (IF OwesAlert(req[w]) THEN {req[w].prediction} ELSE {})

\* Mutant of RaiseAlert: the severity follows the metric, not the prediction.
RaiseAlertFromMetric(w, a) ==
  LET p == req[w].prediction
      now == AlertSeverity(Verdict(metrics[predictions[p].metric].reading))
  IN
  /\ req[w].pc = "alert"
  /\ Live(predictions, p)
  /\ alerts[a] = Unused
  /\ alerts' = [alerts EXCEPT ![a] =
       [server |-> predictions[p].server, prediction |-> p,
        severity |-> now, read |-> FALSE]]
  /\ req' = [req EXCEPT ![w] = [@ EXCEPT !.pc = "alertSaved", !.alert = a]]
  /\ raised' = [raised EXCEPT ![p] = now]
  /\ UNCHANGED <<servers, metrics, predictions, lost>>

\* The foreign keys alerts.server_id and alerts.prediction_id hold.
RaiseAlert(w, a) ==
  LET p == req[w].prediction IN
  /\ req[w].pc = "alert"
  /\ Live(predictions, p)
  /\ alerts[a] = Unused
  /\ alerts' = [alerts EXCEPT ![a] =
       [server |-> predictions[p].server, prediction |-> p,
        severity |-> AlertSeverity(predictions[p].verdict), read |-> FALSE]]
  /\ req' = [req EXCEPT ![w] = [@ EXCEPT !.pc = "alertSaved", !.alert = a]]
  /\ raised' = [raised EXCEPT ![p] = AlertSeverity(predictions[p].verdict)]
  /\ UNCHANGED <<servers, metrics, predictions, lost>>

\* The insert fails.  AlertRepository.create rolls back, which expires every
\* object of the session, and re-raises; _create_alert_if_required swallows the
\* exception; but the caller then reads saved_prediction.id, whose reload is
\* I/O outside the session's greenlet: MissingGreenlet, answered 500.
AlertFails(w) ==
  LET p == req[w].prediction IN
  /\ req[w].pc = "alert"
  /\ "database" \in Faults \/ ~Live(predictions, p)
  /\ Reply(w, 500)
  /\ LoseAlert(w)
  /\ UNCHANGED <<tables, raised>>

\* session.refresh(alert): fails, as above, when the alert is already deleted.
RefreshAlert(w) ==
  /\ req[w].pc = "alertSaved"
  /\ IF Live(alerts, req[w].alert) THEN Goto(w, "reload") ELSE Reply(w, 500)
  /\ UNCHANGED <<tables, history>>

\* Mutant of Reload: polls until the prediction can be read.
ReloadPolls(w) ==
  /\ req[w].pc = "reload"
  /\ Live(predictions, req[w].prediction)
  /\ Reply(w, 201)
  /\ UNCHANGED <<tables, history>>

Reload(w) ==
  /\ req[w].pc = "reload"
  /\ Reply(w, IF Live(predictions, req[w].prediction) THEN 201 ELSE 404)
  /\ UNCHANGED <<tables, history>>

-----------------------------------------------------------------------------
(* Faults around the code.                                                 *)

\* A statement fails, the connection is lost, a deadlock is broken: the
\* exception leaves the service, get_db rolls back, the client reads 500.
DatabaseFails(w) ==
  /\ "database" \in Faults
  /\ req[w].pc \notin {"idle", "alert"}
  /\ Reply(w, 500)
  /\ LoseAlert(w)
  /\ UNCHANGED <<tables, raised>>

\* The process dies: what was committed stays, nothing answers the client.
Crash(w) ==
  /\ "crash" \in Faults
  /\ req[w].pc # "idle"
  /\ Reply(w, 0)
  /\ LoseAlert(w)
  /\ UNCHANGED <<tables, raised>>

-----------------------------------------------------------------------------
(* The other handlers that write.                                          *)

\* Mutant of UpdateMetric: the prediction is recomputed in place.
UpdateMetricRescores(m, r) ==
  /\ Live(metrics, m)
  /\ metrics' = [metrics EXCEPT ![m].reading = r]
  /\ predictions' = [p \in PredictionId |->
       IF p \in PredictionsOf(m)
         THEN [predictions[p] EXCEPT !.verdict = Verdict(r)] ELSE predictions[p]]
  /\ UNCHANGED <<servers, alerts, req, history>>

\* PUT /metrics/{id}: the prediction made from the metric is not revisited.
UpdateMetric(m, r) ==
  /\ Live(metrics, m)
  /\ metrics' = [metrics EXCEPT ![m].reading = r]
  /\ UNCHANGED <<servers, predictions, alerts, req, history>>

\* Mutant of WithoutPredictions: neither the backref nor the database clears it.
WithoutPredictionsKept(table, S) == table

\* Alert.prediction is a backref without cascade: the unit of work writes NULL
\* (and so does ON DELETE SET NULL, for an alert it had not loaded).
WithoutPredictions(table, S) ==
  [a \in AlertId |->
     IF Live(table, a) /\ table[a].prediction \in S
       THEN [table[a] EXCEPT !.prediction = None] ELSE table[a]]

Drop(table, S) == [id \in DOMAIN table |-> IF id \in S THEN Deleted ELSE table[id]]

DeleteMetric(m) ==
  /\ Live(metrics, m)
  /\ metrics' = Drop(metrics, {m})
  /\ predictions' = Drop(predictions, PredictionsOf(m))
  /\ alerts' = WithoutPredictions(alerts, PredictionsOf(m))
  /\ UNCHANGED <<servers, req, history>>

\* Bound: a prediction is deleted only while the ids never drawn outnumber the
\* metrics still to be predicted, so that InsertPrediction always finds one.
IdToSpare ==
  Cardinality({p \in PredictionId : predictions[p] = Unused}) >
  Cardinality({m \in MetricId : metrics[m] # Deleted /\ PredictionsOf(m) = {}})

DeletePrediction(p) ==
  /\ Live(predictions, p)
  /\ IdToSpare
  /\ predictions' = Drop(predictions, {p})
  /\ alerts' = WithoutPredictions(alerts, {p})
  /\ UNCHANGED <<servers, metrics, req, history>>

DeleteAlert(a) ==
  /\ Live(alerts, a)
  /\ alerts' = Drop(alerts, {a})
  /\ UNCHANGED <<servers, metrics, predictions, req, history>>

MarkAlertRead(a) ==
  /\ Live(alerts, a)
  /\ alerts' = [alerts EXCEPT ![a].read = TRUE]
  /\ UNCHANGED <<servers, metrics, predictions, req, history>>

\* DELETE /servers/{id}.  The flush first loads Server.alerts (a backref, no
\* cascade, no passive_deletes) ...
StartDeleteServer(w, s) ==
  /\ req[w].pc = "idle"
  /\ IF servers[s] = "live"
       THEN req' = [req EXCEPT ![w] =
              [IdleRequest EXCEPT !.pc = "deleteServer", !.server = s,
                 !.sawAlerts = \E a \in AlertId :
                                 Live(alerts, a) /\ alerts[a].server = s]]
       ELSE Reply(w, 404)
  /\ UNCHANGED <<tables, history>>

\* ... and, when it found some, writes NULL into their server_id, a NOT NULL
\* column (or finds one already gone): either way the flush fails, 500.
DeleteServerFails(w) ==
  /\ req[w].pc = "deleteServer"
  /\ req[w].sawAlerts
  /\ Reply(w, 500)
  /\ UNCHANGED <<tables, history>>

\* Otherwise the row goes and Postgres cascades to its metrics, to their
\* predictions and to the alerts committed since they were loaded.
DeleteServer(w) ==
  LET s == req[w].server
      M == {m \in MetricId : Live(metrics, m) /\ metrics[m].server = s}
      P == {p \in PredictionId : /\ Live(predictions, p)
                                 /\ \/ predictions[p].server = s
                                    \/ predictions[p].metric \in M}
      A == {a \in AlertId : Live(alerts, a) /\ alerts[a].server = s}
  IN
  /\ req[w].pc = "deleteServer"
  /\ ~req[w].sawAlerts
  /\ servers' = [servers EXCEPT ![s] = "deleted"]
  /\ metrics' = Drop(metrics, M)
  /\ predictions' = Drop(predictions, P)
  /\ alerts' = Drop(WithoutPredictions(alerts, P), A)
  /\ Reply(w, 204)
  /\ UNCHANGED history

-----------------------------------------------------------------------------
\* What a worker does to bring its request to an answer.
Step(w) ==
  \/ RefreshMetric(w) \/ LookupMetric(w) \/ CheckExisting(w)
  \/ \E p \in PredictionId : InsertPrediction(w, p)
  \/ InsertRejected(w) \/ RefreshPrediction(w)
  \/ \E a \in AlertId : RaiseAlert(w, a)
  \/ AlertFails(w) \/ RefreshAlert(w) \/ Reload(w)
  \/ DeleteServerFails(w) \/ DeleteServer(w)

Accept(w) ==
  \/ \E m \in MetricId, s \in ServerId, r \in Reading : IngestMetric(w, m, s, r)
  \/ \E s \in ServerId : IngestRejected(w, s) \/ StartDeleteServer(w, s)
  \/ \E m \in MetricId, s \in ServerId : RequestPrediction(w, m, s)

Fault(w) == ScoringFails(w) \/ DatabaseFails(w) \/ Crash(w)

Maintain ==
  \/ \E s \in ServerId : CreateServer(s)
  \/ \E m \in MetricId : DeleteMetric(m) \/ \E r \in Reading : UpdateMetric(m, r)
  \/ \E p \in PredictionId : DeletePrediction(p)
  \/ \E a \in AlertId : DeleteAlert(a) \/ MarkAlertRead(a)

Next == Maintain \/ \E w \in Worker : Accept(w) \/ Step(w) \/ Fault(w)

\* An event loop runs every request it holds; nothing else is promised.
Fairness == \A w \in Worker : WF_vars(Step(w))

Spec == Init /\ [][Next]_vars

FairSpec == Spec /\ Fairness

-----------------------------------------------------------------------------
(* Properties.                                                             *)

\* Every variable stays in its type: rows hold what the columns may hold, and a
\* request carries only the fields its step has set.
TypeOK ==
  /\ servers \in [ServerId -> {"unused", "live", "deleted"}]
  /\ metrics \in [MetricId -> MetricRow \cup {Unused, Deleted}]
  /\ predictions \in [PredictionId -> PredictionRow \cup {Unused, Deleted}]
  /\ alerts \in [AlertId -> AlertRow \cup {Unused, Deleted}]
  /\ req \in [Worker -> Request]
  /\ raised \in [PredictionId -> Severity \cup {"none"}]
  /\ lost \subseteq PredictionId

\* No row names a row that is gone, and the three tables agree on the server: a
\* prediction belongs to the server of its metric, an alert to the server of its
\* prediction, whatever deletions run beside the request that stores them.
NoDanglingRows ==
  /\ \A m \in MetricId : Live(metrics, m) => servers[metrics[m].server] = "live"
  /\ \A p \in PredictionId : Live(predictions, p) =>
       /\ Live(metrics, predictions[p].metric)
       /\ metrics[predictions[p].metric].server = predictions[p].server
  /\ \A a \in AlertId : Live(alerts, a) =>
       /\ servers[alerts[a].server] = "live"
       /\ alerts[a].prediction # None =>
            /\ Live(predictions, alerts[a].prediction)
            /\ predictions[alerts[a].prediction].server = alerts[a].server

\* A prediction has at most one alert: no retry and no concurrent request raises
\* a second one.  The database does not enforce it.
OneAlertPerPrediction ==
  \A a, b \in AlertId :
    /\ Live(alerts, a)
    /\ Live(alerts, b)
    /\ alerts[a].prediction = alerts[b].prediction
    /\ alerts[a].prediction # None
    => a = b

\* An alert still attached to its prediction has the severity that the stored
\* risk and failure flag call for, and a low-risk prediction has none.
AlertMatchesVerdict ==
  \A a \in AlertId :
    Live(alerts, a) /\ alerts[a].prediction # None =>
      AlertSeverity(predictions[alerts[a].prediction].verdict) = alerts[a].severity

\* A medium or high risk prediction without an alert is one whose request is
\* still to raise it, or lost it to a fault: no path of the code skips the alert.
AlertLostOnlyByFault ==
  \A p \in PredictionId :
    /\ Live(predictions, p)
    /\ NeedsAlert(predictions[p].verdict)
    /\ raised[p] = "none"
    => \/ p \in lost
       \/ \E w \in Worker : OwesAlert(req[w]) /\ req[w].prediction = p

\* The request that stored a medium or high risk prediction answers 201 only
\* once the alert is committed.  (A request that finds the prediction stored by
\* another, the branch of CheckExisting, may answer before.)
CreatedImpliesAlerted ==
  [][\A w \in Worker :
       /\ req[w].pc = "reload"
       /\ req'[w].status = 201
       /\ NeedsAlert(predictions[req[w].prediction].verdict)
       => raised[req[w].prediction] # "none"]_vars

\* "Alert creation must never make the prediction API fail": while its
\* prediction stands, a request whose alert was rejected is not answered 500.
AlertNeverFailsRequest ==
  [][\A w \in Worker :
       /\ req[w].pc = "alert"
       /\ Live(predictions, req[w].prediction)
       => req'[w].status # 500]_vars

\* "Admin can delete server (204)": no deletion of a server that exists fails.
ServerDeletable ==
  [][\A w \in Worker : req[w].pc = "deleteServer" => req'[w].status # 500]_vars

\* Every request comes to its answer.
EveryRequestAnswered ==
  \A w \in Worker : req[w].pc # "idle" ~> req[w].pc = "idle"

\* A saved metric gets its prediction, be it from its own request or from one
\* that overtakes it, unless it is deleted first or its client is told otherwise:
\* answered 500, or cut off (the prediction can then be asked for again).
MetricGetsPrediction ==
  \A w \in Worker, m \in MetricId :
    (req[w].pc = "saved" /\ req[w].metric = m)
      ~> \/ PredictionsOf(m) # {}
         \/ ~Live(metrics, m)
         \/ req[w].pc = "idle" /\ req[w].status \in {0, 500}

\* A medium or high risk prediction gets its alert, unless it is deleted first or
\* its request loses the alert to a fault; nothing repairs the latter.
RiskGetsAlert ==
  \A p \in PredictionId :
    (Live(predictions, p) /\ NeedsAlert(predictions[p].verdict))
      ~> (raised[p] # "none" \/ ~Live(predictions, p) \/ p \in lost)

-----------------------------------------------------------------------------
(* The inductive invariant: the safety invariants above, and what the       *)
(* requests under way know of the tables.                                  *)

\* A metric has at most one prediction (predictions.metric_id is unique).
OnePredictionPerMetric ==
  \A p, q \in PredictionId :
    /\ Live(predictions, p)
    /\ Live(predictions, q)
    /\ predictions[p].metric = predictions[q].metric
    => p = q

\* The request that stored a prediction and has not tried its alert.
Owns(r) == r.pc \in {"stored", "alert"}

RequestOK(r) ==
  /\ r.pc \in {"saved", "lookup", "check", "score"} => r.metric \in MetricId
  /\ r.pc \in {"saved", "check", "score"} =>
       /\ r.server \in ServerId
       /\ metrics[r.metric] # Unused
       /\ Live(metrics, r.metric) => metrics[r.metric].server = r.server
  /\ r.pc \in {"check", "score"} => r.reading \in Reading
  /\ r.pc \in {"stored", "alert", "alertSaved", "reload"} =>
       /\ r.prediction \in PredictionId
       /\ predictions[r.prediction] # Unused
  /\ Owns(r) => raised[r.prediction] = "none"
  /\ r.pc = "alert" /\ Live(predictions, r.prediction) =>
       NeedsAlert(predictions[r.prediction].verdict)
  /\ r.pc \in {"alertSaved", "reload"} /\ Live(predictions, r.prediction)
       /\ NeedsAlert(predictions[r.prediction].verdict)
       => raised[r.prediction] # "none"
  /\ r.pc = "alertSaved" => r.alert \in AlertId
  /\ r.pc = "deleteServer" => r.server \in ServerId

OneOwner ==
  \A v, w \in Worker :
    Owns(req[v]) /\ Owns(req[w]) /\ req[v].prediction = req[w].prediction => v = w

HistoryOK ==
  /\ \A p \in PredictionId : raised[p] # "none" => predictions[p] # Unused
  /\ \A a \in AlertId : Live(alerts, a) /\ alerts[a].prediction # None =>
       raised[alerts[a].prediction] # "none"

\* Nobody is answered before the end of the request.
Unanswered == \A w \in Worker : req[w].pc # "idle" => req[w].status = 0

\* Without a fault of the database or a crash: every medium or high risk prediction has
\* its alert, or will get it from the request that stored it.
AlertedOrOwed ==
  \A p \in PredictionId :
    /\ Live(predictions, p)
    /\ NeedsAlert(predictions[p].verdict)
    => \/ raised[p] # "none"
       \/ \E w \in Worker : OwesAlert(req[w]) /\ req[w].prediction = p

IInv ==
  /\ TypeOK
  /\ NoDanglingRows
  /\ OnePredictionPerMetric
  /\ OneAlertPerPrediction
  /\ AlertMatchesVerdict
  /\ AlertLostOnlyByFault
  /\ \A w \in Worker : RequestOK(req[w])
  /\ OneOwner
  /\ HistoryOK

-----------------------------------------------------------------------------
(* Requests that nothing of theirs is taken from.                          *)

AfterStore == {"stored", "alert", "alertSaved", "reload"}

\* The step deletes neither p nor an alert of it.
KeepsPrediction(p) ==
  /\ Live(predictions, p) => Live(predictions', p)
  /\ \A a \in AlertId :
       Live(alerts, a) /\ alerts[a].prediction = p => Live(alerts', a)

\* As long as every step keeps p: a request that stored it finds it, and its alert.
FindsStored(p) ==
  \A w \in Worker :
    req[w].pc \in AfterStore /\ req[w].prediction = p =>
      /\ Live(predictions, p)
      /\ req[w].pc = "alertSaved" =>
           Live(alerts, req[w].alert) /\ alerts[req[w].alert].prediction = p

\* No step of that request answers anything but 201, though it may be cut off.
StoredIsAnswered(p) ==
  \A w \in Worker :
    req[w].pc \in AfterStore /\ req[w].prediction = p => req'[w].status \in {0, 201}

\* A deletion of s that begins with this step finds no alert of it.
BeginsUnalerted(s) ==
  \A w \in Worker :
    req[w].pc = "idle" /\ req'[w].pc = "deleteServer" /\ req'[w].server = s =>
      ~\E a \in AlertId : Live(alerts, a) /\ alerts[a].server = s

\* As long as every deletion of s begins so: none of them loaded an alert.
SeesNoAlerts(s) ==
  \A w \in Worker : req[w].pc = "deleteServer" /\ req[w].server = s => ~req[w].sawAlerts

DeletionSucceeds(s) ==
  \A w \in Worker : req[w].pc = "deleteServer" /\ req[w].server = s => req'[w].status # 500

-----------------------------------------------------------------------------
(* The pipeline keeps the ledger's promise.  An alarm outlives its alert's   *)
(* row and its verdict, so it is read off the history.                     *)

Ledger == INSTANCE PredictionLedger WITH
  verdict <- [p \in PredictionId |->
    IF predictions[p] = Unused THEN [state |-> "notIssued"]
    ELSE IF predictions[p] = Deleted THEN [state |-> "withdrawn"]
    ELSE [state |-> "standing", metric |-> predictions[p].metric,
          verdict |-> predictions[p].verdict]],
  alarm <- raised

\* Every step of the pipeline is a step of the ledger or leaves it alone.
KeepsLedger == Ledger!LedgerSpec
=============================================================================
