----------------------- MODULE PredictionPipelineProofs -----------------------
(***************************************************************************)
(* Proofs about PredictionPipeline, for any number of servers, metrics,    *)
(* predictions, alerts and concurrent requests, and for any set of faults. *)
(***************************************************************************)
EXTENDS PredictionPipeline, TLAPS

USE DEF Live, history, tables

-----------------------------------------------------------------------------
(* The verdict and the severity.                                           *)

\* A verdict fits the columns that store it.
LEMMA VerdictType == ASSUME NEW s \in Probability PROVE Verdict(s) \in Verdicts
  BY DEF Probability, Scale, StoredScale, Verdict, Verdicts, Risk, RiskLevel,
         PredictedFailure, StoredProbability

\* A verdict that needs an alert names one of the two severities.
LEMMA SeverityType ==
  ASSUME NEW v \in Verdicts, NeedsAlert(v)
  PROVE  AlertSeverity(v) \in Severity /\ AlertSeverity(v) # "none"
  BY DEF NeedsAlert, AlertSeverity, Severity

-----------------------------------------------------------------------------
(* A step that changes one request and no table.  Most of the actions are  *)
(* of this kind.                                                           *)

LEMMA RequestStep ==
  ASSUME IInv, NEW w \in Worker, NEW r \in Request,
         UNCHANGED tables, UNCHANGED raised,
         req' = [req EXCEPT ![w] = r],
         lost' \in SUBSET PredictionId, lost \subseteq lost',
         RequestOK(r),
         Owns(r) => Owns(req[w]) /\ r.prediction = req[w].prediction,
         OwesAlert(req[w]) =>
           \/ req[w].prediction \in lost'
           \/ OwesAlert(r) /\ r.prediction = req[w].prediction
  PROVE  IInv'
<1> USE DEF IInv
<1>0. /\ req \in [Worker -> Request]
      /\ req' \in [Worker -> Request]
      /\ req'[w] = r
      /\ \A v \in Worker \ {w} : req'[v] = req[v]
  BY DEF TypeOK
<1>1. TypeOK'
  BY <1>0 DEF TypeOK
<1>2. NoDanglingRows'
  BY DEF NoDanglingRows
<1>3. OnePredictionPerMetric'
  BY DEF OnePredictionPerMetric
<1>4. OneAlertPerPrediction'
  BY DEF OneAlertPerPrediction
<1>5. AlertMatchesVerdict'
  BY DEF AlertMatchesVerdict
<1>6. AlertLostOnlyByFault'
  <2> SUFFICES ASSUME NEW p \in PredictionId,
                      Live(predictions, p), NeedsAlert(predictions[p].verdict),
                      raised[p] = "none", p \notin lost'
               PROVE  \E v \in Worker : (OwesAlert(req[v]) /\ req[v].prediction = p)'
    BY DEF AlertLostOnlyByFault
  <2>1. PICK v \in Worker : OwesAlert(req[v]) /\ req[v].prediction = p
    BY DEF AlertLostOnlyByFault
  <2>2. CASE v = w
    BY <1>0, <2>1, <2>2 DEF OwesAlert
  <2>3. CASE v # w
    BY <1>0, <2>1, <2>3 DEF OwesAlert
  <2> QED BY <2>2, <2>3
<1>7. (\A v \in Worker : RequestOK(req[v]))'
  <2> SUFFICES ASSUME NEW v \in Worker PROVE RequestOK(req[v])'
    OBVIOUS
  <2>1. CASE v = w
    BY <1>0, <2>1 DEF RequestOK
  <2>2. CASE v # w
    BY <1>0, <2>2 DEF RequestOK
  <2> QED BY <2>1, <2>2
<1>8. OneOwner'
  BY <1>0 DEF OneOwner, Owns
<1>9. HistoryOK'
  BY DEF HistoryOK
<1> QED BY <1>1, <1>2, <1>3, <1>4, <1>5, <1>6, <1>7, <1>8, <1>9

\* An answer, or the loss of one, ends a request without touching the tables.
LEMMA ReplyStep ==
  ASSUME IInv, NEW w \in Worker, NEW code \in {0, 201, 204, 404, 500},
         UNCHANGED tables, UNCHANGED raised, Reply(w, code),
         LoseAlert(w) \/ (UNCHANGED lost /\ ~OwesAlert(req[w]))
  PROVE  IInv'
<1> DEFINE r == [IdleRequest EXCEPT !.status = code]
<1>1. r \in Request /\ r.pc = "idle"
  BY MarkersAssumption DEF IdleRequest, Request, Steps
<1>2. RequestOK(r) /\ ~Owns(r)
  BY <1>1 DEF RequestOK, Owns
<1>3. lost' \in SUBSET PredictionId /\ lost \subseteq lost'
  BY DEF LoseAlert, OwesAlert, IInv, TypeOK, RequestOK, Owns
<1>4. OwesAlert(req[w]) => req[w].prediction \in lost'
  BY DEF LoseAlert
<1>5. req' = [req EXCEPT ![w] = r]
  BY DEF Reply
<1> HIDE DEF r
<1> QED BY <1>1, <1>2, <1>3, <1>4, <1>5, RequestStep

\* The request moves to a later step; what it knows, it keeps or reads now.
LEMMA MoveStep ==
  ASSUME IInv, NEW w \in Worker, NEW r, r \in Request,
         UNCHANGED tables, UNCHANGED raised, UNCHANGED lost,
         req' = [req EXCEPT ![w] = r],
         RequestOK(r),
         Owns(r) => Owns(req[w]) /\ r.prediction = req[w].prediction,
         OwesAlert(req[w]) => OwesAlert(r) /\ r.prediction = req[w].prediction
  PROVE  IInv'
<1>1. lost' \in SUBSET PredictionId /\ lost \subseteq lost'
  BY DEF IInv, TypeOK
<1> QED BY <1>1, RequestStep

\* A request that has read the features of its metric.
LEMMA ReadingSet ==
  ASSUME NEW q \in Request, NEW x \in Reading
  PROVE  [q EXCEPT !.pc = "check", !.reading = x] \in Request
<1>1. [q EXCEPT !.pc = "check", !.reading = x]
        = [[q EXCEPT !.pc = "check"] EXCEPT !.reading = x]
  OBVIOUS
<1>2. [q EXCEPT !.pc = "check"] \in Request
  BY DEF Request, Steps
<1>3. \A q1 \in Request : [q1 EXCEPT !.reading = x] \in Request
  BY DEF Request
<1> QED BY <1>1, <1>2, <1>3

LEMMA RequestActions ==
  ASSUME IInv, NEW w \in Worker,
         \/ \E s \in ServerId : IngestRejected(w, s) \/ StartDeleteServer(w, s)
         \/ \E m \in MetricId, s \in ServerId : RequestPrediction(w, m, s)
         \/ RefreshMetric(w) \/ LookupMetric(w) \/ CheckExisting(w)
         \/ InsertRejected(w) \/ RefreshPrediction(w) \/ AlertFails(w)
         \/ RefreshAlert(w) \/ Reload(w) \/ DeleteServerFails(w) \/ Fault(w)
  PROVE  IInv'
<1>0. /\ req \in [Worker -> Request]
      /\ req[w] \in Request
      /\ RequestOK(req[w])
      /\ TypeOK
  BY DEF IInv, TypeOK
<1>1. CASE \E s \in ServerId : IngestRejected(w, s)
  <2>1. Reply(w, 500) /\ UNCHANGED <<tables, raised, lost>> /\ ~OwesAlert(req[w])
    BY <1>1 DEF IngestRejected, OwesAlert
  <2> QED BY <2>1, ReplyStep
<1>2. CASE \E s \in ServerId : StartDeleteServer(w, s)
  <2> PICK s \in ServerId : StartDeleteServer(w, s)
    BY <1>2
  <2>1. ~OwesAlert(req[w]) /\ UNCHANGED <<tables, raised, lost>>
    BY DEF StartDeleteServer, OwesAlert
  <2>2. CASE servers[s] = "live"
    <3> DEFINE seen == \E a \in AlertId : Live(alerts, a) /\ alerts[a].server = s
               r == [IdleRequest EXCEPT !.pc = "deleteServer", !.server = s,
                                        !.sawAlerts = seen]
    <3>1. r \in Request /\ r.pc = "deleteServer" /\ r.server = s
      BY DEF IdleRequest, Request, Steps
    <3>2. RequestOK(r) /\ ~Owns(r)
      BY <3>1 DEF RequestOK, Owns
    <3>3. req' = [req EXCEPT ![w] = r]
      BY <2>2 DEF StartDeleteServer
    <3> HIDE DEF r
    <3> QED BY <2>1, <3>1, <3>2, <3>3, MoveStep
  <2>3. CASE servers[s] # "live"
    <3>1. Reply(w, 404)
      BY <2>3 DEF StartDeleteServer
    <3> QED BY <2>1, <3>1, ReplyStep
  <2> QED BY <2>2, <2>3
<1>3. CASE \E m \in MetricId, s \in ServerId : RequestPrediction(w, m, s)
  <2> PICK m \in MetricId, s \in ServerId : RequestPrediction(w, m, s)
    BY <1>3
  <2>1. ~OwesAlert(req[w]) /\ UNCHANGED <<tables, raised, lost>>
    BY DEF RequestPrediction, OwesAlert
  <2>2. CASE PredictionsOf(m) # {}
    <3>1. Reply(w, 201)
      BY <2>2 DEF RequestPrediction
    <3> QED BY <2>1, <3>1, ReplyStep
  <2>3. CASE PredictionsOf(m) = {}
    <3> DEFINE r == [IdleRequest EXCEPT !.pc = "lookup", !.metric = m, !.server = s]
    <3>1. r \in Request /\ r.pc = "lookup" /\ r.metric = m
      BY DEF IdleRequest, Request, Steps
    <3>2. RequestOK(r) /\ ~Owns(r)
      BY <3>1 DEF RequestOK, Owns
    <3>3. req' = [req EXCEPT ![w] = r]
      BY <2>3 DEF RequestPrediction
    <3> HIDE DEF r
    <3> QED BY <2>1, <3>1, <3>2, <3>3, MoveStep
  <2> QED BY <2>2, <2>3
<1>4. CASE RefreshMetric(w)
  <2>1. ~OwesAlert(req[w]) /\ UNCHANGED <<tables, raised, lost>>
    BY <1>4 DEF RefreshMetric, OwesAlert
  <2>2. CASE Live(metrics, req[w].metric)
    <3> DEFINE r == [req[w] EXCEPT !.pc = "check",
                                   !.reading = metrics[req[w].metric].reading]
    <3>1. metrics[req[w].metric] \in MetricRow
      BY <1>0, <1>4, <2>2 DEF RefreshMetric, RequestOK, TypeOK
    <3>2. /\ r \in Request
          /\ r.pc = "check" /\ r.metric = req[w].metric /\ r.server = req[w].server
          /\ r.reading = metrics[req[w].metric].reading /\ r.reading \in Reading
      <4>1. req[w] \in Request /\ metrics[req[w].metric].reading \in Reading
        BY <1>0, <3>1 DEF MetricRow
      <4>2. r \in Request
        BY <4>1, ReadingSet
      <4> QED BY <4>1, <4>2 DEF Request
    <3>4. RequestOK(r) /\ ~Owns(r)
      BY <1>0, <1>4, <2>2, <3>1, <3>2 DEF RefreshMetric, RequestOK, Owns, Request, MetricRow
    <3>3. req' = [req EXCEPT ![w] = r]
      BY <1>0, <1>4, <2>2 DEF RefreshMetric, Request
    <3> HIDE DEF r
    <3> QED BY <2>1, <3>2, <3>3, <3>4, MoveStep
  <2>3. CASE ~Live(metrics, req[w].metric)
    <3>1. Reply(w, 500)
      BY <1>4, <2>3 DEF RefreshMetric
    <3> QED BY <2>1, <3>1, ReplyStep
  <2> QED BY <2>2, <2>3
<1>5. CASE LookupMetric(w)
  <2>1. ~OwesAlert(req[w]) /\ UNCHANGED <<tables, raised, lost>>
    BY <1>5 DEF LookupMetric, OwesAlert
  <2>2. CASE /\ Live(metrics, req[w].metric)
             /\ metrics[req[w].metric].server = req[w].server
    <3> DEFINE r == [req[w] EXCEPT !.pc = "check",
                                   !.reading = metrics[req[w].metric].reading]
    <3>1. metrics[req[w].metric] \in MetricRow
      BY <1>0, <1>5, <2>2 DEF LookupMetric, RequestOK, TypeOK
    <3>2. /\ r \in Request
          /\ r.pc = "check" /\ r.metric = req[w].metric /\ r.server = req[w].server
          /\ r.reading = metrics[req[w].metric].reading /\ r.reading \in Reading
      <4>1. req[w] \in Request /\ metrics[req[w].metric].reading \in Reading
        BY <1>0, <3>1 DEF MetricRow
      <4>2. r \in Request
        BY <4>1, ReadingSet
      <4> QED BY <4>1, <4>2 DEF Request
    <3>4. RequestOK(r) /\ ~Owns(r)
      BY <1>0, <1>5, <2>2, <3>1, <3>2 DEF LookupMetric, RequestOK, Owns, Request, MetricRow
    <3>3. req' = [req EXCEPT ![w] = r]
      BY <1>0, <1>5, <2>2 DEF LookupMetric, Request
    <3> HIDE DEF r
    <3> QED BY <2>1, <3>2, <3>3, <3>4, MoveStep
  <2>3. CASE Reply(w, 404) \/ Reply(w, 500)
    BY <2>1, <2>3, ReplyStep
  <2> QED BY <1>5, <2>2, <2>3 DEF LookupMetric
<1>6. CASE CheckExisting(w)
  <2>1. ~OwesAlert(req[w]) /\ UNCHANGED <<tables, raised, lost>>
    BY <1>6 DEF CheckExisting, OwesAlert
  <2>2. CASE Goto(w, "score")
    <3> DEFINE r == [req[w] EXCEPT !.pc = "score"]
    <3>1. r \in Request /\ RequestOK(r) /\ ~Owns(r)
      BY <1>0, <1>6 DEF CheckExisting, RequestOK, Owns, Request, Steps
    <3>2. req' = [req EXCEPT ![w] = r]
      BY <1>0, <2>2 DEF Goto, Request
    <3> HIDE DEF r
    <3> QED BY <2>1, <3>1, <3>2, MoveStep
  <2>3. CASE Reply(w, 201)
    BY <2>1, <2>3, ReplyStep
  <2> QED BY <1>6, <2>2, <2>3 DEF CheckExisting
<1>7. CASE InsertRejected(w)
  <2>1. Reply(w, 500) /\ UNCHANGED <<tables, raised, lost>> /\ ~OwesAlert(req[w])
    BY <1>7 DEF InsertRejected, OwesAlert
  <2> QED BY <2>1, ReplyStep
<1>8. CASE RefreshPrediction(w)
  <2>1. UNCHANGED <<tables, raised, lost>> /\ req[w].pc = "stored"
    BY <1>8 DEF RefreshPrediction
  <2>2. CASE ~Live(predictions, req[w].prediction)
    <3>1. Reply(w, 500) /\ ~OwesAlert(req[w])
      BY <1>8, <2>2 DEF RefreshPrediction, OwesAlert
    <3> QED BY <2>1, <3>1, ReplyStep
  <2>3. CASE /\ Live(predictions, req[w].prediction)
             /\ NeedsAlert(predictions[req[w].prediction].verdict)
    <3> DEFINE r == [req[w] EXCEPT !.pc = "alert"]
    <3>1. r \in Request /\ r.pc = "alert" /\ r.prediction = req[w].prediction
      BY <1>0 DEF Request, Steps
    <3>2. RequestOK(r) /\ Owns(req[w]) /\ OwesAlert(r)
      BY <1>0, <2>1, <2>3, <3>1 DEF RequestOK, Owns, OwesAlert
    <3>3. req' = [req EXCEPT ![w] = r]
      BY <1>0, <1>8, <2>3 DEF RefreshPrediction, Goto
    <3> HIDE DEF r
    <3> QED BY <2>1, <3>1, <3>2, <3>3, MoveStep
  <2>4. CASE /\ Live(predictions, req[w].prediction)
             /\ ~NeedsAlert(predictions[req[w].prediction].verdict)
    <3> DEFINE r == [req[w] EXCEPT !.pc = "reload"]
    <3>1. r \in Request /\ r.pc = "reload" /\ r.prediction = req[w].prediction
      BY <1>0 DEF Request, Steps
    <3>2. RequestOK(r) /\ ~Owns(r) /\ ~OwesAlert(req[w])
      BY <1>0, <2>1, <2>4, <3>1 DEF RequestOK, Owns, OwesAlert
    <3>3. req' = [req EXCEPT ![w] = r]
      BY <1>0, <1>8, <2>4 DEF RefreshPrediction, Goto
    <3> HIDE DEF r
    <3> QED BY <2>1, <3>1, <3>2, <3>3, MoveStep
  <2> QED BY <2>2, <2>3, <2>4
<1>9. CASE AlertFails(w)
  <2>1. Reply(w, 500) /\ LoseAlert(w) /\ UNCHANGED <<tables, raised>>
    BY <1>9 DEF AlertFails
  <2> QED BY <2>1, ReplyStep
<1>10. CASE RefreshAlert(w)
  <2>1. ~OwesAlert(req[w]) /\ UNCHANGED <<tables, raised, lost>>
    BY <1>10 DEF RefreshAlert, OwesAlert
  <2>2. CASE Goto(w, "reload")
    <3> DEFINE r == [req[w] EXCEPT !.pc = "reload"]
    <3>1. r \in Request /\ RequestOK(r) /\ ~Owns(r)
      BY <1>0, <1>10 DEF RefreshAlert, RequestOK, Owns, Request, Steps
    <3>2. req' = [req EXCEPT ![w] = r]
      BY <1>0, <2>2 DEF Goto, Request
    <3> HIDE DEF r
    <3> QED BY <2>1, <3>1, <3>2, MoveStep
  <2>3. CASE Reply(w, 500)
    BY <2>1, <2>3, ReplyStep
  <2> QED BY <1>10, <2>2, <2>3 DEF RefreshAlert
<1>11. CASE Reload(w)
  <2>1. /\ Reply(w, 201) \/ Reply(w, 404)
        /\ UNCHANGED <<tables, raised, lost>>
        /\ ~OwesAlert(req[w])
    BY <1>11 DEF Reload, OwesAlert
  <2> QED BY <2>1, ReplyStep
<1>12. CASE DeleteServerFails(w)
  <2>1. Reply(w, 500) /\ UNCHANGED <<tables, raised, lost>> /\ ~OwesAlert(req[w])
    BY <1>12 DEF DeleteServerFails, OwesAlert
  <2> QED BY <2>1, ReplyStep
<1>13. CASE Fault(w)
  <2>1. CASE ScoringFails(w)
    <3>1. Reply(w, 500) /\ UNCHANGED <<tables, raised, lost>> /\ ~OwesAlert(req[w])
      BY <2>1 DEF ScoringFails, OwesAlert
    <3> QED BY <3>1, ReplyStep
  <2>2. CASE DatabaseFails(w)
    BY <2>2, ReplyStep DEF DatabaseFails
  <2>3. CASE Crash(w)
    BY <2>3, ReplyStep DEF Crash
  <2> QED BY <1>13, <2>1, <2>2, <2>3 DEF Fault
<1> QED BY <1>1, <1>2, <1>3, <1>4, <1>5, <1>6, <1>7, <1>8, <1>9, <1>10, <1>11,
           <1>12, <1>13

-----------------------------------------------------------------------------
(* The deletions, all of one shape: rows S, M, P and A go, with the rows    *)
(* that need them, and the alerts of the predictions that go let go of them.*)

LEMMA DeleteRows ==
  ASSUME IInv,
         NEW S \in SUBSET ServerId, NEW M \in SUBSET MetricId,
         NEW P \in SUBSET PredictionId, NEW A \in SUBSET AlertId,
         servers' = [s \in ServerId |-> IF s \in S THEN "deleted" ELSE servers[s]],
         metrics' = Drop(metrics, M),
         predictions' = Drop(predictions, P),
         alerts' = Drop(WithoutPredictions(alerts, P), A),
         UNCHANGED history,
         \A m \in MetricId : Live(metrics, m) /\ metrics[m].server \in S => m \in M,
         \A p \in PredictionId :
           Live(predictions, p) /\ predictions[p].metric \in M => p \in P,
         \A a \in AlertId : Live(alerts, a) /\ alerts[a].server \in S => a \in A,
         req' \in [Worker -> Request],
         \A v \in Worker : \/ req'[v] = req[v]
                           \/ req[v].pc = "deleteServer" /\ req'[v].pc = "idle"
  PROVE  IInv'
<1> USE DEF IInv
<1>0. /\ metrics' = [m \in MetricId |-> IF m \in M THEN Deleted ELSE metrics[m]]
      /\ predictions' =
           [p \in PredictionId |-> IF p \in P THEN Deleted ELSE predictions[p]]
      /\ alerts' = [a \in AlertId |->
           IF a \in A THEN Deleted
           ELSE IF Live(alerts, a) /\ alerts[a].prediction \in P
           THEN [alerts[a] EXCEPT !.prediction = None] ELSE alerts[a]]
  BY DEF TypeOK, Drop, WithoutPredictions
<1>m. \A m \in MetricId : Live(metrics, m)' =>
        Live(metrics, m) /\ m \notin M /\ metrics'[m] = metrics[m] /\ metrics[m] \in MetricRow
  BY <1>0 DEF TypeOK
<1>p. \A p \in PredictionId : Live(predictions, p)' =>
        /\ Live(predictions, p) /\ p \notin P /\ predictions'[p] = predictions[p]
        /\ predictions[p] \in PredictionRow
  BY <1>0 DEF TypeOK
<1>a. \A a \in AlertId : Live(alerts, a)' =>
        /\ Live(alerts, a) /\ a \notin A /\ alerts[a] \in AlertRow /\ alerts'[a] \in AlertRow
        /\ alerts'[a].server = alerts[a].server
        /\ alerts'[a].severity = alerts[a].severity
        /\ alerts'[a].prediction # None =>
             /\ alerts'[a].prediction = alerts[a].prediction
             /\ alerts[a].prediction \in PredictionId \ P
  <2> SUFFICES ASSUME NEW a \in AlertId, Live(alerts, a)'
               PROVE  /\ Live(alerts, a) /\ a \notin A
                      /\ alerts[a] \in AlertRow /\ alerts'[a] \in AlertRow
                      /\ alerts'[a].server = alerts[a].server
                      /\ alerts'[a].severity = alerts[a].severity
                      /\ alerts'[a].prediction # None =>
                           /\ alerts'[a].prediction = alerts[a].prediction
                           /\ alerts[a].prediction \in PredictionId \ P
    OBVIOUS
  <2>1. a \notin A /\ Live(alerts, a) /\ alerts[a] \in AlertRow
    BY <1>0 DEF TypeOK
  <2>2. CASE alerts[a].prediction \in P
    BY <1>0, <2>1, <2>2 DEF AlertRow
  <2>3. CASE alerts[a].prediction \notin P
    BY <1>0, <2>1, <2>3 DEF AlertRow
  <2> QED BY <2>1, <2>2, <2>3
<1>1. TypeOK'
  <2>1. alerts' \in [AlertId -> AlertRow \cup {Unused, Deleted}]
    BY <1>0, <1>a
  <2> QED BY <1>0, <2>1 DEF TypeOK, history
<1>2. NoDanglingRows'
  <2>1. \A m \in MetricId : Live(metrics, m)' =>
          metrics'[m].server \in ServerId /\ servers'[metrics'[m].server] = "live"
    BY <1>m DEF NoDanglingRows, MetricRow, TypeOK
  <2>2. \A p \in PredictionId : Live(predictions, p)' =>
          /\ Live(metrics, predictions[p].metric)'
          /\ metrics'[predictions'[p].metric].server = predictions'[p].server
    BY <1>0, <1>p DEF NoDanglingRows, PredictionRow, TypeOK
  <2>3. \A a \in AlertId : Live(alerts, a)' =>
          /\ servers'[alerts'[a].server] = "live"
          /\ alerts'[a].prediction # None =>
               /\ Live(predictions, alerts[a].prediction)'
               /\ predictions'[alerts'[a].prediction].server = alerts'[a].server
    BY <1>0, <1>a DEF NoDanglingRows, AlertRow, TypeOK
  <2> QED BY <1>p, <1>a, <2>1, <2>2, <2>3 DEF NoDanglingRows
<1>3. OnePredictionPerMetric'
  BY <1>p DEF OnePredictionPerMetric
<1>4. OneAlertPerPrediction'
  BY <1>a DEF OneAlertPerPrediction
<1>5. AlertMatchesVerdict'
  <2> SUFFICES ASSUME NEW a \in AlertId, Live(alerts, a)', alerts'[a].prediction # None
               PROVE  (AlertSeverity(predictions[alerts[a].prediction].verdict)
                         = alerts[a].severity)'
    BY DEF AlertMatchesVerdict
  <2> DEFINE p == alerts[a].prediction
  <2>1. p \in PredictionId \ P /\ p # None /\ Live(alerts, a)
        /\ alerts'[a].prediction = p /\ alerts'[a].severity = alerts[a].severity
    BY <1>a, MarkersAssumption
  <2>2. predictions'[p] = predictions[p]
    BY <1>0, <2>1
  <2>3. AlertSeverity(predictions[p].verdict) = alerts[a].severity
    BY <2>1 DEF AlertMatchesVerdict
  <2>4. predictions'[alerts'[a].prediction].verdict = predictions[p].verdict
    BY <2>1, <2>2
  <2> QED BY <2>1, <2>3, <2>4
<1>6. AlertLostOnlyByFault'
  <2> SUFFICES ASSUME NEW p \in PredictionId,
                      Live(predictions, p)', NeedsAlert(predictions'[p].verdict),
                      raised[p] = "none", p \notin lost
               PROVE  \E v \in Worker : (OwesAlert(req[v]) /\ req[v].prediction = p)'
    BY DEF AlertLostOnlyByFault
  <2>1. PICK v \in Worker : OwesAlert(req[v]) /\ req[v].prediction = p
    BY <1>p DEF AlertLostOnlyByFault
  <2>2. req'[v] = req[v]
    BY <2>1 DEF OwesAlert
  <2> QED BY <1>p, <2>1, <2>2 DEF OwesAlert
<1>7. (\A v \in Worker : RequestOK(req[v]))'
  <2> SUFFICES ASSUME NEW v \in Worker PROVE RequestOK(req[v])'
    OBVIOUS
  <2>1. CASE req'[v] = req[v]
    <3>1. /\ RequestOK(req[v]) /\ req[v] \in Request
      BY DEF TypeOK
    <3>2. \A m \in MetricId : metrics[m] # Unused => metrics'[m] # Unused
      BY <1>0, MarkersAssumption
    <3>3. \A p \in PredictionId : predictions[p] # Unused => predictions'[p] # Unused
      BY <1>0, MarkersAssumption
    <3> QED BY <1>m, <1>p, <2>1, <3>1, <3>2, <3>3 DEF RequestOK
  <2>2. CASE req'[v].pc = "idle"
    BY <2>2 DEF RequestOK, Owns
  <2> QED BY <2>1, <2>2
<1>8. OneOwner'
  BY DEF OneOwner, Owns
<1>9. HistoryOK'
  <2>1. \A p \in PredictionId : predictions[p] # Unused => predictions'[p] # Unused
    BY <1>0, MarkersAssumption
  <2> QED BY <1>a, <2>1 DEF HistoryOK
<1> QED BY <1>1, <1>2, <1>3, <1>4, <1>5, <1>6, <1>7, <1>8, <1>9

LEMMA Deletions ==
  ASSUME IInv,
         \/ \E m \in MetricId : DeleteMetric(m)
         \/ \E p \in PredictionId : DeletePrediction(p)
         \/ \E a \in AlertId : DeleteAlert(a)
         \/ \E w \in Worker : DeleteServer(w)
  PROVE  IInv'
<1>0. TypeOK /\ NoDanglingRows
  BY DEF IInv
<1>1. /\ servers = [s \in ServerId |-> servers[s]]
      /\ \A P : Drop(WithoutPredictions(alerts, P), {}) = WithoutPredictions(alerts, P)
      /\ WithoutPredictions(alerts, {}) = alerts
      /\ Drop(metrics, {}) = metrics
      /\ Drop(predictions, {}) = predictions
  BY <1>0 DEF TypeOK, Drop, WithoutPredictions
<1>2. CASE \E m \in MetricId : DeleteMetric(m)
  <2> PICK m \in MetricId : DeleteMetric(m)
    BY <1>2
  <2> DEFINE P == PredictionsOf(m)
  <2>1. P \in SUBSET PredictionId /\ {m} \in SUBSET MetricId
        /\ \A p \in PredictionId :
             Live(predictions, p) /\ predictions[p].metric \in {m} => p \in P
    BY DEF PredictionsOf
  <2>2. /\ metrics' = Drop(metrics, {m}) /\ predictions' = Drop(predictions, P)
        /\ alerts' = Drop(WithoutPredictions(alerts, P), {})
        /\ servers' = servers /\ req' = req /\ UNCHANGED history
    BY <1>1 DEF DeleteMetric
  <2>3. servers' = [s \in ServerId |-> IF s \in {} THEN "deleted" ELSE servers[s]]
    BY <1>1, <2>2
  <2>4. req' \in [Worker -> Request]
    BY <1>0, <2>2 DEF TypeOK
  <2> HIDE DEF P
  <2> QED BY <2>1, <2>2, <2>3, <2>4, DeleteRows
<1>3. CASE \E p \in PredictionId : DeletePrediction(p)
  <2> PICK p \in PredictionId : DeletePrediction(p)
    BY <1>3
  <2>2. /\ metrics' = Drop(metrics, {}) /\ predictions' = Drop(predictions, {p})
        /\ alerts' = Drop(WithoutPredictions(alerts, {p}), {})
        /\ servers' = servers /\ req' = req /\ UNCHANGED history
    BY <1>1 DEF DeletePrediction
  <2>3. servers' = [s \in ServerId |-> IF s \in {} THEN "deleted" ELSE servers[s]]
    BY <1>1, <2>2
  <2>4. req' \in [Worker -> Request]
    BY <1>0, <2>2 DEF TypeOK
  <2> QED BY <2>2, <2>3, <2>4, DeleteRows
<1>4. CASE \E a \in AlertId : DeleteAlert(a)
  <2> PICK a \in AlertId : DeleteAlert(a)
    BY <1>4
  <2>2. /\ metrics' = Drop(metrics, {}) /\ predictions' = Drop(predictions, {})
        /\ alerts' = Drop(WithoutPredictions(alerts, {}), {a})
        /\ servers' = servers /\ req' = req /\ UNCHANGED history
    BY <1>1 DEF DeleteAlert
  <2>3. servers' = [s \in ServerId |-> IF s \in {} THEN "deleted" ELSE servers[s]]
    BY <1>1, <2>2
  <2>4. req' \in [Worker -> Request]
    BY <1>0, <2>2 DEF TypeOK
  <2> QED BY <2>2, <2>3, <2>4, DeleteRows
<1>5. CASE \E w \in Worker : DeleteServer(w)
  <2> PICK w \in Worker : DeleteServer(w)
    BY <1>5
  <2> DEFINE s == req[w].server
             M == {m \in MetricId : Live(metrics, m) /\ metrics[m].server = s}
             P == {p \in PredictionId : /\ Live(predictions, p)
                                        /\ \/ predictions[p].server = s
                                           \/ predictions[p].metric \in M}
             A == {a \in AlertId : Live(alerts, a) /\ alerts[a].server = s}
  <2>1. s \in ServerId /\ req[w].pc = "deleteServer"
    BY DEF DeleteServer, IInv, RequestOK
  <2>2. /\ servers' = [servers EXCEPT ![s] = "deleted"]
        /\ metrics' = Drop(metrics, M) /\ predictions' = Drop(predictions, P)
        /\ alerts' = Drop(WithoutPredictions(alerts, P), A)
        /\ UNCHANGED history /\ Reply(w, 204)
    BY DEF DeleteServer
  <2>3. servers' = [t \in ServerId |-> IF t \in {s} THEN "deleted" ELSE servers[t]]
    BY <1>0, <2>1, <2>2 DEF TypeOK
  <2>4. /\ req' \in [Worker -> Request]
        /\ \A v \in Worker : \/ req'[v] = req[v]
                             \/ req[v].pc = "deleteServer" /\ req'[v].pc = "idle"
    <3>1. [IdleRequest EXCEPT !.status = 204] \in Request
      BY DEF IdleRequest, Request, Steps
    <3>2. [IdleRequest EXCEPT !.status = 204].pc = "idle"
      BY DEF IdleRequest
    <3>3. req' = [req EXCEPT ![w] = [IdleRequest EXCEPT !.status = 204]]
      BY <2>2 DEF Reply
    <3>4. req \in [Worker -> Request]
      BY <1>0 DEF TypeOK
    <3>5. req' \in [Worker -> Request]
      BY <3>1, <3>3, <3>4
    <3>6. \A v \in Worker \ {w} : req'[v] = req[v]
      BY <3>3, <3>4
    <3>7. req'[w].pc = "idle"
      BY <3>2, <3>3, <3>4
    <3> QED BY <2>1, <3>5, <3>6, <3>7
  <2>5. /\ {s} \in SUBSET ServerId /\ M \in SUBSET MetricId
        /\ P \in SUBSET PredictionId /\ A \in SUBSET AlertId
        /\ \A m \in MetricId : Live(metrics, m) /\ metrics[m].server \in {s} => m \in M
        /\ \A p \in PredictionId :
             Live(predictions, p) /\ predictions[p].metric \in M => p \in P
        /\ \A a \in AlertId : Live(alerts, a) /\ alerts[a].server \in {s} => a \in A
    <3>1. {s} \in SUBSET ServerId
      BY <2>1
    <3>2. M \in SUBSET MetricId /\ P \in SUBSET PredictionId /\ A \in SUBSET AlertId
      OBVIOUS
    <3>3. \A m \in MetricId : Live(metrics, m) /\ metrics[m].server \in {s} => m \in M
      OBVIOUS
    <3>4. \A a \in AlertId : Live(alerts, a) /\ alerts[a].server \in {s} => a \in A
      OBVIOUS
    <3> HIDE DEF s, M
    <3>5. \A p \in PredictionId :
            Live(predictions, p) /\ predictions[p].metric \in M => p \in P
      OBVIOUS
    <3> QED BY <3>1, <3>2, <3>3, <3>4, <3>5
  <2> HIDE DEF s, M, P, A
  <2> QED BY <2>2, <2>3, <2>4, <2>5, DeleteRows
<1> QED BY <1>2, <1>3, <1>4, <1>5

-----------------------------------------------------------------------------
(* The steps that add a row or write one in place.                         *)

LEMMA CreateServerStep ==
  ASSUME IInv, NEW s \in ServerId, CreateServer(s)
  PROVE  IInv'
<1> USE DEF IInv, CreateServer
<1>1. TypeOK'
  BY DEF TypeOK
<1>2. \A t \in ServerId : servers[t] = "live" => servers'[t] = "live"
  BY DEF TypeOK
<1>3. NoDanglingRows'
  BY <1>2 DEF NoDanglingRows, TypeOK, MetricRow, AlertRow
<1>4. (OnePredictionPerMetric /\ OneAlertPerPrediction /\ AlertMatchesVerdict)'
  BY DEF OnePredictionPerMetric, OneAlertPerPrediction, AlertMatchesVerdict
<1>5. (AlertLostOnlyByFault /\ OneOwner /\ HistoryOK)'
  BY DEF AlertLostOnlyByFault, OneOwner, HistoryOK, OwesAlert
<1>6. (\A w \in Worker : RequestOK(req[w]))'
  BY DEF RequestOK
<1> QED BY <1>1, <1>3, <1>4, <1>5, <1>6

LEMMA UpdateMetricStep ==
  ASSUME IInv, NEW m \in MetricId, NEW x \in Reading, UpdateMetric(m, x)
  PROVE  IInv'
<1> USE DEF IInv, UpdateMetric
<1>1. /\ metrics' \in [MetricId -> MetricRow \cup {Unused, Deleted}]
      /\ \A n \in MetricId :
           /\ Live(metrics, n)' <=> Live(metrics, n)
           /\ metrics[n] # Unused => metrics'[n] # Unused
           /\ Live(metrics, n) => metrics'[n].server = metrics[n].server
  <2>1. metrics[m] \in MetricRow /\ metrics \in [MetricId -> MetricRow \cup {Unused, Deleted}]
    BY DEF TypeOK
  <2>2. /\ [metrics[m] EXCEPT !.reading = x] \in MetricRow
        /\ [metrics[m] EXCEPT !.reading = x].server = metrics[m].server
    BY <2>1 DEF MetricRow
  <2>3. metrics' = [metrics EXCEPT ![m] = [metrics[m] EXCEPT !.reading = x]]
    OBVIOUS
  <2>4. \A row \in MetricRow : row \notin {Unused, Deleted}
    BY MarkersAssumption
  <2> HIDE DEF UpdateMetric
  <2> QED BY <2>1, <2>2, <2>3, <2>4
<1>2. TypeOK'
  BY <1>1 DEF TypeOK
<1>3. NoDanglingRows'
  BY <1>1 DEF NoDanglingRows, TypeOK, PredictionRow
<1>4. (OnePredictionPerMetric /\ OneAlertPerPrediction /\ AlertMatchesVerdict)'
  BY DEF OnePredictionPerMetric, OneAlertPerPrediction, AlertMatchesVerdict
<1>5. (AlertLostOnlyByFault /\ OneOwner /\ HistoryOK)'
  BY DEF AlertLostOnlyByFault, OneOwner, HistoryOK, OwesAlert
<1>6. (\A w \in Worker : RequestOK(req[w]))'
  <2> SUFFICES ASSUME NEW w \in Worker PROVE RequestOK(req[w])'
    OBVIOUS
  <2>1. RequestOK(req[w]) /\ req' = req
    OBVIOUS
  <2> HIDE DEF UpdateMetric
  <2>2. UNCHANGED <<predictions, raised>>
    BY DEF UpdateMetric
  <2> QED BY <1>1, <2>1, <2>2 DEF RequestOK, Owns
<1> QED BY <1>2, <1>3, <1>4, <1>5, <1>6

LEMMA MarkAlertReadStep ==
  ASSUME IInv, NEW a \in AlertId, MarkAlertRead(a)
  PROVE  IInv'
<1> USE DEF IInv, MarkAlertRead
<1>1. /\ alerts' \in [AlertId -> AlertRow \cup {Unused, Deleted}]
      /\ \A b \in AlertId :
           /\ Live(alerts, b)' <=> Live(alerts, b)
           /\ Live(alerts, b) =>
                /\ alerts'[b].server = alerts[b].server
                /\ alerts'[b].prediction = alerts[b].prediction
                /\ alerts'[b].severity = alerts[b].severity
  <2>1. alerts[a] \in AlertRow /\ alerts \in [AlertId -> AlertRow \cup {Unused, Deleted}]
    BY DEF TypeOK
  <2> DEFINE row == [alerts[a] EXCEPT !.read = TRUE]
  <2>2. /\ row \in AlertRow /\ row.server = alerts[a].server
        /\ row.prediction = alerts[a].prediction /\ row.severity = alerts[a].severity
    BY <2>1 DEF AlertRow
  <2>3. alerts' = [alerts EXCEPT ![a] = row]
    OBVIOUS
  <2>4. \A r \in AlertRow : r \notin {Unused, Deleted}
    BY MarkersAssumption
  <2> HIDE DEF MarkAlertRead, row
  <2> QED BY <2>1, <2>2, <2>3, <2>4
<1>2. TypeOK'
  BY <1>1 DEF TypeOK
<1>3. NoDanglingRows'
  BY <1>1 DEF NoDanglingRows
<1>4. OneAlertPerPrediction'
  BY <1>1 DEF OneAlertPerPrediction
<1>5. AlertMatchesVerdict'
  BY <1>1 DEF AlertMatchesVerdict
<1>6. (OnePredictionPerMetric /\ AlertLostOnlyByFault /\ OneOwner)'
  BY DEF OnePredictionPerMetric, AlertLostOnlyByFault, OneOwner, OwesAlert
<1>7. HistoryOK'
  BY <1>1 DEF HistoryOK
<1>8. (\A w \in Worker : RequestOK(req[w]))'
  BY DEF RequestOK
<1> QED BY <1>2, <1>3, <1>4, <1>5, <1>6, <1>7, <1>8

LEMMA IngestMetricStep ==
  ASSUME IInv, NEW w \in Worker, NEW m \in MetricId, NEW s \in ServerId,
         NEW x \in Reading, IngestMetric(w, m, s, x)
  PROVE  IInv'
<1> USE DEF IInv, IngestMetric
<1> DEFINE r == [IdleRequest EXCEPT !.pc = "saved", !.metric = m, !.server = s]
<1>0. /\ r \in Request /\ r.pc = "saved" /\ r.metric = m /\ r.server = s
      /\ req \in [Worker -> Request]
  BY DEF IdleRequest, Request, Steps, TypeOK
<1>1. /\ req' = [req EXCEPT ![w] = r]
      /\ req' \in [Worker -> Request] /\ req'[w] = r
      /\ \A v \in Worker \ {w} : req'[v] = req[v]
      /\ ~Owns(r) /\ ~Owns(req[w])
  BY <1>0 DEF Owns
<1> HIDE DEF r
<1>2. /\ metrics' \in [MetricId -> MetricRow \cup {Unused, Deleted}]
      /\ metrics'[m] = [server |-> s, reading |-> x]
      /\ Live(metrics, m)' /\ ~Live(metrics, m)
      /\ \A n \in MetricId \ {m} : metrics'[n] = metrics[n]
  <2>1. [server |-> s, reading |-> x] \in MetricRow
    BY DEF MetricRow
  <2> QED BY <2>1, MarkersAssumption DEF TypeOK
<1>3. TypeOK'
  BY <1>1, <1>2 DEF TypeOK
<1>4. NoDanglingRows'
  BY <1>2 DEF NoDanglingRows, TypeOK, PredictionRow
<1>5. (OnePredictionPerMetric /\ OneAlertPerPrediction /\ AlertMatchesVerdict)'
  BY DEF OnePredictionPerMetric, OneAlertPerPrediction, AlertMatchesVerdict
<1>6. AlertLostOnlyByFault'
  BY <1>1 DEF AlertLostOnlyByFault, OwesAlert, Owns
<1>7. OneOwner'
  BY <1>1 DEF OneOwner, Owns
<1>8. HistoryOK'
  BY DEF HistoryOK
<1>9. (\A v \in Worker : RequestOK(req[v]))'
  <2> SUFFICES ASSUME NEW v \in Worker PROVE RequestOK(req[v])'
    OBVIOUS
  <2>1. CASE v = w
    BY <1>0, <1>1, <1>2, <2>1 DEF RequestOK, Owns
  <2>2. CASE v # w
    <3>1. RequestOK(req[v]) /\ req'[v] = req[v] /\ UNCHANGED <<predictions, raised>>
      BY <1>1, <2>2
    <3>2. metrics[req[v].metric] # Unused => req[v].metric # m
      OBVIOUS
    <3> HIDE DEF IngestMetric
    <3> QED BY <1>2, <3>1, <3>2 DEF RequestOK, Owns
  <2> QED BY <2>1, <2>2
<1> QED BY <1>3, <1>4, <1>5, <1>6, <1>7, <1>8, <1>9

LEMMA InsertPredictionStep ==
  ASSUME IInv, NEW w \in Worker, NEW p \in PredictionId, InsertPrediction(w, p)
  PROVE  IInv'
<1> USE DEF IInv, InsertPrediction
<1> DEFINE m == req[w].metric
           row == [metric |-> m, server |-> req[w].server,
                   verdict |-> Verdict(req[w].reading)]
           r == [req[w] EXCEPT !.pc = "stored", !.prediction = p]
<1>1. /\ m \in MetricId /\ req[w].server \in ServerId
      /\ Live(metrics, m) /\ metrics[m].server = req[w].server
      /\ \A q \in PredictionId : Live(predictions, q) => predictions[q].metric # m
  BY DEF RequestOK, Insertable, PredictionsOf
<1>2. row \in PredictionRow /\ row \notin {Unused, Deleted}
  <2>1. Verdict(req[w].reading) \in Verdicts
    BY VerdictType, ReadingAssumption DEF RequestOK
  <2>2. row \in PredictionRow
    BY <1>1, <2>1 DEF PredictionRow
  <2> QED BY <2>2, MarkersAssumption
<1>3. row.metric = m /\ row.server = req[w].server
  OBVIOUS
<1>4. r \in Request
  <2>1. req[w] \in Request
    BY DEF TypeOK
  <2>2. r = [[req[w] EXCEPT !.pc = "stored"] EXCEPT !.prediction = p]
    OBVIOUS
  <2>3. [req[w] EXCEPT !.pc = "stored"] \in Request
    BY <2>1 DEF Request, Steps
  <2>4. \A q \in Request : [q EXCEPT !.prediction = p] \in Request
    BY DEF Request
  <2> QED BY <2>2, <2>3, <2>4
<1>5. r.pc = "stored" /\ r.prediction = p
  BY DEF TypeOK, Request
<1>6. req[w].pc = "score" /\ predictions[p] = Unused /\ raised[p] = "none"
  BY DEF HistoryOK
<1>7. predictions' = [predictions EXCEPT ![p] = row] /\ req' = [req EXCEPT ![w] = r]
  OBVIOUS
<1>8. UNCHANGED <<servers, metrics, alerts, history>>
  OBVIOUS
<1> HIDE DEF InsertPrediction, m, row, r
<1>9. /\ predictions' \in [PredictionId -> PredictionRow \cup {Unused, Deleted}]
      /\ predictions'[p] = row
      /\ \A q \in PredictionId \ {p} : predictions'[q] = predictions[q]
  BY <1>2, <1>7 DEF TypeOK
<1>10. /\ req' \in [Worker -> Request] /\ req'[w] = r
       /\ \A v \in Worker \ {w} : req'[v] = req[v]
  BY <1>4, <1>7 DEF TypeOK
<1>11. TypeOK'
  BY <1>8, <1>9, <1>10 DEF TypeOK
<1>12. NoDanglingRows'
  <2>1. \A a \in AlertId : Live(alerts, a) => alerts[a].prediction # p
    BY <1>6, MarkersAssumption DEF NoDanglingRows
  <2> QED BY <1>1, <1>3, <1>8, <1>9, <2>1 DEF NoDanglingRows, TypeOK, AlertRow
<1>13. OnePredictionPerMetric'
  BY <1>1, <1>3, <1>9 DEF OnePredictionPerMetric
<1>14. OneAlertPerPrediction'
  BY <1>8 DEF OneAlertPerPrediction
<1>15. AlertMatchesVerdict'
  <2> SUFFICES ASSUME NEW a \in AlertId, Live(alerts, a), alerts[a].prediction # None
               PROVE  (AlertSeverity(predictions[alerts[a].prediction].verdict)
                         = alerts[a].severity)'
    BY <1>8 DEF AlertMatchesVerdict
  <2>1. alerts[a].prediction \in PredictionId \ {p}
    BY <1>6 DEF NoDanglingRows, TypeOK, AlertRow
  <2>2. predictions'[alerts'[a].prediction] = predictions[alerts[a].prediction]
    BY <1>8, <1>9, <2>1
  <2> QED BY <1>8, <2>2 DEF AlertMatchesVerdict
<1>16. AlertLostOnlyByFault'
  <2> SUFFICES ASSUME NEW q \in PredictionId,
                      Live(predictions, q)', NeedsAlert(predictions'[q].verdict),
                      raised[q] = "none", q \notin lost
               PROVE  \E v \in Worker : (OwesAlert(req[v]) /\ req[v].prediction = q)'
    BY <1>8 DEF AlertLostOnlyByFault
  <2>1. CASE q = p
    BY <1>5, <1>10, <2>1 DEF OwesAlert
  <2>2. CASE q # p
    <3>1. predictions'[q] = predictions[q]
      BY <1>9, <2>2
    <3>2. PICK v \in Worker : OwesAlert(req[v]) /\ req[v].prediction = q
      BY <3>1 DEF AlertLostOnlyByFault
    <3>3. v # w
      BY <1>6, <3>2 DEF OwesAlert
    <3> QED BY <1>10, <3>1, <3>2, <3>3 DEF OwesAlert
  <2> QED BY <2>1, <2>2
<1>17. (\A v \in Worker : RequestOK(req[v]))'
  <2> SUFFICES ASSUME NEW v \in Worker PROVE RequestOK(req[v])'
    OBVIOUS
  <2>1. CASE v = w
    BY <1>2, <1>5, <1>6, <1>8, <1>9, <1>10, <2>1 DEF RequestOK, Owns
  <2>2. CASE v # w
    <3>1. RequestOK(req[v]) /\ req'[v] = req[v]
      BY <1>10, <2>2
    <3>2. predictions[req[v].prediction] # Unused => req[v].prediction # p
      BY <1>6
    <3> QED BY <1>8, <1>9, <3>1, <3>2 DEF RequestOK, Owns
  <2> QED BY <2>1, <2>2
<1>18. OneOwner'
  <2>1. \A v \in Worker : Owns(req[v]) => req[v].prediction # p
    BY <1>6 DEF RequestOK, Owns
  <2> QED BY <1>5, <1>10, <2>1 DEF OneOwner, Owns
<1>19. HistoryOK'
  BY <1>2, <1>8, <1>9 DEF HistoryOK
<1> QED BY <1>11, <1>12, <1>13, <1>14, <1>15, <1>16, <1>17, <1>18, <1>19

LEMMA RaiseAlertStep ==
  ASSUME IInv, NEW w \in Worker, NEW a \in AlertId, RaiseAlert(w, a)
  PROVE  IInv'
<1> USE DEF IInv, RaiseAlert
<1> DEFINE p == req[w].prediction
           sev == AlertSeverity(predictions[p].verdict)
           row == [server |-> predictions[p].server, prediction |-> p,
                   severity |-> sev, read |-> FALSE]
           r == [req[w] EXCEPT !.pc = "alertSaved", !.alert = a]
<1>1. /\ p \in PredictionId /\ Live(predictions, p) /\ predictions[p] \in PredictionRow
      /\ NeedsAlert(predictions[p].verdict) /\ raised[p] = "none"
  BY DEF RequestOK, Owns, TypeOK
<1>2. sev \in Severity /\ sev # "none"
  BY <1>1, SeverityType DEF PredictionRow
<1>3. row \in AlertRow /\ row \notin {Unused, Deleted}
  <2>1. row \in AlertRow
    BY <1>1, <1>2 DEF AlertRow, PredictionRow
  <2> QED BY <2>1, MarkersAssumption
<1>4. r \in Request
  <2>1. req[w] \in Request
    BY DEF TypeOK
  <2>2. r = [[req[w] EXCEPT !.pc = "alertSaved"] EXCEPT !.alert = a]
    OBVIOUS
  <2>3. [req[w] EXCEPT !.pc = "alertSaved"] \in Request
    BY <2>1 DEF Request, Steps
  <2>4. \A q \in Request : [q EXCEPT !.alert = a] \in Request
    BY DEF Request
  <2> QED BY <2>2, <2>3, <2>4
<1>5. r.pc = "alertSaved" /\ r.prediction = p /\ r.alert = a
  BY DEF TypeOK, Request
<1>6. req[w].pc = "alert" /\ alerts[a] = Unused
  OBVIOUS
<1>7. /\ alerts' = [alerts EXCEPT ![a] = row]
      /\ req' = [req EXCEPT ![w] = r]
      /\ raised' = [raised EXCEPT ![p] = sev]
  OBVIOUS
<1>8. UNCHANGED <<servers, metrics, predictions, lost>>
  OBVIOUS
<1>9. /\ row.server = predictions[p].server /\ row.prediction = p /\ row.severity = sev
  OBVIOUS
<1>s. sev = AlertSeverity(predictions[p].verdict)
  OBVIOUS
<1>o. req[w].prediction = p
  OBVIOUS
<1>n. p # None
  BY <1>1, MarkersAssumption
<1> HIDE DEF RaiseAlert, p, sev, row, r
<1>10. /\ alerts' \in [AlertId -> AlertRow \cup {Unused, Deleted}]
       /\ alerts'[a] = row
       /\ \A b \in AlertId \ {a} : alerts'[b] = alerts[b]
  BY <1>3, <1>7 DEF TypeOK
<1>11. /\ req' \in [Worker -> Request] /\ req'[w] = r
       /\ \A v \in Worker \ {w} : req'[v] = req[v]
  BY <1>4, <1>7 DEF TypeOK
<1>12. /\ raised' \in [PredictionId -> Severity \cup {"none"}]
       /\ raised'[p] = sev
       /\ \A q \in PredictionId \ {p} : raised'[q] = raised[q]
  BY <1>1, <1>2, <1>7 DEF TypeOK
<1>13. TypeOK'
  BY <1>8, <1>10, <1>11, <1>12 DEF TypeOK
<1>14. NoDanglingRows'
  <2>1. servers[predictions[p].server] = "live"
    BY <1>1 DEF NoDanglingRows, PredictionRow
  <2> QED BY <1>1, <1>8, <1>9, <1>10, <2>1 DEF NoDanglingRows
<1>15. \A b \in AlertId : Live(alerts, b) => alerts[b].prediction # p
  BY <1>1, <1>n DEF HistoryOK
<1>16. (OnePredictionPerMetric)'
  BY <1>8 DEF OnePredictionPerMetric
<1>17. OneAlertPerPrediction'
  BY <1>9, <1>10, <1>15 DEF OneAlertPerPrediction
<1>18. AlertMatchesVerdict'
  BY <1>8, <1>9, <1>10, <1>s DEF AlertMatchesVerdict
<1>19. AlertLostOnlyByFault'
  <2> SUFFICES ASSUME NEW q \in PredictionId,
                      Live(predictions, q), NeedsAlert(predictions[q].verdict),
                      raised'[q] = "none", q \notin lost
               PROVE  \E v \in Worker : (OwesAlert(req[v]) /\ req[v].prediction = q)'
    BY <1>8 DEF AlertLostOnlyByFault
  <2>1. q # p /\ raised[q] = "none"
    BY <1>2, <1>12
  <2>2. PICK v \in Worker : OwesAlert(req[v]) /\ req[v].prediction = q
    BY <2>1 DEF AlertLostOnlyByFault
  <2>3. v # w
    BY <1>o, <2>1, <2>2
  <2> QED BY <1>8, <1>11, <2>2, <2>3 DEF OwesAlert
<1>20. (\A v \in Worker : RequestOK(req[v]))'
  <2> SUFFICES ASSUME NEW v \in Worker PROVE RequestOK(req[v])'
    OBVIOUS
  <2>1. CASE v = w
    BY <1>1, <1>2, <1>5, <1>8, <1>11, <1>12, <2>1 DEF RequestOK, Owns
  <2>2. CASE v # w
    <3>1. RequestOK(req[v]) /\ req'[v] = req[v]
      BY <1>11, <2>2
    <3>2. Owns(req[v]) => req[v].prediction # p
      BY <1>6, <1>o, <2>2 DEF OneOwner, Owns
    <3>3. \A q \in PredictionId : raised[q] # "none" => raised'[q] # "none"
      BY <1>2, <1>12
    <3>4. \A q \in PredictionId : q # p => raised'[q] = raised[q]
      BY <1>12
    <3> QED BY <1>8, <3>1, <3>2, <3>3, <3>4 DEF RequestOK, Owns
  <2> QED BY <2>1, <2>2
<1>21. OneOwner'
  BY <1>5, <1>11 DEF OneOwner, Owns
<1>22. HistoryOK'
  <2>1. ASSUME NEW q \in PredictionId, raised'[q] # "none"
        PROVE  predictions'[q] # Unused
    <3>1. CASE q = p
      BY <1>1, <1>8, <3>1
    <3>2. CASE q # p
      BY <1>8, <1>12, <2>1, <3>2 DEF HistoryOK
    <3> QED BY <3>1, <3>2
  <2>2. ASSUME NEW b \in AlertId, Live(alerts', b), alerts'[b].prediction # None
        PROVE  raised'[alerts'[b].prediction] # "none"
    <3>1. CASE b = a
      BY <1>2, <1>9, <1>10, <1>12, <3>1
    <3>2. CASE b # a
      <4>1. alerts'[b] = alerts[b] /\ Live(alerts, b)
        BY <1>10, <2>2, <3>2
      <4>2. alerts[b] \in AlertRow
        BY <4>1 DEF TypeOK
      <4>3. alerts[b].prediction \in PredictionId \ {p}
        BY <1>15, <2>2, <4>1, <4>2 DEF AlertRow
      <4>4. raised[alerts[b].prediction] # "none"
        BY <2>2, <4>1 DEF HistoryOK
      <4> QED BY <1>12, <4>1, <4>3, <4>4
    <3> QED BY <3>1, <3>2
  <2> QED BY <2>1, <2>2 DEF HistoryOK
<1> QED BY <1>13, <1>14, <1>16, <1>17, <1>18, <1>19, <1>20, <1>21, <1>22

-----------------------------------------------------------------------------
(* The theorems.                                                           *)

LEMMA InitIInv == Init => IInv
<1> SUFFICES ASSUME Init PROVE IInv
  OBVIOUS
<1>1. \A w \in Worker : req[w] = IdleRequest
  BY DEF Init
<1>2. IdleRequest \in Request /\ IdleRequest.pc = "idle"
  BY DEF IdleRequest, Request, Steps
<1>3. TypeOK
  BY <1>2 DEF Init, TypeOK
<1>4. /\ \A m \in MetricId : ~Live(metrics, m)
      /\ \A p \in PredictionId : ~Live(predictions, p)
      /\ \A a \in AlertId : ~Live(alerts, a)
  BY DEF Init
<1>5. \A w \in Worker : RequestOK(req[w]) /\ ~Owns(req[w])
  BY <1>1, <1>2 DEF RequestOK, Owns
<1>6. NoDanglingRows /\ OnePredictionPerMetric /\ OneAlertPerPrediction
      /\ AlertMatchesVerdict /\ AlertLostOnlyByFault
  BY <1>4 DEF NoDanglingRows, OnePredictionPerMetric, OneAlertPerPrediction,
              AlertMatchesVerdict, AlertLostOnlyByFault
<1>7. OneOwner /\ HistoryOK
  BY <1>4, <1>5 DEF OneOwner, HistoryOK, Init
<1> QED BY <1>3, <1>5, <1>6, <1>7 DEF IInv

LEMMA StutterIInv == ASSUME IInv, UNCHANGED vars PROVE IInv'
  BY DEF vars, IInv, TypeOK, NoDanglingRows, OnePredictionPerMetric,
         OneAlertPerPrediction, AlertMatchesVerdict, AlertLostOnlyByFault,
         OwesAlert, RequestOK, Owns, OneOwner, HistoryOK

LEMMA NextIInv == IInv /\ [Next]_vars => IInv'
<1> SUFFICES ASSUME IInv, [Next]_vars PROVE IInv'
  OBVIOUS
<1>1. CASE Maintain
  <2>1. CASE \E s \in ServerId : CreateServer(s)
    BY <2>1, CreateServerStep
  <2>2. CASE \E m \in MetricId, x \in Reading : UpdateMetric(m, x)
    BY <2>2, UpdateMetricStep
  <2>3. CASE \E a \in AlertId : MarkAlertRead(a)
    BY <2>3, MarkAlertReadStep
  <2>4. CASE \/ \E m \in MetricId : DeleteMetric(m)
             \/ \E p \in PredictionId : DeletePrediction(p)
             \/ \E a \in AlertId : DeleteAlert(a)
    BY <2>4, Deletions
  <2> QED BY <1>1, <2>1, <2>2, <2>3, <2>4 DEF Maintain
<1>2. ASSUME NEW w \in Worker, Accept(w) PROVE IInv'
  <2>1. CASE \E m \in MetricId, s \in ServerId, x \in Reading : IngestMetric(w, m, s, x)
    BY <2>1, IngestMetricStep
  <2>2. CASE \/ \E s \in ServerId : IngestRejected(w, s) \/ StartDeleteServer(w, s)
             \/ \E m \in MetricId, s \in ServerId : RequestPrediction(w, m, s)
    BY <2>2, RequestActions
  <2> QED BY <1>2, <2>1, <2>2 DEF Accept
<1>3. ASSUME NEW w \in Worker, Step(w) PROVE IInv'
  <2>1. CASE \E p \in PredictionId : InsertPrediction(w, p)
    BY <2>1, InsertPredictionStep
  <2>2. CASE \E a \in AlertId : RaiseAlert(w, a)
    BY <2>2, RaiseAlertStep
  <2>3. CASE DeleteServer(w)
    BY <2>3, Deletions
  <2>4. CASE \/ RefreshMetric(w) \/ LookupMetric(w) \/ CheckExisting(w)
             \/ InsertRejected(w) \/ RefreshPrediction(w) \/ AlertFails(w)
             \/ RefreshAlert(w) \/ Reload(w) \/ DeleteServerFails(w)
    BY <2>4, RequestActions
  <2> QED BY <1>3, <2>1, <2>2, <2>3, <2>4 DEF Step
<1>4. ASSUME NEW w \in Worker, Fault(w) PROVE IInv'
  BY <1>4, RequestActions
<1>5. CASE UNCHANGED vars
  BY <1>5, StutterIInv
<1> QED BY <1>1, <1>2, <1>3, <1>4, <1>5 DEF Next

\* The inductive invariant holds in every reachable state.
THEOREM Invariance == Spec => []IInv
  BY InitIInv, NextIInv, PTL DEF Spec

\* Every variable stays in its type.
THEOREM TypeCorrect == Spec => []TypeOK
<1>1. IInv => TypeOK
  BY DEF IInv
<1> QED BY <1>1, Invariance, PTL

\* No row names a row that is gone, and the tables agree on the server.
THEOREM NoDanglingRowsHolds == Spec => []NoDanglingRows
<1>1. IInv => NoDanglingRows
  BY DEF IInv
<1> QED BY <1>1, Invariance, PTL

\* No prediction is alerted twice, although no constraint of the database forbids it.
THEOREM OneAlertPerPredictionHolds == Spec => []OneAlertPerPrediction
<1>1. IInv => OneAlertPerPrediction
  BY DEF IInv
<1> QED BY <1>1, Invariance, PTL

\* An alert attached to its prediction has the severity of its verdict.
THEOREM AlertMatchesVerdictHolds == Spec => []AlertMatchesVerdict
<1>1. IInv => AlertMatchesVerdict
  BY DEF IInv
<1> QED BY <1>1, Invariance, PTL

\* Only a fault leaves a medium or high risk prediction without its alert.
THEOREM AlertLostOnlyByFaultHolds == Spec => []AlertLostOnlyByFault
<1>1. IInv => AlertLostOnlyByFault
  BY DEF IInv
<1> QED BY <1>1, Invariance, PTL

-----------------------------------------------------------------------------
(* What fails only because of a fault, a deletion or an alert.             *)

\* What a request does to itself: it ends, or goes on and is not answered yet.
LEMMA OwnRequest ==
  ASSUME IInv, Unanswered, NEW w \in Worker, Accept(w) \/ Step(w) \/ Fault(w)
  PROVE  /\ \A v \in Worker \ {w} : req'[v] = req[v]
         /\ req'[w].pc # "idle" => req'[w].status = 0
<1> DEFINE Own == /\ \A v \in Worker \ {w} : req'[v] = req[v]
                  /\ req'[w].pc # "idle" => req'[w].status = 0
<1>t. req \in [Worker -> Request]
  BY DEF IInv, TypeOK
<1>0. IdleRequest.status = 0 /\ IdleRequest.pc = "idle" /\ IdleRequest \in Request
  BY DEF IdleRequest, Request, Steps
<1>1. ASSUME NEW code, Reply(w, code) PROVE Own
  BY <1>t, <1>1 DEF Reply, IdleRequest
<1>2. ASSUME req[w].pc # "idle", NEW r, r = req[w],
             \/ \E pc \in Steps : req' = [req EXCEPT ![w] = [r EXCEPT !.pc = pc]]
             \/ \E x : req' = [req EXCEPT ![w] = [r EXCEPT !.pc = "check", !.reading = x]]
             \/ \E p : req' = [req EXCEPT ![w] = [r EXCEPT !.pc = "stored", !.prediction = p]]
             \/ \E a : req' = [req EXCEPT ![w] = [r EXCEPT !.pc = "alertSaved", !.alert = a]]
      PROVE  Own
  <2>1. r \in Request /\ r.status = 0
    BY <1>t, <1>2 DEF Unanswered
  <2>2. /\ \A pc : [r EXCEPT !.pc = pc].status = 0
        /\ \A x : [r EXCEPT !.pc = "check", !.reading = x].status = 0
        /\ \A p : [r EXCEPT !.pc = "stored", !.prediction = p].status = 0
        /\ \A a : [r EXCEPT !.pc = "alertSaved", !.alert = a].status = 0
    BY <2>1 DEF Request
  <2>3. \E q : q.status = 0 /\ req' = [req EXCEPT ![w] = q]
    BY <1>2, <2>2, Zenon
  <2> QED BY <1>t, <2>3
<1>3. CASE Accept(w)
  <2>1. ASSUME NEW m \in MetricId, NEW s \in ServerId, NEW x \in Reading,
               IngestMetric(w, m, s, x)
        PROVE  Own
    BY <1>t, <2>1 DEF IngestMetric, IdleRequest
  <2>2. ASSUME NEW s \in ServerId, IngestRejected(w, s) PROVE Own
    BY <1>1, <2>2 DEF IngestRejected
  <2>3. ASSUME NEW s \in ServerId, StartDeleteServer(w, s) PROVE Own
    BY <1>t, <1>1, <2>3 DEF StartDeleteServer, IdleRequest
  <2>4. ASSUME NEW m \in MetricId, NEW s \in ServerId, RequestPrediction(w, m, s) PROVE Own
    BY <1>t, <1>1, <2>4 DEF RequestPrediction, IdleRequest
  <2> QED BY <1>3, <2>1, <2>2, <2>3, <2>4 DEF Accept
<1>4. CASE Step(w)
  <2>1. CASE RefreshMetric(w)
    BY <1>t, <1>1, <1>2, <2>1 DEF RefreshMetric
  <2>2. CASE LookupMetric(w)
    BY <1>t, <1>1, <1>2, <2>2 DEF LookupMetric
  <2>3. CASE CheckExisting(w) \/ RefreshPrediction(w) \/ RefreshAlert(w)
    BY <1>t, <1>1, <1>2, <2>3 DEF CheckExisting, RefreshPrediction, RefreshAlert, Goto, Steps
  <2>4. CASE \E p \in PredictionId : InsertPrediction(w, p)
    BY <1>t, <1>2, <2>4 DEF InsertPrediction
  <2>5. CASE \E a \in AlertId : RaiseAlert(w, a)
    BY <1>t, <1>2, <2>5 DEF RaiseAlert
  <2>6. CASE InsertRejected(w) \/ AlertFails(w) \/ Reload(w) \/ DeleteServerFails(w)
             \/ DeleteServer(w)
    BY <1>1, <2>6 DEF InsertRejected, AlertFails, Reload, DeleteServerFails, DeleteServer
  <2> QED BY <1>4, <2>1, <2>2, <2>3, <2>4, <2>5, <2>6 DEF Step
<1>5. CASE Fault(w)
  BY <1>1, <1>5 DEF Fault, ScoringFails, DatabaseFails, Crash
<1> QED BY <1>3, <1>4, <1>5

\* Only the request itself changes its answer, and it does so at its end.
LEMMA UnansweredStep == IInv /\ Unanswered /\ [Next]_vars => Unanswered'
<1> SUFFICES ASSUME IInv, Unanswered, [Next]_vars PROVE Unanswered'
  OBVIOUS
<1>1. CASE Maintain \/ UNCHANGED vars
  <2>1. req' = req
    BY <1>1 DEF Maintain, CreateServer, DeleteMetric, UpdateMetric, DeletePrediction,
                DeleteAlert, MarkAlertRead, vars
  <2> QED BY <2>1 DEF Unanswered
<1>2. ASSUME NEW w \in Worker, Accept(w) \/ Step(w) \/ Fault(w) PROVE Unanswered'
  BY <1>2, OwnRequest DEF Unanswered
<1> QED BY <1>1, <1>2 DEF Next

\* A request under way has no answer yet.
THEOREM UnansweredHolds == Spec => []Unanswered
<1>1. Init => Unanswered
  BY DEF Init, Unanswered, IdleRequest
<1> QED BY <1>1, UnansweredStep, Invariance, PTL DEF Spec

\* The answer of a request changes by a step of its own only.
LEMMA OwnAnswer ==
  ASSUME IInv, Unanswered, Next, NEW w \in Worker, req[w].pc # "idle", req'[w].status # 0
  PROVE  Accept(w) \/ Step(w) \/ Fault(w)
<1>1. req'[w] # req[w]
  BY DEF Unanswered
<1>2. ~Maintain
  BY <1>1 DEF Maintain, CreateServer, DeleteMetric, UpdateMetric, DeletePrediction,
              DeleteAlert, MarkAlertRead
<1> QED BY <1>1, <1>2, OwnRequest DEF Next

\* A request changes by a step of its own only.
LEMMA OwnChange ==
  ASSUME IInv, Unanswered, Next, NEW w \in Worker, req'[w] # req[w]
  PROVE  Accept(w) \/ Step(w) \/ Fault(w)
<1>1. ~Maintain
  BY DEF Maintain, CreateServer, DeleteMetric, UpdateMetric, DeletePrediction,
         DeleteAlert, MarkAlertRead
<1> QED BY <1>1, OwnRequest DEF Next

\* Where a step takes its request.
LEMMA StepLeads ==
  ASSUME IInv, NEW w \in Worker
  PROVE  /\ \A code : Reply(w, code) => req'[w].pc = "idle"
         /\ Accept(w) => \/ req'[w].pc \in {"idle", "saved", "lookup"}
                         \/ \E s \in ServerId : StartDeleteServer(w, s)
         /\ \A s \in ServerId : StartDeleteServer(w, s) => req'[w].pc \in {"idle", "deleteServer"}
         /\ RefreshMetric(w) \/ LookupMetric(w) => req'[w].pc \in {"idle", "check"}
         /\ CheckExisting(w) => req'[w].pc \in {"idle", "score"}
         /\ \A p \in PredictionId : InsertPrediction(w, p) => req'[w].pc = "stored"
         /\ RefreshPrediction(w) \/ RefreshAlert(w) => req'[w].pc \in {"idle", "alert", "reload"}
         /\ \A a \in AlertId : RaiseAlert(w, a) => req'[w].pc = "alertSaved"
         /\ InsertRejected(w) \/ AlertFails(w) \/ Reload(w) \/ DeleteServerFails(w)
              \/ DeleteServer(w) \/ Fault(w) => req'[w].pc = "idle"
<1>t. req \in [Worker -> Request]
  BY DEF IInv, TypeOK
<1>1. ASSUME NEW code, Reply(w, code) PROVE req'[w].pc = "idle"
  BY <1>t, <1>1 DEF Reply, IdleRequest
<1>2. ASSUME NEW pc, Goto(w, pc) PROVE req'[w].pc = pc
  BY <1>t, <1>2 DEF Goto, Request
<1>3. ASSUME NEW x, req' = [req EXCEPT ![w] = [req[w] EXCEPT !.pc = "check", !.reading = x]]
      PROVE  req'[w].pc = "check"
  BY <1>t, <1>3 DEF Request
<1>4. ASSUME NEW p, req' = [req EXCEPT ![w] = [req[w] EXCEPT !.pc = "stored", !.prediction = p]]
      PROVE  req'[w].pc = "stored"
  BY <1>t, <1>4 DEF Request
<1>5. ASSUME NEW a, req' = [req EXCEPT ![w] = [req[w] EXCEPT !.pc = "alertSaved", !.alert = a]]
      PROVE  req'[w].pc = "alertSaved"
  BY <1>t, <1>5 DEF Request
<1>6. ASSUME NEW m, NEW s, NEW pc,
             req' = [req EXCEPT ![w] = [IdleRequest EXCEPT !.pc = pc, !.metric = m, !.server = s]]
      PROVE  req'[w].pc = pc
  BY <1>t, <1>6 DEF IdleRequest
<1>7. ASSUME NEW s, NEW b,
             req' = [req EXCEPT ![w] =
                      [IdleRequest EXCEPT !.pc = "deleteServer", !.server = s, !.sawAlerts = b]]
      PROVE  req'[w].pc = "deleteServer"
  BY <1>t, <1>7 DEF IdleRequest
<1>a. ASSUME Accept(w), ~\E s \in ServerId : StartDeleteServer(w, s)
      PROVE  req'[w].pc \in {"idle", "saved", "lookup"}
  <2>1. ASSUME NEW m \in MetricId, NEW s \in ServerId, NEW x \in Reading, IngestMetric(w, m, s, x)
        PROVE  req'[w].pc = "saved"
    BY <1>6, <2>1 DEF IngestMetric
  <2>2. ASSUME NEW m \in MetricId, NEW s \in ServerId, RequestPrediction(w, m, s)
        PROVE  req'[w].pc \in {"idle", "lookup"}
    BY <1>1, <1>6, <2>2 DEF RequestPrediction
  <2>3. ASSUME NEW s \in ServerId, IngestRejected(w, s) PROVE req'[w].pc = "idle"
    BY <1>1, <2>3 DEF IngestRejected
  <2> QED BY <1>a, <2>1, <2>2, <2>3 DEF Accept
<1>b. ASSUME NEW s \in ServerId, StartDeleteServer(w, s)
      PROVE  req'[w].pc \in {"idle", "deleteServer"}
  BY <1>1, <1>7, <1>b DEF StartDeleteServer
<1>c. ASSUME RefreshMetric(w) \/ LookupMetric(w) PROVE req'[w].pc \in {"idle", "check"}
  BY <1>t, <1>1, <1>3, <1>c DEF RefreshMetric, LookupMetric
<1>d. CheckExisting(w) => req'[w].pc \in {"idle", "score"}
  BY <1>1, <1>2 DEF CheckExisting
<1>e. ASSUME NEW p \in PredictionId, InsertPrediction(w, p) PROVE req'[w].pc = "stored"
  BY <1>t, <1>4, <1>e DEF InsertPrediction
<1>f. RefreshPrediction(w) \/ RefreshAlert(w) => req'[w].pc \in {"idle", "alert", "reload"}
  BY <1>1, <1>2 DEF RefreshPrediction, RefreshAlert
<1>g. ASSUME NEW a \in AlertId, RaiseAlert(w, a) PROVE req'[w].pc = "alertSaved"
  BY <1>t, <1>5, <1>g DEF RaiseAlert
<1>h. InsertRejected(w) \/ AlertFails(w) \/ Reload(w) \/ DeleteServerFails(w)
        \/ DeleteServer(w) \/ Fault(w) => req'[w].pc = "idle"
  BY <1>1 DEF InsertRejected, AlertFails, Reload, DeleteServerFails, DeleteServer,
              Fault, ScoringFails, DatabaseFails, Crash
<1> QED BY <1>1, <1>a, <1>b, <1>c, <1>d, <1>e, <1>f, <1>g, <1>h

\* An alert loses its prediction only with its row or with the prediction's.
LEMMA AlertKeepsPrediction ==
  ASSUME IInv, Next, NEW a \in AlertId, NEW p \in PredictionId,
         Live(alerts, a), alerts[a].prediction = p, Live(predictions', p), Live(alerts', a)
  PROVE  alerts'[a].prediction = p
<1>t. /\ alerts \in [AlertId -> AlertRow \cup {Unused, Deleted}] /\ alerts[a] \in AlertRow
      /\ predictions \in [PredictionId -> PredictionRow \cup {Unused, Deleted}]
  BY DEF IInv, TypeOK
<1>1. CASE alerts' = alerts
  BY <1>1
<1>2. ASSUME NEW P \in SUBSET PredictionId, NEW A \in SUBSET AlertId,
             predictions' = Drop(predictions, P),
             alerts' = Drop(WithoutPredictions(alerts, P), A)
      PROVE  alerts'[a].prediction = p
  <2>1. p \notin P /\ a \notin A
    BY <1>t, <1>2 DEF Drop, WithoutPredictions
  <2> QED BY <1>t, <1>2, <2>1 DEF Drop, WithoutPredictions
<1>3. ASSUME NEW P \in SUBSET PredictionId, predictions' = Drop(predictions, P),
             alerts' = WithoutPredictions(alerts, P)
      PROVE  alerts'[a].prediction = p
  BY <1>t, <1>3 DEF Drop, WithoutPredictions
<1>4. CASE Maintain
  <2>1. CASE \E m \in MetricId : DeleteMetric(m)
    BY <1>3, <2>1 DEF DeleteMetric, PredictionsOf
  <2>2. CASE \E q \in PredictionId : DeletePrediction(q)
    BY <1>3, <2>2 DEF DeletePrediction
  <2>3. CASE \E b \in AlertId : DeleteAlert(b)
    BY <1>t, <2>3 DEF DeleteAlert, Drop
  <2>4. CASE \E b \in AlertId : MarkAlertRead(b)
    BY <1>t, <2>4 DEF MarkAlertRead, AlertRow
  <2>5. CASE \/ \E x \in ServerId : CreateServer(x)
             \/ \E m \in MetricId, x \in Reading : UpdateMetric(m, x)
    BY <1>1, <2>5 DEF CreateServer, UpdateMetric
  <2> QED BY <1>4, <2>1, <2>2, <2>3, <2>4, <2>5 DEF Maintain
<1>5. ASSUME NEW w \in Worker, DeleteServer(w) PROVE alerts'[a].prediction = p
  <2> DEFINE M == {m \in MetricId : Live(metrics, m) /\ metrics[m].server = req[w].server}
             P == {q \in PredictionId : /\ Live(predictions, q)
                                        /\ \/ predictions[q].server = req[w].server
                                           \/ predictions[q].metric \in M}
             A == {b \in AlertId : Live(alerts, b) /\ alerts[b].server = req[w].server}
  <2>1. predictions' = Drop(predictions, P) /\ alerts' = Drop(WithoutPredictions(alerts, P), A)
    BY <1>5 DEF DeleteServer
  <2>2. P \in SUBSET PredictionId /\ A \in SUBSET AlertId
    OBVIOUS
  <2> HIDE DEF P, A
  <2> QED BY <1>2, <2>1, <2>2
<1>6. ASSUME NEW w \in Worker, NEW b \in AlertId, RaiseAlert(w, b)
      PROVE  alerts'[a].prediction = p
  BY <1>t, <1>6 DEF RaiseAlert
<1>7. ASSUME NEW w \in Worker, Accept(w) \/ Fault(w) PROVE alerts' = alerts
  BY <1>7 DEF Accept, IngestMetric, IngestRejected, StartDeleteServer, RequestPrediction,
              Fault, ScoringFails, DatabaseFails, Crash
<1>8. ASSUME NEW w \in Worker, Step(w) PROVE alerts'[a].prediction = p
  BY <1>1, <1>5, <1>6, <1>8 DEF Step, RefreshMetric, LookupMetric, CheckExisting,
     InsertPrediction, InsertRejected, RefreshPrediction, AlertFails, RefreshAlert, Reload,
     DeleteServerFails
<1> QED BY <1>1, <1>4, <1>7, <1>8 DEF Next

\* While neither a prediction nor its alert is deleted, the request that stored them
\* finds them.
LEMMA FindsStoredStep ==
  ASSUME NEW p \in PredictionId, IInv, Unanswered, FindsStored(p), Next, KeepsPrediction(p)
  PROVE  FindsStored(p)'
<1> SUFFICES ASSUME NEW w \in Worker, req'[w].pc \in AfterStore, req'[w].prediction = p
             PROVE  /\ Live(predictions', p)
                    /\ req'[w].pc = "alertSaved" =>
                         Live(alerts', req'[w].alert) /\ alerts'[req'[w].alert].prediction = p
  BY DEF FindsStored
<1>t. /\ req \in [Worker -> Request] /\ RequestOK(req[w])
      /\ predictions \in [PredictionId -> PredictionRow \cup {Unused, Deleted}]
      /\ alerts \in [AlertId -> AlertRow \cup {Unused, Deleted}]
  BY DEF IInv, TypeOK
<1>1. CASE req'[w] = req[w]
  <2>1. Live(predictions', p)
    BY <1>1 DEF FindsStored, KeepsPrediction
  <2>2. ASSUME req[w].pc = "alertSaved"
        PROVE  Live(alerts', req[w].alert) /\ alerts'[req[w].alert].prediction = p
    <3>1. /\ req[w].alert \in AlertId /\ Live(alerts, req[w].alert)
          /\ alerts[req[w].alert].prediction = p
      BY <1>t, <1>1, <2>2 DEF FindsStored, RequestOK
    <3>2. Live(alerts', req[w].alert)
      BY <3>1 DEF KeepsPrediction
    <3> QED BY <2>1, <3>1, <3>2, AlertKeepsPrediction
  <2> QED BY <1>1, <2>1, <2>2
<1>2. CASE req'[w] # req[w]
  <2>1. Accept(w) \/ Step(w) \/ Fault(w)
    BY <1>2, OwnChange
  <2>2. req'[w].pc \in {"stored", "alert", "alertSaved", "reload"}
    BY DEF AfterStore
  <2>3. CASE \E q \in PredictionId : InsertPrediction(w, q)
    <3>1. PICK q \in PredictionId : InsertPrediction(w, q)
      BY <2>3
    <3>2. /\ req'[w] = [req[w] EXCEPT !.pc = "stored", !.prediction = q]
          /\ predictions'[q] = [metric |-> req[w].metric, server |-> req[w].server,
                                verdict |-> Verdict(req[w].reading)]
          /\ req[w].pc = "score"
      BY <1>t, <3>1 DEF InsertPrediction
    <3>3. req'[w].pc = "stored" /\ q = p
      BY <1>t, <3>2 DEF Request
    <3>4. predictions'[p] \in PredictionRow
      BY <1>t, <3>2, <3>3, VerdictType, ReadingAssumption DEF RequestOK, PredictionRow
    <3> QED BY <3>3, <3>4, MarkersAssumption
  <2>4. CASE RefreshPrediction(w) \/ RefreshAlert(w)
    <3>1. /\ req[w].pc \in AfterStore /\ UNCHANGED predictions
          /\ \E pc \in {"alert", "reload"} : req'[w] = [req[w] EXCEPT !.pc = pc]
      BY <1>t, <2>2, <2>4, StepLeads DEF RefreshPrediction, RefreshAlert, Goto, AfterStore
    <3>2. req[w].prediction = p /\ req'[w].pc # "alertSaved"
      BY <1>t, <3>1 DEF Request
    <3> QED BY <3>1, <3>2 DEF FindsStored
  <2>5. CASE \E a \in AlertId : RaiseAlert(w, a)
    <3>1. PICK a \in AlertId : RaiseAlert(w, a)
      BY <2>5
    <3>2. /\ req'[w] = [req[w] EXCEPT !.pc = "alertSaved", !.alert = a]
          /\ predictions' = predictions /\ Live(predictions, req[w].prediction)
          /\ alerts'[a].prediction = req[w].prediction /\ req[w].pc = "alert"
          /\ alerts'[a] = [server |-> predictions[req[w].prediction].server,
                           prediction |-> req[w].prediction,
                           severity |-> AlertSeverity(predictions[req[w].prediction].verdict),
                           read |-> FALSE]
      BY <1>t, <3>1 DEF RaiseAlert
    <3>3. req'[w].alert = a /\ req[w].prediction = p
      BY <1>t, <3>2 DEF Request
    <3>4. alerts'[a] \in AlertRow
      <4>1. predictions[p] \in PredictionRow /\ NeedsAlert(predictions[p].verdict)
        BY <1>t, <3>2, <3>3 DEF RequestOK
      <4>2. predictions[p].verdict \in Verdicts /\ predictions[p].server \in ServerId
        BY <4>1 DEF PredictionRow
      <4> QED BY <3>2, <3>3, <4>1, <4>2, SeverityType DEF AlertRow
    <3> QED BY <3>2, <3>3, <3>4, MarkersAssumption
  <2> QED BY <2>1, <2>2, <2>3, <2>4, <2>5, StepLeads DEF Step
<1> QED BY <1>1, <1>2

\* "Alert creation must never make the prediction API fail": whatever else is deleted,
\* updated, retried or dies, a request that stored prediction p answers 201 or is cut off,
\* as long as the database does not fail and nobody deletes p or its alert.
THEOREM StoredFailsOnlyByFaultOrDeletion ==
  ASSUME "database" \notin Faults, NEW p \in PredictionId
  PROVE  Spec /\ [][KeepsPrediction(p)]_vars => [][StoredIsAnswered(p)]_vars
<1>1. Init => FindsStored(p)
  BY DEF Init, FindsStored, IdleRequest, AfterStore
<1>2. IInv /\ Unanswered /\ FindsStored(p) /\ [Next]_vars /\ [KeepsPrediction(p)]_vars
        => FindsStored(p)'
  <2>1. CASE UNCHANGED vars
    BY <2>1 DEF vars, FindsStored
  <2> QED BY <2>1, FindsStoredStep
<1>3. IInv /\ Unanswered /\ FindsStored(p) /\ [Next]_vars => [StoredIsAnswered(p)]_vars
  <2> SUFFICES ASSUME IInv, Unanswered, FindsStored(p), Next, NEW w \in Worker,
                      req[w].pc \in AfterStore, req[w].prediction = p, req'[w].status # 0
               PROVE  req'[w].status = 201
    BY DEF StoredIsAnswered
  <2>t. /\ req \in [Worker -> Request] /\ req[w].status = 0 /\ req[w].pc # "idle"
    BY DEF IInv, TypeOK, Unanswered, AfterStore
  <2>1. Accept(w) \/ Step(w) \/ Fault(w)
    BY <2>t, OwnAnswer
  <2>2. ~Accept(w)
    BY <2>t DEF Accept, IngestMetric, IngestRejected, StartDeleteServer, RequestPrediction
  <2>3. \/ RefreshPrediction(w) \/ RefreshAlert(w) \/ Reload(w) \/ AlertFails(w) \/ Fault(w)
        \/ \E a \in AlertId : RaiseAlert(w, a)
    BY <2>1, <2>2 DEF AfterStore, Step, RefreshMetric, LookupMetric, CheckExisting,
      InsertPrediction, InsertRejected, DeleteServerFails, DeleteServer
  <2>4. Live(predictions, p) /\ (req[w].pc = "alertSaved" => Live(alerts, req[w].alert))
    BY DEF FindsStored
  <2>5. ~AlertFails(w)
    BY <2>4 DEF AlertFails
  <2>6. ~Fault(w)
    BY <2>t DEF AfterStore, Fault, ScoringFails, DatabaseFails, Crash, Reply, IdleRequest
  <2>7. ASSUME NEW pc, Goto(w, pc) PROVE FALSE
    BY <2>t, <2>7 DEF Goto, Request
  <2>8. ~RefreshPrediction(w) /\ ~RefreshAlert(w)
    BY <2>4, <2>7 DEF RefreshPrediction, RefreshAlert
  <2>9. ASSUME NEW a \in AlertId, RaiseAlert(w, a) PROVE FALSE
    BY <2>t, <2>9 DEF RaiseAlert, Request
  <2>10. Reload(w) => req'[w].status = 201
    BY <2>t, <2>4 DEF Reload, Reply, IdleRequest
  <2> QED BY <2>3, <2>5, <2>6, <2>8, <2>9, <2>10
<1> QED BY <1>1, <1>2, <1>3, Invariance, UnansweredHolds, PTL DEF Spec

\* Deletions that begin without an alert in sight load none.
LEMMA SeesNoAlertsStep ==
  ASSUME NEW s \in ServerId, IInv, Unanswered, SeesNoAlerts(s), Next, BeginsUnalerted(s)
  PROVE  SeesNoAlerts(s)'
<1> SUFFICES ASSUME NEW w \in Worker, req'[w].pc = "deleteServer", req'[w].server = s
             PROVE  ~req'[w].sawAlerts
  BY DEF SeesNoAlerts
<1>t. req \in [Worker -> Request]
  BY DEF IInv, TypeOK
<1>1. CASE req'[w] = req[w]
  BY <1>1 DEF SeesNoAlerts
<1>2. CASE req'[w] # req[w]
  <2>1. Accept(w) \/ Step(w) \/ Fault(w)
    BY <1>2, OwnChange
  <2>2. PICK x \in ServerId : StartDeleteServer(w, x)
    BY <2>1, StepLeads DEF Step
  <2> DEFINE saw == \E a \in AlertId : Live(alerts, a) /\ alerts[a].server = x
  <2>3. /\ req[w].pc = "idle"
        /\ req'[w] = [IdleRequest EXCEPT !.pc = "deleteServer", !.server = x, !.sawAlerts = saw]
    BY <1>t, <2>2, StepLeads DEF StartDeleteServer
  <2> HIDE DEF saw
  <2>4. req'[w].server = x /\ req'[w].sawAlerts = saw
    BY <2>3 DEF IdleRequest
  <2>5. ~saw
    BY <2>3, <2>4 DEF BeginsUnalerted, saw
  <2> QED BY <2>4, <2>5
<1> QED BY <1>1, <1>2

\* "Admin can delete server (204)": the alerts that a server has when its deletion begins
\* are the one cause of a failure.  Whatever the readings, the alerts of other servers and
\* those raised while the deletion runs, it does not answer 500 without one, unless the
\* database fails.
THEOREM DeletionFailsOnlyByAlert ==
  ASSUME "database" \notin Faults, NEW s \in ServerId
  PROVE  Spec /\ [][BeginsUnalerted(s)]_vars => [][DeletionSucceeds(s)]_vars
<1>1. Init => SeesNoAlerts(s)
  BY DEF Init, SeesNoAlerts, IdleRequest
<1>2. IInv /\ Unanswered /\ SeesNoAlerts(s) /\ [Next]_vars /\ [BeginsUnalerted(s)]_vars
        => SeesNoAlerts(s)'
  <2>1. CASE UNCHANGED vars
    BY <2>1 DEF vars, SeesNoAlerts
  <2> QED BY <2>1, SeesNoAlertsStep
<1>3. IInv /\ Unanswered /\ SeesNoAlerts(s) /\ [Next]_vars => [DeletionSucceeds(s)]_vars
  <2> SUFFICES ASSUME IInv, Unanswered, SeesNoAlerts(s), Next, NEW w \in Worker,
                      req[w].pc = "deleteServer", req[w].server = s, req'[w].status = 500
               PROVE  FALSE
    BY DEF DeletionSucceeds
  <2>t. req \in [Worker -> Request] /\ ~req[w].sawAlerts
    BY DEF IInv, TypeOK, SeesNoAlerts
  <2>1. Accept(w) \/ Step(w) \/ Fault(w)
    BY OwnAnswer
  <2>2. ~Accept(w)
    BY DEF Accept, IngestMetric, IngestRejected, StartDeleteServer, RequestPrediction
  <2>3. DeleteServer(w) \/ Fault(w)
    BY <2>t, <2>1, <2>2 DEF Step, RefreshMetric, LookupMetric, CheckExisting, InsertPrediction,
      InsertRejected, RefreshPrediction, RaiseAlert, AlertFails, RefreshAlert, Reload,
      DeleteServerFails
  <2>4. ASSUME NEW code, code # 500, Reply(w, code) PROVE FALSE
    BY <2>t, <2>4 DEF Reply, IdleRequest
  <2>5. \E code : code # 500 /\ Reply(w, code)
    BY <2>3 DEF DeleteServer, Fault, ScoringFails, DatabaseFails, Crash
  <2> QED BY <2>4, <2>5
<1> QED BY <1>1, <1>2, <1>3, Invariance, UnansweredHolds, PTL DEF Spec

\* Without a failing database and without a crash no medium or high risk goes unnoticed:
\* it has been alerted, or the request that stored it is about to.  No deletion, retry or
\* race of requests, and no failed scoring, loses an alert.
THEOREM EveryRiskAlerted ==
  ASSUME "database" \notin Faults, "crash" \notin Faults
  PROVE  Spec => []AlertedOrOwed
<1> DEFINE NoneLost == lost = {}
<1>1. Init => NoneLost
  BY DEF Init
<1>2. NoneLost /\ [Next]_vars => NoneLost'
  <2> SUFFICES ASSUME lost = {}, [Next]_vars PROVE lost' = {}
    OBVIOUS
  <2>1. CASE Maintain \/ UNCHANGED vars
    BY <2>1 DEF Maintain, CreateServer, DeleteMetric, UpdateMetric, DeletePrediction,
                DeleteAlert, MarkAlertRead, history, vars
  <2>2. ASSUME NEW w \in Worker, Accept(w) \/ Fault(w) PROVE lost' = {}
    BY <2>2 DEF Accept, IngestMetric, IngestRejected, StartDeleteServer, RequestPrediction,
                Fault, ScoringFails, DatabaseFails, Crash, history
  <2>3. ASSUME NEW w \in Worker, AlertFails(w) PROVE lost' = {}
    BY <2>3 DEF AlertFails, LoseAlert, OwesAlert
  <2>4. ASSUME NEW w \in Worker, Step(w), ~AlertFails(w) PROVE lost' = {}
    BY <2>4 DEF Step, RefreshMetric, LookupMetric, CheckExisting, InsertPrediction,
      InsertRejected, RefreshPrediction, RaiseAlert, RefreshAlert, Reload,
      DeleteServerFails, DeleteServer, history
  <2> QED BY <2>1, <2>2, <2>3, <2>4 DEF Next
<1>3. IInv /\ NoneLost => AlertedOrOwed
  BY DEF IInv, TypeOK, AlertLostOnlyByFault, AlertedOrOwed
<1> HIDE DEF NoneLost
<1> QED BY <1>1, <1>2, <1>3, Invariance, PTL DEF Spec
=============================================================================
