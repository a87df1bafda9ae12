------------------------ MODULE PredictionLedgerProofs ------------------------
(***************************************************************************)
(* The pipeline implements the ledger of verdicts, and answers 201 for a   *)
(* risk it scored itself only once the alert is committed: for any numbers *)
(* of servers, rows and concurrent requests, and any set of faults.        *)
(***************************************************************************)
EXTENDS PredictionPipelineProofs

USE DEF Live, history, tables

-----------------------------------------------------------------------------
(* Each step is one of the ledger.                                         *)

\* The entry of a prediction in the ledger.
Entry(p) ==
  IF predictions[p] = Unused THEN [state |-> "notIssued"]
  ELSE IF predictions[p] = Deleted THEN [state |-> "withdrawn"]
  ELSE [state |-> "standing", metric |-> predictions[p].metric,
        verdict |-> predictions[p].verdict]

\* A verdict stands as long as its row does.
LEMMA StandingIsLive ==
  ASSUME NEW p \in PredictionId
  PROVE  /\ Ledger!Standing(p) <=> Live(predictions, p)
         /\ Live(predictions, p) => /\ Entry(p).metric = predictions[p].metric
                                    /\ Entry(p).verdict = predictions[p].verdict
  BY DEF Ledger!Standing, Entry

\* A step that writes neither predictions nor an alert.
LEMMA LedgerStutters ==
  ASSUME UNCHANGED <<predictions, raised>>
  PROVE  UNCHANGED Ledger!ledgerVars
  BY DEF Ledger!ledgerVars

\* The ledger calls for the same verdicts and alarms as the pipeline.
LEMMA SameVerdicts ==
  /\ \A x \in Reading : Ledger!Verdict(x) = Verdict(x)
  /\ \A v \in Verdicts : /\ Ledger!NeedsAlert(v) <=> NeedsAlert(v)
                         /\ Ledger!AlertSeverity(v) = AlertSeverity(v)
  BY DEF Ledger!Verdict, Verdict, Ledger!RiskLevel, RiskLevel, Ledger!PredictedFailure,
         PredictedFailure, Ledger!StoredProbability, StoredProbability,
         Ledger!NeedsAlert, NeedsAlert, Ledger!AlertSeverity, AlertSeverity,
         Ledger!Scale, Scale

\* Storing a prediction issues its verdict.
LEMMA InsertIssues ==
  ASSUME IInv, NEW w \in Worker, NEW p \in PredictionId, InsertPrediction(w, p)
  PROVE  Ledger!LedgerNext
<1>1. PICK m \in MetricId, x \in Reading, s \in ServerId :
        /\ predictions[p] = Unused /\ raised' = raised
        /\ \A q \in PredictionId : Live(predictions, q) => predictions[q].metric # m
        /\ predictions' = [predictions EXCEPT ![p] =
                             [metric |-> m, server |-> s, verdict |-> Verdict(x)]]
  BY DEF IInv, RequestOK, InsertPrediction, Insertable, PredictionsOf
<1> DEFINE row == [metric |-> m, server |-> s, verdict |-> Verdict(x)]
<1>2. row \in PredictionRow
  BY VerdictType, ReadingAssumption DEF PredictionRow
<1>3. row \notin {Unused, Deleted} /\ row.metric = m /\ row.verdict = Ledger!Verdict(x)
  BY <1>2, MarkersAssumption, SameVerdicts
<1>4. predictions' = [predictions EXCEPT ![p] = row]
  BY <1>1
<1> HIDE DEF row
<1>5. predictions'[p] = row /\ \A q \in PredictionId \ {p} : predictions'[q] = predictions[q]
  BY <1>4 DEF IInv, TypeOK
<1>6. Ledger!Issue(p, m, x)
  <2>1. \A q \in PredictionId : Ledger!Standing(q) => Entry(q).metric # m
    BY <1>1, StandingIsLive
  <2>2. [q \in PredictionId |-> Entry(q)']
          = [[q \in PredictionId |-> Entry(q)] EXCEPT ![p] = Ledger!Issued(m, x)]
    BY <1>3, <1>5 DEF Entry, Ledger!Issued
  <2>3. Entry(p) = Ledger!NotIssued
    BY <1>1 DEF Entry, Ledger!NotIssued
  <2> QED BY <1>1, <2>1, <2>2, <2>3 DEF Ledger!Issue, Entry
<1> QED BY <1>6 DEF Ledger!LedgerNext

\* Committing an alert raises the alarm.
LEMMA AlertRaises ==
  ASSUME IInv, NEW w \in Worker, NEW a \in AlertId, RaiseAlert(w, a)
  PROVE  Ledger!LedgerNext
<1>1. PICK p \in PredictionId :
        /\ Live(predictions, p) /\ raised[p] = "none" /\ predictions' = predictions
        /\ NeedsAlert(predictions[p].verdict) /\ predictions[p].verdict \in Verdicts
        /\ raised' = [raised EXCEPT ![p] = AlertSeverity(predictions[p].verdict)]
  BY DEF IInv, RequestOK, Owns, RaiseAlert, TypeOK, PredictionRow
<1>2. Ledger!Standing(p) /\ Entry(p).verdict = predictions[p].verdict
  BY <1>1, StandingIsLive
<1>3. Ledger!NeedsAlert(Entry(p).verdict)
      /\ Ledger!AlertSeverity(Entry(p).verdict) = AlertSeverity(predictions[p].verdict)
  BY <1>1, <1>2, SameVerdicts
<1>4. Ledger!Raise(p)
  BY <1>1, <1>2, <1>3 DEF Ledger!Raise, Entry
<1> QED BY <1>4 DEF Ledger!LedgerNext

\* Deleting rows, by themselves or in a cascade, withdraws their verdicts.
LEMMA DropWithdraws ==
  ASSUME IInv, NEW P \in SUBSET PredictionId, \A p \in P : Live(predictions, p),
         predictions' = Drop(predictions, P), raised' = raised
  PROVE  Ledger!LedgerNext
<1>1. \A p \in PredictionId :
        predictions'[p] = IF p \in P THEN Deleted ELSE predictions[p]
  BY DEF Drop, IInv, TypeOK
<1>2. \A p \in P : Ledger!Standing(p)
  BY StandingIsLive
<1>3. [p \in PredictionId |-> Entry(p)']
        = [p \in PredictionId |-> IF p \in P THEN Ledger!Withdrawn ELSE Entry(p)]
  BY <1>1, MarkersAssumption DEF Entry, Ledger!Withdrawn
<1>4. Ledger!Withdraw(P)
  BY <1>2, <1>3 DEF Ledger!Withdraw, Entry
<1> QED BY <1>4 DEF Ledger!LedgerNext

LEMMA NextKeepsLedger == IInv /\ [Next]_vars => [Ledger!LedgerNext]_(Ledger!ledgerVars)
<1> SUFFICES ASSUME IInv, [Next]_vars
             PROVE  Ledger!LedgerNext \/ UNCHANGED Ledger!ledgerVars
  OBVIOUS
<1>1. ASSUME NEW w \in Worker, NEW p \in PredictionId, InsertPrediction(w, p)
      PROVE  Ledger!LedgerNext
  BY <1>1, InsertIssues
<1>2. ASSUME NEW w \in Worker, NEW a \in AlertId, RaiseAlert(w, a)
      PROVE  Ledger!LedgerNext
  BY <1>2, AlertRaises
<1>3. ASSUME NEW m \in MetricId, DeleteMetric(m) PROVE Ledger!LedgerNext
  <2>1. PredictionsOf(m) \in SUBSET PredictionId
        /\ \A p \in PredictionsOf(m) : Live(predictions, p)
    BY DEF PredictionsOf
  <2>2. predictions' = Drop(predictions, PredictionsOf(m)) /\ raised' = raised
    BY <1>3 DEF DeleteMetric
  <2> HIDE DEF Live
  <2> QED BY <2>1, <2>2, DropWithdraws
<1>4. ASSUME NEW p \in PredictionId, DeletePrediction(p) PROVE Ledger!LedgerNext
  BY <1>4, DropWithdraws DEF DeletePrediction
<1>5. ASSUME NEW w \in Worker, DeleteServer(w) PROVE Ledger!LedgerNext
  <2>1. PICK P \in SUBSET PredictionId :
          /\ \A p \in P : Live(predictions, p)
          /\ predictions' = Drop(predictions, P) /\ raised' = raised
    <3> DEFINE M == {m \in MetricId : Live(metrics, m) /\ metrics[m].server = req[w].server}
               P == {p \in PredictionId : /\ Live(predictions, p)
                                          /\ \/ predictions[p].server = req[w].server
                                             \/ predictions[p].metric \in M}
    <3>1. predictions' = Drop(predictions, P) /\ raised' = raised
      BY <1>5 DEF DeleteServer
    <3>2. P \in SUBSET PredictionId /\ \A p \in P : Live(predictions, p)
      OBVIOUS
    <3> HIDE DEF P
    <3> QED BY <3>1, <3>2
  <2> QED BY <2>1, DropWithdraws
<1>6. CASE \/ \E s \in ServerId : CreateServer(s)
           \/ \E m \in MetricId, r \in Reading : UpdateMetric(m, r)
           \/ \E a \in AlertId : DeleteAlert(a) \/ MarkAlertRead(a)
  BY <1>6, LedgerStutters DEF CreateServer, UpdateMetric, DeleteAlert, MarkAlertRead
<1>7. ASSUME NEW w \in Worker, Accept(w) \/ Fault(w)
      PROVE  UNCHANGED Ledger!ledgerVars
  BY <1>7, LedgerStutters DEF Accept, Fault, IngestMetric, IngestRejected, StartDeleteServer,
     RequestPrediction, ScoringFails, DatabaseFails, Crash
<1>8. ASSUME NEW w \in Worker,
             \/ RefreshMetric(w) \/ LookupMetric(w) \/ CheckExisting(w)
             \/ InsertRejected(w) \/ RefreshPrediction(w) \/ AlertFails(w)
             \/ RefreshAlert(w) \/ Reload(w) \/ DeleteServerFails(w)
      PROVE  UNCHANGED Ledger!ledgerVars
  BY <1>8, LedgerStutters DEF RefreshMetric, LookupMetric, CheckExisting, InsertRejected,
     RefreshPrediction, AlertFails, RefreshAlert, Reload, DeleteServerFails
<1>9. CASE UNCHANGED vars
  BY <1>9, LedgerStutters DEF vars
<1> QED BY <1>1, <1>2, <1>3, <1>4, <1>5, <1>6, <1>7, <1>8, <1>9
        DEF Next, Maintain, Step

\* A verdict is issued once on a metric with none standing, never changes, is withdrawn
\* for good, and its alarm is raised at most once, with the severity it calls for.
THEOREM KeepsLedgerHolds == Spec => KeepsLedger
<1>1. Init => Ledger!LedgerInit
  BY DEF Init, Ledger!LedgerInit, Ledger!NotIssued
<1> QED BY <1>1, NextKeepsLedger, Invariance, PTL DEF Spec, KeepsLedger, Ledger!LedgerSpec

-----------------------------------------------------------------------------
(* What a 201 says of the alert.                                           *)

\* The request that scored a medium or high risk metric is answered 201 only once the
\* alert is committed, whatever runs and fails beside it.
THEOREM CreatedImpliesAlertedHolds == Spec => CreatedImpliesAlerted
<1> DEFINE Alerted ==
      \A w \in Worker :
        /\ req[w].pc = "reload"
        /\ req'[w].status = 201
        /\ NeedsAlert(predictions[req[w].prediction].verdict)
        => raised[req[w].prediction] # "none"
<1>1. IInv /\ Unanswered /\ [Next]_vars => [Alerted]_vars
  <2> SUFFICES ASSUME IInv, Unanswered, Next, NEW w \in Worker,
                      req[w].pc = "reload", req'[w].status = 201,
                      NeedsAlert(predictions[req[w].prediction].verdict)
               PROVE  raised[req[w].prediction] # "none"
    OBVIOUS
  <2>t. req \in [Worker -> Request]
    BY DEF IInv, TypeOK
  <2>1. Accept(w) \/ Step(w) \/ Fault(w)
    BY OwnAnswer
  <2>2. ~Accept(w)
    BY DEF Accept, IngestMetric, IngestRejected, StartDeleteServer, RequestPrediction
  <2>3. ~Fault(w)
    BY <2>t DEF Fault, ScoringFails, DatabaseFails, Crash, Reply, IdleRequest
  <2>4. Reload(w)
    BY <2>1, <2>2, <2>3 DEF Step, RefreshMetric, LookupMetric, CheckExisting, InsertPrediction,
      InsertRejected, RefreshPrediction, RaiseAlert, AlertFails, RefreshAlert,
      DeleteServerFails, DeleteServer
  <2>5. Live(predictions, req[w].prediction)
    BY <2>t, <2>4 DEF Reload, Reply, IdleRequest
  <2> QED BY <2>5 DEF IInv, RequestOK
<1> QED BY <1>1, Invariance, UnansweredHolds, PTL DEF Spec, CreatedImpliesAlerted
=============================================================================
