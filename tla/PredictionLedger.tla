--------------------------- MODULE PredictionLedger ---------------------------
(***************************************************************************)
(* What the prediction pipeline promises, apart from how it is computed:   *)
(* a ledger of verdicts.  A verdict is issued once on a metric that has    *)
(* none standing, never changes, and may be withdrawn for good.  Its alarm *)
(* is raised at most once, with the severity the verdict calls for, and    *)
(* only while it stands; a withdrawal does not take the alarm back.        *)
(***************************************************************************)
EXTENDS RiskModel

CONSTANTS PredictionId, MetricId, Reading

VARIABLES
  verdict,   \* [PredictionId -> a record, NotIssued or Withdrawn]
  alarm      \* [PredictionId -> Severity \cup {"none"}]

ledgerVars == <<verdict, alarm>>

NotIssued == [state |-> "notIssued"]
Withdrawn == [state |-> "withdrawn"]
Issued(m, r) == [state |-> "standing", metric |-> m, verdict |-> Verdict(r)]

Standing(p) == verdict[p].state = "standing"

LedgerInit ==
  /\ verdict = [p \in PredictionId |-> NotIssued]
  /\ alarm = [p \in PredictionId |-> "none"]

Issue(p, m, r) ==
  /\ verdict[p] = NotIssued
  /\ \A q \in PredictionId : Standing(q) => verdict[q].metric # m
  /\ verdict' = [verdict EXCEPT ![p] = Issued(m, r)]
  /\ UNCHANGED alarm

Raise(p) ==
  /\ Standing(p)
  /\ alarm[p] = "none"
  /\ NeedsAlert(verdict[p].verdict)
  /\ alarm' = [alarm EXCEPT ![p] = AlertSeverity(verdict[p].verdict)]
  /\ UNCHANGED verdict

\* One prediction, or all those of a metric or of a server.
Withdraw(S) ==
  /\ \A p \in S : Standing(p)
  /\ verdict' = [p \in PredictionId |-> IF p \in S THEN Withdrawn ELSE verdict[p]]
  /\ UNCHANGED alarm

LedgerNext ==
  \/ \E p \in PredictionId, m \in MetricId, r \in Reading : Issue(p, m, r)
  \/ \E p \in PredictionId : Raise(p)
  \/ \E S \in SUBSET PredictionId : Withdraw(S)

LedgerSpec == LedgerInit /\ [][LedgerNext]_ledgerVars
=============================================================================
