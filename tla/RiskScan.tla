------------------------------- MODULE RiskScan -------------------------------
(***************************************************************************)
(* RiskModel on every probability of the scale, visited from 0 upwards, and *)
(* ConsoleViews on every list of predictions, built row by row.            *)
(***************************************************************************)
EXTENDS ConsoleViews

CONSTANTS
  Sample,   \* scores the rows of lists have, one per kind of verdict
  Servers,  \* servers they are of
  MaxRows   \* bound: rows in a list

ASSUME ScanAssumption == Sample \subseteq Probability /\ MaxRows \in Nat

VARIABLES score, rows

vars == <<score, rows>>

Init == score = 0 /\ rows = <<>>

NextScore == rows = <<>> /\ score < Scale /\ score' = score + 1 /\ UNCHANGED rows

\* A prediction is stored, in the millisecond of the newest one or in a later one.
NextRow ==
  /\ score = 0 /\ Len(rows) < MaxRows
  /\ \E s \in Sample, server \in Servers, later \in {0, 1} :
       rows' = <<[score |-> s, server |-> server,
                  at |-> later + (IF rows = <<>> THEN 0 ELSE rows[1].at)]>> \o rows
  /\ UNCHANGED score

Next == NextScore \/ NextRow

Spec == Init /\ [][Next]_vars

Order(severity) ==
  CASE severity = "none" -> 0 [] severity = "warning" -> 1 [] severity = "critical" -> 2

\* An alert is raised exactly when the risk is not low: the flag that model.predict
\* computes apart from the thresholds never adds one, it only makes it critical.
AlertIffRisk == NeedsAlert(Verdict(score)) <=> RiskLevel(score) # "low"

\* A larger probability of failure never gets a milder alert.
SeverityMonotone ==
  [][Order(AlertSeverity(Verdict(score))) <= Order(AlertSeverity(Verdict(score')))]_vars

\* The risk a reader would compute from the stored, rounded probability differs
\* from the stored risk only within half a unit below a threshold.
RoundingCrossesUpOnly ==
  LET stored == 10 * StoredProbability(score) IN
    RiskLevel(stored) # RiskLevel(score) =>
      \E t \in {30000, 70000} : score < t /\ t - score <= 5 /\ stored = t

\* The same prediction is never critical on one page and fine on another: its alert has the
\* icon of a critical one exactly when its page recommends action and the table says
\* "Failure", although the alert follows the risk and the pages follow the prediction.
CriticalIffDanger ==
  LET row == [score |-> score, server |-> "any", at |-> 0]
      critical == AlertIcon(AlertSeverity(Verdict(score))) = "shield" IN
    /\ critical <=> DetailsOf(row).recommendation = "danger"
    /\ critical <=> TableRow(row).status = "failure"

\* The dashboard's figures, bars and donut and the rows of the table beneath count the same
\* predictions: every row is under one risk and one status, a server at high risk is among
\* the predicted failures, and the failure rate is that of the table.
ViewsAgree ==
  LET table == ServerTable(rows)
      Shown(field, value) == Cardinality({n \in DOMAIN table : table[n][field] = value})
      failures == Shown("status", "failure") IN
    /\ \A r \in Risk : Slices(rows)[r] = Shown("badge", r) /\ Bars(rows)[r] = Shown("badge", r)
    /\ Bars(rows).low + Bars(rows).medium + Bars(rows).high = StatCards(rows).total
    /\ StatCards(rows).high <= StatCards(rows).failures
    /\ StatusRow(rows).safe + StatusRow(rows).failures = Len(table)
    /\ StatusRow(rows).failures = failures /\ StatCards(rows).failures = failures
    /\ HeroServers(rows) <= Len(table)
    /\ \A rate \in StatusRow(rows).rates :
         2 * (IF rate * Len(rows) > 1000 * failures
              THEN rate * Len(rows) - 1000 * failures
              ELSE 1000 * failures - rate * Len(rows)) <= Len(rows)

\* The rounded percents of the donut's legend add up to 100, give or take one.
LegendAddsUp ==
  rows # <<>> =>
    \A l \in Legend(rows)["low"], m \in Legend(rows)["medium"], h \in Legend(rows)["high"] :
      l + m + h \in 99 .. 101

\* "Current Risk" above the trend is that of the newest prediction, the first row of the
\* table; of several in the same millisecond, which a Date cannot tell apart, the last row.
CurrentIsNewest ==
  LET newest == {n \in DOMAIN rows : rows[n].at = rows[1].at} IN
    rows # <<>> =>
      \E n \in newest : CurrentRisk(rows) = Percent(rows[n]) /\ \A m \in newest : m <= n

\* The verdict stays within the columns that store it.
TypeOK == score \in Probability /\ Verdict(score) \in Verdicts

-----------------------------------------------------------------------------
(* What the proofs need to know of a list.                                 *)

Row == [score : Probability, server : Servers, at : Nat]

\* The rows of the newest millisecond come first, all others are older.
NewestFirst ==
  rows # <<>> =>
    \E n \in DOMAIN rows : \A m \in DOMAIN rows :
      IF m <= n THEN rows[m].at = rows[1].at ELSE rows[m].at < rows[1].at

IInv == score \in Probability /\ rows \in Seq(Row) /\ NewestFirst
=============================================================================
