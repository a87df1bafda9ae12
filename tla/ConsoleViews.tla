------------------------------ MODULE ConsoleViews ------------------------------
(***************************************************************************)
(* What the console's pages make of the predictions they have loaded       *)
(* (src/frontend/src/pages/Dashboard.jsx, Predictions.jsx,                 *)
(* PredictionDetails.jsx, Alerts.jsx and the components they share).  Each *)
(* computes its figures from the rows on its own, so that they agree is    *)
(* not a matter of course.  Pure operators: no state.                      *)
(*                                                                         *)
(* A row is a prediction as the API returns it: the score that determines  *)
(* its verdict, its server and its time of creation in milliseconds, which *)
(* is what a Date keeps of it.  Lists of rows are newest first.  Wording,  *)
(* colours and drawing are left out.                                       *)
(***************************************************************************)
EXTENDS RiskModel, FiniteSets, Sequences, SequencesExt

\* list.filter(...).length
Count(list, Test(_)) == Cardinality({n \in DOMAIN list : Test(list[n])})

RiskOf(row) == Verdict(row.score).risk
Failed(row) == Verdict(row.score).failure

\* failure_probability * 100 with two decimals: hundredths of a percent, which are the four
\* decimals that are stored.
Percent(row) == Verdict(row.score).probability

\* What Math.round and toFixed may make of n / d: the nearest integer, and of a half either
\* of the two, since the quotient is a binary fraction that falls on one side of it or the
\* other (23 of 40 are 57 percent).
Rounded(n, d) ==
  LET up == (2 * n + d) \div (2 * d) IN {k \in {up - 1, up} : 2 * n <= 2 * d * k + d}

-----------------------------------------------------------------------------
(* The dashboard.                                                          *)

\* Mutant of Statistics: the predicted failures are taken for the high risks.
StatisticsHighIsFailed(list) ==
  [total    |-> Len(list),
   failures |-> Count(list, Failed),
   safe     |-> Count(list, LAMBDA row : ~Failed(row)),
   high     |-> Count(list, Failed),
   medium   |-> Count(list, LAMBDA row : RiskOf(row) = "medium"),
   low      |-> Count(list, LAMBDA row : RiskOf(row) = "low"),
   servers  |-> {list[n].server : n \in DOMAIN list}]

Statistics(list) ==
  [total    |-> Len(list),
   failures |-> Count(list, Failed),
   safe     |-> Count(list, LAMBDA row : ~Failed(row)),
   high     |-> Count(list, LAMBDA row : RiskOf(row) = "high"),
   medium   |-> Count(list, LAMBDA row : RiskOf(row) = "medium"),
   low      |-> Count(list, LAMBDA row : RiskOf(row) = "low"),
   servers  |-> {list[n].server : n \in DOMAIN list}]

\* failureRate, in tenths of a percent: the values it may be shown with.
FailureRate(list) ==
  IF list = <<>> THEN {0} ELSE Rounded(1000 * Statistics(list).failures, Len(list))

\* The figures of the hero and of the four cards.
HeroServers(list) == Cardinality(Statistics(list).servers)

StatCards(list) ==
  [servers |-> HeroServers(list), total |-> Statistics(list).total,
   failures |-> Statistics(list).failures, high |-> Statistics(list).high]

StatusRow(list) ==
  [safe |-> Statistics(list).safe, failures |-> Statistics(list).failures,
   high |-> Statistics(list).high, rates |-> FailureRate(list)]

\* The widths of the three bars, as parts of Len(list).
Bars(list) ==
  [low |-> Statistics(list).low, medium |-> Statistics(list).medium,
   high |-> Statistics(list).high]

-----------------------------------------------------------------------------
(* The donut beside them.                                                  *)

Slices(list) == [r \in Risk |-> Count(list, LAMBDA row : RiskOf(row) = r)]

\* Mutant of Percentage: Math.ceil.
PercentageUp(value, total) == IF total > 0 THEN {(100 * value + total - 1) \div total} ELSE {0}

\* RiskItem: the whole percents it may show.
Percentage(value, total) == IF total > 0 THEN Rounded(100 * value, total) ELSE {0}

Legend(list) == [r \in Risk |-> Percentage(Slices(list)[r], Len(list))]

-----------------------------------------------------------------------------
(* The table, the trend and the page of one prediction.                    *)

TableRow(row) ==
  [percent |-> Percent(row), badge |-> RiskOf(row),
   status |-> IF Failed(row) THEN "failure" ELSE "safe"]

ServerTable(list) == [n \in DOMAIN list |-> TableRow(list[n])]

\* Row m comes no later than row n in a sort by time, which is stable: rows of the same
\* millisecond keep their order.
NoLater(list, m, n) ==
  \/ list[m].at < list[n].at
  \/ list[m].at = list[n].at /\ m <= n

\* The place of row n in that sort.
Place(list, n) == Cardinality({m \in DOMAIN list : NoLater(list, m, n)})

\* Mutant of Trend: the rows are not sorted.
TrendUnsorted(list) == list

Trend(list) ==
  [k \in DOMAIN list |-> list[CHOOSE n \in DOMAIN list : Place(list, n) = k]]

\* "Current Risk": the last point of the trend.
CurrentRisk(list) == IF list = <<>> THEN 0 ELSE Percent(Last(Trend(list)))

\* Mutant of DetailsOf: the recommendation follows the risk instead of the prediction.
DetailsOfRisk(row) ==
  [percent |-> Percent(row), tier |-> RiskOf(row),
   status |-> IF Failed(row) THEN "failure" ELSE "safe",
   recommendation |-> IF RiskOf(row) # "low" THEN "danger" ELSE "safe"]

\* PredictionDetails: an unknown tier is coloured like a low one; the badge, the assessment
\* and the recommendation follow predicted_failure alone.
DetailsOf(row) ==
  [percent |-> Percent(row), tier |-> RiskOf(row),
   status |-> IF Failed(row) THEN "failure" ELSE "safe",
   recommendation |-> IF Failed(row) THEN "danger" ELSE "safe"]

\* Alerts: the icon of the card of an alert.
AlertIcon(severity) ==
  CASE severity = "critical" -> "shield" [] severity = "warning" -> "triangle" [] OTHER -> "info"
=============================================================================
