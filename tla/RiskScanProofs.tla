----------------------------- MODULE RiskScanProofs -----------------------------
(***************************************************************************)
(* The verdict on every probability, and the console's views of every list *)
(* of predictions, of any length, servers and scores.                      *)
(***************************************************************************)
EXTENDS RiskScan, FiniteSetTheorems, TLAPS

-----------------------------------------------------------------------------
(* The verdict.                                                            *)

\* The probabilities, without the interval spelt out.
LEMMA Probabilities ==
  /\ Scale \in Int /\ Scale = 100000
  /\ \A s : s \in Probability <=> s \in Int /\ 0 <= s /\ s <= Scale
<1>1. Scale \in Int
  BY DEF Scale
<1>2. \A s : s \in Probability <=> s \in Int /\ 0 <= s /\ s <= Scale
  BY <1>1 DEF Probability
<1>3. Scale = 100000
  BY DEF Scale
<1> QED BY <1>1, <1>2, <1>3

LEMMA ProbabilityIsInt ==
  ASSUME NEW s \in Probability
  PROVE  s \in Int /\ 0 <= s /\ s <= 100000
  BY Probabilities

\* The parts of a verdict, and what its alert depends on.
LEMMA VerdictParts ==
  ASSUME NEW s \in Probability
  PROVE  /\ Verdict(s).risk = RiskLevel(s)
         /\ Verdict(s).failure = PredictedFailure(s)
         /\ Verdict(s).probability = StoredProbability(s)
         /\ Verdict(s) \in Verdicts
         /\ AlertSeverity(Verdict(s)) =
              IF s > 50000 THEN "critical" ELSE IF s >= 30000 THEN "warning" ELSE "none"
<1>1. s \in Int /\ 0 <= s /\ s <= 100000
  BY ProbabilityIsInt
<1>2. RiskLevel(s) \in Risk /\ PredictedFailure(s) \in BOOLEAN
  BY DEF RiskLevel, PredictedFailure, Risk
<1>3. StoredProbability(s) \in 0 .. StoredScale
  <2>1. StoredProbability(s) \in Int /\ 0 <= StoredProbability(s)
        /\ StoredProbability(s) <= StoredScale
    BY <1>1 DEF StoredProbability, StoredScale
  <2>2. StoredScale \in Int
    BY DEF StoredScale
  <2> QED BY <2>1, <2>2
<1>4. PredictedFailure(s) <=> s > 50000
  BY <1>1 DEF PredictedFailure, Scale
<1>5. /\ RiskLevel(s) = "high" => s > 50000
      /\ RiskLevel(s) = "medium" <=> s >= 30000 /\ s < 70000
  BY <1>1 DEF RiskLevel
<1>6. /\ Verdict(s).risk = RiskLevel(s) /\ Verdict(s).failure = PredictedFailure(s)
      /\ Verdict(s).probability = StoredProbability(s)
  BY DEF Verdict
<1>7. Verdict(s) \in Verdicts
  BY <1>2, <1>3 DEF Verdict, Verdicts
<1>8. AlertSeverity(Verdict(s)) =
        IF s > 50000 THEN "critical" ELSE IF s >= 30000 THEN "warning" ELSE "none"
  BY <1>1, <1>4, <1>5, <1>6 DEF AlertSeverity
<1> QED BY <1>6, <1>7, <1>8

LEMMA InitIInv == Init => IInv
  BY Probabilities DEF Init, IInv, NewestFirst

LEMMA NextIInv == IInv /\ [Next]_vars => IInv'
<1> SUFFICES ASSUME IInv, [Next]_vars PROVE IInv'
  OBVIOUS
<1>1. CASE NextScore
  <2>1. score \in Int /\ 0 <= score /\ score < 100000 /\ score' = score + 1 /\ rows' = rows
    BY <1>1, ProbabilityIsInt DEF NextScore, IInv, Scale
  <2>2. score' \in Probability
    BY <2>1, Probabilities
  <2> QED BY <2>1, <2>2 DEF IInv, NewestFirst
<1>2. ASSUME NEW s \in Sample, NEW server \in Servers, NEW later \in {0, 1},
             score' = score, 
             rows' = <<[score |-> s, server |-> server,
                        at |-> later + (IF rows = <<>> THEN 0 ELSE rows[1].at)]>> \o rows
      PROVE  IInv'
  <2> DEFINE at == later + (IF rows = <<>> THEN 0 ELSE rows[1].at)
             row == [score |-> s, server |-> server, at |-> at]
  <2>1. rows \in Seq(Row)
    BY DEF IInv
  <2>f. \A m \in DOMAIN rows : rows[m].at \in Nat
    <3>1. \A m \in DOMAIN rows : rows[m] \in Row
      BY <2>1
    <3> QED BY <3>1 DEF Row
  <2>g. rows # <<>> => 1 \in DOMAIN rows
    BY <2>1
  <2>2. at \in Nat
    BY <2>f, <2>g
  <2>3. row \in Row
    BY <2>2, ScanAssumption DEF Row
  <2>4. /\ rows' \in Seq(Row) /\ Len(rows') = Len(rows) + 1 /\ rows'[1] = row
        /\ \A m \in DOMAIN rows : rows'[m + 1] = rows[m]
        /\ DOMAIN rows' = 1 .. Len(rows) + 1 /\ DOMAIN rows = 1 .. Len(rows) /\ Len(rows) \in Nat
    <3>1. rows' = <<row>> \o rows
      BY <1>2
    <3> HIDE DEF row
    <3> QED BY <3>1, <2>1, <2>3
  <2>5. NewestFirst'
    <3>1. CASE rows = <<>>
      BY <2>2, <2>4, <3>1 DEF NewestFirst
    <3>2. CASE rows # <<>> /\ later = 0
      <4>1. PICK n \in DOMAIN rows : \A m \in DOMAIN rows :
              IF m <= n THEN rows[m].at = rows[1].at ELSE rows[m].at < rows[1].at
        BY <3>2 DEF IInv, NewestFirst
      <4>2. rows[1].at \in Nat /\ row.at = rows[1].at
        BY <2>f, <2>g, <3>2
      <4>3. n + 1 \in DOMAIN rows'
        BY <2>4
      <4>4. ASSUME NEW m \in DOMAIN rows'
            PROVE  IF m <= n + 1 THEN rows'[m].at = rows'[1].at
                                 ELSE rows'[m].at < rows'[1].at
        <5>1. CASE m = 1
          BY <2>4, <5>1
        <5>2. CASE m # 1
          <6>1. m - 1 \in DOMAIN rows /\ rows'[m] = rows[m - 1]
            <7>1. m - 1 \in DOMAIN rows /\ (m - 1) + 1 = m
              BY <2>4, <5>2
            <7> QED BY <2>4, <7>1
          <6>2. m - 1 <= n <=> m <= n + 1
            BY <2>4
          <6> QED BY <2>4, <4>1, <4>2, <6>1, <6>2
        <5> QED BY <5>1, <5>2
      <4> QED BY <4>3, <4>4 DEF NewestFirst
    <3>3. CASE rows # <<>> /\ later = 1
      <4>1. rows[1].at \in Nat /\ row.at = rows[1].at + 1
        BY <2>f, <2>g, <3>3
      <4>2. \A m \in DOMAIN rows : rows[m].at \in Nat /\ rows[m].at <= rows[1].at
        BY <2>f, <3>3, <4>1 DEF IInv, NewestFirst
      <4>3. ASSUME NEW m \in DOMAIN rows'
            PROVE  IF m <= 1 THEN rows'[m].at = rows'[1].at ELSE rows'[m].at < rows'[1].at
        <5>1. CASE m = 1
          BY <2>4, <5>1
        <5>2. CASE m # 1
          <6>1. m - 1 \in DOMAIN rows /\ rows'[m] = rows[m - 1] /\ ~(m <= 1)
            <7>1. m - 1 \in DOMAIN rows /\ (m - 1) + 1 = m /\ ~(m <= 1)
              BY <2>4, <5>2
            <7> QED BY <2>4, <7>1
          <6> QED BY <2>4, <4>1, <4>2, <6>1
        <5> QED BY <5>1, <5>2
      <4>4. 1 \in DOMAIN rows'
        BY <2>4
      <4> QED BY <4>3, <4>4 DEF NewestFirst
    <3> QED BY <3>1, <3>2, <3>3
  <2> QED BY <1>2, <2>4, <2>5 DEF IInv
<1>3. CASE NextRow
  BY <1>2, <1>3 DEF NextRow
<1>4. CASE UNCHANGED vars
  BY <1>4 DEF vars, IInv, NewestFirst
<1> QED BY <1>1, <1>3, <1>4 DEF Next

\* The invariant the theorems rest on.
THEOREM Invariance == Spec => []IInv
  BY InitIInv, NextIInv, PTL DEF Spec

\* What predict_failure returns always fits the columns that store it.
THEOREM TypeCorrect == Spec => []TypeOK
<1>1. IInv => TypeOK
  BY VerdictParts DEF IInv, TypeOK
<1> QED BY <1>1, Invariance, PTL

\* On every probability an alert is raised exactly when the risk is not low.
THEOREM AlertIffRiskHolds == Spec => []AlertIffRisk
<1>1. IInv => AlertIffRisk
  <2> SUFFICES ASSUME IInv PROVE AlertIffRisk
    OBVIOUS
  <2>1. score \in Probability /\ score \in Int
    BY ProbabilityIsInt DEF IInv
  <2>2. NeedsAlert(Verdict(score)) <=> score >= 30000
    BY <2>1, VerdictParts DEF NeedsAlert
  <2>3. RiskLevel(score) # "low" <=> score >= 30000
    BY <2>1 DEF RiskLevel
  <2> QED BY <2>2, <2>3 DEF AlertIffRisk
<1> QED BY <1>1, Invariance, PTL

\* A larger probability never gets a milder alert.
THEOREM SeverityMonotoneHolds == Spec => SeverityMonotone
<1>1. IInv /\ IInv' /\ [Next]_vars
        => [Order(AlertSeverity(Verdict(score))) <= Order(AlertSeverity(Verdict(score')))]_vars
  <2> SUFFICES ASSUME IInv, IInv', Next
               PROVE  Order(AlertSeverity(Verdict(score)))
                        <= Order(AlertSeverity(Verdict(score')))
    OBVIOUS
  <2>1. score \in Probability /\ score' \in Probability /\ score \in Int /\ score' \in Int
    BY ProbabilityIsInt DEF IInv
  <2>2. score <= score'
    BY <2>1 DEF Next, NextScore, NextRow
  <2>3. \A s \in Probability :
          Order(AlertSeverity(Verdict(s))) = IF s > 50000 THEN 2 ELSE IF s >= 30000 THEN 1 ELSE 0
    <3> SUFFICES ASSUME NEW s \in Probability
                 PROVE  Order(AlertSeverity(Verdict(s))) =
                          IF s > 50000 THEN 2 ELSE IF s >= 30000 THEN 1 ELSE 0
      OBVIOUS
    <3>1. Order("none") = 0 /\ Order("warning") = 1 /\ Order("critical") = 2
      BY DEF Order
    <3> QED BY <3>1, VerdictParts
  <2> QED BY <2>1, <2>2, <2>3
<1> QED BY <1>1, Invariance, PTL DEF Spec, SeverityMonotone

\* The stored probability names another risk than the stored risk only within half a unit
\* below a threshold.
THEOREM RoundingCrossesUpOnlyHolds == Spec => []RoundingCrossesUpOnly
<1>1. IInv => RoundingCrossesUpOnly
  <2> SUFFICES ASSUME IInv PROVE RoundingCrossesUpOnly
    OBVIOUS
  <2>1. score \in Int
    BY ProbabilityIsInt DEF IInv
  <2> DEFINE stored == 10 * StoredProbability(score)
  <2>2. stored \in Int /\ score - 5 < stored + 0 /\ stored <= score + 5
        /\ \E k \in Int : stored = 10 * k
    BY <2>1 DEF StoredProbability
  <2> HIDE DEF stored
  <2>3. RiskLevel(stored) # RiskLevel(score) =>
          \E t \in {30000, 70000} : score < t /\ t - score <= 5 /\ stored = t
    BY <2>1, <2>2 DEF RiskLevel
  <2> QED BY <2>3 DEF RoundingCrossesUpOnly, stored
<1> QED BY <1>1, Invariance, PTL

\* Whether a prediction is grave is the same on its alert, on its page and in the table.
THEOREM CriticalIffDangerHolds == Spec => []CriticalIffDanger
<1>1. IInv => CriticalIffDanger
  <2> SUFFICES ASSUME IInv PROVE CriticalIffDanger
    OBVIOUS
  <2>1. score \in Probability /\ score \in Int
    BY ProbabilityIsInt DEF IInv
  <2> DEFINE row == [score |-> score, server |-> "any", at |-> 0]
  <2>2. Failed(row) <=> score > 50000
    <3>1. PredictedFailure(score) <=> score > 50000
      BY <2>1 DEF PredictedFailure, Scale
    <3> QED BY <2>1, <3>1, VerdictParts DEF Failed
  <2>3. DetailsOf(row).recommendation = "danger" <=> Failed(row)
    BY DEF DetailsOf
  <2>4. TableRow(row).status = "failure" <=> Failed(row)
    BY DEF TableRow
  <2>5. AlertIcon(AlertSeverity(Verdict(score))) = "shield" <=> score > 50000
    <3>1. AlertIcon("critical") = "shield" /\ AlertIcon("warning") = "triangle"
          /\ AlertIcon("none") = "info"
      BY DEF AlertIcon
    <3> QED BY <2>1, <3>1, VerdictParts
  <2> QED BY <2>2, <2>3, <2>4, <2>5 DEF CriticalIffDanger
<1> QED BY <1>1, Invariance, PTL

-----------------------------------------------------------------------------
(* The figures of a list.                                                  *)

\* The bounds that define rounding to the nearest.
LEMMA RoundedBounds ==
  ASSUME NEW n \in Nat, NEW d \in Nat \ {0}
  PROVE  \A k \in Rounded(n, d) :
           /\ k \in Nat
           /\ 2 * d * k <= 2 * n + d
           /\ 2 * n <= 2 * d * k + d
<1> DEFINE up == (2 * n + d) \div (2 * d)
<1>1. up \in Nat /\ 2 * d * up <= 2 * n + d
  OBVIOUS
<1> SUFFICES ASSUME NEW k \in {up - 1, up}, 2 * n <= 2 * d * k + d
             PROVE  k \in Nat /\ 2 * d * k <= 2 * n + d
  BY DEF Rounded
<1> HIDE DEF up
<1>2. k \in Nat
  <2> SUFFICES ASSUME k = -1 PROVE FALSE
    BY <1>1
  <2>1. 2 * d * k = - (2 * d)
    OBVIOUS
  <2> QED BY <2>1
<1>3. 2 * d * k <= 2 * d * up
  <2>1. CASE k = up
    BY <2>1
  <2>2. CASE k = up - 1
    <3>1. 2 * d * k = 2 * d * up - 2 * d
      BY <1>1, <2>2
    <3>2. 2 * d * up \in Nat
      BY <1>1
    <3> QED BY <3>1, <3>2
  <2> QED BY <2>1, <2>2
<1> QED
  <2>1. 2 * d * k \in Nat /\ 2 * d * up \in Nat
    BY <1>1, <1>2
  <2> QED BY <1>1, <1>2, <1>3, <2>1

\* Two sets without common elements that make up an interval.
LEMMA Halves ==
  ASSUME NEW N \in Nat, NEW S, NEW T, S \cup T = 1 .. N, S \cap T = {}
  PROVE  /\ IsFiniteSet(S) /\ IsFiniteSet(T)
         /\ Cardinality(S) \in Nat /\ Cardinality(T) \in Nat
         /\ Cardinality(S) + Cardinality(T) = N
<1>1. IsFiniteSet(1 .. N) /\ Cardinality(1 .. N) = N
  BY FS_Interval
<1>2. S \in SUBSET (1 .. N) /\ T = (1 .. N) \ S /\ (1 .. N) \cap S = S /\ T \in SUBSET (1 .. N)
  OBVIOUS
<1>3. IsFiniteSet(S) /\ IsFiniteSet(T)
  BY <1>1, <1>2, FS_Subset
<1>4. Cardinality(S) \in Nat /\ Cardinality(T) \in Nat
  BY <1>3, FS_CardinalityType
<1>5. Cardinality((1 .. N) \ S) = Cardinality(1 .. N) - Cardinality((1 .. N) \cap S)
  BY <1>1, FS_Difference
<1>6. Cardinality(T) = N - Cardinality(S)
  <2>1. Cardinality((1 .. N) \ S) = Cardinality(T)
    BY <1>2
  <2>2. Cardinality((1 .. N) \cap S) = Cardinality(S)
    BY <1>2
  <2> QED BY <1>1, <1>5, <2>1, <2>2
<1> QED BY <1>3, <1>4, <1>6

\* Two sets without common elements.
LEMMA Disjoint ==
  ASSUME NEW S, NEW T, IsFiniteSet(S \cup T), S \cap T = {}
  PROVE  /\ Cardinality(S) \in Nat /\ Cardinality(T) \in Nat
         /\ Cardinality(S \cup T) = Cardinality(S) + Cardinality(T)
<1>1. IsFiniteSet(S) /\ IsFiniteSet(T)
  <2>1. S \in SUBSET (S \cup T) /\ T \in SUBSET (S \cup T)
    OBVIOUS
  <2> QED BY <2>1, FS_Subset
<1>2. Cardinality(S) \in Nat /\ Cardinality(T) \in Nat
  BY <1>1, FS_CardinalityType
<1>3. Cardinality(S \cup T) = Cardinality(S) + Cardinality(T) - Cardinality(S \cap T)
  BY <1>1, FS_Union
<1>4. Cardinality(S \cap T) = 0
  BY FS_EmptySet
<1> QED BY <1>2, <1>3, <1>4

\* Rows, their verdicts, and the sets of rows the pages count.
LEMMA Counted ==
  ASSUME rows \in Seq(Row)
  PROVE  /\ Len(rows) \in Nat /\ DOMAIN rows = 1 .. Len(rows)
         /\ \A n \in DOMAIN rows :
              /\ RiskOf(rows[n]) \in Risk /\ Failed(rows[n]) \in BOOLEAN
              /\ RiskOf(rows[n]) = "high" => Failed(rows[n])
<1>1. \A n \in DOMAIN rows : rows[n] \in Row
  OBVIOUS
<1>2. ASSUME NEW n \in DOMAIN rows
      PROVE  /\ RiskOf(rows[n]) \in Risk /\ Failed(rows[n]) \in BOOLEAN
             /\ RiskOf(rows[n]) = "high" => Failed(rows[n])
  <2>1. rows[n].score \in Probability /\ rows[n].score \in Int
    BY <1>1, ProbabilityIsInt DEF Row
  <2>2. RiskLevel(rows[n].score) = "high" => PredictedFailure(rows[n].score)
    BY <2>1 DEF RiskLevel, PredictedFailure, Scale
  <2>3. RiskLevel(rows[n].score) \in Risk /\ PredictedFailure(rows[n].score) \in BOOLEAN
    BY DEF RiskLevel, PredictedFailure, Risk
  <2> QED BY <2>1, <2>2, <2>3, VerdictParts DEF RiskOf, Failed
<1> QED BY <1>2

\* Every row is counted under one risk and under one status.
LEMMA FiguresAddUp ==
  ASSUME rows \in Seq(Row)
  PROVE  /\ Statistics(rows).total = Len(rows)
         /\ Statistics(rows).low \in Nat /\ Statistics(rows).medium \in Nat
         /\ Statistics(rows).high \in Nat
         /\ Statistics(rows).failures \in Nat /\ Statistics(rows).safe \in Nat
         /\ Statistics(rows).low + Statistics(rows).medium + Statistics(rows).high = Len(rows)
         /\ Statistics(rows).failures + Statistics(rows).safe = Len(rows)
         /\ Statistics(rows).high <= Statistics(rows).failures
<1> DEFINE N == Len(rows)
           L == {n \in DOMAIN rows : RiskOf(rows[n]) = "low"}
           M == {n \in DOMAIN rows : RiskOf(rows[n]) = "medium"}
           H == {n \in DOMAIN rows : RiskOf(rows[n]) = "high"}
           F == {n \in DOMAIN rows : Failed(rows[n])}
           G == {n \in DOMAIN rows : ~Failed(rows[n])}
<1>1. N \in Nat /\ DOMAIN rows = 1 .. N
  BY Counted
<1>2. /\ Statistics(rows).total = N
      /\ Statistics(rows).low = Cardinality(L)
      /\ Statistics(rows).medium = Cardinality(M)
      /\ Statistics(rows).high = Cardinality(H)
      /\ Statistics(rows).failures = Cardinality(F)
      /\ Statistics(rows).safe = Cardinality(G)
  BY DEF Statistics, Count
<1>3. /\ (L \cup M) \cup H = 1 .. N /\ (L \cup M) \cap H = {} /\ L \cap M = {}
  BY <1>1, Counted DEF Risk
<1>4. F \cup G = 1 .. N /\ F \cap G = {} /\ H \in SUBSET F
  BY <1>1, Counted
<1> HIDE DEF N, L, M, H, F, G
<1>5. /\ Cardinality(L) \in Nat /\ Cardinality(M) \in Nat /\ Cardinality(H) \in Nat
      /\ Cardinality(L) + Cardinality(M) + Cardinality(H) = N
  <2>1. /\ IsFiniteSet(L \cup M) /\ Cardinality(H) \in Nat
        /\ Cardinality(L \cup M) + Cardinality(H) = N
    BY <1>1, <1>3, Halves
  <2>2. /\ Cardinality(L) \in Nat /\ Cardinality(M) \in Nat
        /\ Cardinality(L \cup M) = Cardinality(L) + Cardinality(M)
    BY <1>3, <2>1, Disjoint
  <2> QED BY <2>1, <2>2
<1>6. /\ Cardinality(F) \in Nat /\ Cardinality(G) \in Nat /\ IsFiniteSet(F)
      /\ Cardinality(F) + Cardinality(G) = N
  BY <1>1, <1>4, Halves
<1>7. Cardinality(H) <= Cardinality(F)
  BY <1>4, <1>6, FS_Subset
<1> QED BY <1>2, <1>5, <1>6, <1>7 DEF N

\* The failure rate is the nearest tenth of a percent.
LEMMA RateIsNear ==
  ASSUME rows \in Seq(Row)
  PROVE  \A q \in FailureRate(rows) :
           /\ q \in Nat
           /\ 2 * q * Len(rows) <= 2000 * Statistics(rows).failures + Len(rows)
           /\ 2000 * Statistics(rows).failures <= 2 * q * Len(rows) + Len(rows)
<1> SUFFICES ASSUME NEW q \in FailureRate(rows)
             PROVE  /\ q \in Nat
                    /\ 2 * q * Len(rows) <= 2000 * Statistics(rows).failures + Len(rows)
                    /\ 2000 * Statistics(rows).failures <= 2 * q * Len(rows) + Len(rows)
  OBVIOUS
<1> DEFINE f == Statistics(rows).failures
           N == Len(rows)
           n == 1000 * f
<1>1. f \in Nat /\ N \in Nat /\ f <= N
  BY Counted, FiguresAddUp
<1>2. CASE rows = <<>>
  <2>1. N = 0 /\ q = 0
    BY <1>2 DEF FailureRate
  <2>2. f = 0
    BY <1>1, <2>1
  <2> QED BY <2>1, <2>2
<1>3. CASE rows # <<>>
  <2>1. N \in Nat \ {0} /\ q \in Rounded(n, N)
    BY <1>1, <1>3 DEF FailureRate
  <2>2. n \in Nat
    BY <1>1
  <2>3. q \in Nat /\ 2 * N * q <= 2 * n + N /\ 2 * n <= 2 * N * q + N
    <3> HIDE DEF n, N
    <3> QED BY <2>1, <2>2, RoundedBounds
  <2>4. 2 * q * N = 2 * N * q /\ 2 * q * N \in Nat
    <3> HIDE DEF f, N, n
    <3> QED BY <2>1, <2>3
  <2> HIDE DEF f, N
  <2>5. 2 * q * N <= 2000 * f + N /\ 2000 * f <= 2 * q * N + N
    BY <1>1, <2>3, <2>4
  <2> QED BY <2>3, <2>5 DEF f, N
<1> QED BY <1>2, <1>3

\* There are at most as many servers as rows.
LEMMA ServersOfRows ==
  ASSUME rows \in Seq(Row)
  PROVE  HeroServers(rows) <= Len(rows)
<1> DEFINE S == {rows[n].server : n \in DOMAIN rows}
           f == [n \in 1 .. Len(rows) |-> rows[n].server]
<1>1. Len(rows) \in Nat /\ DOMAIN rows = 1 .. Len(rows)
  BY Counted
<1>2. f \in Surjection(1 .. Len(rows), S)
  BY <1>1 DEF Surjection
<1>3. IsFiniteSet(1 .. Len(rows)) /\ Cardinality(1 .. Len(rows)) = Len(rows)
  BY <1>1, FS_Interval
<1>4. Cardinality(S) <= Len(rows)
  <2> HIDE DEF S, f
  <2> QED BY <1>2, <1>3, FS_Surjection
<1> QED BY <1>4 DEF HeroServers, Statistics
\* Dashboard, donut and table count the same predictions, in every list.
THEOREM ViewsAgreeHolds == Spec => []ViewsAgree
<1>1. IInv => ViewsAgree
  <2> SUFFICES ASSUME IInv PROVE ViewsAgree
    OBVIOUS
  <2>1. rows \in Seq(Row)
    BY DEF IInv
  <2> DEFINE table == ServerTable(rows)
             Shown(field, value) == Cardinality({n \in DOMAIN table : table[n][field] = value})
             failures == Shown("status", "failure")
             N == Len(rows)
  <2>2. N \in Nat /\ DOMAIN rows = 1 .. N /\ DOMAIN table = 1 .. N
    BY <2>1, Counted DEF ServerTable
  <2>3. \A r \in Risk : Shown("badge", r) = Slices(rows)[r]
    <3> SUFFICES ASSUME NEW r \in Risk PROVE Shown("badge", r) = Slices(rows)[r]
      OBVIOUS
    <3>1. \A n \in DOMAIN rows : table[n]["badge"] = RiskOf(rows[n])
      BY DEF ServerTable, TableRow
    <3>2. {n \in DOMAIN table : table[n]["badge"] = r} = {n \in DOMAIN rows : RiskOf(rows[n]) = r}
      BY <2>2, <3>1
    <3>3. Slices(rows)[r] = Cardinality({n \in DOMAIN rows : RiskOf(rows[n]) = r})
      BY DEF Slices, Count
    <3> QED BY <3>2, <3>3
  <2>4. failures = Statistics(rows).failures
    <3>1. \A n \in DOMAIN rows : table[n]["status"] = IF Failed(rows[n]) THEN "failure" ELSE "safe"
      BY DEF ServerTable, TableRow
    <3>2. {n \in DOMAIN table : table[n]["status"] = "failure"} = {n \in DOMAIN rows : Failed(rows[n])}
      BY <2>2, <3>1
    <3> QED BY <3>2 DEF Statistics, Count
  <2>5. \A r \in Risk : Bars(rows)[r] = Slices(rows)[r]
    <3>1. /\ Bars(rows)["low"] = Slices(rows)["low"] /\ Bars(rows)["medium"] = Slices(rows)["medium"]
          /\ Bars(rows)["high"] = Slices(rows)["high"]
      BY DEF Bars, Statistics, Slices, Risk, Count
    <3> QED BY <3>1 DEF Risk
  <2>6. Len(table) = N
    BY <2>2 DEF ServerTable
  <2>7. /\ Bars(rows).low + Bars(rows).medium + Bars(rows).high = StatCards(rows).total
        /\ StatCards(rows).high <= StatCards(rows).failures
        /\ StatusRow(rows).safe + StatusRow(rows).failures = N
        /\ StatusRow(rows).failures = failures /\ StatCards(rows).failures = failures
        /\ StatusRow(rows).rates = FailureRate(rows)
    BY <2>1, <2>4, FiguresAddUp DEF Bars, StatCards, StatusRow
  <2>8. ASSUME NEW rate \in StatusRow(rows).rates
        PROVE  2 * (IF rate * N > 1000 * failures THEN rate * N - 1000 * failures
                    ELSE 1000 * failures - rate * N) <= N
    <3>1. /\ rate \in Nat /\ failures \in Nat /\ N \in Nat
          /\ 2 * rate * N <= 2000 * failures + N
          /\ 2000 * failures <= 2 * rate * N + N
      BY <2>1, <2>2, <2>4, <2>7, RateIsNear, FiguresAddUp
    <3> HIDE DEF failures, N
    <3>2. rate * N \in Nat /\ 2 * rate * N = 2 * (rate * N)
      BY <3>1
    <3> QED BY <3>1, <3>2
  <2>9. HeroServers(rows) <= N
    BY <2>1, ServersOfRows
  <2> QED BY <2>3, <2>5, <2>6, <2>7, <2>8, <2>9 DEF ViewsAgree
<1> QED BY <1>1, Invariance, PTL

\* The rounded percents of three parts of a whole are 100 together, give or take one.
LEMMA PercentsAddUp ==
  ASSUME NEW l \in Nat, NEW m \in Nat, NEW h \in Nat, NEW N \in Nat \ {0}, l + m + h = N
  PROVE  \A p \in Rounded(100 * l, N), q \in Rounded(100 * m, N), r \in Rounded(100 * h, N) :
           p + q + r \in 99 .. 101
<1> SUFFICES ASSUME NEW p \in Rounded(100 * l, N), NEW q \in Rounded(100 * m, N),
                    NEW r \in Rounded(100 * h, N)
             PROVE  p + q + r \in 99 .. 101
  OBVIOUS
<1> DEFINE a == 100 * l
           b == 100 * m
           c == 100 * h
           t == p + q + r
<1>1. /\ a \in Nat /\ b \in Nat /\ c \in Nat /\ a + b + c = 100 * N
      /\ p \in Rounded(a, N) /\ q \in Rounded(b, N) /\ r \in Rounded(c, N)
  OBVIOUS
<1> HIDE DEF a, b, c
<1>2. /\ p \in Nat /\ 2 * N * p <= 2 * a + N /\ 2 * a <= 2 * N * p + N
      /\ q \in Nat /\ 2 * N * q <= 2 * b + N /\ 2 * b <= 2 * N * q + N
      /\ r \in Nat /\ 2 * N * r <= 2 * c + N /\ 2 * c <= 2 * N * r + N
  BY <1>1, RoundedBounds
<1>3. 2 * N * t = 2 * N * p + 2 * N * q + 2 * N * r /\ t \in Nat
  BY <1>2
<1>4. 2 * N * t <= 203 * N /\ 197 * N <= 2 * N * t
  <2>1. 2 * N * p \in Nat /\ 2 * N * q \in Nat /\ 2 * N * r \in Nat
    BY <1>2
  <2> HIDE DEF t
  <2> QED BY <1>1, <1>2, <1>3, <2>1
<1> HIDE DEF t
<1>5. t < 102
  <2> SUFFICES ASSUME t >= 102 PROVE FALSE
    BY <1>3
  <2>1. PICK k \in Nat : t = 102 + k
    <3>1. t - 102 \in Nat /\ t = 102 + (t - 102)
      BY <1>3
    <3> QED BY <3>1
  <2>2. 2 * N * t = 204 * N + 2 * N * k /\ 2 * N * k \in Nat
    BY <2>1
  <2> QED BY <1>4, <2>2
<1>6. t > 98
  <2> SUFFICES ASSUME t <= 98 PROVE FALSE
    BY <1>3
  <2>1. PICK k \in Nat : t + k = 98
    <3>1. 98 - t \in Nat /\ t + (98 - t) = 98
      BY <1>3
    <3> QED BY <3>1
  <2>2. 2 * N * t + 2 * N * k = 196 * N /\ 2 * N * k \in Nat /\ 2 * N * t \in Nat
    BY <1>3, <2>1
  <2> QED BY <1>4, <2>2
<1> QED BY <1>3, <1>5, <1>6 DEF t

\* In every list the donut's legend adds up to 100 percent, give or take one.
THEOREM LegendAddsUpHolds == Spec => []LegendAddsUp
<1>1. IInv => LegendAddsUp
  <2> SUFFICES ASSUME IInv, rows # <<>>
               PROVE  \A x \in Legend(rows)["low"], y \in Legend(rows)["medium"],
                         z \in Legend(rows)["high"] : x + y + z \in 99 .. 101
    BY DEF LegendAddsUp
  <2> DEFINE N == Len(rows)
             l == Slices(rows)["low"]
             m == Slices(rows)["medium"]
             h == Slices(rows)["high"]
  <2>1. rows \in Seq(Row)
    BY DEF IInv
  <2>2. N \in Nat \ {0} /\ N > 0
    BY <2>1
  <2>3. l \in Nat /\ m \in Nat /\ h \in Nat /\ l + m + h = N
    <3>1. l = Statistics(rows).low /\ m = Statistics(rows).medium /\ h = Statistics(rows).high
      BY DEF Slices, Statistics, Risk, Count
    <3> QED BY <2>1, <3>1, FiguresAddUp
  <2>4. /\ Legend(rows)["low"] = Rounded(100 * l, N)
        /\ Legend(rows)["medium"] = Rounded(100 * m, N)
        /\ Legend(rows)["high"] = Rounded(100 * h, N)
    BY <2>2 DEF Legend, Percentage, Risk
  <2> HIDE DEF l, m, h, N
  <2>5. \A p \in Rounded(100 * l, N), q \in Rounded(100 * m, N), r \in Rounded(100 * h, N) :
          p + q + r \in 99 .. 101
    <3> DEFINE Near(a, b, c, d) ==
                 \A p \in Rounded(100 * a, d), q \in Rounded(100 * b, d), r \in Rounded(100 * c, d) :
                   p + q + r \in 99 .. 101
    <3>1. \A a, b, c \in Nat, d \in Nat \ {0} : a + b + c = d => Near(a, b, c, d)
      BY PercentsAddUp
    <3> HIDE DEF Near
    <3>2. Near(l, m, h, N)
      BY <2>2, <2>3, <3>1
    <3> QED BY <3>2 DEF Near
  <2>6. ASSUME NEW x \in Legend(rows)["low"], NEW y \in Legend(rows)["medium"],
               NEW z \in Legend(rows)["high"]
        PROVE  x + y + z \in 99 .. 101
    <3>1. /\ x \in Rounded(100 * l, N) /\ y \in Rounded(100 * m, N)
          /\ z \in Rounded(100 * h, N)
      BY <2>4
    <3> QED BY <2>5, <3>1
  <2> QED BY <2>6
<1> QED BY <1>1, Invariance, PTL

-----------------------------------------------------------------------------
(* The trend.                                                              *)

\* "Current Risk" is that of the newest prediction, in every list.
THEOREM CurrentIsNewestHolds == Spec => []CurrentIsNewest
<1>1. IInv => CurrentIsNewest
  <2> SUFFICES ASSUME IInv, rows # <<>>
               PROVE  \E n \in {k \in DOMAIN rows : rows[k].at = rows[1].at} :
                        /\ CurrentRisk(rows) = Percent(rows[n])
                        /\ \A m \in {k \in DOMAIN rows : rows[k].at = rows[1].at} : m <= n
    BY DEF CurrentIsNewest
  <2> DEFINE N == Len(rows)
  <2>1. rows \in Seq(Row) /\ N \in Nat /\ DOMAIN rows = 1 .. N /\ N # 0
        /\ \A m \in DOMAIN rows : rows[m] \in Row
    BY DEF IInv
  <2>2. \A m \in DOMAIN rows : rows[m].at \in Nat
    BY <2>1 DEF Row
  <2>3. PICK n \in DOMAIN rows : \A m \in DOMAIN rows :
          IF m <= n THEN rows[m].at = rows[1].at ELSE rows[m].at < rows[1].at
    BY DEF IInv, NewestFirst
  <2>4. IsFiniteSet(1 .. N) /\ Cardinality(1 .. N) = N
    BY <2>1, FS_Interval
  <2>5. rows[n].at = rows[1].at /\ n \in Nat /\ N \in DOMAIN rows
    BY <2>1, <2>3
  <2>6. Place(rows, n) = N
    <3>1. {m \in DOMAIN rows : NoLater(rows, m, n)} = 1 .. N
      BY <2>1, <2>2, <2>3, <2>5 DEF NoLater
    <3> QED BY <2>4, <3>1 DEF Place
  <2>7. ASSUME NEW k \in DOMAIN rows, Place(rows, k) = N PROVE k = n
    <3> DEFINE P == {m \in DOMAIN rows : NoLater(rows, m, k)}
    <3>1. P \in SUBSET (1 .. N) /\ Cardinality(P) = N
      BY <2>1, <2>7 DEF Place
    <3>2. P = 1 .. N
      <4> HIDE DEF P
      <4> QED BY <2>4, <3>1, FS_Subset
    <3>3. NoLater(rows, n, k)
      BY <2>1, <3>2
    <3>4. rows[k].at <= rows[n].at /\ rows[k].at \in Nat /\ k \in Nat
      BY <2>1, <2>2, <2>3, <2>5
    <3>5. rows[k].at = rows[n].at /\ n <= k
      BY <2>2, <3>3, <3>4 DEF NoLater
    <3>6. k <= n
      BY <2>2, <2>3, <2>5, <3>4, <3>5
    <3> QED BY <2>5, <3>4, <3>5, <3>6
  <2>8. (CHOOSE k \in DOMAIN rows : Place(rows, k) = N) = n
    BY <2>6, <2>7
  <2>9. Len(Trend(rows)) = N /\ Trend(rows)[N] = rows[n]
    <3> DEFINE place(k) == CHOOSE m \in DOMAIN rows : Place(rows, m) = k
    <3>1. Trend(rows) = [k \in 1 .. N |-> rows[place(k)]]
      BY <2>1 DEF Trend
    <3>2. place(N) = n
      BY <2>8
    <3> HIDE DEF place
    <3> QED BY <2>1, <2>5, <3>1, <3>2
  <2>10. CurrentRisk(rows) = Percent(rows[n])
    BY <2>9 DEF CurrentRisk, Last
  <2>11. \A m \in {k \in DOMAIN rows : rows[k].at = rows[1].at} : m <= n
    BY <2>1, <2>2, <2>3, <2>5
  <2> QED BY <2>5, <2>10, <2>11
<1> QED BY <1>1, Invariance, PTL
=============================================================================
