----------------------------- MODULE MCRiskModel -----------------------------
(* A small instance of RiskScan for TLC. *)
EXTENDS RiskScan

OneOfEachKind == {20000, 40000, 60000, 90000}
TwoServers == {"s1", "s2"}
=============================================================================
