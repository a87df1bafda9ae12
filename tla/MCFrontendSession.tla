--------------------------- MODULE MCFrontendSession ---------------------------
(* Small instances of FrontendSession for TLC.  No symmetry: liveness is checked. *)
EXTENDS FrontendSession

CONSTANTS t1, t2, c1, c2, c3

TwoTabs == {t1, t2}
ThreeCalls == {c1, c2, c3}

\* Three calls of one tab: an owner and two in the queue, or a call of an older session.
OneTab == [c \in ThreeCalls |-> t1]

\* A call in each of two tabs, each of which may be a refresh with the same token.
TwoRefreshing == [c \in ThreeCalls |-> IF c = c1 THEN t1 ELSE IF c = c2 THEN t2 ELSE NoTab]

BothShares == {OneTab, TwoRefreshing}
=============================================================================
