------------------------------- MODULE MCConsole -------------------------------
(* Small instance of Console for TLC. *)
EXTENDS Console

CONSTANTS a1, a2, s1, s2, i1, i2

\* The properties are about one row each; a details page needs another to change to.
OneRow == [p \in Page |-> IF p \in Plain THEN {} ELSE IF p = "details" THEN {i1, i2} ELSE {i1}]

TwoRows == {i1, i2}

\* Two writes where a dialog may be reopened beside the first; one where rows have two marks.
WritesPerPage == [p \in Page |-> IF p = "alerts" THEN 1 ELSE 2]
=============================================================================
