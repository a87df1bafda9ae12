--------------------------- MODULE MCTokenRevocation ---------------------------
(* Small instances of TokenRevocation for TLC. *)
EXTENDS TokenRevocation, TLC

CONSTANTS w1, w2, p1, p2

TwoWorkers == {w1, w2}
TwoPairs == {p1, p2}

WorkersAndPairs == Permutations(Worker) \cup Permutations(Pair)
=============================================================================
