--------------------------- MODULE MCAccountLockout ---------------------------
(* Small instances of AccountLockout for TLC. *)
EXTENDS AccountLockout, TLC

CONSTANTS w1, w2, right, other

OneWorker == {w1}
TwoWorkers == {w1, w2}
TwoPasswords == {right, other}

WorkerSymmetry == Permutations(Worker) \cup Permutations(Password)
=============================================================================
