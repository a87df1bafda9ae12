--------------------------- MODULE MCPasswordReset ----------------------------
(* Small instances of PasswordReset, and with it of AccountLockout, for TLC. *)
EXTENDS PasswordReset, TLC

CONSTANTS w1, w2, right, other, c1, c2

TwoWorkers == {w1, w2}
TwoPasswords == {right, other}
TwoCodes == {c1, c2}

Symmetry ==
  Permutations(Worker) \cup Permutations(Password) \cup Permutations(Code)
=============================================================================
