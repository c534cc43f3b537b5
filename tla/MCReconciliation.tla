--------------------------- MODULE MCReconciliation ---------------------------
(* Three attempts for one run of a batch of one, and a short day; two of   *)
(* them are abandoned at once.                                             *)
EXTENDS Reconciliation, TLC

CONSTANTS a1, a2, a3
MCAttempts == {a1, a2, a3}
MCOneAttempt == {a1}
Symmetry == Permutations({a2, a3})
=============================================================================
