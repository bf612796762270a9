--------------------------- MODULE MCReconciliation ---------------------------
(* Instances of Reconciliation for TLC.                                    *)
EXTENDS Reconciliation, TLC

CONSTANTS r1, r2, w1, w2

\* The workers, and the requests, differ in name only.
Symmetry == Permutations(Workers) \cup Permutations(Requests)
===============================================================================
