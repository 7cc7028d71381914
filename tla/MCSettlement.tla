---------------------------- MODULE MCSettlement ----------------------------
(* A Stars and a Crypto Pay invoice competing for one copy, two tasks that  *)
(* anything may start, and the reconciliation loop.                         *)
EXTENDS Settlement, TLC

\* The tasks other than the loop are interchangeable, and so are the links
\* (safety runs only).
TaskSymmetry == Permutations(Workers \ {Reconciler}) \cup Permutations(Links)
=============================================================================
