----------------------------- MODULE MCCheckout -----------------------------
(* One buyer with two presses, each of which may choose either rail.        *)
EXTENDS Checkout, TLC

\* The presses are interchangeable, and so are the ids of one rail (safety runs
\* only).
PressSymmetry == Permutations(Presses) \cup Permutations(StarsInvoices)
                 \cup Permutations(CryptoInvoices)
=============================================================================
