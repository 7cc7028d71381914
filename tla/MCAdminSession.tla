--------------------------- MODULE MCAdminSession ---------------------------
(***************************************************************************)
(* An instance of AdminSession for TLC.                                    *)
(***************************************************************************)
EXTENDS AdminSession, TLC

\* Requests are alike, and so are the slots of token pairs.
Alike == Permutations(Requests) \cup Permutations(Pairs)
=============================================================================
