--------------------------- MODULE MCAdminReports ---------------------------
(* Three purchases of two products over both rails.                         *)
EXTENDS AdminReports

Rail == [i \in Ids |-> IF i = 2 THEN "stars" ELSE "crypto"]
Product == [i \in Ids |-> IF i = 1 THEN "p" ELSE "q"]
=============================================================================
