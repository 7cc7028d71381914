-------------------------- MODULE MCPurchaseLedger --------------------------
(* Three competing invoices over two copies: the smallest table in which    *)
(* two rows race for one copy while a third copy stays free, and in which a *)
(* charge can be claimed by a row of either copy.                           *)
EXTENDS PurchaseLedger
=============================================================================
