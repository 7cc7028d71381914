---------------------------- MODULE MCRedisLocks ----------------------------
(* A key that is tried once ("deliver") and one that is waited for ("pay")   *)
(* with a window shorter than its TTL, as DeliveryService and               *)
(* PurchaseService use them.                                                 *)
EXTENDS RedisLocks

MCKeys == {"pay", "deliver"}
MCTtl  == [k \in MCKeys |-> 3]
MCWait == [k \in MCKeys |-> IF k = "pay" THEN 1 ELSE 0]
=============================================================================
