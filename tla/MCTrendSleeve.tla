---------------------------- MODULE MCTrendSleeve ----------------------------
(* The sleeve's two assets, in their order; the first, whose funding is     *)
(* collected, is held or not.                                               *)
EXTENDS TrendSleeve
MCAssets == <<"btc", "eth">>
MCQuantities == [a \in {"btc", "eth"} |-> IF a = "btc" THEN {0, 1} ELSE {1}]
=============================================================================
