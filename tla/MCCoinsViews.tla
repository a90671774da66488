----------------------------- MODULE MCCoinsViews -----------------------------
(* Two coins of different sizes *)
EXTENDS CoinsViews, TLC

CONSTANTS c1, c2

MCCoins == {c1, c2}
MCDynamicMemoryUsage == c1 :> 1 @@ c2 :> 3
=============================================================================
