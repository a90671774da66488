---------------------------- MODULE MCChainstate ----------------------------
(***************************************************************************)
(* Two branches over the genesis block: a2 is refused when it arrives, and *)
(* b2, with more work, when it is connected.                               *)
(***************************************************************************)
EXTENDS Chainstate, TLC

CONSTANTS g, a1, a2, b1, b2, c3, d2

Tree == a1 :> g @@ a2 :> a1 @@ b1 :> g @@ b2 :> b1 @@ c3 :> b2
TreeWork == g :> 1 @@ a1 :> 2 @@ a2 :> 3 @@ b1 :> 2 @@ b2 :> 4 @@ c3 :> 5
TreeAddress == g :> 1 @@ a1 :> 2 @@ a2 :> 3 @@ c3 :> 4 @@ b1 :> 5 @@ b2 :> 6

(* Two blocks over a1. *)
Siblings == a1 :> g @@ a2 :> a1 @@ d2 :> a1
SiblingsWork == g :> 1 @@ a1 :> 2 @@ a2 :> 3 @@ d2 :> 3
SiblingsAddress == g :> 1 @@ a1 :> 2 @@ a2 :> 3 @@ d2 :> 4
(* One chain over the genesis block. *)
Line == b1 :> g @@ b2 :> b1 @@ c3 :> b2
LineWork == g :> 1 @@ b1 :> 2 @@ b2 :> 3 @@ c3 :> 4
LineAddress == g :> 1 @@ b1 :> 2 @@ b2 :> 3 @@ c3 :> 4
=============================================================================
