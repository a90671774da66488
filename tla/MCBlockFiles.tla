----------------------------- MODULE MCBlockFiles -----------------------------
(* A chain of two blocks over the genesis block, and a rival of the first.    *)
EXTENDS BlockFiles, TLC

CONSTANTS g, a1, a2, b1

AllBlocks == {g, a1, a2, b1}
Tree == g :> None @@ a1 :> g @@ a2 :> a1 @@ b1 :> g
Heights == g :> 0 @@ a1 :> 1 @@ a2 :> 2 @@ b1 :> 1
=============================================================================
