------------------------------- MODULE MCCoinsDB -------------------------------
(***************************************************************************)
(* Two branches over r1, which makes x.  Transaction x -> y is in a2 and in   *)
(* b2, and b2 also spends y again.                                            *)
(***************************************************************************)
EXTENDS CoinsDB

CONSTANTS g, r1, a2, b2, x, y

Tx(in, out) == [in |-> in, out |-> out, coinbase |-> FALSE]
Coinbase(out) == [in |-> {}, out |-> out, coinbase |-> TRUE]

Tree == g :> Null @@ r1 :> g @@ a2 :> r1 @@ b2 :> r1
Contents ==
    g :> <<>>
    @@ r1 :> <<Coinbase({x})>>
    @@ a2 :> <<Coinbase({}), Tx({x}, {y})>>
    @@ b2 :> <<Coinbase({}), Tx({x}, {y}), Tx({y}, {})>>
AllBlocks == {g, r1, a2, b2}
AllOutpoints == {x, y}
=============================================================================
