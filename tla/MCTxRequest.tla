----------------------------- MODULE MCTxRequest -----------------------------
(* Instances of TxRequest for TLC.  The salted hash ranks the peers one way   *)
(* for h1 and the other way for h2.                                           *)
EXTENDS TxRequest

CONSTANTS h1, h2

OneHash == {h1}
TwoHashes == {h1, h2}
TwoPeers == 1..2
ThreePeers == 1..3
ShortTimes == 0..1
LongTimes == 0..2
Ranking == [h \in TxHashes |-> [p \in Peers |-> IF h = h1 THEN p ELSE 3 - p]]
=============================================================================
