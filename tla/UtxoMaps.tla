------------------------------- MODULE UtxoMaps -------------------------------
(***************************************************************************)
(* What a stack of coins views promises: three plain maps from outpoints to *)
(* coins.  "db" is what is on disk, "tip" the UTXO set after the last        *)
(* connected block, "view" the scratch copy a block is applied to ("tip"     *)
(* itself when no such copy is open).  Nothing is cached.                    *)
(***************************************************************************)
CONSTANTS
    Outpoints,
    Coins,
    Spent       \* the value of an outpoint with no unspent coin

VARIABLES db, tip, view, open

Maps == [Outpoints -> Coins \cup {Spent}]

Init ==
    /\ db \in Maps
    /\ tip = db
    /\ view = db
    /\ open = FALSE

(* A change goes to the topmost map only. *)
Change(o, c) ==
    /\ view' = [view EXCEPT ![o] = c]
    /\ tip' = IF open THEN tip ELSE view'
    /\ UNCHANGED <<db, open>>

(* An unspent coin is replaced only when the caller says it may be. *)
AddCoin(o, c, possible_overwrite) ==
    /\ possible_overwrite \/ view[o] = Spent
    /\ Change(o, c)

SpendCoin(o) == Change(o, Spent)

OpenView ==
    /\ ~open
    /\ open' = TRUE
    /\ UNCHANGED <<db, tip, view>>

(* A failed block leaves no trace. *)
DiscardView ==
    /\ open
    /\ open' = FALSE
    /\ view' = tip
    /\ UNCHANGED <<db, tip>>

WriteView ==
    /\ open
    /\ tip' = view
    /\ UNCHANGED <<db, view, open>>

WriteTip ==
    /\ db' = tip
    /\ UNCHANGED <<tip, view, open>>

Next ==
    \/ \E o \in Outpoints, c \in Coins, possible_overwrite \in BOOLEAN :
         AddCoin(o, c, possible_overwrite)
    \/ \E o \in Outpoints : SpendCoin(o)
    \/ OpenView \/ DiscardView \/ WriteView \/ WriteTip

Spec == Init /\ [][Next]_<<db, tip, view, open>>
=============================================================================
