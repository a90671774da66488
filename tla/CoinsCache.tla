------------------------------ MODULE CoinsCache ------------------------------
(***************************************************************************)
(* A CCoinsViewCache of src/coins.cpp as a value.  A cache entry has a coin   *)
(* (Spent: an emptied one) and the flags DIRTY and FRESH; "in" tells whether *)
(* cacheCoins has the outpoint at all.  Unspendable outputs, which AddCoin   *)
(* drops, are no outpoints here.                                             *)
(***************************************************************************)

CONSTANTS Outpoints, Coins, Spent

ASSUME SpentAssumption == Spent \notin Coins

Maps == [Outpoints -> Coins \cup {Spent}]
Entries == [in : BOOLEAN, coin : Coins \cup {Spent}, dirty : BOOLEAN, fresh : BOOLEAN]
Caches == [Outpoints -> Entries]
Absent == [in |-> FALSE, coin |-> Spent, dirty |-> FALSE, fresh |-> FALSE]
EmptyCache == [o \in Outpoints |-> Absent]

(* What a cache shows of a backing map. *)
Show(cache, base) ==
    [o \in Outpoints |-> IF cache[o].in THEN cache[o].coin ELSE base[o]]

-----------------------------------------------------------------------------
(* One entry at a time *)

(* FetchCoin: GetCoin of the base returns no spent coin, so that a miss      *)
(* leaves no entry behind.                                                   *)
Fetch(e, base) ==
    IF e.in \/ base = Spent THEN e
    ELSE [in |-> TRUE, coin |-> base, dirty |-> FALSE, fresh |-> FALSE]

\* Mutant: a spent entry not yet written to the parent is marked FRESH.
AddMutant(e, coin, possible_overwrite) ==
    [in |-> TRUE, coin |-> coin, dirty |-> TRUE, fresh |-> e.fresh \/ ~possible_overwrite]

Add(e, coin, possible_overwrite) ==
    [in |-> TRUE, coin |-> coin, dirty |-> TRUE,
     fresh |-> e.fresh \/ (~possible_overwrite /\ ~e.dirty)]

Spend(e) ==
    IF ~e.in \/ e.fresh THEN Absent
    ELSE [in |-> TRUE, coin |-> Spent, dirty |-> TRUE, fresh |-> FALSE]

(* The cases in which AddCoin and BatchWrite throw a logic_error *)
OverwritesUnspent(e, possible_overwrite) ==
    ~possible_overwrite /\ e.in /\ e.coin # Spent
FreshMisapplied(child, parent) ==
    child.dirty /\ child.fresh /\ parent.in /\ parent.coin # Spent

\* Mutant: the FRESH flag of the child is given to an entry the parent has.
MergeMutant(child, parent) ==
    IF ~child.dirty THEN parent
    ELSE IF parent.fresh /\ child.coin = Spent THEN Absent
    ELSE [in |-> TRUE, coin |-> child.coin, dirty |-> TRUE, fresh |-> parent.fresh \/ child.fresh]

(* BatchWrite of a child's entry into this cache *)
Merge(child, parent) ==
    IF ~child.dirty THEN parent
    ELSE IF ~parent.in
    THEN IF child.fresh /\ child.coin = Spent THEN Absent
         ELSE [in |-> TRUE, coin |-> child.coin, dirty |-> TRUE, fresh |-> child.fresh]
    ELSE IF parent.fresh /\ child.coin = Spent THEN Absent
    ELSE [in |-> TRUE, coin |-> child.coin, dirty |-> TRUE, fresh |-> parent.fresh]

\* Mutant: the flags of a spent entry are cleared but it stays in the cache.
UnflagMutant(e) == [e EXCEPT !.dirty = FALSE, !.fresh = FALSE]

(* NextAndMaybeErase when the cache is kept (Sync) *)
Unflag(e) ==
    IF ~e.dirty /\ ~e.fresh THEN e
    ELSE IF e.coin = Spent THEN Absent
    ELSE [in |-> TRUE, coin |-> e.coin, dirty |-> FALSE, fresh |-> FALSE]

(* BatchWrite of every entry of a child cache *)
MergeAll(child, parent) == [o \in Outpoints |-> Merge(child[o], parent[o])]
=============================================================================
