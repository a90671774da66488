------------------------------ MODULE CoinsViews ------------------------------
(***************************************************************************)
(* The cache stack of the UTXO set (src/coins.cpp, src/coins.h): a           *)
(* CCoinsViewCache (CoinsTip) over the coins database, and over it the       *)
(* CCoinsViewCache a block is connected or disconnected in.  Everything runs *)
(* under cs_main, so that one call is one step.                              *)
(***************************************************************************)
EXTENDS CoinsCache, Integers, FiniteSetsExt

CONSTANT DynamicMemoryUsage  \* of the script of each coin

ASSUME UsageAssumption == DynamicMemoryUsage \in [Coins -> Nat]

VARIABLES
    db,     \* the coins in CCoinsViewDB
    tip,    \* cacheCoins of CoinsTip()
    view,   \* cacheCoins of the block's view
    open,   \* whether a block's view exists
    usage   \* cachedCoinsUsage of both caches

vars == <<db, tip, view, open, usage>>

TipMap == Show(tip, db)
ViewMap == Show(view, TipMap)

Init ==
    /\ db \in Maps
    /\ tip = EmptyCache
    /\ view = EmptyCache
    /\ open = FALSE
    /\ usage = [tip |-> 0, view |-> 0]

-----------------------------------------------------------------------------
(* What each function adds to cachedCoinsUsage, entry by entry.  The script   *)
(* of an emptied coin takes no memory.                                        *)

CoinUsage(coin) == IF coin = Spent THEN 0 ELSE DynamicMemoryUsage[coin]

EntryUsage(e) == IF e.in THEN CoinUsage(e.coin) ELSE 0

FetchUsage(e, base) == IF e.in \/ base = Spent THEN 0 ELSE CoinUsage(base)

AddUsage(e, coin) == CoinUsage(coin) - (IF e.in THEN CoinUsage(e.coin) ELSE 0)

SpendUsage(e) == IF e.in THEN -CoinUsage(e.coin) ELSE 0

\* Mutant: the coin that BatchWrite overwrites is not taken off.
MergeUsageMutant(child, parent) ==
    IF ~child.dirty THEN 0
    ELSE IF ~parent.in
    THEN IF child.fresh /\ child.coin = Spent THEN 0 ELSE CoinUsage(child.coin)
    ELSE IF parent.fresh /\ child.coin = Spent THEN -CoinUsage(parent.coin)
    ELSE CoinUsage(child.coin)

MergeUsage(child, parent) ==
    IF ~child.dirty THEN 0
    ELSE IF ~parent.in
    THEN IF child.fresh /\ child.coin = Spent THEN 0 ELSE CoinUsage(child.coin)
    ELSE IF parent.fresh /\ child.coin = Spent THEN -CoinUsage(parent.coin)
    ELSE CoinUsage(child.coin) - CoinUsage(parent.coin)

UnflagUsage(e) == IF (e.dirty \/ e.fresh) /\ e.coin = Spent THEN -CoinUsage(e.coin) ELSE 0

MergeAllUsage(child, parent) ==
    MapThenSumSet(LAMBDA o : MergeUsage(child[o], parent[o]), Outpoints)

UnflagAllUsage(cache) == MapThenSumSet(LAMBDA o : UnflagUsage(cache[o]), Outpoints)

Charge(onTip, onView) ==
    usage' = [tip |-> usage.tip + onTip, view |-> usage.view + onView]

-----------------------------------------------------------------------------
(* Operations.  Reads and writes of coins go to the topmost cache; a read    *)
(* that misses there also leaves the coin in the caches below.               *)

Top == IF open THEN view ELSE tip

FetchTip(o) == [tip EXCEPT ![o] = Fetch(@, db[o])]

Fetched(o) ==
    IF open /\ ~view[o].in
    THEN /\ tip' = FetchTip(o)
         /\ view' = [view EXCEPT ![o] = Fetch(@, TipMap[o])]
    ELSE IF open THEN UNCHANGED <<tip, view>>
    ELSE tip' = FetchTip(o) /\ UNCHANGED view

(* A hit in the view does not reach the tip. *)
TipFetchUsage(o) == IF open /\ view[o].in THEN 0 ELSE FetchUsage(tip[o], db[o])
ViewFetchUsage(o) == IF open THEN FetchUsage(view[o], TipMap[o]) ELSE 0

ChargeTop(amount) == IF open THEN Charge(0, amount) ELSE Charge(amount, 0)

SetTop(o, e) ==
    /\ view' = IF open THEN [view EXCEPT ![o] = e] ELSE view
    /\ tip' = IF ~open THEN [tip EXCEPT ![o] = e]
              ELSE tip

(* GetCoin, HaveCoin and AccessCoin *)
GetCoin(o) ==
    /\ Fetched(o)
    /\ Charge(TipFetchUsage(o), ViewFetchUsage(o))
    /\ UNCHANGED <<db, open>>

(* Callers pass possible_overwrite = FALSE only when no unspent coin is there: *)
(* ConnectBlock has checked (BIP30), or the coin was just looked up.           *)
AddCoin(o, coin, possible_overwrite) ==
    /\ possible_overwrite \/ ViewMap[o] = Spent
    /\ SetTop(o, Add(Top[o], coin, possible_overwrite))
    /\ ChargeTop(AddUsage(Top[o], coin))
    /\ UNCHANGED <<db, open>>

SpendCoin(o) ==
    /\ tip' = IF open THEN IF view[o].in THEN tip ELSE FetchTip(o)
              ELSE [tip EXCEPT ![o] = Spend(Fetch(@, db[o]))]
    /\ view' = IF open THEN [view EXCEPT ![o] = Spend(Fetch(@, TipMap[o]))] ELSE view
    /\ IF open
       THEN Charge(TipFetchUsage(o),
                   ViewFetchUsage(o) + SpendUsage(Fetch(view[o], TipMap[o])))
       ELSE Charge(TipFetchUsage(o) + SpendUsage(Fetch(tip[o], db[o])), 0)
    /\ UNCHANGED <<db, open>>

(* The tip drops a coin that was only read (e.g. for a rejected transaction). *)
Uncache(o) ==
    /\ tip[o].in /\ ~tip[o].dirty /\ ~tip[o].fresh
    /\ tip' = [tip EXCEPT ![o] = Absent]
    /\ UNCHANGED view
    /\ Charge(-CoinUsage(tip[o].coin), 0)
    /\ UNCHANGED <<db, open>>

OpenView ==
    /\ ~open
    /\ open' = TRUE
    /\ UNCHANGED <<db, tip, view, usage>>

DiscardView ==
    /\ open
    /\ open' = FALSE
    /\ view' = EmptyCache
    /\ usage' = [usage EXCEPT !.view = 0]
    /\ UNCHANGED <<db, tip>>

(* Flush empties the written cache, Sync keeps its unspent coins. *)
FlushView ==
    /\ open
    /\ tip' = MergeAll(view, tip)
    /\ view' = EmptyCache
    /\ usage' = [tip |-> usage.tip + MergeAllUsage(view, tip), view |-> 0]
    /\ UNCHANGED <<db, open>>

SyncView ==
    /\ open
    /\ tip' = MergeAll(view, tip)
    /\ view' = [o \in Outpoints |-> Unflag(view[o])]
    /\ Charge(MergeAllUsage(view, tip), UnflagAllUsage(view))
    /\ UNCHANGED <<db, open>>

(* CCoinsViewDB::BatchWrite, as one step: CoinsDB.tla takes it apart. *)
Written == [o \in Outpoints |-> IF tip[o].dirty THEN tip[o].coin ELSE db[o]]

FlushTip ==
    /\ db' = Written
    /\ tip' = EmptyCache
    /\ usage' = [usage EXCEPT !.tip = 0]
    /\ UNCHANGED <<view, open>>

SyncTip ==
    /\ db' = Written
    /\ tip' = [o \in Outpoints |-> Unflag(tip[o])]
    /\ Charge(UnflagAllUsage(tip), 0)
    /\ UNCHANGED <<view, open>>

Next ==
    \/ \E o \in Outpoints : GetCoin(o) \/ SpendCoin(o) \/ Uncache(o)
    \/ \E o \in Outpoints, coin \in Coins, possible_overwrite \in BOOLEAN :
         AddCoin(o, coin, possible_overwrite)
    \/ OpenView \/ DiscardView
    \/ FlushView \/ SyncView \/ FlushTip \/ SyncTip

Spec == Init /\ [][Next]_vars

-----------------------------------------------------------------------------
(* Properties *)

(* Every layer maps outpoints to coins or cache entries of coins.h. *)
TypeOK ==
    /\ db \in Maps
    /\ tip \in Caches
    /\ view \in Caches
    /\ open \in BOOLEAN

(* A clean entry shows what its base shows; a FRESH one has no unspent coin  *)
(* below it; and only the combinations SanityCheck allows occur.             *)
Coherent(cache, base) ==
    \A o \in Outpoints :
        /\ ~cache[o].in => cache[o] = Absent
        /\ cache[o].in /\ ~cache[o].dirty => cache[o].coin = base[o] /\ base[o] # Spent
        /\ cache[o].fresh => cache[o].dirty /\ cache[o].coin # Spent /\ base[o] = Spent

(* The flags of both caches tell the truth about the layer below, also after  *)
(* the layer below was itself flushed, synced, uncached or read through.      *)
CachesCoherent ==
    /\ Coherent(tip, db)
    /\ Coherent(view, TipMap)
    /\ ~open => view = EmptyCache

(* None of the logic_errors of coins.cpp is thrown: "FRESH flag misapplied"   *)
(* by a flush of the view, "Attempted to overwrite an unspent coin" by an     *)
(* AddCoin whose caller kept its promise.                                     *)
NoLogicError ==
    /\ \A o \in Outpoints : ~FreshMisapplied(view[o], tip[o])
    /\ \A o \in Outpoints : ViewMap[o] = Spent => ~OverwritesUnspent(Top[o], FALSE)

RecomputedUsage(cache) == MapThenSumSet(LAMBDA o : EntryUsage(cache[o]), Outpoints)

(* SanityCheck: "recomputed_usage == cachedCoinsUsage": the adjustments that  *)
(* FetchCoin, AddCoin, SpendCoin, Uncache, BatchWrite and the cursor of Sync  *)
(* make one by one add up, for coins of different sizes.                      *)
UsageExact == usage = [tip |-> RecomputedUsage(tip), view |-> RecomputedUsage(view)]

(* Through all the caching, the stack is three plain maps. *)
Utxo == INSTANCE UtxoMaps WITH tip <- TipMap, view <- ViewMap
ImplementsUtxoMaps == Utxo!Spec
=============================================================================
