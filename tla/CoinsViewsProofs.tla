--------------------------- MODULE CoinsViewsProofs ---------------------------
(* Proofs about the coins cache stack, for any outpoints and coins. *)
EXTENDS CoinsViews, TLAPS

(* The operations on one entry yield entries. *)
LEMMA EntryTypes ==
    /\ Absent \in Entries
    /\ \A e \in Entries, c \in Coins \cup {Spent} : Fetch(e, c) \in Entries
    /\ \A e \in Entries, c \in Coins, b \in BOOLEAN : Add(e, c, b) \in Entries
    /\ \A e \in Entries : Spend(e) \in Entries /\ Unflag(e) \in Entries
    /\ \A e, f \in Entries : Merge(e, f) \in Entries
BY DEF Entries, Absent, Fetch, Add, Spend, Unflag, Merge

LEMMA MapTypes ==
    ASSUME NEW c \in Caches, NEW m \in Maps
    PROVE  Show(c, m) \in Maps
BY DEF Show, Caches, Entries, Maps

(* Each adjustment of cachedCoinsUsage is the growth of the entry it goes     *)
(* with, for all sizes of coins: FetchCoin, AddCoin, SpendCoin, BatchWrite    *)
(* and the cursor of Sync.                                                    *)
LEMMA AdjustmentsExact ==
    /\ \A e \in Entries, c \in Coins \cup {Spent} :
         EntryUsage(Fetch(e, c)) = EntryUsage(e) + FetchUsage(e, c)
    /\ \A e \in Entries, c \in Coins, b \in BOOLEAN :
         EntryUsage(Add(e, c, b)) = EntryUsage(e) + AddUsage(e, c)
    /\ \A e \in Entries : (e.in \/ e = Absent) =>
         EntryUsage(Spend(e)) = EntryUsage(e) + SpendUsage(e)
    /\ \A e \in Entries : (e.in \/ e = Absent) =>
         EntryUsage(Unflag(e)) = EntryUsage(e) + UnflagUsage(e)
    /\ \A e, f \in Entries : (f.in \/ f = Absent) =>
         EntryUsage(Merge(e, f)) = EntryUsage(f) + MergeUsage(e, f)
<1>0. \A c \in Coins \cup {Spent} : CoinUsage(c) \in Nat
  BY UsageAssumption, SpentAssumption DEF CoinUsage
<1>00. CoinUsage(Spent) = 0
  BY DEF CoinUsage
<1>1. \A e \in Entries, c \in Coins \cup {Spent} :
         EntryUsage(Fetch(e, c)) = EntryUsage(e) + FetchUsage(e, c)
  BY <1>0 DEF Entries, EntryUsage, Fetch, FetchUsage
<1>2. \A e \in Entries, c \in Coins, b \in BOOLEAN :
         EntryUsage(Add(e, c, b)) = EntryUsage(e) + AddUsage(e, c)
  BY <1>0 DEF Entries, EntryUsage, Add, AddUsage
<1>3. \A e \in Entries : (e.in \/ e = Absent) =>
         EntryUsage(Spend(e)) = EntryUsage(e) + SpendUsage(e)
  BY <1>0, <1>00 DEF Entries, EntryUsage, Spend, SpendUsage, Absent
<1>4. \A e \in Entries : (e.in \/ e = Absent) =>
         EntryUsage(Unflag(e)) = EntryUsage(e) + UnflagUsage(e)
  BY <1>0, <1>00 DEF Entries, EntryUsage, Unflag, UnflagUsage, Absent
<1>5. \A e, f \in Entries : (f.in \/ f = Absent) =>
         EntryUsage(Merge(e, f)) = EntryUsage(f) + MergeUsage(e, f)
  BY <1>0, <1>00 DEF Entries, EntryUsage, Merge, MergeUsage, Absent
<1> QED BY <1>1, <1>2, <1>3, <1>4, <1>5

(* The caches and the database are well typed in every reachable state. *)
THEOREM TypeCorrect == Spec => []TypeOK
<1>1. Init => TypeOK
  BY EntryTypes DEF Init, TypeOK, EmptyCache, Caches
<1>2. TypeOK /\ [Next]_vars => TypeOK'
  <2> SUFFICES ASSUME TypeOK, [Next]_vars PROVE TypeOK'
    OBVIOUS
  <2>0. TipMap \in Maps /\ EmptyCache \in Caches
    BY MapTypes, EntryTypes DEF TipMap, TypeOK, EmptyCache, Caches
  <2>1. \A o \in Outpoints : FetchTip(o) \in Caches
    BY EntryTypes DEF FetchTip, TypeOK, Caches, Maps
  <2>2. \A o \in Outpoints : [view EXCEPT ![o] = Fetch(@, TipMap[o])] \in Caches
    BY <2>0, EntryTypes DEF TypeOK, Caches, Maps
  <2>3. ASSUME NEW o \in Outpoints, GetCoin(o) PROVE TypeOK'
    BY <2>1, <2>2, <2>3 DEF GetCoin, Fetched, TypeOK
  <2>4. ASSUME NEW o \in Outpoints, SpendCoin(o) PROVE TypeOK'
    <3>1. /\ [tip EXCEPT ![o] = Spend(Fetch(@, db[o]))] \in Caches
          /\ [view EXCEPT ![o] = Spend(Fetch(@, TipMap[o]))] \in Caches
      BY <2>0, EntryTypes DEF TypeOK, Caches, Maps
    <3> QED BY <2>1, <2>4, <3>1 DEF SpendCoin, TypeOK
  <2>5. ASSUME NEW o \in Outpoints, Uncache(o) PROVE TypeOK'
    BY <2>5, EntryTypes DEF Uncache, TypeOK, Caches
  <2>6. ASSUME NEW o \in Outpoints, NEW c \in Coins, NEW b \in BOOLEAN, AddCoin(o, c, b)
        PROVE  TypeOK'
    <3>1. Top[o] \in Entries
      BY DEF Top, TypeOK, Caches
    <3>2. Add(Top[o], c, b) \in Entries
      BY <3>1, EntryTypes
    <3> QED BY <2>6, <3>2 DEF AddCoin, SetTop, TypeOK, Caches
  <2>7. CASE OpenView
    BY <2>7 DEF OpenView, TypeOK
  <2>8. CASE DiscardView
    BY <2>0, <2>8 DEF DiscardView, TypeOK
  <2>9. MergeAll(view, tip) \in Caches
    BY EntryTypes DEF MergeAll, TypeOK, Caches
  <2>10. /\ [o \in Outpoints |-> Unflag(view[o])] \in Caches
         /\ [o \in Outpoints |-> Unflag(tip[o])] \in Caches
    BY EntryTypes DEF TypeOK, Caches
  <2>11. CASE FlushView \/ SyncView
    BY <2>0, <2>9, <2>10, <2>11 DEF FlushView, SyncView, TypeOK
  <2>12. Written \in Maps
    BY DEF Written, TypeOK, Caches, Entries, Maps
  <2>13. CASE FlushTip \/ SyncTip
    BY <2>0, <2>10, <2>12, <2>13 DEF FlushTip, SyncTip, TypeOK
  <2>14. CASE UNCHANGED vars
    BY <2>14 DEF vars, TypeOK
  <2> QED BY <2>3, <2>4, <2>5, <2>6, <2>7, <2>8, <2>11, <2>13, <2>14 DEF Next
<1> QED BY <1>1, <1>2, PTL DEF Spec

-----------------------------------------------------------------------------
(* Coherence, one entry at a time *)

Value(e, base) == IF e.in THEN e.coin ELSE base

EntryOK(e, base) ==
    /\ ~e.in => e = Absent
    /\ e.in /\ ~e.dirty => e.coin = base /\ base # Spent
    /\ e.fresh => e.dirty /\ e.coin # Spent /\ base = Spent

LEMMA CoherentByEntry ==
    ASSUME NEW cache, NEW base
    PROVE  Coherent(cache, base) <=> \A o \in Outpoints : EntryOK(cache[o], base[o])
BY DEF Coherent, EntryOK

LEMMA AbsentOK ==
    ASSUME NEW b
    PROVE  EntryOK(Absent, b) /\ Value(Absent, b) = b
BY DEF EntryOK, Value, Absent

(* Reading changes neither the value shown nor the truth of the flags. *)
LEMMA FetchOK ==
    ASSUME NEW e \in Entries, NEW b \in Coins \cup {Spent}, EntryOK(e, b)
    PROVE  /\ EntryOK(Fetch(e, b), b)
           /\ Value(Fetch(e, b), b) = Value(e, b)
BY DEF EntryOK, Fetch, Value, Entries

(* A coin may be FRESH only when it replaces nothing: the caller's promise   *)
(* and the DIRTY flag of a spent entry together ensure it.                   *)
LEMMA AddOK ==
    ASSUME NEW e \in Entries, NEW b \in Coins \cup {Spent}, EntryOK(e, b),
           NEW c \in Coins, NEW ow \in BOOLEAN, ow \/ Value(e, b) = Spent
    PROVE  /\ EntryOK(Add(e, c, ow), b)
           /\ Value(Add(e, c, ow), b) = c
BY SpentAssumption DEF EntryOK, Add, Value, Entries, Absent

LEMMA SpendOK ==
    ASSUME NEW e \in Entries, NEW b \in Coins \cup {Spent}, EntryOK(e, b)
    PROVE  /\ EntryOK(Spend(Fetch(e, b)), b)
           /\ Value(Spend(Fetch(e, b)), b) = Spent
BY DEF EntryOK, Fetch, Spend, Value, Entries, Absent

(* BatchWrite: the parent comes to show what the child showed. *)
LEMMA MergeOK ==
    ASSUME NEW child \in Entries, NEW parent \in Entries, NEW b \in Coins \cup {Spent},
           EntryOK(parent, b), EntryOK(child, Value(parent, b))
    PROVE  /\ EntryOK(Merge(child, parent), b)
           /\ Value(Merge(child, parent), b) = Value(child, Value(parent, b))
           /\ ~FreshMisapplied(child, parent)
<1> DEFINE m == Merge(child, parent)
<1>0. ~FreshMisapplied(child, parent)
  BY DEF EntryOK, Value, FreshMisapplied
<1>1. CASE ~child.dirty
  <2>1. m = parent
    BY <1>1 DEF Merge
  <2>2. Value(child, Value(parent, b)) = Value(parent, b)
    BY <1>1 DEF EntryOK, Value
  <2> QED BY <1>0, <2>1, <2>2
<1>2. CASE child.dirty /\ ~parent.in
  <2>1. child.in
    BY <1>2 DEF EntryOK, Absent
  <2>2. m = [in |-> TRUE, coin |-> child.coin, dirty |-> TRUE, fresh |-> child.fresh]
    BY <1>2 DEF Merge, EntryOK
  <2> QED BY <1>0, <1>2, <2>1, <2>2 DEF EntryOK, Value
<1>3. CASE child.dirty /\ parent.in /\ parent.fresh /\ child.coin = Spent
  <2>1. child.in
    BY <1>3 DEF EntryOK, Absent
  <2>2. m = Absent
    BY <1>3 DEF Merge
  <2> QED BY <1>0, <1>3, <2>1, <2>2 DEF EntryOK, Value, Absent
<1>4. CASE child.dirty /\ parent.in /\ ~(parent.fresh /\ child.coin = Spent)
  <2>1. child.in
    BY <1>4 DEF EntryOK, Absent
  <2>2. m = [in |-> TRUE, coin |-> child.coin, dirty |-> TRUE, fresh |-> parent.fresh]
    BY <1>4 DEF Merge
  <2> QED BY <1>0, <1>4, <2>1, <2>2 DEF EntryOK, Value
<1> QED BY <1>1, <1>2, <1>3, <1>4 DEF Entries

(* Sync: once the layer below shows the same, the flags may go. *)
LEMMA UnflagOK ==
    ASSUME NEW e \in Entries, NEW b \in Coins \cup {Spent}, EntryOK(e, b)
    PROVE  /\ EntryOK(Unflag(e), Value(e, b))
           /\ Value(Unflag(e), Value(e, b)) = Value(e, b)
<1>1. CASE ~e.dirty /\ ~e.fresh
  BY <1>1 DEF EntryOK, Unflag, Value
<1>2. CASE (e.dirty \/ e.fresh) /\ e.coin = Spent
  BY <1>2 DEF EntryOK, Unflag, Value, Absent
<1>3. CASE (e.dirty \/ e.fresh) /\ e.coin # Spent
  <2>1. e.in
    BY <1>3 DEF EntryOK, Absent
  <2>2. Unflag(e) = [in |-> TRUE, coin |-> e.coin, dirty |-> FALSE, fresh |-> FALSE]
    BY <1>3 DEF Unflag
  <2> QED BY <1>3, <2>1, <2>2 DEF EntryOK, Value
<1> QED BY <1>1, <1>2, <1>3

(* Facts about a state in which the caches are coherent *)
LEMMA StateFacts ==
    ASSUME TypeOK, CachesCoherent
    PROVE  /\ TipMap \in Maps /\ ViewMap \in Maps
           /\ \A o \in Outpoints :
                /\ db[o] \in Coins \cup {Spent} /\ TipMap[o] \in Coins \cup {Spent}
                /\ tip[o] \in Entries /\ view[o] \in Entries
                /\ TipMap[o] = Value(tip[o], db[o])
                /\ ViewMap[o] = Value(view[o], TipMap[o])
                /\ EntryOK(tip[o], db[o]) /\ EntryOK(view[o], TipMap[o])
           /\ ~open => ViewMap = TipMap /\ \A o \in Outpoints : view[o] = Absent
<1>1. TipMap \in Maps /\ ViewMap \in Maps
  BY MapTypes DEF TipMap, ViewMap, TypeOK
<1>2. \A o \in Outpoints :
        /\ db[o] \in Coins \cup {Spent} /\ TipMap[o] \in Coins \cup {Spent}
        /\ tip[o] \in Entries /\ view[o] \in Entries
  BY <1>1 DEF TypeOK, Maps, Caches
<1>3. \A o \in Outpoints :
        /\ TipMap[o] = Value(tip[o], db[o])
        /\ ViewMap[o] = Value(view[o], TipMap[o])
  BY DEF TipMap, ViewMap, Show, Value
<1>4. \A o \in Outpoints : EntryOK(tip[o], db[o]) /\ EntryOK(view[o], TipMap[o])
  BY CoherentByEntry DEF CachesCoherent
<1>5. ASSUME ~open PROVE ViewMap = TipMap /\ \A o \in Outpoints : view[o] = Absent
  <2>1. \A o \in Outpoints : view[o] = Absent
    BY <1>5 DEF CachesCoherent, EmptyCache
  <2>2. \A o \in Outpoints : ViewMap[o] = TipMap[o]
    BY <1>3, <2>1, AbsentOK
  <2> QED BY <1>1, <2>1, <2>2 DEF Maps
<1> QED BY <1>1, <1>2, <1>3, <1>4, <1>5

LEMMA NextFacts ==
    ASSUME TypeOK',
           \A o \in Outpoints : /\ EntryOK(tip'[o], db'[o])
                                /\ EntryOK(view'[o], Value(tip'[o], db'[o])),
           ~open' => view' = EmptyCache
    PROVE  /\ CachesCoherent'
           /\ TipMap' \in Maps /\ ViewMap' \in Maps
           /\ \A o \in Outpoints :
                /\ TipMap'[o] = Value(tip'[o], db'[o])
                /\ ViewMap'[o] = Value(view'[o], Value(tip'[o], db'[o]))
<1>1. TipMap' \in Maps /\ ViewMap' \in Maps
  BY MapTypes DEF TipMap, ViewMap, TypeOK
<1>2. \A o \in Outpoints : /\ TipMap'[o] = Value(tip'[o], db'[o])
                           /\ ViewMap'[o] = Value(view'[o], Value(tip'[o], db'[o]))
  BY DEF TipMap, ViewMap, Show, Value
<1>3. Coherent(tip', db') /\ Coherent(view', TipMap')
  BY <1>2, CoherentByEntry
<1> QED BY <1>1, <1>2, <1>3 DEF CachesCoherent

-----------------------------------------------------------------------------
(* Each operation keeps the caches coherent and shows on the maps as the     *)
(* operation of the same name of UtxoMaps, or not at all.                    *)

LEMMA GetCoinStep ==
    ASSUME TypeOK, TypeOK', CachesCoherent, NEW o \in Outpoints, GetCoin(o)
    PROVE  CachesCoherent' /\ TipMap' = TipMap /\ ViewMap' = ViewMap
<1>1. \A x \in Outpoints :
        /\ tip'[x] \in {tip[x], Fetch(tip[x], db[x])}
        /\ view'[x] \in {view[x], Fetch(view[x], TipMap[x])}
        /\ ~open => view'[x] = view[x]
  BY DEF GetCoin, Fetched, FetchTip, TypeOK, Caches
<1>2. \A x \in Outpoints : EntryOK(tip'[x], db[x]) /\ Value(tip'[x], db[x]) = TipMap[x]
  BY <1>1, StateFacts, FetchOK
<1>3. \A x \in Outpoints : EntryOK(view'[x], TipMap[x]) /\ Value(view'[x], TipMap[x]) = ViewMap[x]
  BY <1>1, StateFacts, FetchOK
<1>4. ~open => view' = EmptyCache
  BY DEF GetCoin, Fetched, CachesCoherent
<1>5. db' = db /\ open' = open
  BY DEF GetCoin
<1> QED BY <1>2, <1>3, <1>4, <1>5, NextFacts, StateFacts DEF Maps

LEMMA AddCoinStep ==
    ASSUME TypeOK, TypeOK', CachesCoherent, NEW o \in Outpoints, NEW c \in Coins,
           NEW ow \in BOOLEAN, AddCoin(o, c, ow)
    PROVE  /\ CachesCoherent'
           /\ ViewMap' = [ViewMap EXCEPT ![o] = c]
           /\ TipMap' = IF open THEN TipMap ELSE ViewMap'
<1>0. db' = db /\ open' = open /\ (ow \/ ViewMap[o] = Spent)
  BY DEF AddCoin
<1>1. CASE open
  <2>1. tip' = tip /\ view' = [view EXCEPT ![o] = Add(view[o], c, ow)]
    BY <1>1 DEF AddCoin, SetTop, Top
  <2>2. \A x \in Outpoints : /\ EntryOK(view'[x], TipMap[x])
                             /\ Value(view'[x], TipMap[x]) = IF x = o THEN c ELSE ViewMap[x]
    BY <1>0, <2>1, StateFacts, AddOK DEF TypeOK, Caches
  <2> QED BY <1>0, <1>1, <2>1, <2>2, NextFacts, StateFacts DEF Maps
<1>2. CASE ~open
  <2>1. view' = view /\ tip' = [tip EXCEPT ![o] = Add(tip[o], c, ow)]
    BY <1>2 DEF AddCoin, SetTop, Top
  <2>2. \A x \in Outpoints : /\ EntryOK(tip'[x], db[x])
                             /\ Value(tip'[x], db[x]) = IF x = o THEN c ELSE TipMap[x]
    BY <1>0, <1>2, <2>1, StateFacts, AddOK DEF TypeOK, Caches
  <2>3. view' = EmptyCache /\ \A x \in Outpoints : view'[x] = Absent
    BY <1>2, <2>1 DEF CachesCoherent, EmptyCache
  <2> QED BY <1>0, <1>2, <2>2, <2>3, NextFacts, StateFacts, AbsentOK DEF Maps
<1> QED BY <1>1, <1>2 DEF TypeOK

LEMMA SpendCoinStep ==
    ASSUME TypeOK, TypeOK', CachesCoherent, NEW o \in Outpoints, SpendCoin(o)
    PROVE  /\ CachesCoherent'
           /\ ViewMap' = [ViewMap EXCEPT ![o] = Spent]
           /\ TipMap' = IF open THEN TipMap ELSE ViewMap'
<1>0. db' = db /\ open' = open
  BY DEF SpendCoin
<1>1. CASE open
  <2>1. /\ \A x \in Outpoints : tip'[x] \in {tip[x], Fetch(tip[x], db[x])}
        /\ view' = [view EXCEPT ![o] = Spend(Fetch(view[o], TipMap[o]))]
    BY <1>1 DEF SpendCoin, FetchTip, TypeOK, Caches
  <2>2. \A x \in Outpoints : EntryOK(tip'[x], db[x]) /\ Value(tip'[x], db[x]) = TipMap[x]
    BY <2>1, StateFacts, FetchOK
  <2>3. \A x \in Outpoints : /\ EntryOK(view'[x], TipMap[x])
                             /\ Value(view'[x], TipMap[x]) = IF x = o THEN Spent ELSE ViewMap[x]
    BY <2>1, StateFacts, SpendOK DEF TypeOK, Caches
  <2>4. /\ CachesCoherent' /\ TipMap' \in Maps /\ ViewMap' \in Maps
        /\ \A x \in Outpoints : /\ TipMap'[x] = TipMap[x]
                               /\ ViewMap'[x] = IF x = o THEN Spent ELSE ViewMap[x]
    BY <1>0, <1>1, <2>2, <2>3, NextFacts
  <2> QED BY <1>1, <2>4, StateFacts DEF Maps
<1>2. CASE ~open
  <2>1. view' = view /\ tip' = [tip EXCEPT ![o] = Spend(Fetch(tip[o], db[o]))]
    BY <1>2 DEF SpendCoin
  <2>2. \A x \in Outpoints : /\ EntryOK(tip'[x], db[x])
                             /\ Value(tip'[x], db[x]) = IF x = o THEN Spent ELSE TipMap[x]
    BY <2>1, StateFacts, SpendOK DEF TypeOK, Caches
  <2>3. view' = EmptyCache /\ \A x \in Outpoints : view'[x] = Absent
    BY <1>2, <2>1 DEF CachesCoherent, EmptyCache
  <2> QED BY <1>0, <1>2, <2>2, <2>3, NextFacts, StateFacts, AbsentOK DEF Maps
<1> QED BY <1>1, <1>2 DEF TypeOK

LEMMA UncacheStep ==
    ASSUME TypeOK, TypeOK', CachesCoherent, NEW o \in Outpoints, Uncache(o)
    PROVE  CachesCoherent' /\ TipMap' = TipMap /\ ViewMap' = ViewMap
<1>1. /\ db' = db /\ open' = open /\ view' = view
      /\ tip' = [tip EXCEPT ![o] = Absent]
      /\ tip[o].in /\ ~tip[o].dirty
  BY DEF Uncache
<1>2. \A x \in Outpoints : EntryOK(tip'[x], db[x]) /\ Value(tip'[x], db[x]) = TipMap[x]
  <2>1. Value(tip[o], db[o]) = db[o]
    BY <1>1, StateFacts DEF EntryOK, Value
  <2>2. \A x \in Outpoints : tip'[x] = IF x = o THEN Absent ELSE tip[x]
    BY <1>1 DEF TypeOK, Caches
  <2> QED BY <2>1, <2>2, StateFacts, AbsentOK
<1>3. ~open => view' = EmptyCache
  BY <1>1 DEF CachesCoherent
<1> QED BY <1>1, <1>2, <1>3, NextFacts, StateFacts DEF Maps

LEMMA WriteViewStep ==
    ASSUME TypeOK, TypeOK', CachesCoherent, FlushView \/ SyncView
    PROVE  CachesCoherent' /\ TipMap' = ViewMap /\ ViewMap' = ViewMap
<1>1. open /\ db' = db /\ open' = open /\ tip' = MergeAll(view, tip)
  BY DEF FlushView, SyncView
<1>2. \A x \in Outpoints : EntryOK(tip'[x], db[x]) /\ Value(tip'[x], db[x]) = ViewMap[x]
  BY <1>1, StateFacts, MergeOK DEF MergeAll
<1>3. \A x \in Outpoints : view'[x] \in {Absent, Unflag(view[x])}
  BY DEF FlushView, SyncView, EmptyCache
<1>4. \A x \in Outpoints : EntryOK(view'[x], ViewMap[x]) /\ Value(view'[x], ViewMap[x]) = ViewMap[x]
  BY <1>3, StateFacts, UnflagOK, AbsentOK
<1>5. /\ CachesCoherent' /\ TipMap' \in Maps /\ ViewMap' \in Maps
      /\ \A x \in Outpoints : TipMap'[x] = ViewMap[x] /\ ViewMap'[x] = ViewMap[x]
  BY <1>1, <1>2, <1>4, NextFacts
<1> QED BY <1>5, StateFacts DEF Maps

LEMMA WriteTipStep ==
    ASSUME TypeOK, TypeOK', CachesCoherent, FlushTip \/ SyncTip
    PROVE  CachesCoherent' /\ db' = TipMap /\ TipMap' = TipMap /\ ViewMap' = ViewMap
<1>1. open' = open /\ view' = view /\ db' = Written
  BY DEF FlushTip, SyncTip
<1>2. Written = TipMap
  <2>1. \A x \in Outpoints : Written[x] = TipMap[x]
    BY StateFacts DEF Written, EntryOK, Value, Absent
  <2> QED BY <2>1, StateFacts DEF Written, Maps
<1>3. \A x \in Outpoints : tip'[x] \in {Absent, Unflag(tip[x])}
  BY DEF FlushTip, SyncTip, EmptyCache
<1>4. \A x \in Outpoints : EntryOK(tip'[x], TipMap[x]) /\ Value(tip'[x], TipMap[x]) = TipMap[x]
  BY <1>3, StateFacts, UnflagOK, AbsentOK
<1>5. ~open => view' = EmptyCache
  BY <1>1 DEF CachesCoherent
<1> QED BY <1>1, <1>2, <1>4, <1>5, NextFacts, StateFacts DEF Maps

LEMMA OpenCloseStep ==
    ASSUME TypeOK, TypeOK', CachesCoherent, OpenView \/ DiscardView
    PROVE  /\ CachesCoherent' /\ TipMap' = TipMap
           /\ OpenView => ViewMap' = ViewMap
           /\ DiscardView => ViewMap' = TipMap
<1>1. CASE OpenView
  <2>1. db' = db /\ tip' = tip /\ view' = view /\ open' /\ ~DiscardView
    BY <1>1 DEF OpenView, DiscardView
  <2> QED BY <2>1, NextFacts, StateFacts DEF Maps
<1>2. CASE DiscardView
  <2>1. db' = db /\ tip' = tip /\ view' = EmptyCache /\ ~OpenView
    BY <1>2 DEF OpenView, DiscardView
  <2>2. \A x \in Outpoints : view'[x] = Absent
    BY <2>1 DEF EmptyCache
  <2> QED BY <2>1, <2>2, NextFacts, StateFacts, AbsentOK DEF Maps
<1> QED BY <1>1, <1>2

-----------------------------------------------------------------------------
LEMMA InitFacts ==
    ASSUME Init
    PROVE  CachesCoherent /\ TipMap = db /\ ViewMap = db /\ db \in Maps
<1>1. \A o \in Outpoints : tip[o] = Absent /\ view[o] = Absent
  BY DEF Init, EmptyCache
<1>2. db \in Maps /\ TipMap = db
  BY <1>1 DEF Init, TipMap, Show, Maps, Absent
<1>3. ViewMap = db
  BY <1>1, <1>2 DEF ViewMap, Show, Maps, Absent
<1>4. Coherent(tip, db) /\ Coherent(view, TipMap)
  BY <1>1, CoherentByEntry, AbsentOK
<1> QED BY <1>2, <1>3, <1>4 DEF CachesCoherent, Init

LEMMA StutterFacts ==
    ASSUME CachesCoherent, UNCHANGED vars
    PROVE  CachesCoherent' /\ TipMap' = TipMap /\ ViewMap' = ViewMap
BY DEF vars, CachesCoherent, Coherent, TipMap, ViewMap, Show

(* DIRTY and FRESH tell the truth in both caches: a clean entry equals the    *)
(* layer below, a FRESH one has nothing unspent below it.                     *)
THEOREM FlagsAreTrue == Spec => []CachesCoherent
<1>1. Init => CachesCoherent
  BY InitFacts
<1>2. TypeOK /\ TypeOK' /\ CachesCoherent /\ [Next]_vars => CachesCoherent'
  BY GetCoinStep, AddCoinStep, SpendCoinStep, UncacheStep, WriteViewStep, WriteTipStep,
     OpenCloseStep, StutterFacts DEF Next
<1> QED BY <1>1, <1>2, TypeCorrect, PTL DEF Spec

(* Flushing a block's view never meets "FRESH flag misapplied", and AddCoin    *)
(* never meets an unspent coin its caller vouched was absent.                 *)
THEOREM NoLogicErrors == Spec => []NoLogicError
<1>1. TypeOK /\ CachesCoherent => NoLogicError
  <2> SUFFICES ASSUME TypeOK, CachesCoherent PROVE NoLogicError
    OBVIOUS
  <2>1. ASSUME NEW o \in Outpoints PROVE ~FreshMisapplied(view[o], tip[o])
    <3>1. /\ TipMap[o] = Value(tip[o], db[o])
          /\ EntryOK(view[o], TipMap[o])
      BY StateFacts
    <3> QED BY <3>1 DEF FreshMisapplied, EntryOK, Value
  <2>2. \A o \in Outpoints : ViewMap[o] = Spent => ~OverwritesUnspent(Top[o], FALSE)
    BY StateFacts DEF OverwritesUnspent, Top, Value
  <2> QED BY <2>1, <2>2 DEF NoLogicError
<1> QED BY <1>1, TypeCorrect, FlagsAreTrue, PTL

(* The stack of caches implements three plain maps: a read shows nothing, a   *)
(* write to the top changes the top only, a flush or a sync copies one layer  *)
(* to the next, and dropping a view drops exactly its changes.                *)
THEOREM Refinement == Spec => ImplementsUtxoMaps
<1>1. Init => Utxo!Init
  BY InitFacts DEF Init, Utxo!Init, Utxo!Maps, Maps
<1>2. TypeOK /\ TypeOK' /\ CachesCoherent /\ [Next]_vars
        => [Utxo!Next]_<<db, TipMap, ViewMap, open>>
  <2> SUFFICES ASSUME TypeOK, TypeOK', CachesCoherent, [Next]_vars
               PROVE  [Utxo!Next]_<<db, TipMap, ViewMap, open>>
    OBVIOUS
  <2>1. ASSUME NEW o \in Outpoints, GetCoin(o) \/ Uncache(o)
        PROVE  UNCHANGED <<db, TipMap, ViewMap, open>>
    BY <2>1, GetCoinStep, UncacheStep DEF GetCoin, Uncache
  <2>2. ASSUME NEW o \in Outpoints, NEW c \in Coins, NEW ow \in BOOLEAN, AddCoin(o, c, ow)
        PROVE  Utxo!AddCoin(o, c, ow)
    BY <2>2, AddCoinStep DEF AddCoin, Utxo!AddCoin, Utxo!Change
  <2>3. ASSUME NEW o \in Outpoints, SpendCoin(o)
        PROVE  Utxo!SpendCoin(o)
    BY <2>3, SpendCoinStep DEF SpendCoin, Utxo!SpendCoin, Utxo!Change
  <2>4. ASSUME OpenView PROVE Utxo!OpenView
    BY <2>4, OpenCloseStep DEF OpenView, Utxo!OpenView
  <2>5. ASSUME DiscardView PROVE Utxo!DiscardView
    BY <2>5, OpenCloseStep DEF DiscardView, Utxo!DiscardView
  <2>6. ASSUME FlushView \/ SyncView PROVE Utxo!WriteView
    BY <2>6, WriteViewStep DEF FlushView, SyncView, Utxo!WriteView
  <2>7. ASSUME FlushTip \/ SyncTip PROVE Utxo!WriteTip
    BY <2>7, WriteTipStep DEF FlushTip, SyncTip, Utxo!WriteTip
  <2>8. ASSUME UNCHANGED vars PROVE UNCHANGED <<db, TipMap, ViewMap, open>>
    BY <2>8, StutterFacts DEF vars
  <2> QED BY <2>1, <2>2, <2>3, <2>4, <2>5, <2>6, <2>7, <2>8 DEF Next, Utxo!Next
<1> QED BY <1>1, <1>2, TypeCorrect, FlagsAreTrue, PTL DEF Spec, ImplementsUtxoMaps, Utxo!Spec
=============================================================================
