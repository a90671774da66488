-------------------------------- MODULE CoinsDB --------------------------------
(***************************************************************************)
(* The coins database over crashes: how blocks reach the cache of the chain   *)
(* tip, how FlushStateToDisk and CCoinsViewDB::BatchWrite carry the cache to  *)
(* disk in several batches, and how ReplayBlocks repairs a database whose     *)
(* last flush was cut off.                                                   *)
(*                                                                         *)
(* One action is one stretch of code between two points at which a crash      *)
(* leaves a different disk behind.  Which block to connect next is not        *)
(* decided here: the tip moves to any child with data, or back to its parent. *)
(***************************************************************************)
EXTENDS CoinsCache, Integers, FiniteSets, SequencesExt

CONSTANTS
    Blocks, Genesis, Null,
    Parent,         \* pprev of every block, Null for Genesis
    Txs,            \* vtx of every block: records of spent and created outpoints
    PruneDepths,    \* heights for which pruning may be asked (none: {})
    KeepBlocks,     \* MIN_BLOCKS_TO_KEEP
    Faults,         \* what may fail besides: writes of the "index" or of the "coins";
                    \* a power failure may take "undo" data
    MaxCrashes      \* bound: crashes and power failures

ASSUME TreeAssumption ==
    /\ Genesis \in Blocks /\ Null \notin Blocks
    /\ Parent \in [Blocks -> Blocks \cup {Null}]
    /\ \A b \in Blocks : Parent[b] = Null <=> b = Genesis
    /\ Coins = Blocks           \* a coin remembers the block that made it
    /\ Txs[Genesis] = <<>>      \* ConnectBlock skips the transactions of Genesis

VARIABLES
    disk,       \* the coins database: [coins, best, heads]
    safe,       \* the part of its log a power failure leaves behind
    frozen,     \* no further write reaches "safe" before a power failure
    stored,     \* the block index database: [index, data]
    mem,        \* m_block_index and m_dirty_blockindex: [index, data, dirty]
    cache,      \* cacheCoins of CoinsTip(), or of the cache of ReplayBlocks
    tip,        \* its hashBlock
    call,       \* what the node is doing
    crashes,
    failed,     \* history: the databases of which a write has failed
    lost        \* the blocks whose undo data a power failure took

vars == <<disk, safe, frozen, stored, mem, cache, tip, call, crashes, failed, lost>>

Chain[b \in Blocks] == IF b = Genesis THEN <<b>> ELSE Append(Chain[Parent[b]], b)
Height(b) == Len(Chain[b]) - 1
Branch(b) == {Chain[b][i] : i \in DOMAIN Chain[b]}

-----------------------------------------------------------------------------
(* What the UTXO set after a block is, without any cache *)

PlainTx(utxo, tx, b) ==
    [o \in Outpoints |-> IF o \in tx.in THEN Spent ELSE IF o \in tx.out THEN b ELSE utxo[o]]

PlainBlock(utxo, txs, b) == FoldLeft(LAMBDA u, tx : PlainTx(u, tx, b), utxo, txs)

NoCoins == [o \in Outpoints |-> Spent]

Utxo[b \in Blocks] ==
    IF b = Genesis THEN NoCoins ELSE PlainBlock(Utxo[Parent[b]], Txs[b], b)

UtxoOf(b) == IF b = Null THEN NoCoins ELSE Utxo[b]

(* CBlockUndo: Undo[b][i] has the coins that transaction i of block b spent *)
Undo == [b \in Blocks \ {Genesis} |->
            [i \in DOMAIN Txs[b] |-> PlainBlock(Utxo[Parent[b]], SubSeq(Txs[b], 1, i - 1), b)]]

-----------------------------------------------------------------------------
(* Blocks applied to a cache over a base map *)

Unspent(e) == e.in /\ e.coin # Spent

(* UpdateCoins of every transaction, as ConnectBlock calls it: only the       *)
(* outputs of a coinbase may overwrite.                                       *)
ConnectTx(c, base, tx, b) ==
    [o \in Outpoints |->
        IF o \in tx.in THEN Spend(Fetch(c[o], base[o]))
        ELSE IF o \in tx.out THEN Add(c[o], b, tx.coinbase)
        ELSE c[o]]

ConnectBlock(c, base, b) == FoldLeft(LAMBDA d, tx : ConnectTx(d, base, tx, b), c, Txs[b])

(* AddCoins with check_for_overwrite *)
RollforwardTx(c, base, tx, b) ==
    [o \in Outpoints |->
        LET e == Fetch(c[o], base[o])
        IN  IF o \in tx.in THEN Spend(e)
            ELSE IF o \in tx.out THEN Add(e, b, Unspent(e))
            ELSE c[o]]

RollforwardBlock(c, base, b) ==
    FoldLeft(LAMBDA d, tx : RollforwardTx(d, base, tx, b), c, Txs[b])

\* Mutant: a restored coin is given to the block that spent it.
DisconnectTxMutant(c, base, i, b) ==
    [o \in Outpoints |->
        LET e == Fetch(c[o], base[o])
        IN  IF o \in Txs[b][i].out THEN Spend(e)
            ELSE IF o \in Txs[b][i].in THEN Add(e, b, Unspent(e))
            ELSE c[o]]

(* The outputs are spent, then ApplyTxInUndo restores the inputs. *)
DisconnectTx(c, base, i, b) ==
    [o \in Outpoints |->
        LET e == Fetch(c[o], base[o])
        IN  IF o \in Txs[b][i].out THEN Spend(e)
            ELSE IF o \in Txs[b][i].in THEN Add(e, Undo[b][i][o], Unspent(e))
            ELSE c[o]]

(* DISCONNECT_OK: the outputs were there, from this height, and the inputs     *)
(* were not.                                                                 *)
CleanTx(c, base, i, b) ==
    /\ \A o \in Txs[b][i].out :
         Show(c, base)[o] # Spent /\ Height(Show(c, base)[o]) = Height(b)
    /\ \A o \in Txs[b][i].in : Show(c, base)[o] = Spent

(* The transactions last to first, and fClean *)
DisconnectBlock(c, base, b) ==
    FoldRight(LAMBDA i, r : [cache |-> DisconnectTx(r.cache, base, i, b),
                             clean |-> r.clean /\ CleanTx(r.cache, base, i, b)],
              [i \in DOMAIN Txs[b] |-> i], [cache |-> c, clean |-> TRUE])

\* Mutant: the old branch is not rolled back.
ReplayedMutant(d) ==
    LET forward == SelectSeq(Chain[d.heads[1]], LAMBDA b : b # Genesis)
    IN  FoldLeft(LAMBDA c, b : RollforwardBlock(c, d.coins, b), EmptyCache, forward)

(* ReplayBlocks up to its Flush, on a database with heads <<new, old>> *)
Replayed(d) ==
    LET new == Chain[d.heads[1]]
        old == IF d.heads[2] = Null THEN <<>> ELSE Chain[d.heads[2]]
        back == SelectSeq(old, LAMBDA b : ~Contains(new, b))
        forward == SelectSeq(new, LAMBDA b : b # Genesis /\ ~Contains(old, b))
        rolledBack == FoldRight(LAMBDA b, c : DisconnectBlock(c, d.coins, b).cache, back, EmptyCache)
    IN  FoldLeft(LAMBDA c, b : RollforwardBlock(c, d.coins, b), rolledBack, forward)

(* The blocks it rolls back, with their undo data *)
ReplayUndoes(d) ==
    IF d.heads[2] = Null THEN {} ELSE Branch(d.heads[2]) \ (Branch(d.heads[1]) \cup {Genesis})

(* The blocks ReplayBlocks reads from the block files *)
ReplayNeeds(d) ==
    LET old == IF d.heads[2] = Null THEN {} ELSE Branch(d.heads[2])
    IN  ((Branch(d.heads[1]) \ old) \cup (old \ Branch(d.heads[1]))) \ {Genesis}

-----------------------------------------------------------------------------
(* phase: "run" between operations; "write" inside BatchWrite; "fatal" after  *)
(* FatalError; "stopping" between the two flushes of Shutdown; "down" not     *)
(* running; "stuck" the node refuses to start.                                *)
(* next: the phase after BatchWrite ("start": of ReplayBlocks);               *)
(* erase: Flush rather than Sync; todo: flagged entries still to visit;       *)
(* batch: the coins put into the CDBBatch so far.                             *)
NoWrites == [o \in {} |-> Spent]
Idle(phase) ==
    [phase |-> phase, erase |-> FALSE, next |-> phase, todo |-> {}, batch |-> NoWrites]

Flagged(c) == {o \in Outpoints : c[o].dirty \/ c[o].fresh}

StartBatchWrite(c, erase, next) ==
    [phase |-> "write", erase |-> erase, next |-> next, todo |-> Flagged(c), batch |-> NoWrites]

Init ==
    /\ disk = [coins |-> NoCoins, best |-> Null, heads |-> <<>>]
    /\ safe = disk
    /\ frozen = FALSE
    /\ stored = [index |-> {}, data |-> {}]
    /\ mem = [index |-> {Genesis}, data |-> {Genesis}, dirty |-> {Genesis}]
    /\ cache = EmptyCache
    /\ tip = Null
    /\ call = Idle("run")
    /\ crashes = 0
    /\ failed = {}
    /\ lost = {}

(* AcceptBlock: the block and its index entry, in memory *)
AcceptBlock(b) ==
    /\ call.phase = "run"
    /\ b \notin mem.data
    /\ Parent[b] \in mem.index
    /\ mem' = [index |-> mem.index \cup {b}, data |-> mem.data \cup {b},
               dirty |-> mem.dirty \cup {b}]
    /\ lost' = lost \ {b}
    /\ UNCHANGED <<disk, safe, frozen, stored, cache, tip, call, crashes, failed>>

TipMap == Show(cache, disk.coins)

(* A view that misses reads through the cache of the tip. *)
ReadThrough(read) ==
    [o \in Outpoints |-> IF o \in read THEN Fetch(cache[o], disk.coins[o]) ELSE cache[o]]

Inputs(b) == UNION {Txs[b][i].in : i \in DOMAIN Txs[b]}
Outputs(b) == UNION {Txs[b][i].out : i \in DOMAIN Txs[b]}

(* ConnectBlock accepts the block: its inputs are there, its outputs are not. *)
Accepted(utxo, txs, b) ==
    \A i \in DOMAIN txs :
        LET before == PlainBlock(utxo, SubSeq(txs, 1, i - 1), b)
        IN  /\ \A o \in txs[i].in : before[o] # Spent
            /\ \A o \in txs[i].out : before[o] = Spent

ConnectTip(b) ==
    /\ call.phase = "run"
    /\ b \in mem.data
    /\ Parent[b] = tip
    /\ Accepted(TipMap, Txs[b], b)
    /\ cache' = MergeAll(ConnectBlock(EmptyCache, TipMap, b), ReadThrough(Inputs(b)))
    /\ tip' = b
    /\ UNCHANGED <<disk, safe, frozen, stored, mem, call, crashes, failed, lost>>

Disconnected == DisconnectBlock(EmptyCache, TipMap, tip)

DisconnectTip ==
    /\ call.phase = "run"
    /\ tip \in mem.data \ ({Genesis} \cup lost)
    /\ Disconnected.clean
    /\ cache' = MergeAll(Disconnected.cache, ReadThrough(Inputs(tip) \cup Outputs(tip)))
    /\ tip' = Parent[tip]
    /\ UNCHANGED <<disk, safe, frozen, stored, mem, call, crashes, failed, lost>>

(* The block or its undo data cannot be read, or does not fit the coins: the   *)
(* view is dropped, and ActivateBestChainStep makes it a fatal error.         *)
DisconnectTipFails ==
    /\ call.phase = "run"
    /\ tip \notin {Null, Genesis}
    /\ \/ tip \notin mem.data \ lost /\ UNCHANGED cache
       \/ /\ tip \in mem.data \ lost
          /\ ~Disconnected.clean
          /\ cache' = ReadThrough(Inputs(tip) \cup Outputs(tip))
    /\ call' = Idle("fatal")
    /\ UNCHANGED <<disk, safe, frozen, stored, mem, tip, crashes, failed, lost>>

-----------------------------------------------------------------------------
(* FlushStateToDisk up to the coins: prune, and write the dirty part of the   *)
(* block index with one synchronous batch.                                   *)

Pruned(height) ==
    {b \in mem.data : Height(b) <= Min({height, Max({0, Height(tip) - KeepBlocks})})}

WriteIndex(data, dirty) ==
    stored' = [index |-> stored.index \cup dirty,
               data |-> (stored.data \ dirty) \cup (data \cap dirty)]

\* Mutant: the coins are flushed before the block index.
FlushMutant(erase, next, data) ==
    /\ UNCHANGED stored
    /\ mem' = [mem EXCEPT !.data = data]
    /\ call' = IF tip = Null THEN Idle(next) ELSE StartBatchWrite(cache, erase, next)

Flush(erase, next, data) ==
    /\ WriteIndex(data, mem.dirty \cup (mem.data \ data))
    /\ mem' = [mem EXCEPT !.data = data, !.dirty = {}]
    /\ call' = IF tip = Null THEN Idle(next) ELSE StartBatchWrite(cache, erase, next)

(* Flush empties the cache when it is large or the mode is ALWAYS, Sync keeps *)
(* it.                                                                       *)
FlushStateToDisk(erase) ==
    /\ call.phase = "run"
    /\ Flush(erase, "run", mem.data)
    /\ UNCHANGED <<disk, safe, frozen, cache, tip, crashes, failed, lost>>

(* Pruning by hand, or because the block files have grown: any flush does it. *)
PruneAndFlush(height, erase) ==
    /\ call.phase = "run"
    /\ tip # Null
    /\ Pruned(height) # {}
    /\ Flush(erase, "run", mem.data \ Pruned(height))
    /\ UNCHANGED <<disk, safe, frozen, cache, tip, crashes, failed, lost>>

(* Shutdown calls ForceFlushStateToDisk twice, also after a fatal error. *)
ForceFlushStateToDisk ==
    /\ \/ call.phase \in {"run", "fatal"} /\ Flush(TRUE, "stopping", mem.data)
       \/ call.phase = "stopping" /\ Flush(TRUE, "down", mem.data)
    /\ UNCHANGED <<disk, safe, frozen, cache, tip, crashes, failed, lost>>

-----------------------------------------------------------------------------
(* CCoinsViewDB::BatchWrite *)

\* Mutant: the cursor stays on its entry when the cache is to be erased.
VisitEntryMutant(o) ==
    /\ call.phase = "write"
    /\ o \in call.todo
    /\ call' = [call EXCEPT !.todo = IF call.erase THEN @ ELSE @ \ {o},
                            !.batch = IF cache[o].dirty THEN (o :> cache[o].coin) @@ @ ELSE @]
    /\ cache' = IF call.erase THEN cache ELSE [cache EXCEPT ![o] = Unflag(@)]
    /\ UNCHANGED <<disk, safe, frozen, stored, mem, tip, crashes, failed, lost>>

(* One iteration over the linked list of flagged entries.  Sync has unflagged *)
(* the entry before its batch is written.                                    *)
VisitEntry(o) ==
    /\ call.phase = "write"
    /\ o \in call.todo
    /\ call' = [call EXCEPT !.todo = @ \ {o},
                            !.batch = IF cache[o].dirty THEN (o :> cache[o].coin) @@ @ ELSE @]
    /\ cache' = IF call.erase THEN cache ELSE [cache EXCEPT ![o] = Unflag(@)]
    /\ UNCHANGED <<disk, safe, frozen, stored, mem, tip, crashes, failed, lost>>

(* The tip the database is leaving, also in a second attempt *)
OldTip == IF disk.best # Null \/ disk.heads = <<>> THEN disk.best ELSE disk.heads[2]

BatchedCoins == [o \in Outpoints |-> IF o \in DOMAIN call.batch THEN call.batch[o] ELSE disk.coins[o]]

(* The coins database is written without fsync: what a power failure leaves   *)
(* is the database after some prefix of the batches.                         *)
WriteBatch(d) ==
    /\ disk' = d
    /\ frozen' \in {frozen, TRUE}
    /\ safe' = IF frozen' THEN safe ELSE d

\* Mutant: the database stays marked as consistent with its old tip.
WritePartialMutant ==
    /\ call.phase = "write"
    /\ DOMAIN call.batch # {}
    /\ WriteBatch([disk EXCEPT !.coins = BatchedCoins])
    /\ call' = [call EXCEPT !.batch = NoWrites]
    /\ UNCHANGED <<stored, mem, cache, tip, crashes, failed, lost>>

(* A batch grown over batch_write_bytes is written; the first one also marks  *)
(* the database as being in transition.                                      *)
WritePartial ==
    /\ call.phase = "write"
    /\ DOMAIN call.batch # {}
    /\ WriteBatch([coins |-> BatchedCoins, best |-> Null, heads |-> <<tip, OldTip>>])
    /\ call' = [call EXCEPT !.batch = NoWrites]
    /\ UNCHANGED <<stored, mem, cache, tip, crashes, failed, lost>>

(* What the process forgets when it ends *)
Forget ==
    /\ mem' = [index |-> {}, data |-> {}, dirty |-> {}]
    /\ cache' = EmptyCache
    /\ tip' = Null

(* The last batch marks it as consistent again; the caller clears its cache.  *)
WriteFinal ==
    /\ call.phase = "write"
    /\ call.todo = {}
    /\ WriteBatch([coins |-> BatchedCoins, best |-> tip, heads |-> <<>>])
    /\ call' = Idle(IF call.next = "start" THEN "run" ELSE call.next)
    /\ IF call.next = "down" THEN Forget
       ELSE /\ cache' = IF call.erase THEN EmptyCache ELSE cache
            /\ UNCHANGED <<mem, tip>>
    /\ UNCHANGED <<stored, crashes, failed, lost>>

-----------------------------------------------------------------------------
(* Failures *)

(* CDBWrapper::WriteBatch throws: FlushStateToDisk turns it into a fatal      *)
(* error, Shutdown ignores that, and ReplayBlocks lets it end the start-up.   *)
(* Bound: a behaviour has faults of one kind.                                 *)
CoinsWriteError ==
    /\ "coins" \in Faults /\ failed \subseteq {"coins"} /\ lost = {}
    /\ failed' = {"coins"}
    /\ call.phase = "write"
    /\ DOMAIN call.batch # {} \/ call.todo = {}
    /\ call' = Idle(CASE call.next = "run" -> "fatal"
                      [] call.next = "start" -> "down"
                      [] OTHER -> call.next)
    /\ IF call'.phase = "down" THEN Forget ELSE UNCHANGED <<mem, cache, tip>>
    /\ UNCHANGED <<disk, safe, frozen, stored, crashes, lost>>

(* WriteBlockIndexDB has already emptied the set of dirty entries. *)
IndexWriteError ==
    /\ "index" \in Faults /\ failed \subseteq {"index"} /\ lost = {}
    /\ failed' = {"index"}
    /\ \E next \in {"fatal", "stopping", "down"} :
         /\ \/ call.phase = "run" /\ next \in {"fatal", "stopping"}
            \/ call.phase = "fatal" /\ next = "stopping"
            \/ call.phase = "stopping" /\ next = "down"
         /\ call' = Idle(next)
         /\ IF next = "down" THEN Forget
            ELSE mem' = [mem EXCEPT !.dirty = {}] /\ UNCHANGED <<cache, tip>>
    /\ UNCHANGED <<disk, safe, frozen, stored, crashes, lost>>

(* The blocks whose undo data the stored index refers to, because the coins    *)
(* of a power failure have seen them connected *)
WithUndo(d) ==
    LET heads == {d.best} \cup {d.heads[i] : i \in DOMAIN d.heads}
    IN  UNION {Branch(b) : b \in heads \ {Null}} \ {Genesis}

(* The process dies, or the machine with it and the undo data of "gone". *)
Crash(power, gone) ==
    /\ crashes < MaxCrashes
    /\ call.phase # "stuck"
    /\ power \/ call.phase # "down"
    /\ IF power THEN disk' = safe /\ frozen' = FALSE ELSE UNCHANGED <<disk, frozen>>
    /\ gone # {} => /\ "undo" \in Faults /\ failed = {}
                    /\ power /\ gone \subseteq WithUndo(safe) \cap stored.data
    /\ lost' = lost \cup gone
    /\ Forget
    /\ call' = Idle("down")
    /\ crashes' = crashes + 1
    /\ UNCHANGED <<safe, stored, failed>>

(* LoadBlockIndex and, on an empty index, LoadGenesisBlock *)
LoadIndex ==
    mem' = IF Genesis \in stored.index
           THEN [index |-> stored.index, data |-> stored.data, dirty |-> {}]
           ELSE [index |-> {Genesis}, data |-> {Genesis}, dirty |-> {Genesis}]

(* CompleteChainstateInitialization: LoadBlockIndex, ReplayBlocks, LoadChainTip *)
Start ==
    /\ call.phase = "down"
    /\ LoadIndex
    /\ IF disk.heads # <<>>
       THEN IF /\ {disk.heads[1], disk.heads[2]} \subseteq mem'.index \cup {Null}
               /\ ReplayNeeds(disk) \subseteq mem'.data
               /\ ReplayUndoes(disk) \cap lost = {}
            THEN /\ cache' = Replayed(disk)
                 /\ tip' = disk.heads[1]
                 /\ call' = StartBatchWrite(cache', TRUE, "start")
            ELSE call' = Idle("stuck") /\ UNCHANGED <<cache, tip>>
       ELSE /\ tip' = disk.best
            /\ call' = Idle(IF disk.best \in mem'.index \cup {Null} THEN "run" ELSE "stuck")
            /\ UNCHANGED cache
    /\ UNCHANGED <<disk, safe, frozen, stored, crashes, failed, lost>>

Next ==
    \/ \E b \in Blocks : AcceptBlock(b) \/ ConnectTip(b)
    \/ DisconnectTip \/ DisconnectTipFails
    \/ \E erase \in BOOLEAN : FlushStateToDisk(erase)
    \/ \E height \in PruneDepths, erase \in BOOLEAN : PruneAndFlush(height, erase)
    \/ ForceFlushStateToDisk
    \/ \E o \in Outpoints : VisitEntry(o)
    \/ WritePartial \/ WriteFinal
    \/ CoinsWriteError \/ IndexWriteError
    \/ \E power \in BOOLEAN : Crash(power, {})
    \/ \E b \in Blocks : Crash(TRUE, {b})
    \/ Start

(* A call under way runs on, and a stopped node is started again. *)
Fairness == WF_vars(Start) /\ WF_vars(WriteFinal) /\ WF_vars(\E o \in Outpoints : VisitEntry(o))

Spec == Init /\ [][Next]_vars /\ Fairness

-----------------------------------------------------------------------------
(* Properties *)

(* "mark the database as consistent with hashBlock": whenever the coins       *)
(* database names a best block, now or after a power failure, its coins are   *)
(* exactly the UTXO set after that block, also on a pruned node, with lost    *)
(* undo data and after failed writes of the block index.  (A failed write of  *)
(* the coins can break it: Sync has unflagged the entries by then.)           *)
MarkedIsExact ==
    "coins" \notin failed =>
        \A d \in {disk, safe} : d.heads = <<>> => d.coins = UtxoOf(d.best)

(* Wherever a flush is cut off, ReplayBlocks computes exactly the UTXO set    *)
(* after the new head, from block and undo data the block index on disk has;  *)
(* and a BatchWrite that finds the database unmarked was called for its new   *)
(* head (the assertion old_heads[0] == hashBlock).                            *)
UnmarkedIsRecoverable ==
    /\ \A d \in {disk, safe} : d.heads # <<>> =>
        /\ d.best = Null
        /\ ReplayNeeds(d) \subseteq stored.data
        /\ Show(Replayed(d), d.coins) = Utxo[d.heads[1]]
    /\ call.phase = "write" /\ disk.heads # <<>> => disk.heads[1] = tip

(* The coins database never refers to a block that the block index on disk    *)
(* does not have, so that a restarted node finds its tip, even when writes of *)
(* the coins fail in the middle of a flush or of both flushes of a shutdown.  *)
(* (A failed write of the index can break it: the entries are no longer dirty *)
(* when the coins are flushed.)                                              *)
HeadsAreKnown ==
    "index" \notin failed => \A d \in {disk, safe} :
        {d.best} \cup {d.heads[i] : i \in DOMAIN d.heads} \subseteq stored.index \cup {Null}

(* Between operations the coins the node sees are the UTXO set of its tip,    *)
(* whatever was connected, disconnected, flushed, synced or replayed before.  *)
TipIsExact == call.phase = "run" => TipMap = UtxoOf(tip)

(* A node that is started, however often it crashed during its repair, gets    *)
(* to run again.                                                             *)
Recovers == call.phase = "down" ~> call.phase = "run"
=============================================================================
