------------------------------ MODULE BlockFiles ------------------------------
(***************************************************************************)
(* The block and undo files of src/node/blockstorage.cpp (blk*.dat, rev*.dat) *)
(* with the block index that points into them: where blocks and undo data    *)
(* are written, what is forced to disk and when, pruning, and what a power    *)
(* failure leaves behind.                                                    *)
(*                                                                         *)
(* A block fills one unit of a block file and its undo data one of the undo   *)
(* file.  The block index database is written synchronously, the coins        *)
(* database is not; bytes of a file are safe once the file is flushed.  No    *)
(* UTXO snapshot is loaded, so that there is one cursor.                      *)
(***************************************************************************)
EXTENDS Integers, FiniteSets, FiniteSetsExt

CONSTANTS
    Blocks, Genesis, None,
    Parent,             \* pprev, None for Genesis
    HeightOf,           \* nHeight
    MaxFile,            \* bound: the largest file number
    MaxBlockfileSize,   \* MAX_BLOCKFILE_SIZE, in blocks
    KeepBlocks,         \* MIN_BLOCKS_TO_KEEP
    MaxFailures         \* bound: the number of failures, each of another kind

ASSUME FilesAssumption ==
    /\ Genesis \in Blocks /\ None \notin Blocks
    /\ Parent \in [Blocks -> Blocks \cup {None}]
    /\ HeightOf \in [Blocks -> Nat] /\ HeightOf[Genesis] = 0
    /\ MaxFile \in Nat /\ MaxBlockfileSize \in Nat \ {0, 1}
    /\ KeepBlocks \in Nat /\ MaxFailures \in Nat

Files == 0..MaxFile
Places == Files \X (0..MaxBlockfileSize - 1)
UndoPlaces == Files \X (0..Cardinality(Blocks))

VARIABLES
    info,       \* m_blockfile_info
    cursor,     \* m_blockfile_cursors[NORMAL]
    index,      \* nStatus, nFile, nDataPos and nUndoPos of the blocks in m_block_index
    dirty,      \* m_dirty_blockindex and m_dirty_fileinfo
    db,         \* the block index database
    coins,      \* the best blocks the coins database has had, and the last of them
    blk, rev,   \* the contents of the files: the block, or the undo data, at a place
    unsynced,   \* what of them is not on stable storage yet
    flushing,   \* FlushStateToDisk has written the index; the files it is about to unlink
    tip,        \* the last connected block
    failures

vars == <<info, cursor, index, dirty, db, coins, blk, rev, unsynced, flushing, tip, failures>>

NoInfo == [blocks |-> 0, size |-> 0, undosize |-> 0, first |-> 0, last |-> 0]
NoEntry == [data |-> FALSE, undo |-> FALSE, file |-> 0, pos |-> 0, undopos |-> 0]
HaveData(b) == index[b].data
Place(entry) == <<entry.file, entry.pos>>
UndoPlace(entry) == <<entry.file, entry.undopos>>

(* CBlockFileInfo::AddBlock, and the room the block takes *)
AddBlock(i, height) ==
    [blocks |-> i.blocks + 1,
     size |-> i.size + 1,
     undosize |-> i.undosize,
     first |-> IF i.blocks = 0 \/ i.first > height THEN height ELSE i.first,
     last |-> IF height > i.last THEN height ELSE i.last]

(* An index that only has the genesis block, as LoadGenesisBlock leaves it *)
FreshInfo == [f \in Files |-> IF f = 0 THEN AddBlock(NoInfo, 0) ELSE NoInfo]
FreshIndex == [b \in Blocks |-> IF b = Genesis THEN [NoEntry EXCEPT !.data = TRUE] ELSE NoEntry]

Init ==
    /\ info = FreshInfo
    /\ cursor = [file |-> 0, undo_height |-> 0]
    /\ index = FreshIndex
    /\ dirty = [blocks |-> {Genesis}, files |-> {0}]
    /\ db = [info |-> [f \in Files |-> NoInfo], last |-> 0,
             index |-> [b \in Blocks |-> NoEntry], pruned |-> FALSE]
    /\ coins = [past |-> {None}, last |-> None]
    /\ blk = [p \in Places |-> IF p = <<0, 0>> THEN Genesis ELSE None]
    /\ rev = [p \in UndoPlaces |-> None]
    /\ unsynced = [blk |-> {<<0, 0>>}, rev |-> {}]
    /\ flushing = [on |-> FALSE, unlink |-> {}]
    /\ tip = None
    /\ failures = {}

(* The failures: of the power, of the process, of a write to a full disk *)
Fails(kind) ==
    /\ kind \notin failures
    /\ Cardinality(failures) < MaxFailures
    /\ failures' = failures \cup {kind}

-----------------------------------------------------------------------------
(* Writing a block *)

\* Mutant: a file may be filled up to the limit.
NextFileMutant == IF info[cursor.file].size >= MaxBlockfileSize THEN cursor.file + 1 ELSE cursor.file

(* FindNextBlockPos moves on when the file would reach the limit. *)
NextFile == IF info[cursor.file].size + 1 >= MaxBlockfileSize THEN cursor.file + 1 ELSE cursor.file

(* FlushBlockFile: the undo file of a finished block file is flushed only     *)
(* when it has kept up.                                                      *)
FlushBlockFile(u, file, finalize, finalize_undo) ==
    [blk |-> {p \in u.blk : p[1] # file},
     rev |-> IF ~finalize \/ finalize_undo THEN {r \in u.rev : r[1] # file} ELSE u.rev]

\* Mutant: a finished block file is left to the operating system.
LeaveFileMutant == unsynced

LeaveFile ==
    IF NextFile = cursor.file THEN unsynced
    ELSE FlushBlockFile(unsynced, cursor.file, TRUE,
                        info[cursor.file].last = cursor.undo_height)

Queue(blocks, files) ==
    dirty' = [blocks |-> dirty.blocks \cup blocks, files |-> dirty.files \cup files]

(* What FindNextBlockPos has done before it asks for the space *)
FindNextBlockPos(b) ==
    /\ NextFile \in Files
    /\ info' = [info EXCEPT ![NextFile] = AddBlock(@, HeightOf[b])]
    /\ cursor' = IF NextFile = cursor.file THEN cursor
                 ELSE [file |-> NextFile, undo_height |-> 0]

(* AcceptBlock: WriteBlock, then the index entry *)
WriteBlock(b) ==
    LET place == <<NextFile, info[NextFile].size>>
    IN  /\ ~flushing.on
        /\ ~HaveData(b)
        /\ FindNextBlockPos(b)
        /\ blk' = [blk EXCEPT ![place] = b]
        /\ unsynced' = [LeaveFile EXCEPT !.blk = @ \cup {place}]
        /\ index' = [index EXCEPT ![b] = [NoEntry EXCEPT !.data = TRUE,
                                            !.file = place[1], !.pos = place[2]]]
        /\ Queue({b}, {NextFile})
        /\ UNCHANGED <<db, coins, rev, flushing, tip, failures>>

(* A fatal error: no space is left, or the file cannot be opened or closed    *)
(* (then the file information has been queued).  The node shuts down, but     *)
(* what runs meanwhile sees the changed file information.                     *)
WriteBlockFails(b, allocated) ==
    /\ Fails("full")
    /\ ~flushing.on
    /\ ~HaveData(b)
    /\ FindNextBlockPos(b)
    /\ unsynced' = LeaveFile
    /\ IF allocated THEN Queue({}, {NextFile}) ELSE UNCHANGED dirty
    /\ UNCHANGED <<index, db, coins, blk, rev, flushing, tip>>

-----------------------------------------------------------------------------
(* Connecting a block writes its undo data, once. *)

\* Mutant: the undo data goes to the file blocks are written to now.
UndoPosMutant(b) == <<cursor.file, info[index[b].file].undosize>>

UndoPos(b) == <<index[b].file, info[index[b].file].undosize>>

FindUndoPos(b) == info' = [info EXCEPT ![index[b].file].undosize = @ + 1]


WriteBlockUndo(b) ==
    LET file == index[b].file
        finished == file < cursor.file /\ HeightOf[b] = info[file].last
    IN  /\ FindUndoPos(b)
        /\ rev' = [rev EXCEPT ![UndoPos(b)] = b]
        /\ unsynced' = [unsynced EXCEPT
              !.rev = IF finished THEN {p \in @ : p[1] # file} ELSE @ \cup {UndoPos(b)}]
        /\ cursor' = IF file = cursor.file /\ HeightOf[b] > cursor.undo_height
                     THEN [cursor EXCEPT !.undo_height = HeightOf[b]] ELSE cursor
        /\ index' = [index EXCEPT ![b].undo = TRUE, ![b].undopos = UndoPos(b)[2]]
        /\ Queue({b}, {file})

Connectable(b) ==
    /\ ~flushing.on
    /\ HaveData(b) /\ blk[Place(index[b])] = b
    /\ Parent[b] = tip

(* The genesis block has no undo data. *)
ConnectTip(b) ==
    /\ Connectable(b)
    /\ tip' = b
    /\ IF b = Genesis \/ index[b].undo
       THEN UNCHANGED <<info, cursor, index, dirty, rev, unsynced>>
       ELSE WriteBlockUndo(b)
    /\ UNCHANGED <<db, coins, blk, flushing, failures>>

(* FindUndoPos has queued the file when it finds the disk full. *)
ConnectTipFails(b) ==
    /\ Fails("full")
    /\ Connectable(b)
    /\ b # Genesis /\ ~index[b].undo
    /\ FindUndoPos(b)
    /\ Queue({}, {index[b].file})
    /\ UNCHANGED <<cursor, index, db, coins, blk, rev, unsynced, flushing, tip>>

(* Without its block or its undo data the tip stays (a fatal error). *)
DisconnectTip ==
    /\ ~flushing.on
    /\ tip \notin {None, Genesis}
    /\ HaveData(tip) /\ blk[Place(index[tip])] = tip
    /\ index[tip].undo /\ rev[UndoPlace(index[tip])] = tip
    /\ tip' = Parent[tip]
    /\ UNCHANGED <<info, cursor, index, dirty, db, coins, blk, rev, unsynced, flushing, failures>>

-----------------------------------------------------------------------------
(* FlushStateToDisk *)

\* Mutant: the lowest block of a file decides.
FilesToPruneMutant(height, upto) ==
    IF tip = None THEN {}
    ELSE {f \in 0..cursor.file - 1 :
            /\ f <= upto
            /\ info[f].size # 0
            /\ info[f].first <= Min({height, Max({0, HeightOf[tip] - KeepBlocks})})}

(* FindFilesToPruneManual takes every file up to the height, FindFilesToPrune *)
(* stops at the file that brings the usage under the target.                  *)
FilesToPrune(height, upto) ==
    IF tip = None THEN {}
    ELSE {f \in 0..cursor.file - 1 :
            /\ f <= upto
            /\ info[f].size # 0
            /\ info[f].last <= Min({height, Max({0, HeightOf[tip] - KeepBlocks})})}

PruneIndex(files) ==
    [b \in Blocks |-> IF index[b].data /\ index[b].file \in files THEN NoEntry ELSE index[b]]

(* PruneOneBlockFile for each of the files *)
Prune(files) ==
    /\ info' = [f \in Files |-> IF f \in files THEN NoInfo ELSE info[f]]
    /\ index' = PruneIndex(files)

PrunedBlocks(files) == {b \in Blocks : index[b].data /\ index[b].file \in files}

(* Prune in memory, flush the current files, write the dirty entries. *)
FlushStateToDisk(files) ==
    LET blocks == dirty.blocks \cup PrunedBlocks(files)
    IN  /\ ~flushing.on
        /\ Prune(files)
        /\ unsynced' = FlushBlockFile(unsynced, cursor.file, FALSE, FALSE)
        /\ db' = [info |-> [f \in Files |-> IF f \in dirty.files \cup files THEN info'[f] ELSE db.info[f]],
                  last |-> cursor.file,
                  index |-> [b \in Blocks |-> IF b \in blocks THEN index'[b] ELSE db.index[b]],
                  pruned |-> db.pruned \/ files # {}]
        /\ dirty' = [blocks |-> {}, files |-> {}]
        /\ flushing' = [on |-> TRUE, unlink |-> files]
        /\ UNCHANGED <<cursor, coins, blk, rev, tip, failures>>

(* CheckDiskSpace fails after the pruning in memory: nothing is written, and  *)
(* the files are not unlinked before the next start.                         *)
FlushStateToDiskFails(files) ==
    /\ Fails("full")
    /\ ~flushing.on
    /\ Prune(files)
    /\ Queue(PrunedBlocks(files), files)
    /\ UNCHANGED <<cursor, db, coins, blk, rev, unsynced, flushing, tip>>

Unlinked(files) ==
    /\ blk' = [p \in Places |-> IF p[1] \in files THEN None ELSE blk[p]]
    /\ rev' = [p \in UndoPlaces |-> IF p[1] \in files THEN None ELSE rev[p]]
    /\ unsynced' = [blk |-> {p \in unsynced.blk : p[1] \notin files},
                    rev |-> {p \in unsynced.rev : p[1] \notin files}]

(* UnlinkPrunedFiles, and then the coins with their best block, if there is   *)
(* one and the disk has room for them *)
FinishFlush(written) ==
    /\ flushing.on
    /\ Unlinked(flushing.unlink)
    /\ IF written
       THEN /\ coins' = [past |-> coins.past \cup {tip}, last |-> tip]
            /\ UNCHANGED failures
       ELSE /\ Fails("full")
            /\ UNCHANGED coins
    /\ flushing' = [on |-> FALSE, unlink |-> {}]
    /\ UNCHANGED <<info, cursor, index, dirty, db, tip>>

-----------------------------------------------------------------------------
(* LoadBlockIndexDB and LoadChainTip read back what the databases have, and   *)
(* ScanAndUnlinkAlreadyPrunedFiles removes what pruning left.  With an index  *)
(* that was never written, LoadGenesisBlock starts again.                     *)

NeverWritten == db.last = 0 /\ db.info[0] = NoInfo

AlreadyPruned == IF db.pruned THEN {f \in 0..db.last - 1 : db.info[f].size = 0} ELSE {}

Restart(left) ==
    /\ info' = IF NeverWritten THEN FreshInfo ELSE db.info
    /\ index' = IF NeverWritten THEN FreshIndex ELSE db.index
    /\ cursor' = [file |-> db.last, undo_height |-> 0]
    /\ dirty' = IF NeverWritten THEN [blocks |-> {Genesis}, files |-> {0}]
                ELSE [blocks |-> {}, files |-> {}]
    /\ blk' = [p \in Places |-> IF NeverWritten /\ p = <<0, 0>> THEN Genesis
                                ELSE IF p[1] \in AlreadyPruned THEN None ELSE left.blk[p]]
    /\ rev' = [p \in UndoPlaces |-> IF p[1] \in AlreadyPruned THEN None ELSE left.rev[p]]
    /\ unsynced' = [blk |-> {p \in left.unsynced.blk : p[1] \notin AlreadyPruned}
                              \cup (IF NeverWritten THEN {<<0, 0>>} ELSE {}),
                    rev |-> {p \in left.unsynced.rev : p[1] \notin AlreadyPruned}]
    /\ flushing' = [on |-> FALSE, unlink |-> {}]
    /\ UNCHANGED db

(* The process ends; the operating system still has what it was given. *)
Crash ==
    /\ Fails("crash")
    /\ Restart([blk |-> blk, rev |-> rev, unsynced |-> unsynced])
    /\ tip' = coins.last
    /\ UNCHANGED coins

(* The machine loses any part of what was not flushed, and the last writes of *)
(* the coins database.                                                       *)
PowerFailure(lostBlk, lostRev, best) ==
    /\ Fails("power")
    /\ Restart([blk |-> [p \in Places |-> IF p \in lostBlk THEN None ELSE blk[p]],
                rev |-> [p \in UndoPlaces |-> IF p \in lostRev THEN None ELSE rev[p]],
                unsynced |-> [blk |-> {}, rev |-> {}]])
    /\ tip' = best
    /\ coins' = [past |-> {best}, last |-> best]

Next ==
    \/ \E b \in Blocks :
         \/ WriteBlock(b)
         \/ \E allocated \in BOOLEAN : WriteBlockFails(b, allocated)
         \/ ConnectTip(b) \/ ConnectTipFails(b)
    \/ DisconnectTip
    \/ FlushStateToDisk({})
    \/ \E height \in {HeightOf[b] : b \in Blocks}, upto \in Files :
         /\ FilesToPrune(height, upto) # {}
         /\ \/ FlushStateToDisk(FilesToPrune(height, upto))
            \/ FlushStateToDiskFails(FilesToPrune(height, upto))
    \/ \E written \in BOOLEAN : FinishFlush(written)
    \/ Crash
    \/ \E lostBlk \in SUBSET unsynced.blk, lostRev \in SUBSET unsynced.rev, best \in coins.past :
         PowerFailure(lostBlk, lostRev, best)

Spec == Init /\ [][Next]_vars

-----------------------------------------------------------------------------
(* Properties *)

(* The types, that FindNextBlockPos never fills a file beyond its limit, and   *)
(* that only blocks with data have undo data.                                 *)
TypeOK ==
    /\ \A f \in Files : info[f].size \in 0..MaxBlockfileSize - 1
    /\ cursor.file \in Files
    /\ \A b \in Blocks : index[b].undo => index[b].data
    /\ blk \in [Places -> Blocks \cup {None}]
    /\ unsynced.blk \subseteq Places
    /\ tip \in Blocks \cup {None}

(* ReadBlock finds the block its index entry names: a position is never       *)
(* reused while an entry points to it, a file is not unlinked before the      *)
(* index has let go of it, and what the index on disk refers to survives a     *)
(* power failure.                                                            *)
BlocksReadable ==
    \A b \in Blocks :
        /\ index[b].data => blk[Place(index[b])] = b
        /\ db.index[b].data => blk[Place(db.index[b])] = b /\ Place(db.index[b]) \notin unsynced.blk

(* Undo data is where the index says, and stays there through pruning, a new  *)
(* download, failed writes and crashes of the process.  (A power failure may  *)
(* lose it: the undo file of a block file that was left is not flushed again  *)
(* until its highest block is connected.)                                    *)
UndoReadable ==
    "power" \notin failures =>
        \A b \in Blocks : index[b].undo => rev[UndoPlace(index[b])] = b

(* What the next WriteBlockIndexDB will leave in the database *)
PendingIndex == [b \in Blocks |-> IF b \in dirty.blocks THEN index[b] ELSE db.index[b]]
PendingInfo == [f \in Files |-> IF f \in dirty.files THEN info[f] ELSE db.info[f]]

(* The file information accounts for every block and undo data of an index:   *)
(* inside the sizes, so that no later write reuses the place, and inside the  *)
(* heights, so that pruning spares it.                                       *)
Covers(infos, entries) ==
    \A b \in Blocks : entries[b].data =>
        LET i == infos[entries[b].file]
        IN  /\ entries[b].pos < i.size
            /\ entries[b].undo => entries[b].undopos < i.undosize
            /\ HeightOf[b] \in i.first..i.last


(* "Block files containing a block-height within MIN_BLOCKS_TO_KEEP of         *)
(* ActiveChain().Tip() will not be pruned": a running node gives up no block   *)
(* that close to its tip, on whichever branch.  The genesis block is exempt:   *)
(* GetPruneRange allows height max(0, tip - MIN_BLOCKS_TO_KEEP).              *)
PruneKeepsRecent ==
    [][\A b \in Blocks : failures' \ failures \subseteq {"full"} /\ index[b].data /\ ~index'[b].data =>
          HeightOf[b] = 0 \/ HeightOf[b] + KeepBlocks <= HeightOf[tip]]_vars
=============================================================================
