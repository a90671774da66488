------------------------------ MODULE Chainstate ------------------------------
(***************************************************************************)
(* Selection of the active chain: the block index, its failure flags and   *)
(* candidate set, and the calls that change them (validation.cpp).         *)
(*                                                                         *)
(* Headers and blocks arrive, and operators call invalidateblock,          *)
(* reconsiderblock and preciousblock, from several threads.  cs_main       *)
(* protects all of the state; m_chainstate_mutex admits one                *)
(* ActivateBestChain or InvalidateBlock at a time, and both release        *)
(* cs_main between their sections.  A section that loops is a series of    *)
(* steps during which cs_main is held.                                     *)
(*                                                                         *)
(* The node does not prune, so a block that was received stays readable.   *)
(* m_best_invalid, which only feeds a warning, the mempool, interrupts and *)
(* the snapshot chainstate are left out.                                   *)
(***************************************************************************)
EXTENDS Integers, FiniteSets, Sequences, Functions

CONSTANTS Blocks, Genesis, Parent,
          Work,           \* nChainWork
          Address,        \* order of the index entries in memory
          CheckFails,     \* blocks that pass CheckBlock and fail ContextualCheckBlock
          ConnectFails,   \* blocks that ConnectBlock refuses
          KeepBlocks,     \* MIN_BLOCKS_TO_KEEP
          ConnectBatch,   \* blocks listed at a time by ActivateBestChainStep
          Null,
          MaxWaiting,     \* bound: calls of ActivateBestChain that wait
          MaxCalls        \* bound: calls made by operators

VARIABLES blockIndex,     \* entries of m_block_index
          received,       \* entries with nTx > 0, and with BLOCK_HAVE_DATA
          linked,         \* entries with HaveNumChainTxs()
          failed,         \* BLOCK_FAILED_VALID and BLOCK_FAILED_CHILD
          nSequenceId,
          ids,            \* nBlockSequenceId, nBlockReverseSequenceId, nLastPreciousChainwork
          candidates,     \* setBlockIndexCandidates
          unlinked,       \* m_blocks_unlinked: the blocks that wait for each block, in order
          skipped,        \* blocks that were left out of it because of a failed parent (a ghost)
          bestHeader,     \* m_best_header
          tip,            \* m_chain.Tip()
          queue,          \* of ReceivedBlockTransactions
          call,           \* who holds m_chainstate_mutex, and its locals
          waiting,        \* calls of ActivateBestChain that have not begun
          calls           \* calls made by operators so far

arrivals == <<blockIndex, received, linked, unlinked, skipped, queue>>
vars == <<blockIndex, received, linked, failed, nSequenceId, ids, candidates,
          unlinked, skipped, bestHeader, tip, queue, call, waiting, calls>>

(* A block and its ancestors: the least set with the block and, of every   *)
(* block but the first, the parent.                                        *)
ClosedBelow(S) == \A b \in S \ {Genesis} : Parent[b] \in S
Chain == [b \in Blocks |->
           {c \in Blocks : \A S \in SUBSET Blocks : b \in S /\ ClosedBelow(S) => c \in S}]
Height(b) == Cardinality(Chain[b]) - 1

(* The last of some blocks of one chain. *)
Highest(S) == CHOOSE b \in S : S \subseteq Chain[b]

ASSUME TreeAssumption ==
  /\ IsFiniteSet(Blocks) /\ Null \notin Blocks
  /\ Genesis \in Blocks /\ Genesis \notin ConnectFails
  /\ \A b \in Blocks : Work[b] \in Nat /\ Address[b] \in Nat
  /\ \A b \in Blocks \ {Genesis} : Parent[b] \in Blocks /\ Work[b] > Work[Parent[b]]
  /\ \A b, c \in Blocks : Address[b] = Address[c] => b = c
  /\ KeepBlocks \in Nat /\ ConnectBatch \in Nat \ {0} /\ MaxCalls \in Nat

(* CBlockIndexWorkComparator, under the sequence ids s. *)
Worse(s, a, b) ==
  \/ Work[a] < Work[b]
  \/ Work[a] = Work[b] /\ s[a] > s[b]
  \/ Work[a] = Work[b] /\ s[a] = s[b] /\ Address[a] > Address[b]

NotWorse(s, S, t) == {b \in S : ~Worse(s, b, t)}

(* Cs_main can be taken. *)
Unlocked == queue = <<>> /\ call.at = "unlocked"

NoCall == [op |-> "none", at |-> "unlocked"]

(* IsValid(BLOCK_VALID_TRANSACTIONS) && HaveNumChainTxs(), under the flags f. *)
Eligible(f) == {b \in received \intersect linked : f[b] = {}}

Init ==
  /\ blockIndex = {Genesis}
  /\ received = {Genesis} /\ linked = {Genesis}
  /\ failed = [b \in Blocks |-> {}]
  /\ nSequenceId = [b \in Blocks |-> IF b = Genesis THEN 1 ELSE 0]
  /\ ids = [next |-> 2, reverse |-> -1, lastWork |-> 0]
  /\ candidates = {Genesis}
  /\ unlinked = [b \in Blocks |-> <<>>] /\ skipped = {}
  /\ bestHeader = Genesis /\ tip = Genesis
  /\ queue = <<>> /\ call = NoCall /\ waiting = 0 /\ calls = 0
-----------------------------------------------------------------------------
(* Failure flags and the best header *)

(* SetBlockFailureFlags: the descendants of b among the entries idx. *)
Flagged(f, idx, b) ==
  [d \in Blocks |-> IF d \in idx \ {b} /\ b \in Chain[d]
                    THEN (f[d] \ {"VALID"}) \union {"CHILD"} ELSE f[d]]

(* RecalculateBestHeader: the entries it may settle on, since it goes      *)
(* through the index in no particular order.                               *)
BestHeaders(f, idx, t) ==
  LET better == {b \in idx : f[b] = {} /\ Work[b] > Work[t]}
  IN  IF better = {} THEN {t}
      ELSE {b \in better : \A c \in better : Work[c] <= Work[b]}

(* InvalidChainFound on b, from flags f, header h. *)
HeadersAfterInvalid(f, idx, h, b) ==
  IF b \in Chain[h] THEN BestHeaders(Flagged(f, idx, b), idx, tip) ELSE {h}

(* InvalidBlockFound, then InvalidChainFound on top. *)
InvalidBlockFound(idx, h, b, top) ==
  LET f == Flagged([failed EXCEPT ![b] = @ \union {"VALID"}], idx, b)
  IN  /\ failed' = Flagged(f, idx, top)
      /\ candidates' = candidates \ {b}
      /\ \E g \in (IF b \in Chain[h] THEN BestHeaders(f, idx, tip) ELSE {h}) :
            bestHeader' \in HeadersAfterInvalid(f, idx, g, top)
-----------------------------------------------------------------------------
(* Headers and blocks arriving *)

(* Mutant: the parent's failure flags are not looked at. *)
HeaderAcceptedMutant(b) ==
  IF b \in blockIndex THEN failed[b] = {} ELSE Parent[b] \in blockIndex

(* AcceptBlockHeader does not refuse b. *)
HeaderAccepted(b) ==
  IF b \in blockIndex THEN failed[b] = {}
  ELSE Parent[b] \in blockIndex /\ failed[Parent[b]] = {}

(* AddToBlockIndex *)
HeaderAfterAdding(b) ==
  IF b \notin blockIndex /\ Work[bestHeader] < Work[b] THEN b ELSE bestHeader

ProcessNewBlockHeader(b) ==
  /\ Unlocked /\ b \notin blockIndex /\ HeaderAccepted(b)
  /\ blockIndex' = blockIndex \union {b}
  /\ bestHeader' = HeaderAfterAdding(b)
  /\ UNCHANGED <<received, linked, failed, nSequenceId, ids, candidates, unlinked, skipped,
                 tip, queue, call, waiting, calls>>

(* Mutant: fAlreadyHave is not looked at. *)
WantedMutant(b, requested) ==
  requested \/ (Work[b] >= Work[tip] /\ Height(b) <= Height(tip) + KeepBlocks)

(* AcceptBlock goes on to check and store b. *)
Wanted(b, requested) ==
  /\ b \notin received
  /\ requested \/ (Work[b] >= Work[tip] /\ Height(b) <= Height(tip) + KeepBlocks)

(* Mutant: nTx is not set. *)
StoreBlockMutant(b) ==
  /\ b \notin CheckFails
  /\ IF Parent[b] \in linked THEN queue' = <<b>> /\ UNCHANGED unlinked
     ELSE unlinked' = [unlinked EXCEPT ![Parent[b]] = Append(@, b)] /\ UNCHANGED queue
  /\ bestHeader' = HeaderAfterAdding(b)
  /\ waiting' = waiting + 1
  /\ UNCHANGED <<received, failed, candidates, skipped>>

(* ReceivedBlockTransactions, up to its loop. *)
StoreBlock(b) ==
  /\ b \notin CheckFails
  /\ received' = received \union {b}
  /\ \/ /\ b = Genesis \/ Parent[b] \in linked
        /\ queue' = <<b>> /\ UNCHANGED <<unlinked, skipped>>
     \/ /\ b # Genesis /\ Parent[b] \notin linked /\ failed[Parent[b]] = {}
        /\ unlinked' = [unlinked EXCEPT ![Parent[b]] = Append(@, b)]
        /\ UNCHANGED <<queue, skipped>>
     \/ /\ b # Genesis /\ Parent[b] \notin linked /\ failed[Parent[b]] # {}
        /\ skipped' = skipped \union {b}
        /\ UNCHANGED <<queue, unlinked>>
  /\ bestHeader' = HeaderAfterAdding(b)
  /\ waiting' = waiting + 1
  /\ UNCHANGED <<failed, candidates>>

RefuseBlock(b) ==
  /\ b \in CheckFails
  /\ InvalidBlockFound(blockIndex', HeaderAfterAdding(b), b, b)
  /\ UNCHANGED <<received, queue, unlinked, skipped, waiting>>

(* ProcessNewBlock of a block that AcceptBlock has no use for. *)
IgnoreBlock(b) ==
  /\ bestHeader' = HeaderAfterAdding(b)
  /\ waiting' = waiting + 1
  /\ UNCHANGED <<received, queue, unlinked, skipped, failed, candidates>>

ProcessNewBlock(b, requested) ==
  /\ Unlocked /\ HeaderAccepted(b) /\ waiting < MaxWaiting
  /\ blockIndex' = blockIndex \union {b}
  /\ IF Wanted(b, requested) THEN StoreBlock(b) \/ RefuseBlock(b) ELSE IgnoreBlock(b)
  /\ UNCHANGED <<linked, nSequenceId, ids, tip, call, calls>>

(* Mutant: the pairs taken from m_blocks_unlinked are not erased. *)
LinkBlockMutant ==
  LET b == Head(queue)
      s == [nSequenceId EXCEPT ![b] = ids.next]
  IN  /\ queue # <<>>
      /\ linked' = linked \union {b}
      /\ nSequenceId' = s
      /\ ids' = [ids EXCEPT !.next = @ + 1]
      /\ candidates' = candidates \union NotWorse(s, {b}, tip)
      /\ queue' = Tail(queue) \o unlinked[b]
      /\ UNCHANGED <<blockIndex, received, failed, unlinked, skipped, bestHeader, tip, call,
                     waiting, calls>>

(* One round of the loop of ReceivedBlockTransactions, and                 *)
(* TryAddBlockIndexCandidate.                                              *)
LinkBlock ==
  LET b == Head(queue)
      s == [nSequenceId EXCEPT ![b] = ids.next]
  IN  /\ queue # <<>>
      /\ linked' = linked \union {b}
      /\ nSequenceId' = s
      /\ ids' = [ids EXCEPT !.next = @ + 1]
      /\ candidates' = candidates \union NotWorse(s, {b}, tip)
      /\ queue' = Tail(queue) \o unlinked[b]
      /\ unlinked' = [unlinked EXCEPT ![b] = <<>>]
      /\ UNCHANGED <<blockIndex, received, failed, skipped, bestHeader, tip, call, waiting,
                     calls>>

-----------------------------------------------------------------------------
(* Calls made by operators *)

Operator(b) ==
  /\ Unlocked /\ b \in blockIndex /\ calls < MaxCalls
  /\ calls' = calls + 1

(* PreciousBlock, up to its call of ActivateBestChain. *)
PreciousBlock(b) ==
  LET id == IF Work[tip] > ids.lastWork THEN -1 ELSE ids.reverse
      s == [nSequenceId EXCEPT ![b] = id]
  IN  /\ Operator(b) /\ waiting < MaxWaiting
      /\ Work[b] >= Work[tip]
      /\ nSequenceId' = s
      /\ ids' = [ids EXCEPT !.reverse = id - 1, !.lastWork = Work[tip]]
      /\ candidates' = IF b \in Eligible(failed)
                       THEN NotWorse(s, candidates \union {b}, tip)
                       ELSE candidates \ {b}
      /\ waiting' = waiting + 1
      /\ UNCHANGED <<arrivals, failed, bestHeader, tip, call>>

(* Mutant: the blocks whose flags are reset do not become candidates. *)
ReconsiderBlockMutant(b) ==
  LET f == [c \in Blocks |-> IF b \in Chain[c] \/ c \in Chain[b] THEN {} ELSE failed[c]]
  IN  /\ Operator(b) /\ waiting < MaxWaiting
      /\ failed' = f
      /\ bestHeader' \in BestHeaders(f, blockIndex, tip)
      /\ waiting' = waiting + 1
      /\ UNCHANGED <<arrivals, nSequenceId, ids, candidates, tip, call>>

(* ResetBlockFailureFlags and RecalculateBestHeader. *)
ReconsiderBlock(b) ==
  LET reset == {c \in blockIndex : failed[c] # {} /\ (b \in Chain[c] \/ c \in Chain[b])}
      f == [c \in Blocks |-> IF c \in reset THEN {} ELSE failed[c]]
  IN  /\ Operator(b) /\ waiting < MaxWaiting
      /\ failed' = f
      /\ candidates' = candidates \union
           {c \in reset \intersect Eligible(f) : Worse(nSequenceId, tip, c)}
      /\ bestHeader' \in BestHeaders(f, blockIndex, tip)
      /\ waiting' = waiting + 1
      /\ UNCHANGED <<arrivals, nSequenceId, ids, tip, call>>

(* InvalidateBlock takes m_chainstate_mutex and collects the headers       *)
(* outside the active chain that may have to be looked at again.           *)
InvalidateBlock(b) ==
  /\ Operator(b) /\ call = NoCall
  /\ b # Genesis
  /\ call' = [op |-> "invalidate", at |-> "unlocked", block |-> b, mark |-> b, inChain |-> FALSE,
              headers |-> {c \in NotWorse(nSequenceId, blockIndex \ Chain[tip], Parent[b]) :
                             failed[c] = {}}]
  /\ UNCHANGED <<arrivals, failed, nSequenceId, ids, candidates, bestHeader, tip, waiting>>

(* One round of the loop of InvalidateBlock: disconnect the tip, mark it   *)
(* and the collected headers above it, make candidates of those that now   *)
(* compare with the tip.                                                   *)
DisconnectInvalid ==
  LET prev == Parent[tip]
      seen == {c \in call.headers : Work[c] >= Work[prev]}
      above == {c \in seen : tip \in Chain[c]}
      rest == seen \ above
      best == {c \in rest : Work[c] > Work[prev] /\ \A d \in rest : Work[d] <= Work[c]}
      child(flags) == (flags \ {"VALID"}) \union {"CHILD"}
  IN  /\ Unlocked /\ call.op = "invalidate" /\ call.block \in Chain[tip]
      /\ tip' = prev
      /\ failed' = [c \in Blocks |->
           IF c = tip THEN failed[c] \union {"VALID"}
           ELSE IF c \in above \/ (c = call.mark /\ tip = Parent[c] /\ "VALID" \in failed[c])
           THEN child(failed[c]) ELSE failed[c]]
      /\ candidates' = (candidates \ {tip}) \union {prev}
           \union NotWorse(nSequenceId, rest \intersect Eligible(failed), prev)
      /\ bestHeader' \in IF tip \notin Chain[bestHeader] THEN {bestHeader}
                         ELSE IF best = {} THEN {prev} ELSE best
      /\ call' = [call EXCEPT !.mark = tip, !.inChain = TRUE, !.headers = @ \ above]
      /\ UNCHANGED <<arrivals, nSequenceId, ids, waiting, calls>>

(* Mutant: no pass over the index for blocks that arrived meanwhile. *)
FinishInvalidateMutant ==
  LET b == call.block
      fresh == ~call.inChain /\ failed[b] = {}
      f == IF fresh THEN [failed EXCEPT ![b] = {"VALID"}] ELSE failed
  IN  /\ Unlocked /\ call.op = "invalidate" /\ b \notin Chain[tip]
      /\ failed' = Flagged(f, blockIndex, call.mark)
      /\ candidates' = IF fresh THEN candidates \ {b} ELSE candidates
      /\ bestHeader' \in HeadersAfterInvalid(f, blockIndex, bestHeader, call.mark)
      /\ call' = NoCall /\ waiting' = waiting + 1
      /\ UNCHANGED <<arrivals, nSequenceId, ids, tip, calls>>

(* The last section of InvalidateBlock. *)
FinishInvalidate ==
  LET b == call.block
      fresh == ~call.inChain /\ failed[b] = {}
      f == IF fresh THEN [failed EXCEPT ![b] = {"VALID"}] ELSE failed
  IN  /\ Unlocked /\ call.op = "invalidate" /\ b \notin Chain[tip]
      /\ failed' = Flagged(f, blockIndex, call.mark)
      /\ candidates' = (IF fresh THEN candidates \ {b} ELSE candidates)
           \union NotWorse(nSequenceId, Eligible(f), tip)
      /\ bestHeader' \in HeadersAfterInvalid(f, blockIndex, bestHeader, call.mark)
      /\ call' = NoCall /\ waiting' = waiting + 1
      /\ UNCHANGED <<arrivals, nSequenceId, ids, tip, calls>>
-----------------------------------------------------------------------------
(* ActivateBestChain *)

(* It takes m_chainstate_mutex and, for its first section, cs_main. *)
ActivateBestChain ==
  /\ Unlocked /\ call = NoCall /\ waiting > 0
  /\ waiting' = waiting - 1
  /\ call' = [op |-> "activate", at |-> "find", mostWork |-> Null, start |-> tip, old |-> tip,
              stepped |-> FALSE]
  /\ UNCHANGED <<arrivals, failed, nSequenceId, ids, candidates, bestHeader, tip, calls>>

(* The next section; pindexMostWork is kept from the one before. *)
NextSection ==
  /\ Unlocked /\ call.op = "activate"
  /\ call' = [call EXCEPT !.at = "find", !.start = tip, !.stepped = FALSE]
  /\ UNCHANGED <<arrivals, failed, nSequenceId, ids, candidates, bestHeader, tip, waiting, calls>>

(* From the top of the inner loop: m is pindexMostWork.  With nothing to   *)
(* do the section ends, and the call with it if the section did no step.   *)
Towards(m) ==
  IF m \notin {tip, Null} THEN [call EXCEPT !.at = "step", !.mostWork = m, !.old = tip]
  ELSE IF call.stepped /\ m = Null THEN [call EXCEPT !.at = "unlocked", !.mostWork = m]
  ELSE NoCall

(* Mutant: the way to the best candidate is not tested. *)
FindMostWorkChainMutant ==
  LET best == CHOOSE b \in candidates :
                \A c \in candidates \ {b} : Worse(nSequenceId, c, b)
  IN  /\ call.at = "find"
      /\ call' = Towards(IF call.mostWork # Null \/ candidates = {} THEN call.mostWork ELSE best)
      /\ UNCHANGED <<arrivals, failed, nSequenceId, ids, candidates, bestHeader, tip, waiting, calls>>

(* One round of the loop of FindMostWorkChain: the best candidate, unless  *)
(* a block on the way to it failed.                                        *)
FindMostWorkChain ==
  LET best == CHOOSE b \in candidates :
                \A c \in candidates \ {b} : Worse(nSequenceId, c, b)
      path == Chain[best] \ Chain[tip]
      unusable == {b \in path : failed[b] # {}}
      test == Highest(unusable)
      above == path \ Chain[test]
  IN  /\ call.at = "find"
      /\ UNCHANGED <<arrivals, nSequenceId, ids, bestHeader, tip, waiting, calls>>
      /\ \/ /\ call.mostWork # Null \/ candidates = {}
            /\ call' = Towards(call.mostWork)
            /\ UNCHANGED <<failed, candidates>>
         \/ /\ call.mostWork = Null /\ candidates # {}
            /\ unusable = {}
            /\ call' = Towards(best)
            /\ UNCHANGED <<failed, candidates>>
         \/ /\ call.mostWork = Null /\ candidates # {}
            /\ unusable # {}
            /\ candidates' = candidates \ (above \union {test})
            /\ failed' = [b \in Blocks |-> IF b \in above THEN failed[b] \union {"CHILD"}
                                           ELSE failed[b]]
            /\ UNCHANGED call

(* Mutant: pindexMostWork is not wiped when an invalid block is found. *)
StepDoneMutant(t, invalid) ==
  IF Worse(nSequenceId, t, call.start) THEN [call EXCEPT !.at = "find", !.stepped = TRUE]
  ELSE IF t = call.mostWork THEN NoCall
  ELSE [call EXCEPT !.at = "unlocked", !.stepped = TRUE]

(* Mutant: cs_main is released after every step. *)
StepDoneEarly(t, invalid) ==
  IF t = call.mostWork THEN NoCall
  ELSE [call EXCEPT !.at = "unlocked", !.stepped = TRUE,
                    !.mostWork = IF invalid THEN Null ELSE @]

(* The end of ActivateBestChainStep: the tip is now t, under flags that    *)
(* make mostWork unusable if invalid.  The inner loop goes on while the    *)
(* tip is worse than it was when cs_main was taken.                        *)
StepDone(t, invalid) ==
  LET m == IF invalid THEN Null ELSE call.mostWork
  IN  IF Worse(nSequenceId, t, call.start)
      THEN [call EXCEPT !.at = "find", !.mostWork = m, !.stepped = TRUE]
      ELSE IF t = m THEN NoCall
      ELSE [call EXCEPT !.at = "unlocked", !.mostWork = m, !.stepped = TRUE]

DisconnectTip ==
  /\ call.at = "step" /\ tip \notin Chain[call.mostWork]
  /\ tip' = Parent[tip]
  /\ UNCHANGED <<arrivals, failed, nSequenceId, ids, candidates, bestHeader, call, waiting, calls>>

(* The child of the tip on the way to mostWork. *)
ToConnect == CHOOSE b \in Chain[call.mostWork] : b # Genesis /\ Parent[b] = tip

ConnectTip ==
  LET b == ToConnect
  IN  /\ call.at = "step" /\ tip \in Chain[call.mostWork]
      /\ b \notin ConnectFails
      /\ tip' = b
      /\ candidates' = NotWorse(nSequenceId, candidates, b)
      /\ call' = IF b = call.mostWork \/ Work[b] > Work[call.old] THEN StepDone(b, FALSE) ELSE call
      /\ UNCHANGED <<arrivals, failed, nSequenceId, ids, bestHeader, waiting, calls>>

(* The last of the blocks listed together with b, vpindexToConnect.front(). *)
LastListed(b) ==
  LET fork == Height(Highest(Chain[call.old] \intersect Chain[call.mostWork]))
      rounds == (Height(b) - fork + ConnectBatch - 1) \div ConnectBatch
  IN  Highest({c \in Chain[call.mostWork] : Height(c) <= fork + rounds * ConnectBatch})

ConnectTipInvalid ==
  LET b == ToConnect
  IN  /\ call.at = "step" /\ tip \in Chain[call.mostWork]
      /\ b \in ConnectFails
      /\ InvalidBlockFound(blockIndex, bestHeader, b, LastListed(b))
      /\ call' = StepDone(tip, TRUE)
      /\ UNCHANGED <<arrivals, nSequenceId, ids, tip, waiting, calls>>

(* A call that has begun, or waits for its turn, goes on. *)
Proceed ==
  \/ LinkBlock
  \/ ActivateBestChain \/ NextSection \/ FindMostWorkChain
  \/ DisconnectTip \/ ConnectTip \/ ConnectTipInvalid
  \/ DisconnectInvalid \/ FinishInvalidate

Next ==
  \/ Proceed
  \/ \E b \in Blocks :
       \/ ProcessNewBlockHeader(b)
       \/ \E requested \in BOOLEAN : ProcessNewBlock(b, requested)
       \/ PreciousBlock(b) \/ ReconsiderBlock(b) \/ InvalidateBlock(b)

Spec == Init /\ [][Next]_vars /\ WF_vars(Proceed)
-----------------------------------------------------------------------------
(* The blocks that wait in m_blocks_unlinked. *)
Unlinked == UNION {Range(unlinked[b]) : b \in Blocks}

(* The shape of the index: entries are received before they are linked,    *)
(* and nothing refers to a block that has no entry.                        *)
TypeOK ==
  /\ blockIndex \subseteq Blocks
  /\ linked \subseteq received /\ received \subseteq blockIndex
  /\ failed \in [Blocks -> SUBSET {"VALID", "CHILD"}]
  /\ nSequenceId \in [Blocks -> Int]
  /\ ids.next \in Nat /\ ids.reverse \in Int /\ ids.lastWork \in Nat
  /\ candidates \subseteq blockIndex
  /\ Unlinked \subseteq blockIndex /\ Range(queue) \subseteq blockIndex
  /\ bestHeader \in blockIndex /\ tip \in blockIndex
  /\ call.op \in {"none", "activate", "invalidate"}
  /\ call.at \in {"unlocked", "find", "step"}
  /\ waiting \in Nat /\ calls \in 0..MaxCalls

(* No InvalidateBlock is between its sections: there the headers that      *)
(* arrived after it began are not marked yet, and what it disconnected is  *)
(* not compared with all of the index.                                     *)
Settled == Unlocked /\ call.op # "invalidate"

Clean(b) == \A c \in Chain[b] : failed[c] = {}
Invalid(b) == \E c \in Chain[b] : "VALID" \in failed[c]

(* CheckBlockIndex on setBlockIndexCandidates: it holds every linked block *)
(* that sorts no worse than the tip and has no failed block below it, and  *)
(* no block that sorts worse or is not linked, also after a block arrived  *)
(* between the sections of an InvalidateBlock.                             *)
CandidatesExact ==
  Settled => \A b \in blockIndex :
    IF ~Worse(nSequenceId, b, tip) /\ b \in linked
    THEN Clean(b) => b \in candidates
    ELSE b \notin candidates

(* CheckBlockIndex on HaveNumChainTxs and m_blocks_unlinked: a block is    *)
(* linked exactly when all of its chain was received, and one that was     *)
(* received before an ancestor waits in m_blocks_unlinked, and no other.   *)
(* The exception is a block skipped by ReceivedBlockTransactions, because  *)
(* InvalidateBlock had marked its parent and not yet the block itself: it  *)
(* waits nowhere, and what builds on it stays unlinked.                    *)
LinkedExact ==
  Unlocked =>
    /\ linked = {b \in blockIndex : Chain[b] \subseteq received \ skipped}
    /\ Unlinked = received \ (linked \union skipped)

(* CheckBlockIndex: "Invalid blocks and their descendants must be marked   *)
(* as invalid": so is every descendant of a marked block, including a      *)
(* header that arrived while InvalidateBlock was disconnecting the chain   *)
(* below it.                                                               *)
FailureReaches == Settled => \A b \in blockIndex : failed[b] = {} => Clean(b)

(* FindMostWorkChain stops at the active chain because "we know all blocks *)
(* in it are valid already": none of them is ever marked failed.           *)
NoInvalidInChain == Clean(tip)

(* A block that LinkBlock gives a new nSequenceId is not in                *)
(* setBlockIndexCandidates: the set is ordered by that number.             *)
NoCandidateRenumbered == queue # <<>> => Head(queue) \notin candidates

(* Once every call of ActivateBestChain has returned, no linked block that *)
(* could be connected sorts before the tip: in whatever order blocks were  *)
(* linked and invalidations made, none of them is passed over.             *)
TipIsBest ==
  (Unlocked /\ call = NoCall /\ waiting = 0) =>
    \A b \in linked : Worse(nSequenceId, tip, b) => ~Clean(b)

(* "We absolutely may not unlock cs_main until we've made forward          *)
(* progress": ActivateBestChain never releases cs_main with a tip that     *)
(* sorts worse than the one it found, even when the chain it switched to   *)
(* turns out invalid.                                                      *)
NoWorseTip ==
  [][(call.op = "activate" /\ call.at # "unlocked" /\ call'.at = "unlocked")
       => ~Worse(nSequenceId, tip', call.start)]_vars

(* Every call of ActivateBestChain returns, and a waiting one gets its     *)
(* turn, as long as its thread keeps running.                              *)
CallsReturn == (call.op = "activate" \/ waiting > 0) ~> (call = NoCall /\ waiting = 0)

(* CheckBlockIndex: "The failed mask cannot be set for blocks without      *)
(* invalid parents."                                                       *)
FailureHasCause == Settled => \A b \in blockIndex : failed[b] # {} => Invalid(b)

(* CheckBlockIndex: "If this block has block data available, some parent   *)
(* was never received, and has no invalid parents, it must be in           *)
(* m_blocks_unlinked."                                                     *)
UnlinkedIsComplete ==
  Unlocked => \A b \in received :
    ~(Chain[b] \subseteq received) /\ ~Invalid(b) => b \in Unlinked
=============================================================================
