--------------------------- MODULE TxRequestProofs ---------------------------
(* Proofs about the transaction request tracker, for any transactions, peers, *)
(* times and salted hashes.                                                   *)
EXTENDS TxRequest, WellFoundedInduction, TLAPS

Rows == [Peers -> State \cup {"ABSENT"}]

(* The transformations of a row yield rows. *)
LEMMA RowTypes ==
    ASSUME NEW h \in TxHashes, NEW row \in Rows, NEW p \in Peers
    PROVE  /\ PromoteCandidateReady(h, row, p) \in Rows
           /\ \A s \in State : ChangeAndReselect(h, row, p, s) \in Rows
           /\ MakeCompleted(h, row, p) \in Rows
           /\ MarkRequested(row, p) \in Rows
<1>1. PromoteCandidateReady(h, row, p) \in Rows
  BY DEF PromoteCandidateReady, Rows, State
<1>2. \A s \in State : ChangeAndReselect(h, row, p, s) \in Rows
  BY DEF ChangeAndReselect, Rows, State
<1>3. MakeCompleted(h, row, p) \in Rows
  BY <1>2 DEF MakeCompleted, Rows, State
<1>4. MarkRequested(row, p) \in Rows
  BY DEF MarkRequested, Rows, State
<1> QED BY <1>1, <1>2, <1>3, <1>4

LEMMA RecountType ==
    ASSUME NEW info \in PeerInfo, NEW old, NEW new
    PROVE  Recount(info, old, new) \in PeerInfo
BY DEF Recount, Is, PeerInfo

(* Writing a well-typed row back keeps the types. *)
LEMMA StoreType ==
    ASSUME TypeOK, NEW h \in TxHashes, NEW row \in Rows, WriteRow(h, row)
    PROVE  /\ state' \in [TxHashes -> Rows]
           /\ preferred' \in [TxHashes -> [Peers -> BOOLEAN]]
           /\ m_peerinfo' \in [Peers -> PeerInfo]
<1>1. state' \in [TxHashes -> Rows]
  BY DEF TypeOK, WriteRow, Rows
<1>2. preferred' \in [TxHashes -> [Peers -> BOOLEAN]]
  BY DEF TypeOK, WriteRow, Clear
<1>3. m_peerinfo' \in [Peers -> PeerInfo]
  BY RecountType DEF TypeOK, WriteRow
<1> QED BY <1>1, <1>2, <1>3

LEMMA StoreTimeType ==
    ASSUME TypeOK, NEW h \in TxHashes, NEW row \in Rows, Store(h, row), call' \in Calls
    PROVE  TypeOK'
<1>1. time' \in [TxHashes -> [Peers -> Int]]
  BY DEF TypeOK, Store, Clear
<1>2. WriteRow(h, row)
  BY DEF Store
<1> QED BY <1>1, <1>2, StoreType DEF TypeOK, Rows

(* The tracker's data is well typed in every reachable state. *)
THEOREM TypeCorrect == Spec => []TypeOK
<1>1. Init => TypeOK
  BY DEF Init, TypeOK, PeerInfo, Calls
<1>2. TypeOK /\ [Next]_vars => TypeOK'
  <2> SUFFICES ASSUME TypeOK, [Next]_vars PROVE TypeOK'
    OBVIOUS
  <2> USE TimesAssumption
  <2>0. \A h \in TxHashes : state[h] \in Rows
    BY DEF TypeOK, Rows
  <2>1. ASSUME NEW p \in Peers, NEW h \in TxHashes, NEW pref \in BOOLEAN, NEW reqtime \in Times,
               ReceivedInv(p, h, pref, reqtime)
        PROVE  TypeOK'
    <3>1. state' \in [TxHashes -> Rows] /\ time' \in [TxHashes -> [Peers -> Int]]
          /\ preferred' \in [TxHashes -> [Peers -> BOOLEAN]]
      BY <2>1 DEF TypeOK, ReceivedInv, Rows, State
    <3>2. m_peerinfo' \in [Peers -> PeerInfo]
      BY <2>1, RecountType DEF TypeOK, ReceivedInv
    <3> QED BY <2>1, <3>1, <3>2 DEF TypeOK, ReceivedInv, Rows
  <2>2. ASSUME NEW p \in Peers, NEW now \in Times, GetRequestable(p, now)
        PROVE  TypeOK'
    BY <2>2 DEF TypeOK, GetRequestable, tracker, Calls
  <2>3. ASSUME NEW p \in Peers, NEW h \in TxHashes, NEW expiry \in Times, RequestedTx(p, h, expiry)
        PROVE  TypeOK'
    <3>1. MarkRequested(state[h], p) \in Rows
      BY <2>0, RowTypes
    <3>2. time' \in [TxHashes -> [Peers -> Int]] /\ call' \in Calls
      BY <2>3 DEF TypeOK, RequestedTx
    <3> QED BY <2>3, <3>1, <3>2, StoreType DEF TypeOK, RequestedTx, Rows
  <2>4. ASSUME NEW p \in Peers, NEW h \in TxHashes, ReceivedResponse(p, h)
        PROVE  TypeOK'
    BY <2>0, <2>4, RowTypes, StoreTimeType DEF ReceivedResponse, TypeOK
  <2>5. ASSUME NEW h \in TxHashes, ForgetTxHash(h)
        PROVE  TypeOK'
    <3>1. [p \in Peers |-> "ABSENT"] \in Rows
      BY DEF Rows
    <3> QED BY <2>5, <3>1, StoreTimeType DEF ForgetTxHash, TypeOK
  <2>6. ASSUME NEW p \in Peers, DisconnectedPeer(p)
        PROVE  TypeOK'
    BY <2>6 DEF TypeOK, DisconnectedPeer, tracker, Calls
  <2>7. ASSUME NEW h \in TxHashes, NEW p \in Peers, Promote(h, p)
        PROVE  TypeOK'
    BY <2>0, <2>7, RowTypes, StoreTimeType DEF Promote, TypeOK
  <2>8. ASSUME NEW h \in TxHashes, NEW p \in Peers, Expire(h, p)
        PROVE  TypeOK'
    BY <2>0, <2>8, RowTypes, StoreTimeType DEF Expire, TypeOK
  <2>9. ASSUME NEW h \in TxHashes, NEW p \in Peers, Demote(h, p)
        PROVE  TypeOK'
    BY <2>0, <2>9, RowTypes, StoreTimeType DEF Demote, TypeOK, State
  <2>10. CASE EndPast
    BY <2>10 DEF TypeOK, EndPast, tracker, Calls, Idle
  <2>11. CASE ReturnRequestable
    BY <2>11 DEF TypeOK, ReturnRequestable, tracker, Calls
  <2>12. ASSUME NEW h \in TxHashes, DropAnnouncement(h)
         PROVE  TypeOK'
    <3>1. call.peer \in Peers
      BY <2>12 DEF DropAnnouncement, TypeOK, Calls, Idle
    <3>2. [MakeCompleted(h, state[h], call.peer) EXCEPT ![call.peer] = "ABSENT"] \in Rows
      BY <2>0, <3>1, RowTypes DEF Rows
    <3> QED BY <2>12, <3>2, StoreTimeType DEF DropAnnouncement, TypeOK
  <2>13. CASE EndDisconnect
    BY <2>13 DEF TypeOK, EndDisconnect, tracker, Calls
  <2>14. CASE UNCHANGED vars
    BY <2>14 DEF TypeOK, vars
  <2> QED BY <2>1, <2>2, <2>3, <2>4, <2>5, <2>6, <2>7, <2>8, <2>9, <2>10, <2>11, <2>12, <2>13, <2>14
          DEF Next, LoopStep
<1> QED BY <1>1, <1>2, PTL DEF Spec

-----------------------------------------------------------------------------
(* The consistency assertions of SanityCheck, one txhash at a time *)

Sane(h, row) ==
    /\ (\E p \in Peers : row[p] = "COMPLETED")
         => \E p \in Peers : row[p] \notin {"COMPLETED", "ABSENT"}
    /\ \A p, q \in Peers : IsSelected(row[p]) /\ IsSelected(row[q]) => p = q
    /\ (\E p \in Peers : row[p] = "CANDIDATE_READY") => \E p \in Peers : IsSelected(row[p])
    /\ \A p, q \in Peers : row[p] = "CANDIDATE_BEST" /\ row[q] = "CANDIDATE_READY"
         => Priority(h, q) <= Priority(h, p)

(* Every nonempty set of naturals has a least element. *)
LEMMA NatMin ==
    ASSUME NEW T \in SUBSET Nat, T # {}
    PROVE  \E x \in T : \A y \in T : x <= y
<1> DEFINE R == OpToRel(<, Nat)
<1>1. IsWellFoundedOn(R, Nat)
  BY NatLessThanWellFounded, Zenon
<1>2. \A x, y \in Nat : y < x => <<y, x>> \in R
  BY DEF OpToRel
<1> HIDE DEF R
<1>3. PICK x \in T : \A y \in T : ~ (<<y, x>> \in R)
  BY <1>1, WFMin, Zenon
<1>4. \A y \in T : ~ (y < x)
  BY <1>2, <1>3, Zenon
<1>5. \A y \in T : x <= y
  BY <1>4
<1> QED BY <1>5

(* Priorities of one txhash are distinct naturals below 2 * PreferredBit. *)
LEMMA PriorityFacts ==
    ASSUME TypeOK, NEW h \in TxHashes
    PROVE  /\ \A p \in Peers : Priority(h, p) \in 0 .. 2 * PreferredBit
           /\ \A p, q \in Peers : Priority(h, p) = Priority(h, q) => p = q
<1>1. \A p \in Peers : /\ LowBits[h][p] \in Nat
                       /\ LowBits[h][p] < PreferredBit
                       /\ preferred[h][p] \in BOOLEAN
  BY PriorityAssumption DEF TypeOK
<1>2. PreferredBit \in Nat
  BY PriorityAssumption
<1>3. \A p \in Peers : Priority(h, p) \in 0 .. 2 * PreferredBit
  BY <1>1, <1>2 DEF Priority
<1>4. ASSUME NEW p \in Peers, NEW q \in Peers, Priority(h, p) = Priority(h, q)
      PROVE  p = q
  <2>1. LowBits[h][p] = LowBits[h][q]
    BY <1>1, <1>2, <1>4 DEF Priority
  <2> QED BY <2>1, PriorityAssumption
<1> QED BY <1>3, <1>4

(* Among CANDIDATE_READY announcements there is a best one, and only one. *)
LEMMA BestReady ==
    ASSUME TypeOK, NEW h \in TxHashes, NEW row \in Rows
    PROVE  /\ (\E p \in Peers : row[p] = "CANDIDATE_READY")
                 => \E p \in Peers : IsBestReady(h, row, p)
           /\ \A p, q \in Peers : IsBestReady(h, row, p) /\ IsBestReady(h, row, q) => p = q
<1> DEFINE Gap(p) == 2 * PreferredBit - Priority(h, p)
           Gaps == {Gap(p) : p \in {r \in Peers : row[r] = "CANDIDATE_READY"}}
<1>0. /\ PreferredBit \in Nat
      /\ \A p \in Peers : Priority(h, p) \in Int /\ Gap(p) \in Nat
  BY PriorityFacts, PriorityAssumption
<1>1. ASSUME \E p \in Peers : row[p] = "CANDIDATE_READY"
      PROVE  \E p \in Peers : IsBestReady(h, row, p)
  <2>1. Gaps \in SUBSET Nat /\ Gaps # {}
    BY <1>0, <1>1
  <2>2. PICK x \in Gaps : \A y \in Gaps : x <= y
    BY <2>1, NatMin
  <2>3. PICK p \in Peers : row[p] = "CANDIDATE_READY" /\ x = Gap(p)
    BY <2>2
  <2>4. \A q \in Peers : row[q] = "CANDIDATE_READY" => Gap(p) <= Gap(q)
    BY <2>2, <2>3
  <2>5. \A q \in Peers : row[q] = "CANDIDATE_READY" => Priority(h, q) <= Priority(h, p)
    BY <1>0, <2>4
  <2> QED BY <2>3, <2>5 DEF IsBestReady
<1>2. ASSUME NEW p \in Peers, NEW q \in Peers, IsBestReady(h, row, p), IsBestReady(h, row, q)
      PROVE  p = q
  <2>1. Priority(h, p) = Priority(h, q)
    BY <1>0, <1>2 DEF IsBestReady
  <2> QED BY <2>1, PriorityFacts
<1> QED BY <1>1, <1>2

LEMMA PromoteSane ==
    ASSUME TypeOK, NEW h \in TxHashes, NEW row \in Rows, Sane(h, row),
           NEW p \in Peers, row[p] = "CANDIDATE_DELAYED"
    PROVE  Sane(h, PromoteCandidateReady(h, row, p))
<1>0. \A q \in Peers : Priority(h, q) \in Int
  BY PriorityFacts
<1> DEFINE ready == [row EXCEPT ![p] = "CANDIDATE_READY"]
           new == PromoteCandidateReady(h, row, p)
<1>1. CASE \E q \in Peers : row[q] = "REQUESTED"
  <2>1. new = ready
    BY <1>1 DEF PromoteCandidateReady
  <2> QED BY <1>0, <1>1, <2>1 DEF Sane, IsSelected, Rows
<1>2. CASE /\ \A q \in Peers : row[q] # "REQUESTED"
           /\ ~IsBestReady(h, ready, p)
  <2>1. new = ready
    BY <1>2 DEF PromoteCandidateReady
  <2>2. PICK q \in Peers : row[q] = "CANDIDATE_READY" /\ Priority(h, p) < Priority(h, q)
    BY <1>0, <1>2 DEF IsBestReady, Rows
  <2>3. PICK b \in Peers : row[b] = "CANDIDATE_BEST" /\ b # p
    BY <1>2, <2>2 DEF Sane, IsSelected
  <2>4. Priority(h, p) <= Priority(h, b)
    BY <1>0, <2>2, <2>3 DEF Sane
  <2> QED BY <1>0, <2>1, <2>3, <2>4 DEF Sane, IsSelected, Rows
<1>3. CASE /\ \A q \in Peers : row[q] # "REQUESTED"
           /\ IsBestReady(h, ready, p)
           /\ \E q \in Peers : row[q] = "CANDIDATE_BEST" /\ Priority(h, q) >= Priority(h, p)
  <2>1. new = ready
    BY <1>3 DEF PromoteCandidateReady
  <2> QED BY <1>0, <1>3, <2>1 DEF Sane, IsSelected, Rows
<1>4. CASE /\ \A q \in Peers : row[q] # "REQUESTED"
           /\ IsBestReady(h, ready, p)
           /\ ~\E q \in Peers : row[q] = "CANDIDATE_BEST" /\ Priority(h, q) >= Priority(h, p)
  <2>1. new = [q \in Peers |-> IF q = p THEN "CANDIDATE_BEST"
                               ELSE IF row[q] = "CANDIDATE_BEST" THEN "CANDIDATE_READY"
                               ELSE row[q]]
    BY <1>4 DEF PromoteCandidateReady
  <2>2. \A q \in Peers : row[q] = "CANDIDATE_READY" => Priority(h, q) <= Priority(h, p)
    BY <1>4 DEF IsBestReady, Rows
  <2>3. \A q \in Peers : row[q] = "CANDIDATE_BEST" => Priority(h, q) <= Priority(h, p)
    BY <1>0, <1>4
  <2> QED BY <1>0, <1>4, <2>1, <2>2, <2>3 DEF Sane, IsSelected, Rows
<1> QED BY <1>1, <1>2, <1>3, <1>4

(* Reselection keeps the row consistent as long as something usable is left. *)
LEMMA ReselectSane ==
    ASSUME TypeOK, NEW h \in TxHashes, NEW row \in Rows, Sane(h, row), NEW p \in Peers,
           NEW s \in {"COMPLETED", "CANDIDATE_DELAYED", "ABSENT"},
           \/ s = "CANDIDATE_DELAYED"
           \/ \E q \in Peers \ {p} : row[q] \notin {"COMPLETED", "ABSENT"}
    PROVE  Sane(h, ChangeAndReselect(h, row, p, s))
<1> DEFINE new == ChangeAndReselect(h, row, p, s)
<1>0. \A q \in Peers : Priority(h, q) \in Int
  BY PriorityFacts
<1>1. CASE ~IsSelected(row[p])
  <2>1. new = [row EXCEPT ![p] = s]
    BY <1>1 DEF ChangeAndReselect, Rows
  <2> QED BY <1>0, <1>1, <2>1 DEF Sane, IsSelected, Rows
<1>2. CASE IsSelected(row[p]) /\ ~\E q \in Peers : row[q] = "CANDIDATE_READY"
  <2>1. new = [row EXCEPT ![p] = s]
    BY <1>2 DEF ChangeAndReselect, Rows, IsBestReady
  <2> QED BY <1>0, <1>2, <2>1 DEF Sane, IsSelected, Rows
<1>3. CASE IsSelected(row[p]) /\ \E q \in Peers : row[q] = "CANDIDATE_READY"
  <2>1. PICK b \in Peers : IsBestReady(h, row, b)
    BY <1>3, BestReady
  <2>2. b # p /\ row[b] = "CANDIDATE_READY"
    BY <1>3, <2>1 DEF IsBestReady, IsSelected
  <2>3. new = [q \in Peers |-> IF q = p THEN s ELSE IF q = b THEN "CANDIDATE_BEST" ELSE row[q]]
    BY <1>3, <2>1, BestReady DEF ChangeAndReselect
  <2>4. \A q \in Peers \ {p} : ~IsSelected(row[q])
    BY <1>3 DEF Sane
  <2> QED BY <1>0, <2>1, <2>2, <2>3, <2>4 DEF Sane, IsSelected, IsBestReady, Rows
<1> QED BY <1>1, <1>2, <1>3

LEMMA AbsentSane ==
    ASSUME NEW h \in TxHashes
    PROVE  Sane(h, [p \in Peers |-> "ABSENT"])
BY DEF Sane, IsSelected

LEMMA MakeCompletedSane ==
    ASSUME TypeOK, NEW h \in TxHashes, NEW row \in Rows, Sane(h, row), NEW p \in Peers,
           row[p] # "ABSENT"
    PROVE  /\ Sane(h, MakeCompleted(h, row, p))
           /\ Sane(h, [MakeCompleted(h, row, p) EXCEPT ![p] = "ABSENT"])
<1> DEFINE new == MakeCompleted(h, row, p)
<1>1. CASE row[p] = "COMPLETED"
  <2>1. new = row
    BY <1>1 DEF MakeCompleted
  <2> QED BY <1>1, <2>1 DEF Sane, IsSelected, Rows
<1>2. CASE row[p] # "COMPLETED" /\ IsOnlyNonCompleted(row, p)
  <2>1. new = [q \in Peers |-> "ABSENT"] /\ [new EXCEPT ![p] = "ABSENT"] = [q \in Peers |-> "ABSENT"]
    BY <1>2 DEF MakeCompleted
  <2> QED BY <2>1, AbsentSane
<1>3. CASE row[p] # "COMPLETED" /\ ~IsOnlyNonCompleted(row, p)
  <2>1. new = ChangeAndReselect(h, row, p, "COMPLETED")
    BY <1>3 DEF MakeCompleted
  <2>2. [new EXCEPT ![p] = "ABSENT"] = ChangeAndReselect(h, row, p, "ABSENT")
    BY <2>1 DEF ChangeAndReselect
  <2>3. \E q \in Peers \ {p} : row[q] \notin {"COMPLETED", "ABSENT"}
    BY <1>3 DEF IsOnlyNonCompleted
  <2> QED BY <2>1, <2>2, <2>3, ReselectSane
<1> QED BY <1>1, <1>2, <1>3

LEMMA MarkRequestedSane ==
    ASSUME NEW h \in TxHashes, NEW row \in Rows, Sane(h, row), NEW p \in Peers
    PROVE  Sane(h, MarkRequested(row, p))
BY DEF Sane, MarkRequested, IsSelected, Rows

(* SanityCheck speaks of every txhash, and a step rewrites the row of one. *)
LEMMA SanityByRow == SanityCheck <=> \A h \in TxHashes : Sane(h, state[h])
BY DEF SanityCheck, Sane, NotOnlyCompleted, AtMostOneSelected, ReadyBehindSelected, BestIsBest

LEMMA WriteRowSane ==
    ASSUME TypeOK, SanityCheck, NEW h \in TxHashes, NEW row \in Rows, Sane(h, row),
           WriteRow(h, row)
    PROVE  SanityCheck'
<1>1. \A g \in TxHashes, p \in Peers :
        state'[g][p] # "ABSENT" => Priority(g, p)' = Priority(g, p)
  BY DEF WriteRow, Clear, Priority, TypeOK, Rows
<1>2. \A g \in TxHashes : Sane(g, state'[g])
  BY SanityByRow DEF WriteRow, TypeOK
<1>3. NotOnlyCompleted' /\ AtMostOneSelected' /\ ReadyBehindSelected'
  BY <1>2 DEF Sane, NotOnlyCompleted, AtMostOneSelected, ReadyBehindSelected, IsSelected
<1>4. BestIsBest'
  BY <1>1, <1>2 DEF Sane, BestIsBest
<1> QED BY <1>3, <1>4 DEF SanityCheck

LEMMA SaneIfUnchanged ==
    ASSUME SanityCheck, UNCHANGED <<state, preferred>>
    PROVE  SanityCheck'
BY DEF SanityCheck, NotOnlyCompleted, AtMostOneSelected, ReadyBehindSelected, BestIsBest,
       IsSelected, Priority

(* The assertions of SanityCheck hold in every reachable state, also between *)
(* two iterations of SetTimePoint and of DisconnectedPeer: a txhash has at   *)
(* most one selected announcement, a READY one waits behind a selected one,  *)
(* the BEST one is best, and failed announcements alone are not kept.        *)
THEOREM TrackerIsSane == Spec => []SanityCheck
<1>1. Init => SanityCheck
  BY DEF Init, SanityCheck, NotOnlyCompleted, AtMostOneSelected, ReadyBehindSelected,
         BestIsBest, IsSelected
<1>2. TypeOK /\ SanityCheck /\ [Next]_vars => SanityCheck'
  <2> SUFFICES ASSUME TypeOK, SanityCheck, [Next]_vars PROVE SanityCheck'
    OBVIOUS
  <2>0. \A h \in TxHashes : state[h] \in Rows /\ Sane(h, state[h])
    BY SanityByRow DEF TypeOK, Rows
  <2>1. ASSUME NEW p \in Peers, NEW h \in TxHashes, NEW pref \in BOOLEAN, NEW reqtime \in Times,
               ReceivedInv(p, h, pref, reqtime)
        PROVE  SanityCheck'
    <3>1. \A g \in TxHashes, q \in Peers :
            /\ state'[g][q] = IF g = h /\ q = p THEN "CANDIDATE_DELAYED" ELSE state[g][q]
            /\ preferred'[g][q] = IF g = h /\ q = p THEN pref ELSE preferred[g][q]
      BY <2>1 DEF ReceivedInv, TypeOK
    <3>2. state[h][p] = "ABSENT"
      BY <2>1 DEF ReceivedInv
    <3>3. NotOnlyCompleted' /\ AtMostOneSelected' /\ ReadyBehindSelected'
      BY <3>1, <3>2 DEF SanityCheck, NotOnlyCompleted, AtMostOneSelected, ReadyBehindSelected,
                        IsSelected
    <3>4. BestIsBest'
      BY <3>1, <3>2 DEF SanityCheck, BestIsBest, Priority
    <3> QED BY <3>3, <3>4 DEF SanityCheck
  <2>2. ASSUME NEW p \in Peers, NEW now \in Times, GetRequestable(p, now)
        PROVE  SanityCheck'
    BY <2>2, SaneIfUnchanged DEF GetRequestable, tracker
  <2>3. ASSUME NEW p \in Peers, NEW h \in TxHashes, NEW expiry \in Times, RequestedTx(p, h, expiry)
        PROVE  SanityCheck'
    BY <2>0, <2>3, RowTypes, MarkRequestedSane, WriteRowSane DEF RequestedTx
  <2>4. ASSUME NEW p \in Peers, NEW h \in TxHashes, ReceivedResponse(p, h)
        PROVE  SanityCheck'
    BY <2>0, <2>4, RowTypes, MakeCompletedSane, WriteRowSane DEF ReceivedResponse, Store
  <2>5. ASSUME NEW h \in TxHashes, ForgetTxHash(h)
        PROVE  SanityCheck'
    <3>1. [p \in Peers |-> "ABSENT"] \in Rows
      BY DEF Rows
    <3> QED BY <2>5, <3>1, AbsentSane, WriteRowSane DEF ForgetTxHash, Store
  <2>6. ASSUME NEW p \in Peers, DisconnectedPeer(p)
        PROVE  SanityCheck'
    BY <2>6, SaneIfUnchanged DEF DisconnectedPeer, tracker
  <2>7. ASSUME NEW h \in TxHashes, NEW p \in Peers, Promote(h, p)
        PROVE  SanityCheck'
    BY <2>0, <2>7, RowTypes, PromoteSane, WriteRowSane DEF Promote, Store
  <2>8. ASSUME NEW h \in TxHashes, NEW p \in Peers, Expire(h, p)
        PROVE  SanityCheck'
    BY <2>0, <2>8, RowTypes, MakeCompletedSane, WriteRowSane DEF Expire, Store
  <2>9. ASSUME NEW h \in TxHashes, NEW p \in Peers, Demote(h, p)
        PROVE  SanityCheck'
    BY <2>0, <2>9, RowTypes, ReselectSane, WriteRowSane DEF Demote, Store, State
  <2>10. CASE EndPast \/ ReturnRequestable \/ EndDisconnect
    BY <2>10, SaneIfUnchanged DEF EndPast, ReturnRequestable, EndDisconnect, tracker
  <2>11. ASSUME NEW h \in TxHashes, DropAnnouncement(h)
         PROVE  SanityCheck'
    <3>1. call.peer \in Peers
      BY <2>11 DEF DropAnnouncement, TypeOK, Calls, Idle
    <3>2. [MakeCompleted(h, state[h], call.peer) EXCEPT ![call.peer] = "ABSENT"] \in Rows
      BY <2>0, <3>1, RowTypes DEF Rows
    <3> QED BY <2>0, <2>11, <3>1, <3>2, MakeCompletedSane, WriteRowSane DEF DropAnnouncement, Store
  <2>12. CASE UNCHANGED vars
    BY <2>12, SaneIfUnchanged DEF vars
  <2> QED BY <2>1, <2>2, <2>3, <2>4, <2>5, <2>6, <2>7, <2>8, <2>9, <2>10, <2>11, <2>12
          DEF Next, LoopStep
<1> QED BY <1>1, <1>2, TypeCorrect, PTL DEF Spec
=============================================================================
