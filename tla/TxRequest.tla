------------------------------ MODULE TxRequest ------------------------------
(***************************************************************************)
(* The transaction request tracker (src/txrequest.cpp): which peer          *)
(* announced which transaction, and from whom each is to be requested.      *)
(*                                                                         *)
(* The multi-index m_index holds at most one announcement per (txhash,      *)
(* peer), so it is kept here as functions of txhash and peer; the state     *)
(* "ABSENT" stands for no announcement.  The loops of SetTimePoint and of   *)
(* DisconnectedPeer are one step per iteration: "call" says which loop is   *)
(* running.  No other operation starts until it is over, because the        *)
(* caller holds m_tx_download_mutex for the whole call.                     *)
(***************************************************************************)
EXTENDS Integers, FiniteSets

CONSTANTS
    TxHashes,       \* txids and wtxids ("txhash" in the code)
    Peers,          \* NodeIds
    Times,          \* values of reqtime, expiry and now, in microseconds
    LowBits,        \* the 63 low bits PriorityComputer takes from the salted hash
    PreferredBit    \* bit 63, set for announcements of preferred peers

ASSUME TimesAssumption == Times \subseteq Int
\* 63-bit salted hashes are taken to be free of collisions, and below bit 63.
ASSUME PriorityAssumption ==
    /\ LowBits \in [TxHashes -> [Peers -> Nat]]
    /\ PreferredBit \in Nat
    /\ \A h \in TxHashes, p \in Peers : LowBits[h][p] < PreferredBit
    /\ \A h \in TxHashes, p, q \in Peers :
         LowBits[h][p] = LowBits[h][q] => p = q

VARIABLES
    state,              \* Announcement::m_state
    time,               \* Announcement::m_time
    preferred,          \* Announcement::m_preferred
    m_peerinfo,         \* PeerInfo of each peer; all 0 when the map has no entry
    call                \* the operation whose loop is running

tracker == <<state, time, preferred, m_peerinfo>>
vars == <<state, time, preferred, m_peerinfo, call>>

State == {"CANDIDATE_DELAYED", "CANDIDATE_READY", "CANDIDATE_BEST",
          "REQUESTED", "COMPLETED"}
Idle == [op |-> "idle"]
Calls == {Idle}
         \cup [op : {"past", "future"}, peer : Peers, now : Times]
         \cup [op : {"disconnect"}, peer : Peers]
PeerInfo == [m_total : Int, m_completed : Int, m_requested : Int]

Init ==
    /\ state = [h \in TxHashes |-> [p \in Peers |-> "ABSENT"]]
    /\ time = [h \in TxHashes |-> [p \in Peers |-> 0]]
    /\ preferred = [h \in TxHashes |-> [p \in Peers |-> FALSE]]
    /\ m_peerinfo = [p \in Peers |-> [m_total |-> 0, m_completed |-> 0, m_requested |-> 0]]
    /\ call = Idle

-----------------------------------------------------------------------------
(* Announcements *)

IsSelected(s) == s \in {"CANDIDATE_BEST", "REQUESTED"}
IsWaiting(s) == s \in {"REQUESTED", "CANDIDATE_DELAYED"}
IsSelectable(s) == s \in {"CANDIDATE_READY", "CANDIDATE_BEST"}

Priority(h, p) == LowBits[h][p] + IF preferred[h][p] THEN PreferredBit ELSE 0

(* In the ByTxHash order (txhash, state, priority) the best CANDIDATE_READY *)
(* is the one followed by no other CANDIDATE_READY of its txhash.           *)
IsBestReady(h, row, p) ==
    /\ row[p] = "CANDIDATE_READY"
    /\ \A q \in Peers : row[q] = "CANDIDATE_READY" => Priority(h, q) <= Priority(h, p)

-----------------------------------------------------------------------------
(* Transformations of the announcements "row" of one txhash h *)

(* std::next of the new CANDIDATE_READY decides: nothing selected, a worse   *)
(* CANDIDATE_BEST, or (no change) a better one, a READY or a REQUESTED.      *)
PromoteCandidateReady(h, row, p) ==
    LET ready == [row EXCEPT ![p] = "CANDIDATE_READY"]
    IN  IF ~IsBestReady(h, ready, p) \/ \E q \in Peers : row[q] = "REQUESTED"
        THEN ready
        ELSE IF \E q \in Peers : row[q] = "CANDIDATE_BEST" /\ Priority(h, q) >= Priority(h, p)
        THEN ready
        ELSE [q \in Peers |-> IF q = p THEN "CANDIDATE_BEST"
                              ELSE IF row[q] = "CANDIDATE_BEST" THEN "CANDIDATE_READY"
                              ELSE row[q]]

(* std::prev of a selected announcement is the best CANDIDATE_READY, if any. *)
ChangeAndReselect(h, row, p, new_state) ==
    [q \in Peers |-> IF q = p THEN new_state
                     ELSE IF IsSelected(row[p]) /\ IsBestReady(h, row, q)
                     THEN "CANDIDATE_BEST"
                     ELSE row[q]]

\* Mutant: the predecessor in the ByTxHash order is not looked at.
IsOnlyNonCompletedMutant(row, p) ==
    \A q \in Peers \ {p} : row[q] \in {"COMPLETED", "ABSENT", "CANDIDATE_DELAYED"}

IsOnlyNonCompleted(row, p) ==
    \A q \in Peers \ {p} : row[q] \in {"COMPLETED", "ABSENT"}

MakeCompleted(h, row, p) ==
    IF row[p] = "COMPLETED" THEN row
    ELSE IF IsOnlyNonCompleted(row, p) THEN [q \in Peers |-> "ABSENT"]
    ELSE ChangeAndReselect(h, row, p, "COMPLETED")

\* Mutant: whatever was selected before is left as it is.
MarkRequestedMutant(row, p) == [row EXCEPT ![p] = "REQUESTED"]

(* A superfluous CANDIDATE_BEST steps back, a superseded REQUESTED completes. *)
MarkRequested(row, p) ==
    [q \in Peers |-> IF q = p THEN "REQUESTED"
                     ELSE IF row[q] = "CANDIDATE_BEST" THEN "CANDIDATE_READY"
                     ELSE IF row[q] = "REQUESTED" THEN "COMPLETED"
                     ELSE row[q]]

-----------------------------------------------------------------------------
(* Writing a row back, with the statistics Modify and Erase keep *)

Is(b) == IF b THEN 1 ELSE 0

\* Mutant: Erase and Modify do not take a REQUESTED off the count.
RecountMutant(info, old, new) ==
    LET total == info.m_total + Is(new # "ABSENT") - Is(old # "ABSENT")
    IN  [m_total |-> total,
         m_completed |-> info.m_completed + Is(new = "COMPLETED") - Is(old = "COMPLETED"),
         m_requested |-> info.m_requested + Is(new = "REQUESTED" /\ old # "REQUESTED")]

Recount(info, old, new) ==
    LET total == info.m_total + Is(new # "ABSENT") - Is(old # "ABSENT")
    IN  IF total = 0
        THEN [m_total |-> 0, m_completed |-> 0, m_requested |-> 0]
        ELSE [m_total |-> total,
              m_completed |-> info.m_completed + Is(new = "COMPLETED") - Is(old = "COMPLETED"),
              m_requested |-> info.m_requested + Is(new = "REQUESTED") - Is(old = "REQUESTED")]

Clear(f, row, none) == [p \in Peers |-> IF row[p] = "ABSENT" THEN none ELSE f[p]]

WriteRow(h, row) ==
    /\ state' = [state EXCEPT ![h] = row]
    /\ preferred' = [preferred EXCEPT ![h] = Clear(@, row, FALSE)]
    /\ m_peerinfo' = [p \in Peers |-> Recount(m_peerinfo[p], state[h][p], row[p])]

Store(h, row) ==
    /\ WriteRow(h, row)
    /\ time' = [time EXCEPT ![h] = Clear(@, row, 0)]

-----------------------------------------------------------------------------
(* Operations *)

ReceivedInv(p, h, pref, reqtime) ==
    /\ call = Idle
    /\ state[h][p] = "ABSENT"
    /\ state' = [state EXCEPT ![h][p] = "CANDIDATE_DELAYED"]
    /\ time' = [time EXCEPT ![h][p] = reqtime]
    /\ preferred' = [preferred EXCEPT ![h][p] = pref]
    /\ m_peerinfo' = [m_peerinfo EXCEPT ![p] = Recount(@, "ABSENT", "CANDIDATE_DELAYED")]
    /\ UNCHANGED call

GetRequestable(p, now) ==
    /\ call = Idle
    /\ call' = [op |-> "past", peer |-> p, now |-> now]
    /\ UNCHANGED tracker

(* ByTime starts with the waiting announcement of the earliest time. *)
EarliestWaiting(h, p) ==
    /\ IsWaiting(state[h][p])
    /\ \A g \in TxHashes, q \in Peers : IsWaiting(state[g][q]) => time[h][p] <= time[g][q]

Promote(h, p) ==
    /\ call.op = "past"
    /\ EarliestWaiting(h, p)
    /\ time[h][p] <= call.now
    /\ state[h][p] = "CANDIDATE_DELAYED"
    /\ Store(h, PromoteCandidateReady(h, state[h], p))
    /\ UNCHANGED call

Expire(h, p) ==
    /\ call.op = "past"
    /\ EarliestWaiting(h, p)
    /\ time[h][p] <= call.now
    /\ state[h][p] = "REQUESTED"
    /\ Store(h, MakeCompleted(h, state[h], p))
    /\ UNCHANGED call

\* Mutant: the loop stops at announcements due exactly now.
EndPastMutant ==
    /\ call.op = "past"
    /\ \A h \in TxHashes, p \in Peers : IsWaiting(state[h][p]) => time[h][p] >= call.now
    /\ call' = [op |-> "future", peer |-> call.peer, now |-> call.now]
    /\ UNCHANGED tracker

EndPast ==
    /\ call.op = "past"
    /\ \A h \in TxHashes, p \in Peers : IsWaiting(state[h][p]) => time[h][p] > call.now
    /\ call' = [op |-> "future", peer |-> call.peer, now |-> call.now]
    /\ UNCHANGED tracker

(* ByTime ends with the selectable announcement of the latest time. *)
LatestSelectable(h, p) ==
    /\ IsSelectable(state[h][p])
    /\ \A g \in TxHashes, q \in Peers : IsSelectable(state[g][q]) => time[g][q] <= time[h][p]

\* Mutant: a CANDIDATE_READY in the future stays as it is.
DemoteMutant(h, p) ==
    /\ call.op = "future"
    /\ LatestSelectable(h, p)
    /\ time[h][p] > call.now
    /\ Store(h, ChangeAndReselect(h, state[h], p, "CANDIDATE_READY"))
    /\ UNCHANGED call

Demote(h, p) ==
    /\ call.op = "future"
    /\ LatestSelectable(h, p)
    /\ time[h][p] > call.now
    /\ Store(h, ChangeAndReselect(h, state[h], p, "CANDIDATE_DELAYED"))
    /\ UNCHANGED call

(* What GetRequestable returns once SetTimePoint is done: the CANDIDATE_BEST *)
(* announcements of the peer (m_sequence, which orders them, is left out).    *)
Requestable(p) == {h \in TxHashes : state[h][p] = "CANDIDATE_BEST"}

SetTimePointDone ==
    /\ call.op = "future"
    /\ \A h \in TxHashes, p \in Peers : IsSelectable(state[h][p]) => time[h][p] <= call.now

ReturnRequestable ==
    /\ SetTimePointDone
    /\ call' = Idle
    /\ UNCHANGED tracker

\* Mutant: any announcement will do, also a COMPLETED one.
RequestedTxMutant(p, h, expiry) ==
    /\ call = Idle
    /\ state[h][p] # "ABSENT"
    /\ WriteRow(h, MarkRequested(state[h], p))
    /\ time' = [time EXCEPT ![h][p] = expiry]
    /\ UNCHANGED call

RequestedTx(p, h, expiry) ==
    /\ call = Idle
    /\ state[h][p] \in {"CANDIDATE_BEST", "CANDIDATE_DELAYED", "CANDIDATE_READY"}
    /\ WriteRow(h, MarkRequested(state[h], p))
    /\ time' = [time EXCEPT ![h][p] = expiry]
    /\ UNCHANGED call

ReceivedResponse(p, h) ==
    /\ call = Idle
    /\ state[h][p] # "ABSENT"
    /\ Store(h, MakeCompleted(h, state[h], p))
    /\ UNCHANGED call

ForgetTxHash(h) ==
    /\ call = Idle
    /\ Store(h, [p \in Peers |-> "ABSENT"])
    /\ UNCHANGED call

DisconnectedPeer(p) ==
    /\ call = Idle
    /\ call' = [op |-> "disconnect", peer |-> p]
    /\ UNCHANGED tracker

(* One iteration: complete the announcement, then erase what is left of it. *)
DropAnnouncement(h) ==
    /\ call.op = "disconnect"
    /\ state[h][call.peer] # "ABSENT"
    /\ Store(h, [MakeCompleted(h, state[h], call.peer) EXCEPT ![call.peer] = "ABSENT"])
    /\ UNCHANGED call

EndDisconnect ==
    /\ call.op = "disconnect"
    /\ \A h \in TxHashes : state[h][call.peer] = "ABSENT"
    /\ call' = Idle
    /\ UNCHANGED tracker

LoopStep ==
    \/ \E h \in TxHashes, p \in Peers : Promote(h, p) \/ Expire(h, p) \/ Demote(h, p)
    \/ EndPast
    \/ ReturnRequestable
    \/ \E h \in TxHashes : DropAnnouncement(h)
    \/ EndDisconnect

Next ==
    \/ \E p \in Peers, h \in TxHashes, pref \in BOOLEAN, reqtime \in Times :
         ReceivedInv(p, h, pref, reqtime)
    \/ \E p \in Peers, now \in Times : GetRequestable(p, now)
    \/ \E p \in Peers, h \in TxHashes, expiry \in Times : RequestedTx(p, h, expiry)
    \/ \E p \in Peers, h \in TxHashes : ReceivedResponse(p, h)
    \/ \E h \in TxHashes : ForgetTxHash(h)
    \/ \E p \in Peers : DisconnectedPeer(p)
    \/ LoopStep

(* The loops run in the caller's thread: once entered they keep going. *)
Spec == Init /\ [][Next]_vars /\ WF_vars(LoopStep)

-----------------------------------------------------------------------------
(* Properties *)

(* Announcements, statistics and the call under way have their types. *)
TypeOK ==
    /\ state \in [TxHashes -> [Peers -> State \cup {"ABSENT"}]]
    /\ time \in [TxHashes -> [Peers -> Int]]
    /\ preferred \in [TxHashes -> [Peers -> BOOLEAN]]
    /\ m_peerinfo \in [Peers -> PeerInfo]
    /\ call \in Calls

Holders(p, S) == {h \in TxHashes : state[h][p] \in S}

(* The cached statistics are those of the index: SanityCheck's              *)
(* "m_peerinfo == RecomputePeerInfo(m_index)".                              *)
PeerInfoExact ==
    \A p \in Peers : m_peerinfo[p] =
        [m_total |-> Cardinality(Holders(p, State)),
         m_completed |-> Cardinality(Holders(p, {"COMPLETED"})),
         m_requested |-> Cardinality(Holders(p, {"REQUESTED"}))]

(* SanityCheck: no txhash has only COMPLETED announcements. *)
NotOnlyCompleted ==
    \A h \in TxHashes :
        (\E p \in Peers : state[h][p] = "COMPLETED")
            => \E p \in Peers : state[h][p] \notin {"COMPLETED", "ABSENT"}

(* SanityCheck: at most one CANDIDATE_BEST or REQUESTED per txhash, so at   *)
(* most one outstanding request and never the same advice to two peers.     *)
AtMostOneSelected ==
    \A h \in TxHashes : \A p, q \in Peers :
        IsSelected(state[h][p]) /\ IsSelected(state[h][q]) => p = q

(* SanityCheck: a CANDIDATE_READY waits only behind a selected announcement. *)
ReadyBehindSelected ==
    \A h \in TxHashes :
        (\E p \in Peers : state[h][p] = "CANDIDATE_READY")
            => \E p \in Peers : IsSelected(state[h][p])

(* SanityCheck: CANDIDATE_BEST is at least as good as every CANDIDATE_READY. *)
BestIsBest ==
    \A h \in TxHashes : \A p, q \in Peers :
        state[h][p] = "CANDIDATE_BEST" /\ state[h][q] = "CANDIDATE_READY"
            => Priority(h, q) <= Priority(h, p)

(* The assertions of TxRequestTracker::Impl::SanityCheck on the index, after  *)
(* every iteration of every loop and not only between calls.                 *)
SanityCheck ==
    NotOnlyCompleted /\ AtMostOneSelected /\ ReadyBehindSelected /\ BestIsBest

(* PostGetRequestableSanityCheck, when SetTimePoint(now) is over: nothing    *)
(* that waits is due, although the second loop made announcements wait again *)
(* after the first had emptied the queue (that nothing selectable lies in    *)
(* the future is how the second loop ends).                                  *)
PostGetRequestableSanityCheck ==
    SetTimePointDone =>
        \A h \in TxHashes, p \in Peers :
            IsWaiting(state[h][p]) => time[h][p] > call.now

(* "The same transaction is never requested twice from the same peer, unless *)
(* the announcement was forgotten in between" (txrequest.h).                 *)
NeverRequestedTwice ==
    [][\A h \in TxHashes, p \in Peers :
         /\ state[h][p] = "COMPLETED" => state'[h][p] \in {"COMPLETED", "ABSENT"}
         /\ state[h][p] = "REQUESTED" => state'[h][p] \in {"REQUESTED", "COMPLETED", "ABSENT"}]_vars

(* An announcement that can still be tried is not lost by what happens to    *)
(* the other peers' announcements of its txhash: it goes with its own peer,  *)
(* by ForgetTxHash, or as the last usable one of its txhash.                 *)
NoCandidateLost ==
    [][\A h \in TxHashes, p \in Peers :
         state[h][p] \notin {"ABSENT", "COMPLETED"} /\ state'[h][p] = "ABSENT"
           => \/ call.op = "disconnect" /\ call.peer = p
              \/ ForgetTxHash(h)
              \/ \A q \in Peers \ {p} : state[h][q] \in {"ABSENT", "COMPLETED"}]_vars

(* SetTimePoint and DisconnectedPeer terminate. *)
CallsReturn == (call # Idle) ~> (call = Idle)
=============================================================================
