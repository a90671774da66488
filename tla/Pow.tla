-------------------------------- MODULE Pow --------------------------------
(***************************************************************************)
(* Per-block difficulty adjustment: GetNextWorkRequired (pow.cpp), the     *)
(* target spacing it aims at (consensus/params.h), and the headers that    *)
(* ContextualCheckBlockHeader (validation.cpp) admits to a chain.          *)
(*                                                                         *)
(* The chain is a sequence of headers; the header of height h is           *)
(* chain[h + 1].  A network without powSpacingRamps has the one ramp       *)
(* <<0, nPowTargetSpacing>>.                                               *)
(***************************************************************************)
EXTENDS ArithUint256, Sequences, FiniteSetsExt

CONSTANTS Window,         \* nPowAveragingWindow
          PowLimit,       \* powLimit
          Ramps,          \* powSpacingRamps: pairs of a height and a spacing
          NoRetargeting,  \* fPowNoRetargeting
          MedianSpan,     \* nMedianTimeSpan
          FactorRange,    \* 2^32 in the code: the values of uint32_t
          Steps,          \* bound: time from a header to its successor
          MaxLength       \* bound: headers in the chain

ASSUME PowAssumption ==
  /\ Window \in Nat \ {0} /\ MedianSpan \in Nat \ {0} /\ MaxLength \in Nat
  /\ FactorRange \in Nat \ {0}
  /\ PowLimit \in 1..(Width - 1)
  /\ Ramps \in Seq(Nat \X (Nat \ {0})) /\ Ramps # <<>>
  /\ \A i \in 2..Len(Ramps) : Ramps[i - 1][1] < Ramps[i][1]
  /\ NoRetargeting \in BOOLEAN
  /\ Steps \subseteq Int

VARIABLE chain

(* Conversion of a double to an integer drops the fraction. *)
Truncated(a, b) == IF a < 0 THEN -((-a) \div b) ELSE a \div b

GetTargetSpacing(height) ==
  LET stages == {i \in DOMAIN Ramps : height <= Ramps[i][1]}
      i == Min(stages)
      h1 == Ramps[i - 1][1]
      s1 == Ramps[i - 1][2]
  IN  IF 1 \in stages THEN Ramps[1][2]
      ELSE IF stages = {} THEN Ramps[Len(Ramps)][2]
      ELSE s1 + Truncated((Ramps[i][2] - s1) * (height - h1), Ramps[i][1] - h1)

ClampMutant(n, lo, hi) == IF n < lo THEN lo ELSE n
Clamp(n, lo, hi) == IF n < lo THEN lo ELSE IF n > hi THEN hi ELSE n

(* The i-th block back from the end of c, counted from 1, and its height.  *)
Back(c, i) == c[Len(c) - i + 1]
HeightBack(c, i) == Len(c) - i

SolveTime(c, i) ==
  LET T == GetTargetSpacing(HeightBack(c, i))
  IN  Clamp(Back(c, i).time - Back(c, i + 1).time, -6 * T, 6 * T)

WeightedTimes(c) == MapThenSumSet(LAMBDA i : SolveTime(c, i) * i, 1..Window)

TotalWeightMutant(c) ==
  MapThenSumSet(LAMBDA i : i * GetTargetSpacing(Len(c)), 1..Window)
TotalWeight(c) ==
  MapThenSumSet(LAMBDA i : i * GetTargetSpacing(HeightBack(c, i)), 1..Window)

AvgTarget(c) ==
  Wrap(MapThenSumSet(LAMBDA i : SetCompact(Back(c, i).bits), 1..Window)) \div Window

(* The factor of the average target, cast to 32 bits. *)
FactorMutant(c) ==
  (IF WeightedTimes(c) < 0 THEN -WeightedTimes(c) ELSE WeightedTimes(c)) % FactorRange
Factor(c) == Max({WeightedTimes(c), 1}) % FactorRange

(* What the loop and the lines after it compute, before the limit. *)
NextTarget(c) == Wrap(AvgTarget(c) * Factor(c)) \div TotalWeight(c)

GetNextWorkRequiredMutant(c) ==
  IF Len(c) <= Window THEN GetCompact(PowLimit) ELSE GetCompact(NextTarget(c))

GetNextWorkRequired(c) ==
  IF NoRetargeting THEN c[Len(c)].bits
  ELSE IF Len(c) <= Window THEN GetCompact(PowLimit)
  ELSE GetCompact(Min({NextTarget(c), PowLimit}))

(* The target of nBits is valid: DeriveTarget returns a value. *)
TargetIsValid(bits) ==
  ~Negative(bits) /\ SetCompact(bits) \in 1..PowLimit /\ ~Overflow(bits)

(* SetCompact's second argument is its sign flag: the overflow of either   *)
(* target is not looked at.                                                *)
PermittedDifficultyTransition(height, oldBits, newBits) ==
  \/ height < 1
  \/ /\ ~Negative(oldBits) /\ ~Negative(newBits)
     /\ SetCompact(oldBits) # 0 /\ SetCompact(newBits) # 0
     /\ SetCompact(newBits) <= Wrap(SetCompact(oldBits) * 4)
     /\ SetCompact(oldBits) <= Wrap(SetCompact(newBits) * 4)

(* The middle of the sorted times of the last headers, the later of the    *)
(* two when their number is even.                                          *)
GetMedianTimePast(c) ==
  LET span == (Max({1, Len(c) - MedianSpan + 1}))..Len(c)
      before(i) == {j \in span : \/ c[j].time < c[i].time
                                 \/ c[j].time = c[i].time /\ j < i}
      median == CHOOSE i \in span : Cardinality(before(i)) = Cardinality(span) \div 2
  IN  c[median].time

Init == chain = << [time |-> 0, bits |-> GetCompact(PowLimit)] >>

(* A header that ContextualCheckBlockHeader and CheckProofOfWork accept:   *)
(* nBits is the required one, its target can be met by some hash, and the  *)
(* time is after the median of the last headers.                           *)
AcceptHeader(step) ==
  LET bits == GetNextWorkRequired(chain)
      time == chain[Len(chain)].time + step
  IN  /\ Len(chain) < MaxLength
      /\ ~Negative(bits) /\ SetCompact(bits) # 0 /\ ~Overflow(bits)
      /\ time > GetMedianTimePast(chain)
      /\ chain' = Append(chain, [time |-> time, bits |-> bits])

Next == \E step \in Steps : AcceptHeader(step)

Spec == Init /\ [][Next]_chain
-----------------------------------------------------------------------------
(* A chain of headers whose nBits fit the size and word of the encoding. *)
TypeOK == chain \in Seq([time : Int, bits : Compact])

Retargeted == Len(chain) > Window

Required == SetCompact(GetNextWorkRequired(chain))

(* The greatest number of the form w * Base^e, w below the sign bit, that  *)
(* does not exceed m.                                                      *)
RoundedDown(m) ==
  LET e == CHOOSE d \in 0..Digits :
             /\ m \div Base ^ d < SignBit
             /\ d > 0 => m \div Base ^ (d - 1) >= SignBit
  IN  (m \div Base ^ e) * Base ^ e

(* The nBits made of a computed target have no sign and no overflow, and   *)
(* decode to the target rounded down to the word's precision: what a       *)
(* header commits to is at least as hard as what was computed, by less     *)
(* than one unit of its last digit.                                        *)
CompactRoundsDown ==
  Retargeted => \A n \in {AvgTarget(chain), NextTarget(chain)} :
     LET bits == GetCompact(n)
     IN  /\ ~Negative(bits) /\ ~Overflow(bits)
         /\ SetCompact(bits) = RoundedDown(n)

(* A chain that GetNextWorkRequired produced never asks for a target that  *)
(* DeriveTarget would refuse as too easy, negative or overflowing, even at *)
(* the first retarget and after any timestamps the median rule admits.     *)
LimitIsKept == \A i \in DOMAIN chain : TargetIsValid(chain[i].bits)

(* One block can ease the target to at most six times the window's         *)
(* average, however late or early its timestamps are.                     *)
EasingIsBounded == Retargeted => Required <= 6 * AvgTarget(chain)

(* When every block of the window took exactly its target spacing, also    *)
(* across a ramp, the next target is the window's average, for a limit so  *)
(* small that the product with the weighted times does not wrap.           *)
OnScheduleKeepsTarget ==
  (Retargeted /\ \A i \in 1..Window :
     Back(chain, i).time - Back(chain, i + 1).time = GetTargetSpacing(HeightBack(chain, i)))
  => GetNextWorkRequired(chain) = GetCompact(AvgTarget(chain))

(* A later timestamp on the last header never makes the next block harder: *)
(* difficulty answers slow blocks in one direction only.  This too is for  *)
(* a limit that leaves room for the product; where it wraps, as with the   *)
(* limit of the main network, slower blocks can be much harder.            *)
Delayed(d) == [chain EXCEPT ![Len(chain)].time = @ + d]
SlowerIsNeverHarder ==
  Retargeted => \A d \in Steps \cap Nat :
     SetCompact(GetNextWorkRequired(Delayed(d))) >= Required

(* The formula of doc/pow.md, next_target = (avg_target * weighted_times)  *)
(* / k, over the integers.                                                 *)
NextTargetIsFormula ==
  Retargeted => GetNextWorkRequired(chain) =
     GetCompact(Min({(AvgTarget(chain) * Max({WeightedTimes(chain), 1}))
                       \div TotalWeight(chain), PowLimit}))

(* Every step of a chain that follows GetNextWorkRequired is one that      *)
(* PermittedDifficultyTransition, and with it headers pre-synchronisation, *)
(* admits.                                                                 *)
RequiredIsPermitted ==
  \A i \in 2..Len(chain) :
     PermittedDifficultyTransition(i - 1, chain[i - 1].bits, chain[i].bits)
=============================================================================
