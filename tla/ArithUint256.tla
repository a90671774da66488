---------------------------- MODULE ArithUint256 ----------------------------
(***************************************************************************)
(* The compact encoding of 256-bit proof-of-work targets (nBits), from     *)
(* arith_uint256.cpp.  A number of Digits digits in base Base has a size   *)
(* and a three-digit word whose leading bit is a sign.  The program has    *)
(* Base = 256 and Digits = 32; the encoding is the same in any even base,  *)
(* so a small one is checked exhaustively.                                 *)
(***************************************************************************)
EXTENDS Integers

CONSTANTS Base, Digits

ASSUME WidthAssumption ==
  /\ Base \in Nat /\ Base > 2 /\ Base % 2 = 0
  /\ Digits \in Nat /\ Digits > 3

(* Arithmetic on arith_uint256 wraps. *)
Width == Base ^ Digits
Wrap(n) == n % Width

(* The word without its sign bit is below this value (0x00800000). *)
SignBit == Base ^ 3 \div 2

Compact == [size : 0..(Digits + 4), word : 0..(Base ^ 3 - 1)]

(* The word that SetCompact shifts into place. *)
Word(bits) ==
  LET word == bits.word % SignBit
  IN  IF bits.size <= 3 THEN word \div Base ^ (3 - bits.size) ELSE word

SetCompact(bits) ==
  IF bits.size <= 3 THEN Word(bits) ELSE Wrap(Word(bits) * Base ^ (bits.size - 3))

Negative(bits) == Word(bits) # 0 /\ bits.word >= SignBit

Overflow(bits) ==
  /\ Word(bits) # 0
  /\ \/ bits.size > Digits + 2
     \/ bits.size > Digits + 1 /\ Word(bits) > Base - 1
     \/ bits.size > Digits /\ Word(bits) > Base ^ 2 - 1

(* The number of digits of n. *)
SizeOf(n) == CHOOSE s \in 0..Digits : n < Base ^ s /\ (s > 0 => n >= Base ^ (s - 1))

(* Mutant: the word is not shifted down. *)
GetCompactUnshifted(n) ==
  LET size == SizeOf(n)
  IN  [size |-> size, word |-> IF size <= 3 THEN n * Base ^ (3 - size) ELSE n]

(* Mutant: a word that is just the sign bit is left as it is. *)
GetCompactMutant(n) ==
  LET size == SizeOf(n)
      word == IF size <= 3 THEN n * Base ^ (3 - size) ELSE n \div Base ^ (size - 3)
  IN  IF word > SignBit
      THEN [size |-> size + 1, word |-> word \div Base]
      ELSE [size |-> size, word |-> word]

GetCompact(n) ==
  LET size == SizeOf(n)
      word == IF size <= 3 THEN n * Base ^ (3 - size) ELSE n \div Base ^ (size - 3)
  IN  IF word >= SignBit
      THEN [size |-> size + 1, word |-> word \div Base]
      ELSE [size |-> size, word |-> word]
=============================================================================
