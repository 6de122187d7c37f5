------------------------------ MODULE BitWords ------------------------------
(***************************************************************************)
(* The fixed-width integers of the two cores.  A machine word is the set   *)
(* of the positions of its one bits, so that the masks, shifts and casts   *)
(* of the C code are operators on sets, its sums and comparisons the       *)
(* carries of an adder; Natural and Pattern go to numbers and back, for    *)
(* what only numbers say: products, quotients and shift counts.  A byte    *)
(* has ByteBits bits, a word four bytes, a doubleword eight; ShiftBits     *)
(* bits count the bits of a word, one more those of a doubleword.          *)
(***************************************************************************)
EXTENDS Integers, FiniteSetsExt

CONSTANTS ByteBits, ShiftBits
ASSUME ByteBitsAssumption == ByteBits \in Nat \ {0}

HalfBits == 2 * ByteBits
WordBits == 4 * ByteBits
DwordBits == 8 * ByteBits

Bits(n) == 0 .. n - 1
Byte == SUBSET Bits(ByteBits)
Half == SUBSET Bits(HalfBits)
Word == SUBSET Bits(WordBits)
Dword == SUBSET Bits(DwordBits)

(* Casts: to an unsigned type of n bits, and through a signed type of n bits
   to 64 bits. *)
Low(x, n) == x \cap Bits(n)
SignBits(x, n) == IF n - 1 \in x THEN n .. DwordBits - 1 ELSE {}
Extend(x, n) == Low(x, n) \cup SignBits(x, n)
SignExtended(x) == x = Extend(x, WordBits)

(* Bitwise operators; the shifts keep n bits. *)
Complement(x, n) == Bits(n) \ x
Xor(x, y) == (x \ y) \cup (y \ x)
ShiftLeft(x, k, n) == {b \in Bits(n) : b - k \in x}
ShiftRight(x, k) == {b \in Bits(DwordBits) : b + k \in x}
ShiftRightSigned(x, k, n) ==
  {b \in Bits(n) : IF b + k < n THEN b + k \in x ELSE n - 1 \in x}

(* Sums, differences and comparisons of n bits: the carry into bit b of the
   sum, and the borrow into bit n of the difference, which says that the low n
   bits of x are less than those of y. *)
Carry(x, y, b) ==
  \E j \in Bits(b) : j \in x \cap y /\ \A k \in j + 1 .. b - 1 : k \in x \cup y
Less(x, y, n) ==
  \E j \in Bits(n) : j \in y \ x /\ \A k \in j + 1 .. n - 1 : k \in x => k \in y
LessSigned(x, y, n) == Less(Xor(x, {n - 1}), Xor(y, {n - 1}), n)
Plus(x, y, n) == {b \in Bits(n) : b \in Xor(x, y) <=> ~Carry(x, y, b)}
Minus(x, y, n) == {b \in Bits(n) : b \in Xor(x, y) <=> ~Less(x, y, b)}
Boolean(p) == IF p THEN {0} ELSE {}

(* Numbers. *)
Natural == [x \in Dword |-> MapThenSumSet(LAMBDA b : 2 ^ b, x)]
Signed(x, n) == Natural[Low(x, n)] - (IF n - 1 \in x THEN 2 ^ n ELSE 0)
Pattern(v, n) == {b \in Bits(n) : (v \div 2 ^ b) % 2 = 1}

(* The shift counts that the low bits of a register give. *)
ASSUME ShiftAssumption ==
  /\ ShiftBits \in Bits(WordBits)
  /\ \A x \in SUBSET Bits(ShiftBits) : Natural[x] \in Bits(WordBits)

(* Division of C: towards zero. *)
Quotient(a, b) ==
  LET q == (IF a < 0 THEN -a ELSE a) \div (IF b < 0 THEN -b ELSE b)
  IN IF (a < 0) = (b < 0) THEN q ELSE -q
Remainder(a, b) == a - b * Quotient(a, b)
=============================================================================
