--------------------------- MODULE LockstepProofs ---------------------------
(***************************************************************************)
(* The properties of Lockstep, for every width of byte, guest and memory.  *)
(* A register is a set of bits, and the proofs follow bits: first what     *)
(* each function of the VR4300 does to the bits from the sign of the low   *)
(* word up, which is why a guest of 32-bit instructions keeps its          *)
(* registers narrow; then, for narrow registers, that the low word of each *)
(* result is what the interpreter computes, by the carries of the adder    *)
(* (a 64-bit carry below bit 32 is the 32-bit one), and that each bus      *)
(* request reads and writes the bytes of the interpreter's access; then    *)
(* the two data paths of the VR4300, and the bytes that the pairs of       *)
(* partial loads and stores move.  A product or quotient plays no part     *)
(* beyond being a function of the low words.                               *)
(***************************************************************************)
EXTENDS Lockstep, TLAPS, WellFoundedInduction

(* The widths, in order. *)
LEMMA Widths ==
  /\ ByteBits \in Nat /\ ByteBits >= 1
  /\ HalfBits = 2 * ByteBits /\ WordBits = 4 * ByteBits /\ DwordBits = 8 * ByteBits
  BY ByteBitsAssumption DEF HalfBits, WordBits, DwordBits

(* A doubleword is the extension of its low word when the bits from the sign
   of the word up are equal. *)
Uniform(x) == \A b \in WordBits .. DwordBits - 1 : b \in x <=> WordBits - 1 \in x

LEMMA NarrowIsUniform ==
  ASSUME NEW x \in Dword
  PROVE  SignExtended(x) <=> Uniform(x)
<1> DEFINE Wb == WordBits
           D == DwordBits
<1>1. Wb \in Nat /\ D \in Nat /\ Wb < D /\ Wb >= 4
  BY Widths
<1>2. x \subseteq 0 .. D - 1
  BY DEF Dword, Bits
<1>3. Extend(x, Wb) = (x \cap (0 .. Wb - 1)) \cup (IF Wb - 1 \in x THEN Wb .. D - 1 ELSE {})
  BY DEF Extend, Low, SignBits, Bits
<1>4. SignExtended(x) <=> x = Extend(x, Wb)
  BY DEF SignExtended
<1>5. Uniform(x) <=> \A b \in Wb .. D - 1 : b \in x <=> Wb - 1 \in x
  BY DEF Uniform
<1> HIDE DEF Wb, D
<1>6. ASSUME x = Extend(x, Wb) PROVE \A b \in Wb .. D - 1 : b \in x <=> Wb - 1 \in x
  BY <1>1, <1>2, <1>3, <1>6
<1>7. ASSUME \A b \in Wb .. D - 1 : b \in x <=> Wb - 1 \in x PROVE x = Extend(x, Wb)
  <2>1. \A b : b \in x <=> b \in Extend(x, Wb)
    <3> TAKE b
    <3>1. CASE b \in 0 .. Wb - 1
      BY <3>1, <1>1, <1>3
    <3>2. CASE b \in Wb .. D - 1
      <4>1. b \notin 0 .. Wb - 1
        BY <3>2, <1>1
      <4>2. b \in x <=> Wb - 1 \in x
        BY <3>2, <1>7
      <4> QED BY <3>2, <4>1, <4>2, <1>3
    <3>3. CASE b \notin 0 .. D - 1
      <4>1. b \notin 0 .. Wb - 1 /\ b \notin Wb .. D - 1
        BY <3>3, <1>1
      <4> QED BY <3>3, <4>1, <1>2, <1>3
    <3> QED BY <3>1, <3>2, <3>3, <1>1
  <2> QED BY <2>1
<1> QED BY <1>4, <1>5, <1>6, <1>7

LEMMA ExtendIsNarrow ==
  ASSUME NEW x
  PROVE  Extend(x, WordBits) \in Dword /\ SignExtended(Extend(x, WordBits))
  BY Widths DEF SignExtended, Extend, Low, SignBits, Bits, Dword

LEMMA PatternIsDword ==
  ASSUME NEW v
  PROVE  Pattern(v, DwordBits) \in Dword
  BY DEF Pattern, Dword

LEMMA PlusIsDword ==
  ASSUME NEW x, NEW y
  PROVE  Plus(x, y, DwordBits) \in Dword /\ Minus(x, y, DwordBits) \in Dword
  BY DEF Plus, Minus, Dword

LEMMA EmptyIsNarrow == {} \in Dword /\ SignExtended({})
  BY Widths DEF SignExtended, Extend, Low, SignBits, Bits, Dword

LEMMA BooleanIsNarrow ==
  ASSUME NEW p
  PROVE  Boolean(p) \in Dword /\ SignExtended(Boolean(p))
<1>1. Boolean(p) \subseteq {0}
  BY DEF Boolean
<1>2. Boolean(p) \in Dword
  BY <1>1, Widths DEF Dword, Bits
<1>3. Uniform(Boolean(p))
  BY <1>1, Widths DEF Uniform
<1> QED BY <1>2, <1>3, NarrowIsUniform

---------------------------------------------------------------------------
(* Logic. *)
LEMMA BitwiseIsNarrow ==
  ASSUME NEW i, NEW x \in Dword, NEW y \in Dword, SignExtended(x), SignExtended(y)
  PROVE  Bitwise(i, x, y) \in Dword /\ SignExtended(Bitwise(i, x, y))
<1>1. Uniform(x) /\ Uniform(y)
  BY NarrowIsUniform
<1>2. Bitwise(i, x, y) \in Dword
  BY DEF Bitwise, Xor, Dword
<1>3. Uniform(Bitwise(i, x, y))
  BY <1>1 DEF Uniform, Bitwise, Xor
<1> QED BY <1>2, <1>3, NarrowIsUniform

LEMMA NorIsNarrow ==
  ASSUME NEW x \in Dword, NEW y \in Dword, SignExtended(x), SignExtended(y)
  PROVE  NOR(x, y) \in Dword /\ SignExtended(NOR(x, y))
<1>1. Uniform(x) /\ Uniform(y)
  BY NarrowIsUniform
<1>2. NOR(x, y) \in Dword
  BY DEF NOR, Complement, Dword
<1>3. Uniform(NOR(x, y))
  <2> SUFFICES ASSUME NEW b \in WordBits .. DwordBits - 1
               PROVE  b \in NOR(x, y) <=> WordBits - 1 \in NOR(x, y)
    BY DEF Uniform
  <2>1. b \in Bits(DwordBits) /\ WordBits - 1 \in Bits(DwordBits)
    BY Widths DEF Bits
  <2>2. (b \in x <=> WordBits - 1 \in x) /\ (b \in y <=> WordBits - 1 \in y)
    BY <1>1 DEF Uniform
  <2> QED BY <2>1, <2>2 DEF NOR, Complement
<1> QED BY <1>2, <1>3, NarrowIsUniform

(* An immediate, extended with zeros or with its sign. *)
LEMMA HalfIsNarrow ==
  ASSUME NEW x \in Half
  PROVE  x \in Dword /\ SignExtended(x)
<1>1. x \in Dword
  BY Widths DEF Half, Dword, Bits
<1>2. Uniform(x)
  BY Widths DEF Half, Bits, Uniform
<1> QED BY <1>1, <1>2, NarrowIsUniform

(* Every integer function leaves the extension of a word. *)
LEMMA ResultIsNarrow ==
  ASSUME NEW i \in Instruction, NEW rs \in Dword, NEW rt \in Dword,
         SignExtended(rs), SignExtended(rt),
         i.op \in ThreeRegisterOps \cup ShiftOps \cup ImmediateOps
  PROVE  VrResult(i, rs, rt) \in Dword /\ SignExtended(VrResult(i, rs, rt))
<1> DEFINE Good(v) == v \in Dword /\ SignExtended(v)
<1>1. \A x : Good(Extend(x, WordBits))
  BY ExtendIsNarrow
<1>2. Good(AND_OR_XOR(i, rs, rt)) /\ Good(NOR(rs, rt))
  BY BitwiseIsNarrow, NorIsNarrow DEF AND_OR_XOR
<1>3. Good(ANDI_ORI_XORI(i, rs))
  <2>1. i.imm \in Half
    BY DEF Instruction
  <2>2. i.imm \in Dword /\ SignExtended(i.imm)
    BY <2>1, HalfIsNarrow
  <2> QED BY <2>2, BitwiseIsNarrow DEF ANDI_ORI_XORI
<1>4. \A p : Good(Boolean(p))
  BY BooleanIsNarrow
<1>5. Good(SLT(rs, rt)) /\ Good(SLTU(rs, rt)) /\ Good(SLTI(i, rs)) /\ Good(SLTIU(i, rs))
  BY <1>4 DEF SLT, SLTU, SLTI, SLTIU
<1>6. /\ Good(ADD_SUB(i, rs, rt)) /\ Good(ADDU_SUBU(i, rs, rt))
      /\ Good(ADDI_SUBI(i, rs)) /\ Good(ADDIU_LUI_SUBIU(i, rs))
  BY <1>1 DEF ADD_SUB, ADDU_SUBU, ADDI_SUBI, ADDIU_LUI_SUBIU
<1>7. /\ Good(SLL_SLLV(i, rs, rt)) /\ Good(SRA(i, rt)) /\ Good(SRAV(rs, rt))
      /\ Good(SRL(i, rt)) /\ Good(SRLV(rs, rt))
  BY <1>1 DEF SLL_SLLV, SRA, SRAV, Sra, SRL, SRLV, Srl
<1> HIDE DEF Good
<1>8. Good(VrResult(i, rs, rt))
  BY <1>2, <1>3, <1>5, <1>6, <1>7
     DEF VrResult, Is, ThreeRegisterOps, ShiftOps, ImmediateOps
<1> QED BY <1>8 DEF Good

(* HI and LO: truncated products, quotients and remainders, or what was there. *)
LEMMA HiLoIsNarrow ==
  ASSUME NEW i, NEW rs, NEW rt, NEW c,
         c.lo \in Dword, SignExtended(c.lo), c.hi \in Dword, SignExtended(c.hi)
  PROVE  \A p \in {MULT_MULTU(i, rs, rt), DIV_DIVU(i, rs, rt, c)} :
           /\ p.lo \in Dword /\ SignExtended(p.lo)
           /\ p.hi \in Dword /\ SignExtended(p.hi)
<1> DEFINE Good(v) == v \in Dword /\ SignExtended(v)
           GoodPair(p) == Good(p.lo) /\ Good(p.hi)
<1>1. \A x : Good(Extend(x, WordBits))
  BY ExtendIsNarrow
<1>2. Good(c.lo) /\ Good(c.hi)
  OBVIOUS
<1> HIDE DEF Good
<1>3. GoodPair(MULT_MULTU(i, rs, rt))
  BY <1>1 DEF MULT_MULTU
<1>4. GoodPair(DIV_DIVU(i, rs, rt, c))
  BY <1>1, <1>2 DEF DIV_DIVU
<1> QED BY <1>3, <1>4 DEF Good

---------------------------------------------------------------------------
(* Memory.  The bits that the sign of a word is copied to, with the sign. *)
Upper == WordBits - 1 .. DwordBits - 1

(* A shift right by at least a word leaves its sign in all of them. *)
LEMMA ShiftedSign ==
  ASSUME NEW s, NEW k \in Int, k >= WordBits, NEW b \in Upper
  PROVE  b \in ShiftRightSigned(s, k, DwordBits) <=> DwordBits - 1 \in s
<1>1. b \in Bits(DwordBits)
  BY Widths DEF Upper, Bits
<1>2. b + k < DwordBits => b + k = DwordBits - 1
  BY Widths DEF Upper
<1> QED BY <1>1, <1>2 DEF ShiftRightSigned

(* What is loaded is merged into a result by a mask that takes all of the
   upper bits from one of the two. *)
LEMMA MergeIsNarrow ==
  ASSUME NEW r \in Dword, NEW s, NEW k \in Int, k >= WordBits, NEW mask,
         \/ Upper \subseteq mask /\ Upper \cap r = {}
         \/ Upper \cap mask = {} /\ Uniform(r)
  PROVE  LET v == r \cup (ShiftRightSigned(s, k, DwordBits) \cap mask)
         IN v \in Dword /\ SignExtended(v)
<1> DEFINE t == ShiftRightSigned(s, k, DwordBits)
           v == r \cup (t \cap mask)
<1>1. t \in Dword
  BY DEF ShiftRightSigned, Dword
<1>2. v \in Dword
  BY <1>1 DEF Dword
<1>3. \A b \in Upper : b \in t <=> DwordBits - 1 \in s
  BY ShiftedSign
<1>4. WordBits - 1 \in Upper /\ WordBits .. DwordBits - 1 \subseteq Upper
  BY Widths DEF Upper
<1> HIDE DEF t
<1>5. Uniform(v)
  <2> SUFFICES ASSUME NEW b \in WordBits .. DwordBits - 1
               PROVE  b \in v <=> WordBits - 1 \in v
    BY DEF Uniform
  <2>1. b \in Upper
    BY <1>4
  <2>2. CASE Upper \subseteq mask /\ Upper \cap r = {}
    BY <2>1, <2>2, <1>3, <1>4
  <2>3. CASE Upper \cap mask = {} /\ Uniform(r)
    BY <2>1, <2>3, <1>4 DEF Uniform
  <2> QED BY <2>2, <2>3
<1> HIDE DEF v
<1>6. v \in Dword /\ SignExtended(v)
  BY <1>2, <1>5, NarrowIsUniform
<1> QED BY <1>6 DEF v, t

LEMMA OffsetInWord4 ==
  ASSUME NEW x
  PROVE  Offset(x, 4) \in 0 .. 3
<1> DEFINE n == (IF 2 \in x THEN 4 ELSE 0) + (IF 1 \in x THEN 2 ELSE 0)
                   + (IF 0 \in x THEN 1 ELSE 0)
<1>1. n \in 0 .. 7
  OBVIOUS
<1>2. Offset(x, 4) = n % 4
  BY DEF Offset
<1> HIDE DEF n
<1> QED BY <1>1, <1>2

(* The masks of the loads. *)
LEMMA Masks ==
  /\ Upper \subseteq Ones(8)
  /\ \A n \in 0 .. 3 : Upper \cap Ones(n) = {} /\ Upper \subseteq Up(Ones(8), n)
  /\ \A n \in 0 .. 8 : Ones(n) \in Dword
<1>1. ASSUME NEW n \in 0 .. 3
      PROVE  Upper \cap Ones(n) = {} /\ Upper \subseteq Up(Ones(8), n)
  <2>1. CASE n = 0
    BY <2>1, Widths DEF Upper, Ones, Up, Bits, ShiftLeft
  <2>2. CASE n = 1
    BY <2>2, Widths DEF Upper, Ones, Up, Bits, ShiftLeft
  <2>3. CASE n = 2
    BY <2>3, Widths DEF Upper, Ones, Up, Bits, ShiftLeft
  <2>4. CASE n = 3
    BY <2>4, Widths DEF Upper, Ones, Up, Bits, ShiftLeft
  <2> QED BY <2>1, <2>2, <2>3, <2>4
<1>2. ASSUME NEW n \in 0 .. 8
      PROVE  Ones(n) \in Dword
  <2>1. n * ByteBits <= 8 * ByteBits /\ n * ByteBits \in Int
    BY Widths
  <2> QED BY <2>1, Widths DEF Ones, Bits, Dword
<1>3. Upper \subseteq Ones(8)
  BY Widths DEF Upper, Ones, Bits
<1> QED BY <1>1, <1>2, <1>3

(* What the bus path gives a request for at most a word. *)
LEMMA BusReadIsNarrow ==
  ASSUME NEW q, NEW m, q.wide = FALSE, q.size \in 1 .. 4, q.result \in Dword,
         \/ Upper \subseteq q.data /\ Upper \cap q.result = {}
         \/ Upper \cap q.data = {} /\ Uniform(q.result)
  PROVE  BusRead(q, m) \in Dword /\ SignExtended(BusRead(q, m))
<1> DEFINE s == Up(m[WordOf(q.vaddr)], Offset(q.vaddr, 4) + 4)
           k == (8 - q.size) * ByteBits
<1>1. BusRead(q, m) = q.result \cup (ShiftRightSigned(s, k, DwordBits) \cap q.data)
  BY DEF BusRead
<1>2. k \in Int /\ k >= WordBits
  <2>1. CASE q.size = 1
    BY <2>1, Widths
  <2>2. CASE q.size = 2
    BY <2>2, Widths
  <2>3. CASE q.size = 3
    BY <2>3, Widths
  <2>4. CASE q.size = 4
    BY <2>4, Widths
  <2> QED BY <2>1, <2>2, <2>3, <2>4
<1> DEFINE v == q.result \cup (ShiftRightSigned(s, k, DwordBits) \cap q.data)
<1> HIDE DEF s, k
<1>3. v \in Dword /\ SignExtended(v)
  BY <1>2, MergeIsNarrow
<1> QED BY <1>1, <1>3

LEMMA LoadIsNarrow ==
  ASSUME NEW i, NEW rs \in Dword, NEW rt \in Dword,
         SignExtended(rt), NEW m, i.op \in LoadOps \cup {"lwl", "lwr", "ll"}
  PROVE  /\ BusRead(VrRequest(i, rs, rt), m) \in Dword
         /\ SignExtended(BusRead(VrRequest(i, rs, rt), m))
<1> DEFINE q == VrRequest(i, rs, rt)
           Fits(p) == /\ p.wide = FALSE /\ p.size \in 1 .. 4 /\ p.result \in Dword
                      /\ \/ Upper \subseteq p.data /\ Upper \cap p.result = {}
                         \/ Upper \cap p.data = {} /\ Uniform(p.result)
           n == Offset(Address(i, rs), 4)
<1>1. {} \in Dword /\ Uniform({})
  BY DEF Dword, Uniform
<1>2. n \in 0 .. 3
  BY OffsetInWord4
<1>3. Uniform(rt)
  BY NarrowIsUniform
<1>4. \A x : rt \ x \in Dword
  BY DEF Dword
<1>5. ASSUME i.op \in LoadOps PROVE Fits(q)
  <2>1. q = LOAD_STORE(i, rs, rt) /\ ~Is(i, {"sb", "sh", "sw"})
    BY <1>5 DEF VrRequest, Is, LoadOps, StoreOps, LinkedOps
  <2>2. /\ RequestSize(i) \in {1, 2, 4}
        /\ Is(i, {"lbu", "lhu", "lwu"}) => RequestSize(i) \in 1 .. 2
    BY <1>5 DEF RequestSize, Is, LoadOps
  <2>3. /\ q.wide = FALSE /\ q.size = RequestSize(i) /\ q.result = {}
        /\ q.data = IF Is(i, {"lbu", "lhu", "lwu"}) THEN Ones(RequestSize(i)) ELSE Ones(8)
    BY <2>1 DEF LOAD_STORE, Read
  <2> HIDE DEF q
  <2>4. CASE Is(i, {"lbu", "lhu", "lwu"})
    <3>1. Upper \cap q.data = {}
      BY <2>2, <2>3, <2>4, Masks
    <3> QED BY <3>1, <2>2, <2>3, <1>1
  <2>5. CASE ~Is(i, {"lbu", "lhu", "lwu"})
    <3>1. Upper \subseteq q.data
      BY <2>3, <2>5, Masks
    <3> QED BY <3>1, <2>2, <2>3, <1>1
  <2> QED BY <2>4, <2>5
<1>6. ASSUME i.op = "ll" PROVE Fits(q)
  <2>1. q = LL_SC(i, rs)
    BY <1>6 DEF VrRequest, Is, LinkedOps, LoadOps, StoreOps
  <2>2. q.wide = FALSE /\ q.size = 4 /\ q.result = {} /\ q.data = {}
    BY <1>6, <2>1 DEF LL_SC, Read
  <2> HIDE DEF q
  <2> QED BY <2>2, <1>1
<1>7. ASSUME i.op = "lwl" PROVE Fits(q)
  <2>1. q = LWL_LWR(i, rs, rt)
    BY <1>7 DEF VrRequest, Is, LinkedOps, LoadOps, StoreOps
  <2>2. q.wide = FALSE /\ q.size = 4 /\ q.data = Up(Ones(8), n)
        /\ q.result = rt \ q.data
    BY <1>7, <2>1 DEF LWL_LWR, Read
  <2> HIDE DEF q, n
  <2>3. Upper \subseteq q.data
    BY <2>2, <1>2, Masks
  <2>4. q.result \in Dword /\ Upper \cap q.result = {}
    BY <2>2, <2>3, <1>4
  <2> QED BY <2>2, <2>3, <2>4
<1>8. ASSUME i.op = "lwr" PROVE Fits(q)
  <2>1. q = LWL_LWR(i, rs, rt)
    BY <1>8 DEF VrRequest, Is, LinkedOps, LoadOps, StoreOps
  <2>2. /\ q.wide = FALSE /\ q.size = n + 1
        /\ q.data = (IF n = 3 THEN Ones(8) ELSE Ones(n + 1))
        /\ q.result = rt \ q.data
    BY <1>8, <2>1 DEF LWL_LWR, Read
  <2> HIDE DEF q, n
  <2>5. q.size \in 1 .. 4
    <3>1. q.size = n + 1 /\ n \in 0 .. 3
      BY <2>2, <1>2
    <3> HIDE DEF n
    <3> QED BY <3>1
  <2>3. CASE n = 3
    <3>1. Upper \subseteq q.data
      BY <2>2, <2>3, Masks
    <3>2. q.result \in Dword /\ Upper \cap q.result = {}
      BY <2>2, <3>1, <1>4
    <3> QED BY <2>2, <2>5, <3>1, <3>2
  <2>4. CASE n # 3
    <3>1. Upper \cap q.data = {}
      BY <2>2, <2>4, <1>2, Masks
    <3>2. Uniform(q.result)
      <4>1. WordBits - 1 \in Upper /\ \A b \in WordBits .. DwordBits - 1 : b \in Upper
        BY Widths DEF Upper
      <4> QED BY <4>1, <3>1, <2>2, <1>3 DEF Uniform
    <3>3. q.result \in Dword
      BY <2>2, <1>4
    <3> QED BY <2>2, <2>5, <3>1, <3>2, <3>3
  <2> QED BY <2>3, <2>4
<1>9. Fits(q)
  BY <1>5, <1>6, <1>7, <1>8
<1> HIDE DEF q
<1>10. BusRead(q, m) \in Dword /\ SignExtended(BusRead(q, m))
  BY <1>9, BusReadIsNarrow
<1> QED BY <1>10 DEF q

(* What a register of the UART gives. *)
LEMMA ByteIsNarrow ==
  ASSUME NEW x \in Byte
  PROVE  x \in Dword /\ SignExtended(x)
<1>1. x \in Dword
  BY Widths DEF Byte, Dword, Bits
<1>2. Uniform(x)
  BY Widths DEF Byte, Bits, Uniform
<1> QED BY <1>1, <1>2, NarrowIsUniform

LEMMA DeviceIsByte ==
  ASSUME NEW q, NEW port \in [0 .. 3 -> Byte]
  PROVE  DeviceRead(q, port) \in Byte
  BY OffsetInWord4 DEF DeviceRead

---------------------------------------------------------------------------
(* The invariant: the types, and narrow registers for a narrow guest. *)
VrState == [regs : [Reg -> Dword], hi : Dword, lo : Dword, next : NextPc]
Narrow(c) == /\ \A r \in Reg : SignExtended(c.regs[r])
             /\ SignExtended(c.hi) /\ SignExtended(c.lo)
Holds == Vr4300Types /\ NarrowRegisters

LEMMA HoldsMeans ==
  Holds <=> /\ program \in Programs /\ vr \in VrState /\ (~Wide => Narrow(vr))
            /\ vmem \in [MemoryWords -> Word] /\ vport \in [0 .. 3 -> Byte]
            /\ alive \in BOOLEAN
  BY DEF Holds, Vr4300Types, NarrowRegisters, VrState, Narrow

LEMMA Successors ==
  /\ Sequential \in NextPc /\ SkipSlot \in NextPc
  /\ \A x \in Dword : JumpTo(x) \in NextPc
  BY DEF Sequential, SkipSlot, JumpTo, NextPc, Dword

LEMMA RetireKeeps ==
  ASSUME NEW c \in VrState, NEW d \in Reg, NEW v \in Dword, NEW n \in NextPc
  PROVE  /\ Retire(c, d, v, n) \in VrState
         /\ Narrow(c) /\ SignExtended(v) => Narrow(Retire(c, d, v, n))
<1> DEFINE w == IF d = 0 THEN {} ELSE v
           e == Retire(c, d, v, n)
<1>1. w \in Dword /\ (SignExtended(v) => SignExtended(w))
  BY EmptyIsNarrow
<1>2. /\ e = [c EXCEPT !.regs[d] = w, !.next = n]
      /\ c.regs \in [Reg -> Dword]
  BY DEF Retire, VrState
<1> HIDE DEF w
<1>3. e \in VrState
  BY <1>1, <1>2 DEF VrState
<1>4. /\ e.hi = c.hi /\ e.lo = c.lo
      /\ \A r \in Reg : e.regs[r] = IF r = d THEN w ELSE c.regs[r]
  BY <1>2 DEF VrState
<1> HIDE DEF e
<1>5. Narrow(c) /\ SignExtended(v) => Narrow(e)
  BY <1>1, <1>4 DEF Narrow
<1> QED BY <1>3, <1>5 DEF e

LEMMA SetHiLoKeeps ==
  ASSUME NEW c \in VrState, NEW p, p.lo \in Dword, p.hi \in Dword
  PROVE  /\ SetHiLo(c, p) \in VrState
         /\ Narrow(c) /\ SignExtended(p.lo) /\ SignExtended(p.hi) => Narrow(SetHiLo(c, p))
<1> DEFINE e == SetHiLo(c, p)
<1>1. e \in VrState /\ e.hi = p.hi /\ e.lo = p.lo /\ e.regs = c.regs
  BY Successors DEF SetHiLo, VrState
<1> HIDE DEF e
<1>2. Narrow(c) /\ SignExtended(p.lo) /\ SignExtended(p.hi) => Narrow(e)
  BY <1>1 DEF Narrow
<1> QED BY <1>1, <1>2 DEF e

LEMMA NextKeeps ==
  ASSUME NEW c \in VrState
  PROVE  LET e == [c EXCEPT !.next = Sequential]
         IN e \in VrState /\ (Narrow(c) => Narrow(e))
  BY Successors DEF VrState, Narrow

(* A branch goes to a doubleword. *)
LEMMA BranchIsNext ==
  ASSUME NEW i, NEW taken, NEW likely
  PROVE  Branch(i, taken, likely) \in NextPc
  BY PlusIsDword, Successors DEF Branch

LEMMA VrNextIsNext ==
  ASSUME NEW i \in Instruction, NEW rs \in Dword, NEW rt \in Dword,
         i.op \in BranchOps \cup JumpOps
  PROVE  VrNext(i, rs, rt) \in NextPc
<1>1. /\ BEQ_BEQL_BNE_BNEL(i, rs, rt) \in NextPc
      /\ BGEZ_BGEZL_BLTZ_BLTZL(i, rs) \in NextPc
      /\ BGEZAL_BGEZALL_BLTZAL_BLTZALL(i, rs) \in NextPc
      /\ BGTZ_BGTZL_BLEZ_BLEZL(i, rs) \in NextPc
  BY BranchIsNext DEF BEQ_BEQL_BNE_BNEL, BGEZ_BGEZL_BLTZ_BLTZL,
     BGEZAL_BGEZALL_BLTZAL_BLTZALL, BGTZ_BGTZL_BLEZ_BLEZL
<1>2. J_JAL(i) \in NextPc
  <2>1. Pc \in Dword /\ JumpBits \in 0 .. DwordBits
    BY ExecuteAssumption, Widths
  <2>2. \A x : Low(x, JumpBits) \in Dword
    BY <2>1, Widths DEF Dword, Low, Bits
  <2>3. (Pc \ Bits(JumpBits)) \cup Low(ShiftLeft(i.imm, 2, DwordBits), JumpBits) \in Dword
    BY <2>1, <2>2 DEF Dword
  <2> QED BY <2>3, Successors DEF J_JAL
<1>3. JALR_JR(rs) \in NextPc
  BY Successors DEF JALR_JR
<1> QED BY <1>1, <1>2, <1>3
        DEF VrNext, Is, BranchOps, JumpOps, LikelyBranch, LinkBranchOps

(* The 64-bit results. *)
LEMMA WideResultIsDword ==
  ASSUME NEW i, NEW rs, NEW rt \in Dword, i.op \in DoubleOps
  PROVE  VrWideResult(i, rs, rt) \in Dword
<1>1. DADD_DSUB(i, rs, rt) \in Dword /\ DADDI_DSUBI(i, rs) \in Dword
  BY PlusIsDword DEF DADD_DSUB, DADDI_DSUBI
<1>2. DSRA(i, rs, rt) \in Dword /\ DSRL(i, rs, rt) \in Dword
  BY DEF DSRA, DSRL, ShiftRightSigned, ShiftRight, Dword
<1>3. DSLL(i, rs, rt) \in Dword
  BY DEF DSLL, ShiftLeft, Dword
<1> QED BY <1>1, <1>2, <1>3 DEF VrWideResult, Is, DoubleOps

LEMMA WideHiLoIsDword ==
  ASSUME NEW i, NEW rs, NEW rt, NEW c, c.lo \in Dword, c.hi \in Dword
  PROVE  \A p \in {DMULT_DMULTU(i, rs, rt), DDIV_DDIVU(i, rs, rt, c)} :
           p.lo \in Dword /\ p.hi \in Dword
<1>1. DMULT_DMULTU(i, rs, rt).lo \in Dword /\ DMULT_DMULTU(i, rs, rt).hi \in Dword
  BY DEF DMULT_DMULTU, Low, Dword
<1>2. DDIV_DDIVU(i, rs, rt, c).lo \in Dword /\ DDIV_DDIVU(i, rs, rt, c).hi \in Dword
  BY PatternIsDword DEF DDIV_DDIVU
<1> QED BY <1>1, <1>2

(* Every load leaves a doubleword. *)
LEMMA LoadIsDword ==
  ASSUME NEW i, NEW rs, NEW rt \in Dword, NEW m,
         i.op \in LoadOps \cup {"lwl", "lwr", "ll"} \cup DoubleLoadOps
  PROVE  BusRead(VrRequest(i, rs, rt), m) \in Dword
<1> DEFINE q == VrRequest(i, rs, rt)
<1>1. q \in {LOAD_STORE(i, rs, rt), LL_SC(i, rs), LWL_LWR(i, rs, rt),
             LD_SD(i, rs, rt), LDL_LDR(i, rs, rt)}
  BY DEF VrRequest, Is, LoadOps, StoreOps, LinkedOps, DoubleLoadOps
<1>2. /\ LOAD_STORE(i, rs, rt).result = {} /\ LL_SC(i, rs).result = {}
      /\ LD_SD(i, rs, rt).result = {}
  BY DEF LOAD_STORE, LL_SC, LD_SD, Read, Write
<1>3. LWL_LWR(i, rs, rt).result \in Dword
  BY DEF LWL_LWR, Read, Dword
<1>4. LDL_LDR(i, rs, rt).result \in Dword
  BY DEF LDL_LDR, Read, Dword
<1>5. q.result \in Dword
  BY <1>1, <1>2, <1>3, <1>4, EmptyIsNarrow
<1>6. \A s, k : ShiftRightSigned(s, k, DwordBits) \subseteq Bits(DwordBits)
  BY DEF ShiftRightSigned
<1> HIDE DEF q
<1>7. BusRead(q, m) \in Dword
  BY <1>5, <1>6 DEF BusRead, Dword
<1> QED BY <1>7 DEF q

---------------------------------------------------------------------------
(* What a step must keep, of the VR4300 and of its memory. *)
KeepsRegisters == vr' \in VrState /\ (~Wide => Narrow(vr'))
KeepsMemory == /\ vmem' \in [MemoryWords -> Word]
               /\ vport' \in [0 .. 3 -> Byte]

LEMMA IntegerKeeps ==
  ASSUME Holds, NEW i \in Instruction, Integer(i)
  PROVE  KeepsRegisters
<1>1. vr \in VrState /\ (~Wide => Narrow(vr))
  BY HoldsMeans
<1>2. /\ VRs(i) \in Dword /\ VRt(i) \in Dword /\ Dest(i) \in Reg
      /\ ~Wide => SignExtended(VRs(i)) /\ SignExtended(VRt(i))
  BY <1>1 DEF VRs, VRt, Dest, VrState, Narrow, Instruction
<1>3. VrResult(i, VRs(i), VRt(i)) \in Dword
  <2>1. \A x : Extend(x, WordBits) \in Dword
    BY ExtendIsNarrow
  <2>2. \A p : Boolean(p) \in Dword
    BY BooleanIsNarrow
  <2>3. i.imm \in Dword
    BY HalfIsNarrow DEF Instruction
  <2>4. /\ AND_OR_XOR(i, VRs(i), VRt(i)) \in Dword /\ NOR(VRs(i), VRt(i)) \in Dword
        /\ ANDI_ORI_XORI(i, VRs(i)) \in Dword
    BY <1>2, <2>3 DEF AND_OR_XOR, ANDI_ORI_XORI, NOR, Bitwise, Xor, Complement, Dword
  <2> QED BY <2>1, <2>2, <2>4
     DEF Integer, VrResult, Is, ThreeRegisterOps, ShiftOps, ImmediateOps,
         ADD_SUB, ADDU_SUBU, ADDI_SUBI, ADDIU_LUI_SUBIU, SLL_SLLV, SRA, SRAV, Sra,
         SRL, SRLV, Srl, SLT, SLTU, SLTI, SLTIU
<1>4. ~Wide => SignExtended(VrResult(i, VRs(i), VRt(i)))
  BY <1>2, ResultIsNarrow DEF Integer
<1>5. vr' = Retire(vr, Dest(i), VrResult(i, VRs(i), VRt(i)), Sequential)
  BY DEF Integer
<1> QED BY <1>1, <1>2, <1>3, <1>4, <1>5, RetireKeeps, Successors DEF KeepsRegisters

LEMMA MultiplyDivideKeeps ==
  ASSUME Holds, NEW i, MultiplyDivide(i)
  PROVE  KeepsRegisters
<1>1. vr \in VrState /\ (~Wide => Narrow(vr))
  BY HoldsMeans
<1>2. PICK p \in {MULT_MULTU(i, VRs(i), VRt(i)), DIV_DIVU(i, VRs(i), VRt(i), vr)} :
        vr' = SetHiLo(vr, p)
  BY DEF MultiplyDivide
<1>3. vr.lo \in Dword /\ vr.hi \in Dword
  BY <1>1 DEF VrState
<1>4. p.lo \in Dword /\ p.hi \in Dword
  <2>1. \A x : Extend(x, WordBits) \in Dword
    BY ExtendIsNarrow
  <2> QED BY <1>2, <1>3, <2>1 DEF MULT_MULTU, DIV_DIVU
<1>5. ~Wide => SignExtended(p.lo) /\ SignExtended(p.hi)
  BY <1>1, <1>2, <1>3, HiLoIsNarrow DEF Narrow
<1> QED BY <1>1, <1>2, <1>4, <1>5, SetHiLoKeeps DEF KeepsRegisters

LEMMA MoveHiLoKeeps ==
  ASSUME Holds, NEW i \in Instruction, MoveHiLo(i)
  PROVE  KeepsRegisters
<1>1. vr \in VrState /\ (~Wide => Narrow(vr))
  BY HoldsMeans
<1>2. /\ vr.lo \in Dword /\ vr.hi \in Dword /\ i.rd \in Reg /\ i.rs \in Reg
      /\ vr.regs[i.rs] \in Dword
      /\ ~Wide => /\ SignExtended(vr.lo) /\ SignExtended(vr.hi)
                  /\ SignExtended(vr.regs[i.rs])
  BY <1>1 DEF VrState, Narrow, Instruction
<1>3. CASE i.op = "mfhi"
  <2>1. vr' = Retire(vr, i.rd, vr.hi, Sequential)
    BY <1>3 DEF MoveHiLo
  <2> QED BY <2>1, <1>1, <1>2, RetireKeeps, Successors DEF KeepsRegisters
<1>4. CASE i.op = "mflo"
  <2>1. vr' = Retire(vr, i.rd, vr.lo, Sequential)
    BY <1>4 DEF MoveHiLo
  <2> QED BY <2>1, <1>1, <1>2, RetireKeeps, Successors DEF KeepsRegisters
<1>5. CASE i.op = "mthi"
  <2>1. vr' = [vr EXCEPT !.hi = vr.regs[i.rs], !.next = Sequential]
    BY <1>5 DEF MoveHiLo
  <2>2. /\ vr' \in VrState /\ vr'.regs = vr.regs /\ vr'.lo = vr.lo
        /\ vr'.hi = vr.regs[i.rs]
    BY <2>1, <1>1, <1>2, Successors DEF VrState
  <2> QED BY <2>2, <1>1, <1>2 DEF KeepsRegisters, Narrow
<1>6. CASE i.op = "mtlo"
  <2>1. vr' = [vr EXCEPT !.lo = vr.regs[i.rs], !.next = Sequential]
    BY <1>6 DEF MoveHiLo
  <2>2. /\ vr' \in VrState /\ vr'.regs = vr.regs /\ vr'.hi = vr.hi
        /\ vr'.lo = vr.regs[i.rs]
    BY <2>1, <1>1, <1>2, Successors DEF VrState
  <2> QED BY <2>2, <1>1, <1>2 DEF KeepsRegisters, Narrow
<1> QED BY <1>3, <1>4, <1>5, <1>6 DEF MoveHiLo, MoveHiLoOps

LEMMA ControlKeeps ==
  ASSUME Holds, NEW i \in Instruction, Control(i)
  PROVE  KeepsRegisters
<1>1. vr \in VrState /\ (~Wide => Narrow(vr))
  BY HoldsMeans
<1>2. VrNext(i, VRs(i), VRt(i)) \in NextPc
  <2>1. VRs(i) \in Dword /\ VRt(i) \in Dword
    BY <1>1 DEF VRs, VRt, VrState, Instruction
  <2> QED BY <2>1, VrNextIsNext DEF Control
<1>3. Link \in Dword /\ SignExtended(Link)
  BY LockstepAssumption, PlusIsDword DEF Link
<1>4. PICK d \in Reg : vr' = Retire(vr, d, Link, VrNext(i, VRs(i), VRt(i)))
  <2> DEFINE d == CASE Is(i, LinkBranchOps \cup {"jal"}) -> Ra
                    [] i.op = "jalr" -> i.rd
                    [] OTHER -> 0
  <2>1. d \in Reg
    BY ExecuteAssumption DEF Instruction, Is, LinkBranchOps
  <2>2. vr' = Retire(vr, d, Link, VrNext(i, VRs(i), VRt(i)))
    BY DEF Control
  <2> QED BY <2>1, <2>2
<1> QED BY <1>1, <1>2, <1>3, <1>4, RetireKeeps DEF KeepsRegisters

(* The VR4300 side of a load, a store and a load linked. *)
LEMMA VrLoadKeeps ==
  ASSUME Holds, NEW i \in Instruction, VrLoad(i),
         i.op \in LoadOps \cup {"lwl", "lwr", "ll"} \cup DoubleLoadOps,
         ~Wide => i.op \notin DoubleLoadOps
  PROVE  KeepsRegisters /\ KeepsMemory
<1> DEFINE q == VrRequest(i, VRs(i), VRt(i))
           v == IF IsDevice(q.vaddr) THEN DeviceRead(q, vport) ELSE BusRead(q, vmem)
<1>1. /\ vr \in VrState /\ (~Wide => Narrow(vr)) /\ vport \in [0 .. 3 -> Byte]
      /\ vmem \in [MemoryWords -> Word]
  BY HoldsMeans
<1>2. /\ VRs(i) \in Dword /\ VRt(i) \in Dword /\ i.rt \in Reg
      /\ ~Wide => SignExtended(VRt(i))
  BY <1>1 DEF VRs, VRt, VrState, Narrow, Instruction
<1>3. IsDevice(q.vaddr) => DeviceRead(q, vport) \in Dword /\ SignExtended(DeviceRead(q, vport))
  <2> HIDE DEF q
  <2> QED BY <1>1, DeviceIsByte, ByteIsNarrow
<1>4. BusRead(q, vmem) \in Dword
  BY <1>2, LoadIsDword
<1>5. ~Wide => SignExtended(BusRead(q, vmem))
  BY <1>2, LoadIsNarrow
<1>6. vr' = Retire(vr, i.rt, v, Sequential) /\ UNCHANGED <<vmem, vport>>
  BY DEF VrLoad
<1> HIDE DEF q
<1>7. v \in Dword /\ (~Wide => SignExtended(v))
  BY <1>3, <1>4, <1>5
<1> HIDE DEF v
<1>8. KeepsRegisters
  BY <1>1, <1>2, <1>6, <1>7, RetireKeeps, Successors DEF KeepsRegisters
<1> QED BY <1>1, <1>6, <1>8 DEF KeepsMemory

LEMMA VrStoreKeeps ==
  ASSUME Holds, NEW i, VrStore(i)
  PROVE  KeepsRegisters /\ KeepsMemory
<1> DEFINE q == VrRequest(i, VRs(i), VRt(i))
<1>1. /\ vr \in VrState /\ (~Wide => Narrow(vr)) /\ vport \in [0 .. 3 -> Byte]
      /\ vmem \in [MemoryWords -> Word]
  BY HoldsMeans
<1>2. /\ vmem' = (IF IsDevice(q.vaddr) THEN vmem ELSE BusWrite(q, vmem))
      /\ vport' = (IF IsDevice(q.vaddr) THEN DeviceWrite(q, vport) ELSE vport)
      /\ vr' = [vr EXCEPT !.next = Sequential]
  BY DEF VrStore
<1> HIDE DEF q
<1>3. \A w, d, m : Masked(w, d, m) \in Word
  BY DEF Masked, Low, Word
<1>4. BusWrite(q, vmem) \in [MemoryWords -> Word]
  BY <1>1, <1>3 DEF BusWrite
<1>5. DeviceWrite(q, vport) \in [0 .. 3 -> Byte]
  <2>1. \A x : Low(x, ByteBits) \in Byte
    BY DEF Low, Byte
  <2> QED BY <1>1, <2>1 DEF DeviceWrite
<1>6. KeepsRegisters
  BY <1>1, <1>2, NextKeeps DEF KeepsRegisters
<1> QED BY <1>1, <1>2, <1>4, <1>5, <1>6 DEF KeepsMemory

LEMMA DoubleKeeps ==
  ASSUME Holds, NEW i \in Instruction, Wide, Double(i) \/ DoubleMultiply(i)
  PROVE  KeepsRegisters
<1>1. vr \in VrState
  BY HoldsMeans
<1>2. /\ VRs(i) \in Dword /\ VRt(i) \in Dword /\ Dest(i) \in Reg
      /\ vr.lo \in Dword /\ vr.hi \in Dword
  BY <1>1 DEF VRs, VRt, Dest, VrState, Instruction
<1>3. CASE Double(i)
  <2>1. VrWideResult(i, VRs(i), VRt(i)) \in Dword
    BY <1>2, <1>3, WideResultIsDword DEF Double
  <2>2. vr' = Retire(vr, Dest(i), VrWideResult(i, VRs(i), VRt(i)), Sequential)
    BY <1>3 DEF Double
  <2> QED BY <1>1, <1>2, <2>1, <2>2, RetireKeeps, Successors DEF KeepsRegisters
<1>4. CASE DoubleMultiply(i)
  <2>1. PICK p \in {DMULT_DMULTU(i, VRs(i), VRt(i)), DDIV_DDIVU(i, VRs(i), VRt(i), vr)} :
          vr' = SetHiLo(vr, p)
    BY <1>4 DEF DoubleMultiply
  <2>2. p.lo \in Dword /\ p.hi \in Dword
    BY <1>2, <2>1, WideHiLoIsDword
  <2> QED BY <1>1, <2>1, <2>2, SetHiLoKeeps DEF KeepsRegisters
<1> QED BY <1>3, <1>4

---------------------------------------------------------------------------
LEMMA InitHolds == Init => Holds
<1> SUFFICES ASSUME Init PROVE Holds
  OBVIOUS
<1>1. vr \in VrState /\ Narrow(vr)
  BY EmptyIsNarrow, Successors DEF Init, VrState, Narrow
<1>2. vmem \in [MemoryWords -> Word]
  BY LockstepAssumption DEF Init
<1>3. vport \in [0 .. 3 -> Byte] /\ alive \in BOOLEAN /\ program \in Programs
  BY DEF Init, Byte
<1> QED BY <1>1, <1>2, <1>3, HoldsMeans

LEMMA NextHolds == Holds /\ [Next]_vars => Holds'
<1> SUFFICES ASSUME Holds, [Next]_vars PROVE Holds'
  OBVIOUS
<1>1. Holds' <=> /\ program' \in Programs /\ vr' \in VrState /\ (~Wide' => Narrow(vr'))
                 /\ vmem' \in [MemoryWords -> Word]
                 /\ vport' \in [0 .. 3 -> Byte] /\ alive' \in BOOLEAN
  BY DEF Holds, Vr4300Types, NarrowRegisters, VrState, Narrow
<1>2. CASE UNCHANGED vars
  <2>1. /\ vr' = vr /\ program' = program /\ vmem' = vmem /\ vport' = vport
        /\ alive' = alive /\ Wide' = Wide
    BY <1>2 DEF vars, Wide
  <2> QED BY <2>1, <1>1, HoldsMeans
<1>3. CASE Next
  <2>1. PICK i \in program : Instruct(i)
    BY <1>3 DEF Next
  <2>2. program' = program /\ Wide' = Wide
    BY <1>3 DEF Next, Wide
  <2>3. i \in Instruction
    BY <2>1, LockstepAssumption, HoldsMeans
  <2>4. ~Wide => i.op \notin WideOps
    BY <2>1 DEF Wide
  <2>5. /\ program \in Programs /\ vr \in VrState /\ (~Wide => Narrow(vr))
        /\ vmem \in [MemoryWords -> Word] /\ vport \in [0 .. 3 -> Byte]
        /\ alive \in BOOLEAN
    BY HoldsMeans
  <2> SUFFICES ASSUME TRUE PROVE KeepsRegisters /\ KeepsMemory /\ alive' \in BOOLEAN
    BY <1>1, <2>2, <2>5 DEF KeepsRegisters, KeepsMemory
  <2>6. KeepMemory => KeepsMemory
    BY <2>5 DEF KeepMemory, KeepsMemory
  <2>7. CASE Integer(i)
    BY <2>3, <2>5, <2>6, <2>7, IntegerKeeps DEF Integer
  <2>8. CASE Later(i)
    BY <2>5, <2>6, <2>8, NextKeeps DEF Later, KeepsRegisters
  <2>9. CASE MultiplyDivide(i)
    BY <2>6, <2>9, MultiplyDivideKeeps DEF MultiplyDivide, HostFaults
  <2>10. CASE MoveHiLo(i)
    BY <2>3, <2>5, <2>6, <2>10, MoveHiLoKeeps DEF MoveHiLo
  <2>11. CASE Control(i)
    BY <2>3, <2>5, <2>6, <2>11, ControlKeeps DEF Control
  <2>12. CASE Load(i)
    <3>1. VrLoad(i) /\ i.op \in LoadOps \cup {"lwl", "lwr"} /\ alive' = alive
      BY <2>12 DEF Load
    <3>2. i.op \notin DoubleLoadOps
      BY <3>1 DEF LoadOps, DoubleLoadOps
    <3> QED BY <2>3, <2>5, <3>1, <3>2, VrLoadKeeps
  <2>13. CASE Store(i)
    BY <2>5, <2>13, VrStoreKeeps DEF Store
  <2>14. CASE LoadLinked(i)
    <3>1. VrLoad(i) /\ i.op = "ll" /\ alive' = alive
      BY <2>14 DEF LoadLinked
    <3>2. i.op \notin DoubleLoadOps
      BY <3>1 DEF DoubleLoadOps
    <3> QED BY <2>3, <2>5, <3>1, <3>2, VrLoadKeeps
  <2>15. CASE StoreConditional(i)
    BY <2>5, <2>15, VrStoreKeeps DEF StoreConditional
  <2>16. CASE Double(i)
    <3>1. Wide
      BY <2>4, <2>16 DEF Double, WideOps
    <3> QED BY <2>3, <2>5, <2>16, <3>1, DoubleKeeps DEF Double, KeepsMemory
  <2>17. CASE DoubleMultiply(i)
    <3>1. Wide
      BY <2>4, <2>17 DEF DoubleMultiply, WideOps
    <3> QED BY <2>3, <2>5, <2>17, <3>1, DoubleKeeps
            DEF DoubleMultiply, KeepsMemory, DivisionFaults
  <2>18. CASE DoubleLoad(i)
    <3>1. Wide
      BY <2>4, <2>18 DEF DoubleLoad, WideOps, DoubleMemoryOps
    <3> QED BY <2>3, <2>5, <2>18, <3>1, VrLoadKeeps DEF DoubleLoad
  <2>19. CASE DoubleStore(i)
    BY <2>5, <2>19, VrStoreKeeps DEF DoubleStore
  <2> QED BY <2>1, <2>7, <2>8, <2>9, <2>10, <2>11, <2>12, <2>13, <2>14, <2>15, <2>16,
             <2>17, <2>18, <2>19 DEF Instruct
<1> QED BY <1>2, <1>3 DEF vars

(* A guest of 32-bit instructions never sees a register of the VR4300 that is
   not the sign extension of its low word, although functions.c casts only the
   results that need it: the 64-bit comparisons, branches and addresses of
   such a guest are those of a 32-bit machine. *)
THEOREM RegistersStayNarrow == Spec => []NarrowRegisters
<1>1. Holds => NarrowRegisters
  BY DEF Holds
<1> QED BY <1>1, InitHolds, NextHolds, PTL DEF Spec

---------------------------------------------------------------------------
(* Arithmetic.  The low word of a sum or difference is that of the low words:
   a carry comes from the bits below. *)
LEMMA LowCarry ==
  ASSUME NEW x, NEW y, NEW b \in 0 .. WordBits
  PROVE  /\ Carry(W(x), W(y), b) <=> Carry(x, y, b)
         /\ Less(W(x), W(y), b) <=> Less(x, y, b)
<1>1. \A j \in Bits(b) : (j \in W(x) <=> j \in x) /\ (j \in W(y) <=> j \in y)
  BY Widths DEF W, Low, Bits
<1>2. \A j \in Bits(b) : j + 1 .. b - 1 \subseteq Bits(b)
  BY DEF Bits
<1> QED BY <1>1, <1>2 DEF Carry, Less

LEMMA LowPlus ==
  ASSUME NEW x, NEW y
  PROVE  /\ W(Plus(x, y, DwordBits)) = Plus(W(x), W(y), WordBits)
         /\ W(Minus(x, y, DwordBits)) = Minus(W(x), W(y), WordBits)
<1>1. \A b \in Bits(WordBits) :
        /\ b \in Bits(DwordBits) /\ (b \in Xor(x, y) <=> b \in Xor(W(x), W(y)))
        /\ Carry(W(x), W(y), b) <=> Carry(x, y, b)
        /\ Less(W(x), W(y), b) <=> Less(x, y, b)
  BY LowCarry, Widths DEF Xor, W, Low, Bits
<1>2. Bits(WordBits) \cap Bits(DwordBits) = Bits(WordBits)
  BY Widths DEF Bits
<1>3. \A b : /\ b \in W(Plus(x, y, DwordBits)) <=> b \in Plus(W(x), W(y), WordBits)
             /\ b \in W(Minus(x, y, DwordBits)) <=> b \in Minus(W(x), W(y), WordBits)
  <2> TAKE b
  <2>1. CASE b \notin Bits(WordBits)
    BY <2>1 DEF Plus, Minus, W, Low
  <2>2. CASE b \in Bits(WordBits)
    BY <1>1, <2>2 DEF Plus, Minus, W, Low
  <2> QED BY <2>1, <2>2
<1> QED BY <1>3

LEMMA LowExtend ==
  ASSUME NEW x
  PROVE  W(Extend(x, WordBits)) = W(x)
  BY Widths DEF Extend, SignBits, W, Low, Bits

LEMMA LowIsWord ==
  ASSUME NEW x
  PROVE  W(x) \in Word /\ W(x) \in Dword /\ W(W(x)) = W(x)
  BY Widths DEF W, Low, Word, Dword, Bits

LEMMA LowOfWord ==
  ASSUME NEW x \in Word
  PROVE  W(x) = x
  BY DEF W, Low, Word

(* Comparisons. *)
LEMMA SignedByUnsigned ==
  ASSUME NEW x, NEW y, NEW n \in Nat, n > 0
  PROVE  LessSigned(x, y, n) <=> \/ n - 1 \in x /\ n - 1 \notin y
                                 \/ (n - 1 \in x <=> n - 1 \in y) /\ Less(x, y, n)
<1> DEFINE u == Xor(x, {n - 1})
           v == Xor(y, {n - 1})
<1>1. /\ \A b \in Bits(n) : b # n - 1 => (b \in u <=> b \in x) /\ (b \in v <=> b \in y)
      /\ n - 1 \in u <=> n - 1 \notin x
      /\ n - 1 \in v <=> n - 1 \notin y
  BY DEF Xor
<1>2. LessSigned(x, y, n) <=> Less(u, v, n)
  BY DEF LessSigned
<1>3. n - 1 \in Bits(n) /\ \A j \in Bits(n) : j # n - 1 => n - 1 \in j + 1 .. n - 1
  BY DEF Bits
<1>4. \A j \in Bits(n) : j + 1 .. n - 1 \subseteq Bits(n)
  BY DEF Bits
<1> HIDE DEF u, v
<1>5. CASE n - 1 \in x /\ n - 1 \notin y
  <2>1. Less(u, v, n)
    <3>1. n - 1 \in v \ u /\ (n - 1) + 1 .. n - 1 = {}
      BY <1>1, <1>5
    <3> QED BY <3>1, <1>3 DEF Less
  <2> QED BY <2>1, <1>2, <1>5
<1>6. CASE n - 1 \notin x /\ n - 1 \in y
  <2>1. ~Less(u, v, n)
    BY <1>1, <1>3, <1>6 DEF Less
  <2> QED BY <2>1, <1>2, <1>6
<1>7. CASE n - 1 \in x <=> n - 1 \in y
  <2>1. Less(u, v, n) <=> Less(x, y, n)
    <3>1. \A j \in Bits(n) : (j \in v \ u <=> j \in y \ x) \/ j = n - 1
      BY <1>1
    <3>2. n - 1 \notin v \ u /\ n - 1 \notin y \ x
      BY <1>1, <1>7
    <3>3. \A j \in Bits(n) : j \in v \ u <=> j \in y \ x
      BY <3>1, <3>2
    <3>4. \A k \in Bits(n) : (k \in u => k \in v) <=> (k \in x => k \in y)
      BY <1>1, <1>7
    <3> QED BY <3>3, <3>4, <1>4 DEF Less
  <2> QED BY <2>1, <1>2, <1>7
<1> QED BY <1>5, <1>6, <1>7

LEMMA LowLess ==
  ASSUME NEW x \in Dword, NEW y \in Dword, SignExtended(x), SignExtended(y)
  PROVE  /\ Less(x, y, DwordBits) <=> Less(W(x), W(y), WordBits)
         /\ LessSigned(x, y, DwordBits) <=> LessSigned(W(x), W(y), WordBits)
<1> DEFINE Wb == WordBits
           D == DwordBits
<1>1. Uniform(x) /\ Uniform(y)
  BY NarrowIsUniform
<1>2. Wb \in Nat /\ D \in Nat /\ Wb > 0 /\ Wb < D
  BY Widths
<1>3. /\ Less(W(x), W(y), Wb) <=> Less(x, y, Wb)
      /\ Wb - 1 \in W(x) <=> Wb - 1 \in x
      /\ Wb - 1 \in W(y) <=> Wb - 1 \in y
  <2>1. Wb \in 0 .. Wb /\ Wb - 1 \in 0 .. Wb - 1
    BY <1>2
  <2>2. Less(W(x), W(y), Wb) <=> Less(x, y, Wb)
    BY <2>1, LowCarry
  <2> QED BY <2>1, <2>2 DEF W, Low, Bits
<1>4. \A b \in Wb - 1 .. D - 1 : (b \in x <=> Wb - 1 \in x) /\ (b \in y <=> Wb - 1 \in y)
  BY <1>1, <1>2 DEF Uniform
<1> HIDE DEF Wb, D
<1>5. Less(x, y, D) <=> Less(x, y, Wb)
  <2>1. ASSUME Less(x, y, D) PROVE Less(x, y, Wb)
    <3>1. PICK j \in Bits(D) : j \in y \ x /\ \A k \in j + 1 .. D - 1 : k \in x => k \in y
      BY <2>1 DEF Less
    <3>2. CASE j < Wb
      BY <3>1, <3>2, <1>2 DEF Less, Bits
    <3>3. CASE j >= Wb
      <4>1. Wb - 1 \in y \ x
        BY <3>1, <3>3, <1>2, <1>4 DEF Bits
      <4>2. (Wb - 1) + 1 .. Wb - 1 = {} /\ Wb - 1 \in Bits(Wb)
        BY <1>2 DEF Bits
      <4> QED BY <4>1, <4>2 DEF Less
    <3> QED BY <3>1, <3>2, <3>3, <1>2 DEF Bits
  <2>2. ASSUME Less(x, y, Wb) PROVE Less(x, y, D)
    <3>1. PICK j \in Bits(Wb) : j \in y \ x /\ \A k \in j + 1 .. Wb - 1 : k \in x => k \in y
      BY <2>2 DEF Less
    <3>2. CASE j = Wb - 1
      <4>1. D - 1 \in y \ x
        BY <3>1, <3>2, <1>2, <1>4
      <4>2. (D - 1) + 1 .. D - 1 = {} /\ D - 1 \in Bits(D)
        BY <1>2 DEF Bits
      <4> QED BY <4>1, <4>2 DEF Less
    <3>3. CASE j # Wb - 1
      <4>1. Wb - 1 \in x => Wb - 1 \in y
        BY <3>1, <3>3, <1>2 DEF Bits
      <4>2. \A k \in j + 1 .. D - 1 : k \in x => k \in y
        BY <3>1, <4>1, <1>2, <1>4 DEF Bits
      <4>3. j \in Bits(D)
        BY <1>2 DEF Bits
      <4> QED BY <3>1, <4>2, <4>3 DEF Less
    <3> QED BY <3>2, <3>3
  <2> QED BY <2>1, <2>2
<1>6. (D - 1 \in x <=> Wb - 1 \in x) /\ (D - 1 \in y <=> Wb - 1 \in y)
  BY <1>2, <1>4
<1>7. D > 0
  BY <1>2
<1>8. LessSigned(x, y, D) <=> LessSigned(W(x), W(y), Wb)
  BY <1>2, <1>3, <1>5, <1>6, <1>7, SignedByUnsigned
<1> QED BY <1>3, <1>5, <1>8 DEF D, Wb

(* Shifts. *)
LEMMA LowShift ==
  ASSUME NEW x \in Dword, NEW k \in Nat
  PROVE  /\ W(ShiftLeft(x, k, DwordBits)) = ShiftLeft(W(x), k, WordBits)
         /\ W(ShiftRight(W(x), k)) = ShiftRight(W(x), k)
         /\ W(ShiftRightSigned(x, k, WordBits)) = ShiftRightSigned(W(x), k, WordBits)
         /\ ShiftRight(W(x), k) \in Word
<1> DEFINE Wb == WordBits
           D == DwordBits
<1>1. Wb \in Nat /\ D \in Nat /\ Wb > 0 /\ Wb < D /\ x \subseteq 0 .. D - 1
  BY Widths DEF Dword, Bits
<1>2. \A b : b \in W(x) <=> b \in x /\ b \in 0 .. Wb - 1
  BY DEF W, Low, Bits
<1> HIDE DEF Wb, D
<1>3. W(ShiftLeft(x, k, D)) = ShiftLeft(W(x), k, Wb)
  <2>1. W(ShiftLeft(x, k, D)) = {b \in 0 .. D - 1 : b - k \in x} \cap 0 .. Wb - 1
    BY DEF ShiftLeft, W, Low, Bits, Wb
  <2>2. ShiftLeft(W(x), k, Wb) = {b \in 0 .. Wb - 1 : b - k \in W(x)}
    BY DEF ShiftLeft, Bits
  <2> QED BY <2>1, <2>2, <1>1, <1>2
<1>4. ShiftRight(W(x), k) = {b \in 0 .. D - 1 : b + k \in W(x)}
  BY DEF ShiftRight, Bits, D
<1>5. ShiftRight(W(x), k) \subseteq 0 .. Wb - 1
  BY <1>4, <1>1, <1>2
<1>6. W(ShiftRight(W(x), k)) = ShiftRight(W(x), k) /\ ShiftRight(W(x), k) \in Word
  BY <1>5 DEF W, Low, Word, Bits, Wb
<1>7. W(ShiftRightSigned(x, k, Wb)) = ShiftRightSigned(W(x), k, Wb)
  <2>1. W(ShiftRightSigned(x, k, Wb)) = ShiftRightSigned(x, k, Wb)
    BY DEF ShiftRightSigned, W, Low, Bits, Wb
  <2>2. \A b \in 0 .. Wb - 1 : /\ b + k < Wb => (b + k \in x <=> b + k \in W(x))
                               /\ Wb - 1 \in x <=> Wb - 1 \in W(x)
    BY <1>1, <1>2
  <2>3. ShiftRightSigned(x, k, Wb) = ShiftRightSigned(W(x), k, Wb)
    BY <2>2 DEF ShiftRightSigned, Bits
  <2> QED BY <2>1, <2>3
<1> QED BY <1>3, <1>6, <1>7 DEF D, Wb

LEMMA LowCount ==
  ASSUME NEW x
  PROVE  Count(W(x)) = Count(x) /\ Count(x) \in Nat
<1>1. Low(W(x), ShiftBits) = Low(x, ShiftBits)
  BY ShiftAssumption, Widths DEF W, Low, Bits
<1>2. Low(x, ShiftBits) \in SUBSET Bits(ShiftBits)
  BY DEF Low
<1>3. Natural[Low(x, ShiftBits)] \in Nat
  BY <1>2, ShiftAssumption, Widths DEF Bits
<1> QED BY <1>1, <1>3 DEF Count

(* No shift for no bit. *)
LEMMA NaturalOfNone == Natural[{}] = 0
<1> DEFINE iter == CHOOSE g : g = [s \in SUBSET {} |->
                 IF s = {} THEN 0
                 ELSE 2 ^ (CHOOSE x \in s : TRUE) + g[s \ {CHOOSE x \in s : TRUE}]]
           zero == [s \in SUBSET {} |-> 0]
<1>1. zero = [s \in SUBSET {} |->
                 IF s = {} THEN 0
                 ELSE 2 ^ (CHOOSE x \in s : TRUE) + zero[s \ {CHOOSE x \in s : TRUE}]]
  OBVIOUS
<1>2. iter = [s \in SUBSET {} |->
                 IF s = {} THEN 0
                 ELSE 2 ^ (CHOOSE x \in s : TRUE) + iter[s \ {CHOOSE x \in s : TRUE}]]
  <2> HIDE DEF zero
  <2> QED BY <1>1, Zenon
<1>3. iter[{}] = 0
  <2> HIDE DEF iter
  <2>1. {} \in SUBSET {}
    OBVIOUS
  <2> QED BY <1>2, <2>1
<1>4. MapThenSumSet(LAMBDA b : 2 ^ b, {}) = iter[{}]
  BY Zenon DEF MapThenSumSet, MapThenFoldSet
<1>5. {} \in Dword
  BY DEF Dword
<1> QED BY <1>3, <1>4, <1>5 DEF Natural

LEMMA CountOfNone == Count({}) = 0
  BY NaturalOfNone DEF Count, Low

(* The fields of an instruction. *)
LEMMA Immediates ==
  ASSUME NEW i \in Instruction
  PROVE  /\ i.imm \in Half /\ i.imm \in Word /\ i.imm \in Dword /\ W(i.imm) = i.imm
         /\ SignExtended(i.imm)
         /\ Imm(i) \in Dword /\ SignExtended(Imm(i))
         /\ HalfImm(i) = W(Imm(i)) /\ i.sa \in Nat
<1>1. i.imm \in Half /\ i.sa \in Bits(WordBits)
  BY DEF Instruction
<1>2. i.imm \in Word /\ i.imm \in Dword
  BY <1>1, Widths DEF Half, Word, Dword, Bits
<1>3. Imm(i) \in Dword
  BY <1>1, Widths DEF Imm, Extend, Low, SignBits, Half, Dword, Bits
<1>4. Uniform(Imm(i))
  BY <1>1, Widths DEF Imm, Extend, Low, SignBits, Half, Bits, Uniform
<1> QED BY <1>1, <1>2, <1>3, <1>4, NarrowIsUniform, HalfIsNarrow, LowOfWord, Widths
        DEF HalfImm, Bits

LEMMA PlusNothing ==
  ASSUME NEW y \in Dword
  PROVE  Plus({}, y, DwordBits) = y /\ ShiftLeft(y, 0, DwordBits) = y
<1>1. \A b : ~Carry({}, y, b) /\ (b \in Xor({}, y) <=> b \in y)
  BY DEF Carry, Xor
<1>2. y \subseteq Bits(DwordBits)
  BY DEF Dword
<1>3. Plus({}, y, DwordBits) = y
  BY <1>1, <1>2 DEF Plus
<1>4. \A b \in Bits(DwordBits) : b - 0 = b
  BY DEF Bits
<1> QED BY <1>2, <1>3, <1>4 DEF ShiftLeft

LEMMA LowBoolean ==
  ASSUME NEW p
  PROVE  W(Boolean(p)) = Boolean(p)
  BY Widths DEF W, Low, Bits, Boolean

LEMMA LowLogic ==
  ASSUME NEW x, NEW y
  PROVE  /\ W(x \cap y) = W(x) \cap W(y) /\ W(x \cup y) = W(x) \cup W(y)
         /\ W(x \ y) = W(x) \ W(y) /\ W(Xor(x, y)) = Xor(W(x), W(y))
         /\ W(Complement(x, DwordBits)) = Complement(W(x), WordBits)
<1>1. Bits(WordBits) \subseteq Bits(DwordBits)
  BY Widths DEF Bits
<1> QED BY <1>1 DEF W, Low, Xor, Complement

LEMMA LowBitwise ==
  ASSUME NEW i, NEW x, NEW y
  PROVE  /\ Is(i, {"and", "andi"}) => W(Bitwise(i, x, y)) = W(x) \cap W(y)
         /\ Is(i, {"or", "ori"}) => W(Bitwise(i, x, y)) = W(x) \cup W(y)
         /\ Is(i, {"xor", "xori"}) => W(Bitwise(i, x, y)) = Xor(W(x), W(y))
<1>1. Is(i, {"and", "andi"}) => Bitwise(i, x, y) = x \cap y
  BY DEF Is, Bitwise
<1>2. Is(i, {"or", "ori"}) => Bitwise(i, x, y) = x \cup y
  BY DEF Is, Bitwise, Xor
<1>3. Is(i, {"xor", "xori"}) => Bitwise(i, x, y) = Xor(x, y)
  BY DEF Is, Bitwise
<1>4. /\ W(x \cap y) = W(x) \cap W(y) /\ W(x \cup y) = W(x) \cup W(y)
      /\ W(Xor(x, y)) = Xor(W(x), W(y))
  BY LowLogic
<1> QED BY <1>1, <1>2, <1>3, <1>4, Zenon

LEMMA LowUpperImmediate ==
  ASSUME NEW i \in Instruction
  PROVE  W(ShiftLeft(Imm(i), HalfBits, DwordBits)) = ShiftLeft(i.imm, HalfBits, WordBits)
<1>1. W(ShiftLeft(Imm(i), HalfBits, DwordBits)) = ShiftLeft(W(Imm(i)), HalfBits, WordBits)
  BY Immediates, LowShift, Widths
<1>2. ASSUME NEW b \in Bits(WordBits)
      PROVE  b - HalfBits \in W(Imm(i)) <=> b - HalfBits \in i.imm
  <2>1. b - HalfBits \in Int /\ b - HalfBits < HalfBits
    BY Widths DEF Bits
  <2>2. i.imm \subseteq 0 .. HalfBits - 1
    BY Immediates DEF Half, Bits
  <2>3. b - HalfBits \in Imm(i) <=> b - HalfBits \in i.imm
    BY <2>1, <2>2, Widths DEF Imm, Extend, Low, SignBits, Bits
  <2>4. b - HalfBits \in i.imm => b - HalfBits \in Bits(WordBits)
    BY <2>1, <2>2, Widths DEF Bits
  <2> QED BY <2>3, <2>4 DEF W, Low
<1> QED BY <1>1, <1>2 DEF ShiftLeft

(* Every integer instruction leaves the same word on the two cores: what
   functions.c computes on doublewords, with the casts it has, emu.c computes
   on words. *)
LEMMA ResultsAgree ==
  ASSUME NEW i \in Instruction, NEW rs \in Dword, NEW rt \in Dword,
         SignExtended(rs), SignExtended(rt),
         i.op \in ThreeRegisterOps \cup ShiftOps \cup ImmediateOps,
         i.op \in {"lui", "sll"} => rs = {},
         i.op = "sllv" => i.sa = 0
  PROVE  W(VrResult(i, rs, rt)) = CmResult(i, W(rs), W(rt))
<1> DEFINE v == VrResult(i, rs, rt)
           c == CmResult(i, W(rs), W(rt))
           D == DwordBits
           Wb == WordBits
<1>1. /\ i.imm \in Dword /\ W(i.imm) = i.imm /\ SignExtended(i.imm)
      /\ Imm(i) \in Dword /\ SignExtended(Imm(i)) /\ HalfImm(i) = W(Imm(i)) /\ i.sa \in Nat
  BY Immediates
<1>2. CASE i.op \in {"add", "addu"}
  <2>1. v = Extend(Plus(rs, rt, D), Wb)
    BY <1>2 DEF VrResult, Is, ADD_SUB, ADDU_SUBU
  <2>2. c = Plus(W(rs), W(rt), Wb)
    BY <1>2 DEF CmResult, Is, ThreeRegisterOps, ShiftOps, ThreeRegister
  <2> QED BY <2>1, <2>2, LowExtend, LowPlus
<1>3. CASE i.op \in {"sub", "subu"}
  <2>1. v = Extend(Minus(rs, rt, D), Wb)
    BY <1>3 DEF VrResult, Is, ADD_SUB, ADDU_SUBU
  <2>2. c = Minus(W(rs), W(rt), Wb)
    BY <1>3 DEF CmResult, Is, ThreeRegisterOps, ShiftOps, ThreeRegister
  <2> QED BY <2>1, <2>2, LowExtend, LowPlus
<1>4. CASE i.op \in {"and", "or", "xor"}
  <2>1. v = Bitwise(i, rs, rt)
    BY <1>4 DEF VrResult, Is, AND_OR_XOR
  <2>2. c = IF i.op = "and" THEN W(rs) \cap W(rt)
            ELSE IF i.op = "or" THEN W(rs) \cup W(rt) ELSE Xor(W(rs), W(rt))
    BY <1>4 DEF CmResult, Is, ThreeRegisterOps, ShiftOps, ThreeRegister
  <2> QED BY <1>4, <2>1, <2>2, LowBitwise DEF Is
<1>5. CASE i.op = "nor"
  <2>1. v = Complement(rs \cup rt, D)
    BY <1>5 DEF VrResult, Is, NOR
  <2>2. c = Complement(W(rs) \cup W(rt), Wb)
    BY <1>5 DEF CmResult, Is, ThreeRegisterOps, ShiftOps, ThreeRegister
  <2>3. W(Complement(rs \cup rt, D)) = Complement(W(rs \cup rt), Wb)
    BY LowLogic
  <2>4. W(rs \cup rt) = W(rs) \cup W(rt)
    BY LowLogic
  <2> QED BY <2>1, <2>2, <2>3, <2>4, Zenon
<1>6. CASE i.op = "slt"
  <2>1. v = Boolean(LessSigned(rs, rt, D))
    BY <1>6 DEF VrResult, Is, SLT
  <2>2. c = Boolean(LessSigned(W(rs), W(rt), Wb))
    BY <1>6 DEF CmResult, Is, ThreeRegisterOps, ShiftOps, ThreeRegister
  <2>3. LessSigned(rs, rt, D) <=> LessSigned(W(rs), W(rt), Wb)
    BY LowLess
  <2> QED BY <2>1, <2>2, <2>3, LowBoolean DEF Boolean
<1>7. CASE i.op = "sltu"
  <2>1. v = Boolean(Less(rs, rt, D))
    BY <1>7 DEF VrResult, Is, SLTU
  <2>2. c = Boolean(Less(W(rs), W(rt), Wb))
    BY <1>7 DEF CmResult, Is, ThreeRegisterOps, ShiftOps, ThreeRegister
  <2>3. Less(rs, rt, D) <=> Less(W(rs), W(rt), Wb)
    BY LowLess
  <2> QED BY <2>1, <2>2, <2>3, LowBoolean DEF Boolean
<1>8. CASE i.op \in {"sll", "sllv"}
  <2>1. v = Extend(ShiftLeft(rt, Count(rs) + i.sa, D), Wb)
    BY <1>8 DEF VrResult, Is, SLL_SLLV
  <2>2. c = ShiftLeft(W(rt), IF i.op = "sllv" THEN Count(W(rs)) ELSE i.sa, Wb)
    BY <1>8 DEF CmResult, Is, ThreeRegisterOps, ShiftOps, Shifted
  <2>3. Count(rs) + i.sa = IF i.op = "sllv" THEN Count(W(rs)) ELSE i.sa
    BY <1>1, <1>8, LowCount, CountOfNone
  <2>4. Count(rs) + i.sa \in Nat
    BY <1>1, LowCount
  <2> QED BY <2>1, <2>2, <2>3, <2>4, LowExtend, LowShift
<1>9. CASE i.op \in {"sra", "srav"}
  <2> DEFINE k == IF i.op = "srav" THEN Count(rs) ELSE i.sa
  <2>1. v = Extend(ShiftRightSigned(rt, k, Wb), Wb)
    BY <1>9 DEF VrResult, Is, SRA, SRAV, Sra
  <2>2. c = ShiftRightSigned(W(rt), k, Wb)
    BY <1>9, LowCount DEF CmResult, Is, ThreeRegisterOps, ShiftOps, Shifted
  <2>3. k \in Nat
    BY <1>1, LowCount
  <2> QED BY <2>1, <2>2, <2>3, LowExtend, LowShift
<1>10. CASE i.op \in {"srl", "srlv"}
  <2> DEFINE k == IF i.op = "srlv" THEN Count(rs) ELSE i.sa
  <2>1. v = Extend(ShiftRight(W(rt), k), Wb)
    BY <1>10 DEF VrResult, Is, SRL, SRLV, Srl, W
  <2>2. c = ShiftRight(W(rt), k)
    BY <1>10, LowCount DEF CmResult, Is, ThreeRegisterOps, ShiftOps, Shifted
  <2>3. k \in Nat
    BY <1>1, LowCount
  <2> QED BY <2>1, <2>2, <2>3, LowExtend, LowShift
<1>11. CASE i.op \in {"addi", "addiu"}
  <2>1. v = Extend(Plus(rs, Imm(i), D), Wb)
    BY <1>1, <1>11, PlusNothing DEF VrResult, Is, ADDI_SUBI, ADDIU_LUI_SUBIU
  <2>2. c = Plus(W(rs), W(Imm(i)), Wb)
    BY <1>1, <1>11 DEF CmResult, Is, ThreeRegisterOps, ShiftOps, Immediate, ImmediateRest
  <2> QED BY <2>1, <2>2, LowExtend, LowPlus
<1>12. CASE i.op = "lui"
  <2>1. v = Extend(Plus({}, ShiftLeft(Imm(i), HalfBits, D), D), Wb)
    BY <1>12 DEF VrResult, Is, ADDIU_LUI_SUBIU
  <2>2. c = ShiftLeft(i.imm, HalfBits, Wb)
    BY <1>12 DEF CmResult, Is, ThreeRegisterOps, ShiftOps, ImmediateRest
  <2>3. ShiftLeft(Imm(i), HalfBits, D) \in Dword
    BY DEF ShiftLeft, Dword
  <2> QED BY <2>1, <2>2, <2>3, LowExtend, PlusNothing, LowUpperImmediate
<1>13. CASE i.op \in {"andi", "ori", "xori"}
  <2>1. v = Bitwise(i, rs, i.imm)
    BY <1>13 DEF VrResult, Is, ANDI_ORI_XORI
  <2>2. c = IF i.op = "andi" THEN W(rs) \cap i.imm
            ELSE IF i.op = "ori" THEN W(rs) \cup i.imm ELSE Xor(W(rs), i.imm)
    BY <1>13 DEF CmResult, Is, ThreeRegisterOps, ShiftOps, Immediate, ImmediateRest
  <2> QED BY <1>1, <1>13, <2>1, <2>2, LowBitwise DEF Is
<1>14. CASE i.op = "slti"
  <2>1. v = Boolean(LessSigned(rs, Imm(i), D))
    BY <1>14 DEF VrResult, Is, SLTI, SLT
  <2>2. c = Boolean(LessSigned(W(rs), W(Imm(i)), Wb))
    BY <1>1, <1>14 DEF CmResult, Is, ThreeRegisterOps, ShiftOps, Immediate
  <2>3. LessSigned(rs, Imm(i), D) <=> LessSigned(W(rs), W(Imm(i)), Wb)
    BY <1>1, LowLess
  <2> QED BY <2>1, <2>2, <2>3, LowBoolean DEF Boolean
<1>15. CASE i.op = "sltiu"
  <2>1. v = Boolean(Less(rs, Imm(i), D))
    BY <1>15 DEF VrResult, Is, SLTIU, SLTU
  <2>2. c = Boolean(Less(W(rs), W(Imm(i)), Wb))
    BY <1>1, <1>15 DEF CmResult, Is, ThreeRegisterOps, ShiftOps, Immediate
  <2>3. Less(rs, Imm(i), D) <=> Less(W(rs), W(Imm(i)), Wb)
    BY <1>1, LowLess
  <2> QED BY <2>1, <2>2, <2>3, LowBoolean DEF Boolean
<1> QED BY <1>2, <1>3, <1>4, <1>5, <1>6, <1>7, <1>8, <1>9, <1>10, <1>11, <1>12, <1>13,
           <1>14, <1>15 DEF ThreeRegisterOps, ShiftOps, ImmediateOps

---------------------------------------------------------------------------
(* The adder is associative: the two carries of a sum of three words are, as a
   pair, those of the same sum in the other order.  The proof takes the lowest
   bit at which they would not be. *)
LEMMA CarryNext ==
  ASSUME NEW x, NEW y, NEW b \in Nat
  PROVE  /\ Carry(x, y, b + 1) <=> \/ b \in x /\ b \in y
                                   \/ (b \in x \/ b \in y) /\ Carry(x, y, b)
         /\ ~Carry(x, y, 0)
<1>1. ~Carry(x, y, 0)
  BY DEF Carry, Bits
<1>2. ASSUME Carry(x, y, b + 1)
      PROVE  \/ b \in x /\ b \in y
             \/ (b \in x \/ b \in y) /\ Carry(x, y, b)
  <2>1. PICK j \in 0 .. b : j \in x \cap y /\ \A k \in j + 1 .. b : k \in x \cup y
    BY <1>2 DEF Carry, Bits
  <2>2. CASE j = b
    BY <2>1, <2>2
  <2>3. CASE j # b
    <3>1. b \in x \/ b \in y
      BY <2>1, <2>3
    <3>2. j \in Bits(b) /\ j + 1 .. b - 1 \subseteq j + 1 .. b
      BY <2>1, <2>3 DEF Bits
    <3> QED BY <2>1, <3>1, <3>2 DEF Carry
  <2> QED BY <2>2, <2>3
<1>3. ASSUME b \in x /\ b \in y
      PROVE  Carry(x, y, b + 1)
  <2>1. b \in Bits(b + 1) /\ b + 1 .. (b + 1) - 1 = {}
    BY DEF Bits
  <2> QED BY <2>1, <1>3 DEF Carry
<1>4. ASSUME b \in x \/ b \in y, Carry(x, y, b)
      PROVE  Carry(x, y, b + 1)
  <2>1. PICK j \in Bits(b) : j \in x \cap y /\ \A k \in j + 1 .. b - 1 : k \in x \cup y
    BY <1>4 DEF Carry
  <2>2. \A k \in j + 1 .. (b + 1) - 1 : k \in j + 1 .. b - 1 \/ k = b
    BY <2>1 DEF Bits
  <2>3. j \in Bits(b + 1)
    BY <2>1 DEF Bits
  <2> QED BY <2>1, <2>2, <2>3, <1>4 DEF Carry
<1> QED BY <1>1, <1>2, <1>3, <1>4

LEMMA PlusBit ==
  ASSUME NEW x, NEW y, NEW n, NEW b \in Bits(n)
  PROVE  b \in Plus(x, y, n) <=> ((b \in x <=> b \in y) <=> Carry(x, y, b))
<1>1. b \in Xor(x, y) <=> ~(b \in x <=> b \in y)
  BY DEF Xor
<1>2. b \in Plus(x, y, n) <=> (b \in Xor(x, y) <=> ~Carry(x, y, b))
  BY DEF Plus
<1> QED BY <1>1, <1>2

LEMMA PlusAssociative ==
  ASSUME NEW x, NEW y, NEW z, NEW n \in Nat
  PROVE  Plus(Plus(x, y, n), z, n) = Plus(x, Plus(y, z, n), n)
<1> DEFINE s == Plus(x, y, n)
           t == Plus(y, z, n)
           Same(b) == /\ Carry(x, y, b) /\ Carry(s, z, b) <=> Carry(y, z, b) /\ Carry(x, t, b)
                      /\ Carry(x, y, b) \/ Carry(s, z, b) <=> Carry(y, z, b) \/ Carry(x, t, b)
           Bad == {b \in 0 .. n : ~Same(b)}
<1>1. Same(0)
  BY CarryNext
<1>2. ASSUME NEW b \in Bits(n), Same(b)
      PROVE  Same(b + 1)
  <2>1. b \in Nat
    BY DEF Bits
  <2>2. /\ b \in s <=> ((b \in x <=> b \in y) <=> Carry(x, y, b))
        /\ b \in t <=> ((b \in y <=> b \in z) <=> Carry(y, z, b))
    BY PlusBit
  <2>3. /\ Carry(x, y, b + 1) <=> \/ b \in x /\ b \in y
                                  \/ (b \in x \/ b \in y) /\ Carry(x, y, b)
        /\ Carry(s, z, b + 1) <=> \/ b \in s /\ b \in z
                                  \/ (b \in s \/ b \in z) /\ Carry(s, z, b)
    BY <2>1, CarryNext
  <2>4. /\ Carry(y, z, b + 1) <=> \/ b \in y /\ b \in z
                                  \/ (b \in y \/ b \in z) /\ Carry(y, z, b)
        /\ Carry(x, t, b + 1) <=> \/ b \in x /\ b \in t
                                  \/ (b \in x \/ b \in t) /\ Carry(x, t, b)
    BY <2>1, CarryNext
  <2> HIDE DEF s, t
  <2> QED BY <2>2, <2>3, <2>4, <1>2
<1> HIDE DEF Same
<1>3. Bad = {}
  <2> SUFFICES ASSUME Bad # {} PROVE FALSE
    OBVIOUS
  <2>1. Bad \subseteq Nat
    OBVIOUS
  <2>2. PICK b \in Bad : \A y0 \in Bad : ~(<<y0, b>> \in OpToRel(<, Nat))
    <3> HIDE DEF Bad
    <3> QED BY <2>1, NatLessThanWellFounded, WFMin
  <2>3. b # 0 /\ b \in 0 .. n
    BY <1>1
  <2>4. b - 1 \in Bits(n) /\ b - 1 \in 0 .. n /\ (b - 1) + 1 = b
    BY <2>3 DEF Bits
  <2>5. <<b - 1, b>> \in OpToRel(<, Nat)
    BY <2>3 DEF OpToRel
  <2>6. Same(b - 1)
    BY <2>2, <2>4, <2>5
  <2>7. Same((b - 1) + 1)
    BY <1>2, <2>4, <2>6
  <2> QED BY <2>2, <2>4, <2>7
<1>4. \A b \in Bits(n) : Same(b)
  BY <1>3 DEF Bits
<1>5. ASSUME NEW b \in Bits(n)
      PROVE  b \in Plus(s, z, n) <=> b \in Plus(x, t, n)
  <2>1. /\ b \in s <=> ((b \in x <=> b \in y) <=> Carry(x, y, b))
        /\ b \in t <=> ((b \in y <=> b \in z) <=> Carry(y, z, b))
        /\ b \in Plus(s, z, n) <=> ((b \in s <=> b \in z) <=> Carry(s, z, b))
        /\ b \in Plus(x, t, n) <=> ((b \in x <=> b \in t) <=> Carry(x, t, b))
    BY PlusBit
  <2>2. Same(b)
    BY <1>4
  <2>3. /\ Carry(x, y, b) /\ Carry(s, z, b) <=> Carry(y, z, b) /\ Carry(x, t, b)
        /\ Carry(x, y, b) \/ Carry(s, z, b) <=> Carry(y, z, b) \/ Carry(x, t, b)
    BY <2>2 DEF Same
  <2> HIDE DEF s, t
  <2> QED BY <2>1, <2>3
<1>6. Plus(s, z, n) \subseteq Bits(n) /\ Plus(x, t, n) \subseteq Bits(n)
  BY DEF Plus
<1> HIDE DEF s, t
<1>7. Plus(s, z, n) = Plus(x, t, n)
  BY <1>5, <1>6
<1> QED BY <1>7 DEF s, t

LEMMA PlusCommutative ==
  ASSUME NEW x, NEW y, NEW n
  PROVE  Plus(x, y, n) = Plus(y, x, n)
<1>1. \A b : Carry(x, y, b) <=> Carry(y, x, b)
  BY DEF Carry
<1>2. Xor(x, y) = Xor(y, x)
  BY DEF Xor
<1> QED BY <1>1, <1>2 DEF Plus

(* Products and quotients are computed by both cores from the values of the
   low words. *)
LEMMA HiLoAgree ==
  ASSUME NEW i, NEW rs, NEW rt, NEW v, NEW c, W(v.lo) = c.lo, W(v.hi) = c.hi
  PROVE  /\ W(MULT_MULTU(i, rs, rt).lo) = Multiply(i, W(rs), W(rt)).lo
         /\ W(MULT_MULTU(i, rs, rt).hi) = Multiply(i, W(rs), W(rt)).hi
         /\ W(DIV_DIVU(i, rs, rt, v).lo) = Divide(i, W(rs), W(rt), c).lo
         /\ W(DIV_DIVU(i, rs, rt, v).hi) = Divide(i, W(rs), W(rt), c).hi
<1> DEFINE Wb == WordBits
<1>1. \A x : /\ Low(x, Wb) = W(x) /\ Signed(x, Wb) = Value(W(x))
             /\ Low(W(x), Wb) = W(x)
  <2> TAKE x
  <2>1. Low(x, Wb) = W(x) /\ Low(W(x), Wb) = W(x)
    BY DEF W, Low
  <2>2. Wb - 1 \in x <=> Wb - 1 \in W(x)
    BY Widths DEF W, Low, Bits
  <2> QED BY <2>1, <2>2 DEF Value, Signed
<1>2. \A x : W(Extend(x, Wb)) = W(x)
  BY LowExtend
<1>3. \A p : W(ShiftRight(Pattern(p, DwordBits), Wb)) = ShiftRight(Pattern(p, DwordBits), Wb)
  <2> TAKE p
  <2>1. Pattern(p, DwordBits) \subseteq Bits(DwordBits)
    BY DEF Pattern
  <2>2. ShiftRight(Pattern(p, DwordBits), Wb) \subseteq Bits(Wb)
    BY <2>1, Widths DEF ShiftRight, Bits
  <2> QED BY <2>2 DEF W, Low
<1>4. \A p : W(Pattern(p, Wb)) = Pattern(p, Wb)
  BY DEF Pattern, W, Low
<1> HIDE DEF Wb
<1>5. /\ W(MULT_MULTU(i, rs, rt).lo) = Multiply(i, W(rs), W(rt)).lo
      /\ W(MULT_MULTU(i, rs, rt).hi) = Multiply(i, W(rs), W(rt)).hi
  BY <1>1, <1>2, <1>3 DEF MULT_MULTU, Multiply, Wb
<1>6. /\ W(DIV_DIVU(i, rs, rt, v).lo) = Divide(i, W(rs), W(rt), c).lo
      /\ W(DIV_DIVU(i, rs, rt, v).hi) = Divide(i, W(rs), W(rt), c).hi
  BY <1>1, <1>2, <1>4 DEF DIV_DIVU, Divide, Wb
<1> QED BY <1>5, <1>6

---------------------------------------------------------------------------
(* Branches.  The tests of the two cores. *)
LEMMA LowTests ==
  ASSUME NEW x \in Dword, NEW y \in Dword, SignExtended(x), SignExtended(y)
  PROVE  /\ x = y <=> W(x) = W(y)
         /\ x = {} <=> W(x) = {}
         /\ Negative(x) <=> WordBits - 1 \in W(x)
<1>1. W(x) = W(y) => x = y
  BY Widths DEF SignExtended, Extend, SignBits, W, Low, Bits
<1>2. W({}) = {} /\ SignExtended({}) /\ {} \in Dword
  BY EmptyIsNarrow DEF W, Low
<1>3. W(x) = {} => x = {}
  BY Widths DEF SignExtended, Extend, SignBits, W, Low, Bits
<1>4. Negative(x) <=> WordBits - 1 \in W(x)
  <2>1. Uniform(x)
    BY NarrowIsUniform
  <2> QED BY <2>1, Widths DEF Uniform, Negative, W, Low, Bits
<1> QED BY <1>1, <1>2, <1>3, <1>4

(* pc + (offset + 4) in functions.c, (pc + 4) + offset in emu.c. *)
LEMMA TargetsAgree ==
  ASSUME NEW i \in Instruction
  PROVE  W(Plus(Pc, Plus(ShiftLeft(Imm(i), 2, DwordBits), Pattern(4, DwordBits), DwordBits),
                DwordBits))
           = Plus(After(4), Sext18(ShiftLeft(i.imm, 2, DwordBits)), WordBits)
<1> DEFINE o == ShiftLeft(Imm(i), 2, DwordBits)
           f == Pattern(4, DwordBits)
<1>1. W(f) = Pattern(4, WordBits)
  BY Widths DEF Pattern, W, Low, Bits
<1>2. W(o) = Sext18(ShiftLeft(i.imm, 2, DwordBits))
  <2>1. i.imm \subseteq 0 .. HalfBits - 1
    BY Immediates DEF Half, Bits
  <2>2. \A b \in 0 .. WordBits - 1 :
          b \in o <=> \/ b \in ShiftLeft(i.imm, 2, DwordBits)
                      \/ HalfBits - 1 \in i.imm /\ b \in HalfBits + 2 .. DwordBits - 1
    BY <2>1, Widths DEF ShiftLeft, Imm, Extend, Low, SignBits, Bits
  <2>3. HalfBits + 1 \in ShiftLeft(i.imm, 2, DwordBits) <=> HalfBits - 1 \in i.imm
    BY <2>1, Widths DEF ShiftLeft, Bits
  <2>4. \A b \in 0 .. WordBits - 1 :
          b \in Bits(DwordBits) \ Bits(HalfBits + 2) <=> b \in HalfBits + 2 .. DwordBits - 1
    BY Widths DEF Bits
  <2> HIDE DEF o
  <2> QED BY <2>2, <2>3, <2>4 DEF Sext18, W, Low, Bits
<1>3. W(Plus(Pc, Plus(o, f, DwordBits), DwordBits))
        = Plus(W(Pc), Plus(W(o), W(f), WordBits), WordBits)
  BY LowPlus
<1>4. Plus(W(Pc), Plus(W(o), W(f), WordBits), WordBits)
        = Plus(Plus(W(Pc), W(f), WordBits), W(o), WordBits)
  BY PlusAssociative, PlusCommutative, Widths
<1> HIDE DEF o, f
<1>5. W(Plus(Pc, Plus(o, f, DwordBits), DwordBits))
        = Plus(After(4), Sext18(ShiftLeft(i.imm, 2, DwordBits)), WordBits)
  BY <1>1, <1>2, <1>3, <1>4 DEF After
<1> QED BY <1>5 DEF o, f

LEMMA LinksAgree == W(Link) = After(8)
<1>1. W(Pattern(8, DwordBits)) = Pattern(8, WordBits)
  BY Widths DEF Pattern, W, Low, Bits
<1> QED BY <1>1, LowPlus DEF Link, After

(* The successor after a branch or a jump. *)
Target(i) == Plus(Pc, Plus(ShiftLeft(Imm(i), 2, DwordBits), Pattern(4, DwordBits),
                           DwordBits), DwordBits)

LEMMA NextsAgree ==
  ASSUME NEW i \in Instruction, NEW rs \in Dword, NEW rt \in Dword,
         SignExtended(rs), SignExtended(rt), i.op \in BranchOps \cup JumpOps
  PROVE  /\ VrNext(i, rs, rt).kind = CmNext(i, W(rs), W(rt)).kind
         /\ W(VrNext(i, rs, rt).pc) = CmNext(i, W(rs), W(rt)).pc
<1> DEFINE v == VrNext(i, rs, rt)
           c == CmNext(i, W(rs), W(rt))
           t == Condition(i, W(rs), W(rt))
           ct == Plus(After(4), Sext18(ShiftLeft(i.imm, 2, DwordBits)), WordBits)
<1>1. /\ rs = rt <=> W(rs) = W(rt)
      /\ rs = {} <=> W(rs) = {}
      /\ Negative(rs) <=> WordBits - 1 \in W(rs)
  BY LowTests
<1>2. CASE i.op \in BranchOps
  <2>1. c = IF t THEN JumpTo(ct) ELSE IF i.op \in LikelyBranch THEN SkipSlot ELSE Sequential
    BY <1>2 DEF CmNext, BranchTo, Is, BranchOps, LikelyBranch, LinkBranchOps
  <2>2. v = IF t THEN JumpTo(Target(i))
            ELSE IF i.op \in LikelyBranch THEN SkipSlot ELSE Sequential
    <3>1. CASE i.op \in {"beq", "beql", "bne", "bnel"}
      BY <3>1, <1>1 DEF VrNext, Is, BEQ_BEQL_BNE_BNEL, Branch, Condition, LikelyBranch,
                        LinkBranchOps, Target
    <3>2. CASE i.op \in {"bgez", "bgezl", "bltz", "bltzl"}
      BY <3>2, <1>1 DEF VrNext, Is, BGEZ_BGEZL_BLTZ_BLTZL, Branch, Condition, LikelyBranch,
                        LinkBranchOps, Target
    <3>3. CASE i.op \in {"bgezal", "bltzal"}
      BY <3>3, <1>1 DEF VrNext, Is, BGEZAL_BGEZALL_BLTZAL_BLTZALL, Branch, Condition,
                        LikelyBranch, LinkBranchOps, Target
    <3>4. CASE i.op \in {"bgtz", "bgtzl", "blez", "blezl"}
      BY <3>4, <1>1 DEF VrNext, Is, BGTZ_BGTZL_BLEZ_BLEZL, Branch, Condition, LikelyBranch,
                        LinkBranchOps, Target
    <3> QED BY <1>2, <3>1, <3>2, <3>3, <3>4 DEF BranchOps, LikelyBranch, LinkBranchOps
  <2>3. W(Target(i)) = ct /\ W({}) = {}
    BY TargetsAgree DEF Target, W, Low
  <2> HIDE DEF v, c, t, ct
  <2> QED BY <2>1, <2>2, <2>3 DEF JumpTo, SkipSlot, Sequential, v, c
<1>3. CASE i.op \in {"j", "jal"}
  <2>1. v = J_JAL(i) /\ c = JumpTarget(i)
    BY <1>3 DEF VrNext, CmNext, Is, LinkBranchOps, BranchOps, LikelyBranch
  <2>2. W((Pc \ Bits(JumpBits)) \cup Low(ShiftLeft(i.imm, 2, DwordBits), JumpBits))
          = (W(Pc) \ Bits(JumpBits)) \cup Low(ShiftLeft(i.imm, 2, WordBits), JumpBits)
    BY ExecuteAssumption, Widths DEF W, Low, Bits, ShiftLeft
  <2> QED BY <2>1, <2>2 DEF J_JAL, JumpTarget, JumpTo
<1>4. CASE i.op \in {"jr", "jalr"}
  <2>1. v = JumpTo(rs) /\ c = JumpTo(W(rs))
    BY <1>4 DEF VrNext, CmNext, Is, LinkBranchOps, BranchOps, LikelyBranch, JALR_JR
  <2> QED BY <2>1 DEF JumpTo
<1> QED BY <1>2, <1>3, <1>4 DEF JumpOps

---------------------------------------------------------------------------
(* Memory.  The two cores compute the same address. *)
LEMMA AddressesAgree ==
  ASSUME NEW i, NEW rs
  PROVE  /\ W(Address(i, rs)) = VirtualAddress(i, W(rs))
         /\ VirtualAddress(i, W(rs)) \in Word
<1>1. W(Address(i, rs)) = VirtualAddress(i, W(rs))
  BY LowPlus DEF Address, VirtualAddress, HalfImm
<1> QED BY <1>1, LowIsWord

LEMMA PlacesAgree ==
  ASSUME NEW x
  PROVE  /\ WordOf(W(x)) = WordOf(x)
         /\ IsDevice(W(x)) <=> IsDevice(x)
         /\ InMemory(W(x)) <=> InMemory(x)
         /\ \A n \in {2, 4, 8} : Offset(W(x), n) = Offset(x, n)
<1>1. WordOf(W(x)) = WordOf(x)
  BY DEF WordOf, W, Low
<1>2. (0 \in W(x) <=> 0 \in x) /\ (1 \in W(x) <=> 1 \in x) /\ (2 \in W(x) <=> 2 \in x)
  BY Widths DEF W, Low, Bits
<1> QED BY <1>1, <1>2 DEF IsDevice, InMemory, Offset

(* An address in a word, and its word. *)
LEMMA AlignedPlace ==
  ASSUME NEW x
  PROVE  /\ WordOf(Aligned(x, 4)) = WordOf(x) /\ Offset(Aligned(x, 4), 4) = 0
         /\ Base(x) = Aligned(x, 4)
         /\ IsDevice(Aligned(x, 4)) <=> IsDevice(x)
<1>1. \A b : b \in Aligned(x, 4) <=> b \in x /\ b \notin 0 .. 1
  BY DEF Aligned
<1>2. WordOf(Aligned(x, 4)) = WordOf(x)
  <2>1. \A b \in Bits(DwordBits) : b + 2 \in Aligned(x, 4) <=> b + 2 \in x
    BY <1>1 DEF Bits
  <2> QED BY <2>1 DEF WordOf, ShiftRight, Low
<1>3. 0 \notin Aligned(x, 4) /\ 1 \notin Aligned(x, 4)
  BY <1>1
<1>4. Offset(Aligned(x, 4), 4) = 0
  BY <1>3 DEF Offset
<1>5. Base(x) = Aligned(x, 4)
  BY DEF Base, Aligned
<1> QED BY <1>2, <1>4, <1>5 DEF IsDevice

LEMMA NextPlace ==
  ASSUME NEW a \in Word, 0 \notin a
  PROVE  /\ WordOf(Next1(a)) = WordOf(a) /\ Offset(Next1(a), 4) = Offset(a, 4) + 1
         /\ IsDevice(Next1(a)) <=> IsDevice(a)
<1>1. \A b : ~Carry(a, {0}, b)
  BY DEF Carry
<1>2. Next1(a) = a \cup {0}
  <2>1. Xor(a, {0}) = a \cup {0}
    BY DEF Xor
  <2>2. a \cup {0} \subseteq Bits(WordBits)
    BY Widths DEF Word, Bits
  <2> QED BY <1>1, <2>1, <2>2 DEF Next1, Plus
<1>3. WordOf(Next1(a)) = WordOf(a)
  BY <1>2, Widths DEF WordOf, ShiftRight, Low, Bits
<1>4. Offset(Next1(a), 4) = Offset(a, 4) + 1
  <2>1. /\ 0 \in Next1(a) /\ (1 \in Next1(a) <=> 1 \in a) /\ (2 \in Next1(a) <=> 2 \in a)
    BY <1>2
  <2> QED BY <2>1 DEF Offset
<1> QED BY <1>3, <1>4 DEF IsDevice

(* Positions of the bytes of a word, in bits. *)
LEMMA Products ==
  ASSUME NEW n \in 0 .. 4
  PROVE  /\ n * ByteBits \in Nat /\ n * ByteBits <= WordBits
         /\ n # 0 => ByteBits <= n * ByteBits
         /\ n # 4 => n * ByteBits <= 3 * ByteBits
         /\ (n + 1) * ByteBits = n * ByteBits + ByteBits
         /\ (n + 4) * ByteBits = n * ByteBits + WordBits
         /\ (8 - n) * ByteBits = DwordBits - n * ByteBits
         /\ (4 - n) * ByteBits = WordBits - n * ByteBits
         /\ (3 - n) * ByteBits = WordBits - ByteBits - n * ByteBits
         /\ ByteBits * (3 - n) = (3 - n) * ByteBits
<1>1. CASE n = 0
  BY <1>1, Widths
<1>2. CASE n = 1
  BY <1>2, Widths
<1>3. CASE n = 2
  BY <1>3, Widths
<1>4. CASE n = 3
  BY <1>4, Widths
<1>5. CASE n = 4
  BY <1>5, Widths
<1> QED BY <1>1, <1>2, <1>3, <1>4, <1>5

(* The bits of the low word that the bus path of the VR4300 gives for s bytes
   at offset n. *)
LEMMA LoadedBits ==
  ASSUME NEW x \in Word, NEW n \in 0 .. 3, NEW s \in 1 .. 4, NEW b \in Bits(WordBits)
  PROVE  b \in ShiftRightSigned(Up(x, n + 4), (8 - s) * ByteBits, DwordBits) <=>
           IF b < s * ByteBits
           THEN b + WordBits - s * ByteBits - n * ByteBits \in x
           ELSE WordBits - n * ByteBits - 1 \in x
<1> DEFINE N == n * ByteBits
           S == s * ByteBits
<1>1. /\ N \in Nat /\ S \in Nat /\ N <= WordBits /\ S <= WordBits
      /\ (n + 4) * ByteBits = N + WordBits /\ (8 - s) * ByteBits = DwordBits - S
      /\ N <= 3 * ByteBits /\ ByteBits <= S
  BY Products
<1> HIDE DEF N, S
<1>2. \A j : j \in Up(x, n + 4) <=> j \in 0 .. DwordBits - 1 /\ j - (N + WordBits) \in x
  BY <1>1 DEF Up, ShiftLeft, Bits
<1>3. b \in ShiftRightSigned(Up(x, n + 4), (8 - s) * ByteBits, DwordBits) <=>
        IF b + (DwordBits - S) < DwordBits THEN b + (DwordBits - S) \in Up(x, n + 4)
                                           ELSE DwordBits - 1 \in Up(x, n + 4)
  BY <1>1, Widths DEF ShiftRightSigned, Bits
<1>4. CASE b < S
  <2>1. b + (DwordBits - S) \in 0 .. DwordBits - 1
    BY <1>1, <1>4, Widths DEF Bits
  <2>2. b + (DwordBits - S) - (N + WordBits) = b + WordBits - S - N
    BY <1>1, Widths DEF Bits
  <2>3. b + (DwordBits - S) \in Up(x, n + 4) <=> b + WordBits - S - N \in x
    BY <2>1, <2>2, <1>2, <1>1, Widths DEF Bits
  <2>4. b + (DwordBits - S) < DwordBits
    BY <2>1, <1>1, <1>4, Widths DEF Bits
  <2>5. b \in ShiftRightSigned(Up(x, n + 4), (8 - s) * ByteBits, DwordBits)
          <=> b + WordBits - S - N \in x
    BY <2>3, <2>4, <1>3
  <2> QED BY <2>5, <1>4 DEF N, S
<1>5. CASE ~(b < S)
  <2>1. ~(b + (DwordBits - S) < DwordBits)
    BY <1>1, <1>5, Widths DEF Bits
  <2>2. DwordBits - 1 - (N + WordBits) = WordBits - N - 1
    BY <1>1, Widths
  <2> QED BY <2>1, <2>2, <1>2, <1>3, <1>5, Widths DEF N, S
<1> QED BY <1>4, <1>5

(* The bits of a byte that emu.c extracts from a word, of one that it places
   in a word, and of what it extends. *)
LEMMA ByteBitsOf ==
  ASSUME NEW x \in Word, NEW n \in 0 .. 3, NEW b \in Bits(WordBits)
  PROVE  b \in Low(ShiftRight(x, ByteBits * (3 - n)), ByteBits) <=>
           b < ByteBits /\ b + WordBits - ByteBits - n * ByteBits \in x
<1>1. /\ n * ByteBits \in Nat /\ n * ByteBits <= 3 * ByteBits
      /\ ByteBits * (3 - n) = WordBits - ByteBits - n * ByteBits
  BY Products
<1>2. b + (WordBits - ByteBits - n * ByteBits) = b + WordBits - ByteBits - n * ByteBits
  BY <1>1, Widths DEF Bits
<1> QED BY <1>1, <1>2, Widths DEF Low, ShiftRight, Bits

LEMMA ExtendedBits ==
  ASSUME NEW x, NEW n \in 1 .. WordBits, NEW b \in Bits(WordBits)
  PROVE  b \in W(Extend(x, n)) <=> IF b < n THEN b \in x ELSE n - 1 \in x
  BY Widths DEF W, Extend, Low, SignBits, Bits

(* What the bus path answers to a request for one word. *)
LEMMA BusReadWord ==
  ASSUME NEW q, NEW m, q.wide = FALSE
  PROVE  BusRead(q, m) =
           q.result \cup
             (ShiftRightSigned(Up(m[WordOf(q.vaddr)], Offset(q.vaddr, 4) + 4),
                               (8 - q.size) * ByteBits, DwordBits) \cap q.data)
  BY DEF BusRead

LEMMA SameWords ==
  ASSUME NEW x, NEW y \in Word,
         \A b \in Bits(WordBits) : b \in x <=> b \in y
  PROVE  W(x) = y
  BY DEF W, Low, Word

LEMMA OnesBits ==
  ASSUME NEW s \in 1 .. 8, NEW b \in Bits(WordBits)
  PROVE  b \in Ones(s) <=> b < s * ByteBits
<1>1. s * ByteBits \in Int
  BY Widths
<1> QED BY <1>1 DEF Ones, Bits

(* A load of the aligned kind: s bytes at offset n of word x, signed or not. *)
LEMMA BusReadBits ==
  ASSUME NEW q, NEW m, NEW b \in Bits(WordBits),
         q.wide = FALSE, q.result = {}, q.size \in {1, 2, 4}, m[WordOf(q.vaddr)] \in Word
  PROVE  LET x == m[WordOf(q.vaddr)]
             n == Offset(q.vaddr, 4)
             s == q.size
         IN b \in BusRead(q, m) <=>
              /\ b \in q.data
              /\ IF b < s * ByteBits
                 THEN b + WordBits - s * ByteBits - n * ByteBits \in x
                 ELSE WordBits - n * ByteBits - 1 \in x
<1> DEFINE x == m[WordOf(q.vaddr)]
           n == Offset(q.vaddr, 4)
           s == q.size
           t == ShiftRightSigned(Up(x, n + 4), (8 - s) * ByteBits, DwordBits)
<1>1. BusRead(q, m) = q.result \cup (t \cap q.data)
  BY BusReadWord
<1>2. b \in t <=> IF b < s * ByteBits
                  THEN b + WordBits - s * ByteBits - n * ByteBits \in x
                  ELSE WordBits - n * ByteBits - 1 \in x
  BY LoadedBits, OffsetInWord4
<1> HIDE DEF t, x, n, s
<1> QED BY <1>1, <1>2 DEF x, n, s

(* Every load from memory gives the same word: the shifts and masks of the
   memory stage on one side, the bytes of emu.c put together on the other. *)
LEMMA LoadsAgree ==
  ASSUME NEW i \in Instruction, NEW rs, NEW rt, NEW m, NEW port,
         m \in [MemoryWords -> Word], i.op \in LoadOps,
         InMemory(Address(i, rs)), Offset(Address(i, rs), Alignment(i)) = 0
  PROVE  W(BusRead(VrRequest(i, rs, rt), m))
           = LoadAligned(i, VirtualAddress(i, W(rs)), m, port)
<1> DEFINE q == VrRequest(i, rs, rt)
           A == Address(i, rs)
           a == VirtualAddress(i, W(rs))
           x == m[WordOf(A)]
           n == Offset(A, 4)
           s == RequestSize(i)
           v == BusRead(q, m)
           c == LoadAligned(i, a, m, port)
           Top == WordBits - ByteBits - n * ByteBits
           byte(k) == Low(ShiftRight(x, ByteBits * (3 - k)), ByteBits)
<1>1. /\ x \in Word /\ n \in 0 .. 3 /\ WordOf(A) \in MemoryWords
      /\ a \in Word /\ W(A) = a
  BY OffsetInWord4, AddressesAgree DEF InMemory
<1>2. WordOf(a) = WordOf(A) /\ Offset(a, 4) = n /\ ~IsDevice(a)
  <2>1. WordOf(a) = WordOf(A) /\ Offset(a, 4) = n
    BY <1>1, PlacesAgree
  <2> HIDE DEF A, a
  <2> QED BY <1>1, <2>1, ExecuteAssumption DEF IsDevice
<1>3. /\ q = Read(A, IF Is(i, {"lbu", "lhu", "lwu"}) THEN Ones(s) ELSE Ones(8), s, FALSE, {})
      /\ s = IF i.op \in {"lb", "lbu"} THEN 1 ELSE IF i.op \in {"lh", "lhu"} THEN 2 ELSE 4
  BY DEF VrRequest, Is, LoadOps, StoreOps, LinkedOps, LOAD_STORE, RequestSize
<1>4. ASSUME NEW b \in Bits(WordBits)
      PROVE  b \in v <=>
               /\ i.op \in {"lbu", "lhu"} => b < s * ByteBits
               /\ IF b < s * ByteBits
                  THEN b + WordBits - s * ByteBits - n * ByteBits \in x
                  ELSE WordBits - n * ByteBits - 1 \in x
  <2>1. /\ q.wide = FALSE /\ q.result = {} /\ q.size = s /\ q.vaddr = A
        /\ q.data = IF i.op \in {"lbu", "lhu"} THEN Ones(s) ELSE Ones(8)
    BY <1>3 DEF Read, Is, LoadOps
  <2>2. s \in {1, 2, 4}
    BY <1>3
  <2>3. b \in Ones(8) /\ (b \in Ones(s) <=> b < s * ByteBits)
    BY <2>2, OnesBits, Widths DEF Bits
  <2>5. m[WordOf(q.vaddr)] = x /\ Offset(q.vaddr, 4) = n /\ x \in Word /\ n \in 0 .. 3
    BY <2>1, <1>1
  <2> HIDE DEF q, A, s, n, x
  <2>4. b \in BusRead(q, m) <=>
           /\ b \in q.data
           /\ IF b < s * ByteBits
              THEN b + WordBits - s * ByteBits - n * ByteBits \in x
              ELSE WordBits - n * ByteBits - 1 \in x
    BY <2>1, <2>2, <2>5, BusReadBits
  <2> QED BY <2>1, <2>3, <2>4
<1>5. \A b \in Bits(WordBits) :
        b \in byte(n) <=> b < ByteBits /\ b + WordBits - ByteBits - n * ByteBits \in x
  BY <1>1, ByteBitsOf
<1>6. n * ByteBits \in Nat /\ n * ByteBits <= 3 * ByteBits /\ 1 * ByteBits = ByteBits
  BY <1>1, Products, Widths
<1>7. CASE i.op \in {"lb", "lbu"}
  <2>1. c = IF i.op = "lb" THEN W(Extend(byte(n), ByteBits)) ELSE byte(n)
    BY <1>2, <1>7 DEF LoadAligned, ReadVirtByte, Shamt
  <2>2. s = 1
    BY <1>3, <1>7
  <2>3. \A b \in Bits(WordBits) :
          b \in W(Extend(byte(n), ByteBits)) <=> IF b < ByteBits THEN b \in byte(n)
                                                 ELSE ByteBits - 1 \in byte(n)
    BY ExtendedBits, Widths
  <2>4. ByteBits - 1 \in Bits(WordBits)
        /\ (ByteBits - 1) + WordBits - ByteBits - n * ByteBits = WordBits - n * ByteBits - 1
    BY <1>6, Widths DEF Bits
  <2>5. W(Extend(byte(n), ByteBits)) \in Word /\ byte(n) \in Word
    BY LowIsWord, Widths DEF Low, Word, Bits
  <2> HIDE DEF v, c, x, n, s, byte
  <2>6. \A b \in Bits(WordBits) : b \in v <=> b \in c
    <3> TAKE b \in Bits(WordBits)
    <3>1. b \in v <=>
               /\ i.op = "lbu" => b < ByteBits
               /\ IF b < ByteBits
                  THEN b + WordBits - ByteBits - n * ByteBits \in x
                  ELSE WordBits - n * ByteBits - 1 \in x
      BY <1>4, <1>6, <1>7, <2>2
    <3>2. b \in byte(n) <=> b < ByteBits /\ b + WordBits - ByteBits - n * ByteBits \in x
      BY <1>5
    <3>3. ByteBits - 1 \in byte(n) <=> WordBits - n * ByteBits - 1 \in x
      BY <1>5, <2>4, Widths
    <3> QED BY <3>1, <3>2, <3>3, <2>1, <2>3, <1>7
  <2> QED BY <2>1, <2>5, <2>6, SameWords, <1>7 DEF v, c
<1>8. CASE i.op \in {"lh", "lhu"}
  <2>1. 0 \notin A /\ 0 \notin a
    <3>1. Offset(A, 2) = 0
      BY <1>8 DEF Alignment, Is
    <3>2. 0 \notin A
      BY <3>1 DEF Offset
    <3> QED BY <3>2, <1>1 DEF W, Low
  <2>2. n \in {0, 2}
    BY <2>1 DEF Offset
  <2>3. /\ WordOf(Next1(a)) = WordOf(A) /\ Offset(Next1(a), 4) = n + 1 /\ ~IsDevice(Next1(a))
    BY <1>1, <1>2, <2>1, NextPlace
  <2> DEFINE half == byte(n + 1) \cup ShiftLeft(byte(n), ByteBits, WordBits)
  <2>4. c = IF i.op = "lh" THEN W(Extend(half, HalfBits)) ELSE half
    BY <1>2, <1>8, <2>3 DEF LoadAligned, ReadVirtByte, Shamt
  <2>5. s = 2
    BY <1>3, <1>8
  <2>6. \A b \in Bits(WordBits) :
          b \in half <=> b < HalfBits /\ b + WordBits - HalfBits - n * ByteBits \in x
    <3> TAKE b \in Bits(WordBits)
    <3>1. b \in byte(n + 1) <=> b < ByteBits /\ b + WordBits - ByteBits - (n + 1) * ByteBits \in x
      BY <1>1, <2>2, ByteBitsOf
    <3>2. (n + 1) * ByteBits = n * ByteBits + ByteBits
      BY <1>1, Products
    <3>3. b \in ShiftLeft(byte(n), ByteBits, WordBits) <=> b - ByteBits \in byte(n)
      BY DEF ShiftLeft
    <3>4. b - ByteBits \in byte(n) <=>
            b >= ByteBits /\ b < HalfBits /\ b - ByteBits + WordBits - ByteBits - n * ByteBits \in x
      <4>1. CASE b >= ByteBits
        <5>1. b - ByteBits \in Bits(WordBits)
          BY <4>1, Widths DEF Bits
        <5> QED BY <5>1, <4>1, <1>5, Widths DEF Bits
      <4>2. CASE ~(b >= ByteBits)
        BY <4>2, Widths DEF Low, Bits
      <4> QED BY <4>1, <4>2
    <3>5. /\ b - ByteBits + WordBits - ByteBits - n * ByteBits = b + WordBits - HalfBits - n * ByteBits
          /\ b + WordBits - ByteBits - (n + 1) * ByteBits = b + WordBits - HalfBits - n * ByteBits
      BY <1>6, <3>2, Widths DEF Bits
    <3> HIDE DEF byte, n, x
    <3> QED BY <3>1, <3>3, <3>4, <3>5, Widths DEF Bits
  <2>7. half \in Word
    BY Widths DEF Low, ShiftLeft, Word, Bits
  <2> HIDE DEF half
  <2>8. \A b \in Bits(WordBits) :
          b \in W(Extend(half, HalfBits)) <=> IF b < HalfBits THEN b \in half
                                              ELSE HalfBits - 1 \in half
    BY ExtendedBits, Widths
  <2>9. HalfBits - 1 \in Bits(WordBits)
        /\ (HalfBits - 1) + WordBits - HalfBits - n * ByteBits = WordBits - n * ByteBits - 1
    BY <1>6, Widths DEF Bits
  <2>10. W(Extend(half, HalfBits)) \in Word /\ 2 * ByteBits = HalfBits
    BY LowIsWord, Widths
  <2> HIDE DEF v, c, x, n, s, byte
  <2>11. \A b \in Bits(WordBits) : b \in v <=> b \in c
    <3> TAKE b \in Bits(WordBits)
    <3>1. b \in v <=>
               /\ i.op = "lhu" => b < HalfBits
               /\ IF b < HalfBits
                  THEN b + WordBits - HalfBits - n * ByteBits \in x
                  ELSE WordBits - n * ByteBits - 1 \in x
      BY <1>4, <1>6, <1>8, <2>5, <2>10
    <3>2. HalfBits - 1 \in half <=> WordBits - n * ByteBits - 1 \in x
      BY <2>6, <2>9, Widths
    <3> QED BY <3>1, <3>2, <2>4, <2>6, <2>8, <1>8
  <2> QED BY <2>4, <2>7, <2>10, <2>11, SameWords, <1>8 DEF v, c
<1>9. CASE i.op = "lw"
  <2>1. n = 0
    BY <1>9 DEF Alignment, Is
  <2>2. c = x
    BY <1>2, <1>9 DEF LoadAligned, ReadVirtWord
  <2>3. s = 4 /\ 4 * ByteBits = WordBits /\ 0 * ByteBits = 0
    BY <1>3, <1>9, Widths
  <2> HIDE DEF v, c, x, n, s, byte
  <2>4. \A b \in Bits(WordBits) : b \in v <=> b \in x
    <3> TAKE b \in Bits(WordBits)
    <3>1. b < s * ByteBits /\ b + WordBits - s * ByteBits - n * ByteBits = b
      BY <2>1, <2>3, Widths DEF Bits
    <3> QED BY <3>1, <1>4
  <2> QED BY <2>2, <2>4, <1>1, SameWords DEF v, c
<1> QED BY <1>7, <1>8, <1>9 DEF LoadOps

LEMMA UpBits ==
  ASSUME NEW x, NEW n \in 0 .. 3, NEW b \in Bits(DwordBits)
  PROVE  /\ b \in Up(x, n) <=> b - n * ByteBits \in x
         /\ b \in Down(x, n) <=> b + n * ByteBits \in x
         /\ b \in Up(Ones(8), n) <=> b >= n * ByteBits
  <1>1. n * ByteBits \in Nat
    BY Products
  <1> QED BY <1>1, Widths DEF Up, Down, ShiftLeft, ShiftRight, Ones, Bits

(* The partial loads: the bytes that lwl and lwr take and those that they leave. *)
LEMMA PartialLoadsAgree ==
  ASSUME NEW i, NEW rs, NEW rt \in Dword, NEW m,
         m \in [MemoryWords -> Word], i.op \in {"lwl", "lwr"}, InMemory(Address(i, rs))
  PROVE  LET a == VirtualAddress(i, W(rs))
         IN W(BusRead(VrRequest(i, rs, rt), m))
              = IF i.op = "lwl" THEN LoadLeft(a, W(rt), m) ELSE LoadRight(a, W(rt), m)
<1> DEFINE q == VrRequest(i, rs, rt)
           A == Address(i, rs)
           a == VirtualAddress(i, W(rs))
           x == m[WordOf(A)]
           n == Offset(A, 4)
           N == n * ByteBits
           v == BusRead(q, m)
           c == IF i.op = "lwl" THEN LoadLeft(a, W(rt), m) ELSE LoadRight(a, W(rt), m)
<1>1. /\ x \in Word /\ n \in 0 .. 3 /\ WordOf(A) \in MemoryWords
      /\ a \in Word /\ W(A) = a
  BY OffsetInWord4, AddressesAgree DEF InMemory
<1>2. Offset(a, 4) = n /\ ReadVirtWord(Base(a), m) = x
  <2>1. WordOf(a) = WordOf(A) /\ Offset(a, 4) = n /\ WordOf(Base(a)) = WordOf(a)
    BY <1>1, PlacesAgree, AlignedPlace
  <2> HIDE DEF A, a
  <2>2. ~IsDevice(Base(a))
    BY <1>1, <2>1, ExecuteAssumption DEF IsDevice
  <2> QED BY <2>1, <2>2 DEF ReadVirtWord
<1>3. q = LWL_LWR(i, rs, rt)
  BY DEF VrRequest, Is, LoadOps, StoreOps, LinkedOps
<1>4. x \subseteq Bits(WordBits) /\ \A b \in Bits(WordBits) : b \in W(rt) <=> b \in rt
  BY <1>1 DEF Word, W, Low
<1>5. /\ N \in Nat /\ N <= 3 * ByteBits /\ (n + 1) * ByteBits = N + ByteBits
      /\ (3 - n) * ByteBits = WordBits - ByteBits - N
      /\ (4 - (3 - n)) * ByteBits = N + ByteBits
      /\ (n + 4) * ByteBits = N + WordBits
  <2>1. 4 - (3 - n) = n + 1
    BY <1>1
  <2> HIDE DEF n
  <2> QED BY <1>1, <2>1, Products
<1>6. ASSUME i.op = "lwl" PROVE W(v) = c
  <2>1. /\ q.wide = FALSE /\ q.size = 4 /\ q.vaddr = A /\ q.data = Up(Ones(8), n)
        /\ q.result = rt \ Up(Ones(8), n)
    BY <1>3, <1>6 DEF LWL_LWR, Read
  <2>2. c = ShiftLeft(x, N, WordBits) \cup Low(W(rt), N)
    BY <1>2, <1>6 DEF LoadLeft
  <2>3. c \in Word
    BY <1>5, <2>2 DEF ShiftLeft, Low, Word, W
  <2> HIDE DEF q, A, n
  <2>4. v = (rt \ Up(Ones(8), n)) \cup
              (ShiftRightSigned(Up(x, n + 4), (8 - 4) * ByteBits, DwordBits) \cap Up(Ones(8), n))
    BY <2>1, BusReadWord DEF n
  <2>5. ASSUME NEW b \in Bits(WordBits)
        PROVE  b \in v <=> b \in c
    <3>1. b \in Up(Ones(8), n) <=> b >= N
      BY <1>1, UpBits, Widths DEF Bits
    <3>2. b \in ShiftRightSigned(Up(x, n + 4), (8 - 4) * ByteBits, DwordBits) <=> b - N \in x
      <4>1. (8 - 4) * ByteBits = WordBits
        BY Widths
      <4>2. b + WordBits \in 0 .. DwordBits - 1 /\ b + WordBits - (N + WordBits) = b - N
        BY <1>5, Widths DEF Bits
      <4>3. b + WordBits \in Up(x, n + 4) <=> b - N \in x
        <5>1. Up(x, n + 4) = {j \in 0 .. DwordBits - 1 : j - (N + WordBits) \in x}
          BY <1>5 DEF Up, ShiftLeft, Bits
        <5> HIDE DEF N, x
        <5> QED BY <1>5, <4>2, <5>1, Widths DEF Bits
      <4> QED BY <4>1, <4>2, <4>3, Widths DEF ShiftRightSigned, Bits
    <3>3. b \in c <=> b - N \in x \/ (b \in rt /\ b < N)
      BY <1>4, <1>5, <2>2 DEF ShiftLeft, Low, Bits
    <3>4. b - N \in x => b >= N
      BY <1>4, <1>5 DEF Bits
    <3> HIDE DEF v, c, N, x
    <3> QED BY <1>5, <2>4, <3>1, <3>2, <3>3, <3>4 DEF Bits
  <2> QED BY <2>3, <2>5, SameWords
<1>7. ASSUME i.op = "lwr" PROVE W(v) = c
  <2> DEFINE right == IF n = 3 THEN Ones(8) ELSE Ones(n + 1)
  <2>1. /\ q.wide = FALSE /\ q.size = n + 1 /\ q.vaddr = Aligned(A, 4) /\ q.data = right
        /\ q.result = rt \ right
    BY <1>3, <1>7 DEF LWL_LWR, Read
  <2>2. c = ShiftRight(x, (3 - n) * ByteBits) \cup (W(rt) \ Bits((4 - (3 - n)) * ByteBits))
    BY <1>2, <1>7 DEF LoadRight
  <2>3. c \in Word
    <3>1. ShiftRight(x, (3 - n) * ByteBits) \subseteq Bits(WordBits)
      BY <1>4, <1>5, Widths DEF ShiftRight, Bits
    <3> QED BY <2>2, <3>1 DEF Word, W, Low
  <2>4. WordOf(q.vaddr) = WordOf(A) /\ Offset(q.vaddr, 4) = 0
    BY <2>1, AlignedPlace
  <2> HIDE DEF q, A, n
  <2>5. v = (rt \ right) \cup
              (ShiftRightSigned(Up(x, 0 + 4), (8 - (n + 1)) * ByteBits, DwordBits) \cap right)
    BY <2>1, <2>4, BusReadWord
  <2>6. ASSUME NEW b \in Bits(WordBits)
        PROVE  b \in v <=> b \in c
    <3>1. b \in right <=> b < N + ByteBits
      <4>1. CASE n = 3
        BY <4>1, Widths DEF Ones, Bits
      <4>2. CASE n # 3
        <5>1. right = 0 .. (N + ByteBits) - 1
          BY <4>2, <1>5 DEF Ones, Bits
        <5> HIDE DEF right, N
        <5> QED BY <5>1, <1>5, Widths DEF Bits
      <4> QED BY <4>1, <4>2
    <3>2. b < N + ByteBits =>
            (b \in ShiftRightSigned(Up(x, 0 + 4), (8 - (n + 1)) * ByteBits, DwordBits)
               <=> b + WordBits - (N + ByteBits) \in x)
      <4>1. n + 1 \in 1 .. 4
        BY <1>1
      <4>2. b < (n + 1) * ByteBits =>
            (b \in ShiftRightSigned(Up(x, 0 + 4), (8 - (n + 1)) * ByteBits, DwordBits)
               <=> b + WordBits - (n + 1) * ByteBits - 0 * ByteBits \in x)
        BY <1>1, <4>1, LoadedBits
      <4>3. 0 * ByteBits = 0
            /\ b + WordBits - (n + 1) * ByteBits - 0 = b + WordBits - (N + ByteBits)
        BY <1>5, Widths DEF Bits
      <4> QED BY <4>2, <4>3, <1>5
    <3>3. b \in c <=> b + (WordBits - ByteBits - N) \in x \/ (b \in rt /\ b >= N + ByteBits)
      BY <1>4, <1>5, <2>2, Widths DEF ShiftRight, Bits
    <3>4. /\ b + (WordBits - ByteBits - N) = b + WordBits - (N + ByteBits)
          /\ b + WordBits - (N + ByteBits) \in x => b < N + ByteBits
      BY <1>4, <1>5, Widths DEF Bits
    <3> HIDE DEF v, c, N, x, right
    <3> QED BY <1>5, <2>5, <3>1, <3>2, <3>3, <3>4, Widths DEF Bits
  <2> QED BY <2>3, <2>6, SameWords
<1> QED BY <1>6, <1>7

(* The word that a masked write leaves. *)
LEMMA MaskedBits ==
  ASSUME NEW x \in Word, NEW d, NEW k, NEW b \in Bits(WordBits)
  PROVE  /\ b \in Masked(x, d, k) <=> IF b \in k THEN b \in d ELSE b \in x
         /\ Masked(x, d, k) \in Word
  BY DEF Masked, Low, Word

(* sb, sh and sw: s bytes at offset n of word x. *)
LEMMA StoredBits ==
  ASSUME NEW x \in Word, NEW rt \in Dword, NEW n \in 0 .. 3, NEW s \in {1, 2, 4},
         NEW b \in Bits(WordBits)
  PROVE  b \in Masked(x, Down(Up(rt, 4 - s), n), Down(Low(Up(Ones(4), 4 - s), WordBits), n)) <=>
           IF WordBits <= b + s * ByteBits + n * ByteBits /\ b + n * ByteBits < WordBits
           THEN b + s * ByteBits + n * ByteBits - WordBits \in rt ELSE b \in x
<1> DEFINE N == n * ByteBits
           S == s * ByteBits
           d == Down(Up(rt, 4 - s), n)
           k == Down(Low(Up(Ones(4), 4 - s), WordBits), n)
<1>1. /\ N \in Nat /\ S \in Nat /\ N <= 3 * ByteBits /\ S <= WordBits /\ ByteBits <= S
      /\ (4 - s) * ByteBits = WordBits - S
  BY Products
<1>2. b + N \in 0 .. DwordBits - 1 /\ b \in 0 .. WordBits - 1
  BY <1>1, Widths DEF Bits
<1>3. b \in d <=> b + N - (WordBits - S) \in rt
  <2>1. Up(rt, 4 - s) = {j \in 0 .. DwordBits - 1 : j - (WordBits - S) \in rt}
    BY <1>1 DEF Up, ShiftLeft, Bits
  <2>2. b \in d <=> b + N \in Up(rt, 4 - s)
    BY <1>2, Widths DEF Down, ShiftRight, Bits
  <2> HIDE DEF N, S, d
  <2> QED BY <1>1, <1>2, <2>1, <2>2, Widths
<1>4. b \in k <=> WordBits <= b + S + N /\ b + N < WordBits
  <2>1. Up(Ones(4), 4 - s) = {j \in 0 .. DwordBits - 1 : j - (WordBits - S) \in 0 .. WordBits - 1}
    BY <1>1, Widths DEF Up, Ones, ShiftLeft, Bits
  <2>2. b \in k <=> b + N \in Low(Up(Ones(4), 4 - s), WordBits)
    BY <1>2, Widths DEF Down, ShiftRight, Bits
  <2>3. b \in k <=> b + N \in Up(Ones(4), 4 - s) /\ b + N \in 0 .. WordBits - 1
    BY <2>2 DEF Low, Bits
  <2> HIDE DEF N, S, k
  <2> QED BY <1>1, <1>2, <2>1, <2>3, Widths
<1>5. b \in Masked(x, d, k) <=> IF b \in k THEN b \in d ELSE b \in x
  BY MaskedBits
<1>6. b + N - (WordBits - S) = b + S + N - WordBits
  BY <1>1, <1>2, Widths
<1> HIDE DEF N, S, d, k
<1>7. b \in Masked(x, d, k) <=> IF WordBits <= b + S + N /\ b + N < WordBits
                                THEN b + S + N - WordBits \in rt ELSE b \in x
  BY <1>3, <1>4, <1>5, <1>6
<1> QED BY <1>7 DEF N, S, d, k

(* A byte that emu.c writes at offset n of word x. *)
LEMMA WrittenBits ==
  ASSUME NEW x \in Word, NEW y \in Word, NEW n \in 0 .. 3, NEW b \in Bits(WordBits)
  PROVE  LET k == ByteBits * (3 - n)
         IN b \in (x \ ShiftLeft(Ones(1), k, WordBits))
                     \cup ShiftLeft(Low(y, ByteBits), k, WordBits) <=>
              IF WordBits <= b + ByteBits + n * ByteBits /\ b + n * ByteBits < WordBits
              THEN b + ByteBits + n * ByteBits - WordBits \in y ELSE b \in x
<1> DEFINE N == n * ByteBits
           k == ByteBits * (3 - n)
<1>1. N \in Nat /\ N <= 3 * ByteBits /\ k = WordBits - ByteBits - N
  BY Products
<1>2. b \in 0 .. WordBits - 1
  BY DEF Bits
<1> HIDE DEF N, k
<1>3. b \in ShiftLeft(Ones(1), k, WordBits) <=> b - k \in 0 .. ByteBits - 1
  BY Widths DEF ShiftLeft, Ones, Bits
<1>4. b \in ShiftLeft(Low(y, ByteBits), k, WordBits) <=> b - k \in y /\ b - k \in 0 .. ByteBits - 1
  BY DEF ShiftLeft, Low, Bits
<1>5. b - k \in 0 .. ByteBits - 1 <=> WordBits <= b + ByteBits + N /\ b + N < WordBits
  BY <1>1, <1>2, Widths
<1>6. b - k = b + ByteBits + N - WordBits
  BY <1>1, <1>2, Widths
<1>7. b \in (x \ ShiftLeft(Ones(1), k, WordBits)) \cup ShiftLeft(Low(y, ByteBits), k, WordBits)
        <=> IF WordBits <= b + ByteBits + N /\ b + N < WordBits
            THEN b + ByteBits + N - WordBits \in y ELSE b \in x
  BY <1>3, <1>4, <1>5, <1>6
<1> QED BY <1>7 DEF N, k

LEMMA WrittenWord ==
  ASSUME NEW x \in Word, NEW y, NEW z \in Word, NEW k
  PROVE  (x \ ShiftLeft(z, k, WordBits)) \cup ShiftLeft(y, k, WordBits) \in Word
  BY DEF ShiftLeft, Word

LEMMA EqualWords ==
  ASSUME NEW x \in Word, NEW y \in Word, \A b \in Bits(WordBits) : b \in x <=> b \in y
  PROVE  x = y
  BY DEF Word

(* The partial stores: the bytes of the register that swl and swr write and those
   of the word that they leave. *)
LEMMA PartialStoresAgree ==
  ASSUME NEW i, NEW rs, NEW rt \in Dword, NEW m,
         m \in [MemoryWords -> Word], i.op \in {"swl", "swr"}, InMemory(Address(i, rs))
  PROVE  LET a == VirtualAddress(i, W(rs))
         IN BusWrite(VrRequest(i, rs, rt), m)
              = IF i.op = "swl" THEN StoreLeft(a, W(rt), m) ELSE StoreRight(a, W(rt), m)
<1> DEFINE q == VrRequest(i, rs, rt)
           A == Address(i, rs)
           a == VirtualAddress(i, W(rs))
           w == WordOf(A)
           x == m[w]
           n == Offset(A, 4)
           N == n * ByteBits
           y == Masked(x, q.data, q.wdqm)
           v == BusWrite(q, m)
           c == IF i.op = "swl" THEN StoreLeft(a, W(rt), m) ELSE StoreRight(a, W(rt), m)
<1>1. /\ x \in Word /\ n \in 0 .. 3 /\ w \in MemoryWords
      /\ a \in Word /\ W(A) = a
  BY OffsetInWord4, AddressesAgree DEF InMemory
<1>2. /\ WordOf(a) = w /\ Offset(a, 4) = n /\ WordOf(Base(a)) = w /\ ~IsDevice(Base(a))
  <2>1. WordOf(a) = WordOf(A) /\ Offset(a, 4) = n /\ WordOf(Base(a)) = WordOf(a)
    BY <1>1, PlacesAgree, AlignedPlace
  <2> HIDE DEF A, a
  <2> QED BY <2>1, <1>1, ExecuteAssumption DEF IsDevice
<1>3. W(rt) \in Word
  BY LowIsWord
<1>4. /\ N \in Nat /\ N <= 3 * ByteBits
      /\ (3 - n) * ByteBits = WordBits - ByteBits - N
      /\ (4 - n) * ByteBits = WordBits - N
  BY <1>1, Products
<1>5. q.wide = FALSE /\ WordOf(q.vaddr) = w
  <2>1. q = SWL_SWR(i, rs, rt)
    BY DEF VrRequest, Is, LoadOps, StoreOps, LinkedOps
  <2>2. q.wide = FALSE /\ q.vaddr = Aligned(A, 4)
    BY <2>1 DEF SWL_SWR, Write
  <2> QED BY <2>2, AlignedPlace
<1>6. v = [m EXCEPT ![w] = y] /\ y \in Word
  <2>1. y \in Word
    BY DEF Masked, Low, Word
  <2>2. v = [m EXCEPT ![WordOf(q.vaddr)] = Masked(m[WordOf(q.vaddr)], q.data, q.wdqm)]
    <3> HIDE DEF q
    <3> QED BY <1>5 DEF BusWrite
  <2> HIDE DEF q, w, v
  <2> QED BY <2>1, <2>2, <1>5
<1>7. ASSUME i.op = "swl" PROVE v = c
  <2> DEFINE z == (x \ Bits((4 - n) * ByteBits)) \cup ShiftRight(W(rt), N)
  <2>1. q.data = Down(rt, n) /\ q.wdqm = Down(Ones(4), n)
    BY <1>7 DEF VrRequest, Is, LoadOps, StoreOps, LinkedOps, SWL_SWR, Write
  <2>2. c = [m EXCEPT ![w] = z]
    BY <1>2, <1>7 DEF StoreLeft, WriteVirtWord
  <2>3. z \in Word
    BY <1>1, <1>4, LowShift DEF Word
  <2> HIDE DEF q, A, n, a, w
  <2>4. \A b \in Bits(WordBits) : b \in y <=> b \in z
    <3> TAKE b \in Bits(WordBits)
    <3>1. /\ b \in Down(rt, n) <=> b + N \in rt
          /\ b \in Down(Ones(4), n) <=> b + N \in 0 .. WordBits - 1
      <4>1. b \in Bits(DwordBits) /\ Ones(4) = 0 .. WordBits - 1
        BY Widths DEF Ones, Bits
      <4> QED BY <1>1, <4>1, UpBits
    <3>2. b \in y <=> IF b \in Down(Ones(4), n) THEN b \in Down(rt, n) ELSE b \in x
      BY <1>1, <2>1, MaskedBits
    <3>3. b \in z <=> (b \in x /\ b >= WordBits - N) \/ b + N \in W(rt)
      BY <1>4, Widths DEF ShiftRight, Bits
    <3>4. b + N \in W(rt) <=> b + N \in rt /\ b + N \in 0 .. WordBits - 1
      BY DEF W, Low, Bits
    <3>5. b + N \in 0 .. WordBits - 1 <=> ~(b >= WordBits - N)
      BY <1>4, Widths DEF Bits
    <3> HIDE DEF y, z, x, N
    <3> QED BY <3>1, <3>2, <3>3, <3>4, <3>5
  <2> HIDE DEF y, z, v, c
  <2>5. y = z
    BY <1>6, <2>3, <2>4, EqualWords
  <2> QED BY <1>6, <2>2, <2>5
<1>8. ASSUME i.op = "swr" PROVE v = c
  <2> DEFINE k == 3 - n
             K == (3 - n) * ByteBits
             z == ShiftLeft(W(rt), K, WordBits) \cup Low(x, K)
  <2>1. q.data = Up(rt, k) /\ q.wdqm = Low(Up(Ones(4), k), WordBits)
    BY <1>8 DEF VrRequest, Is, LoadOps, StoreOps, LinkedOps, SWL_SWR, Write
  <2>2. c = [m EXCEPT ![w] = z]
    BY <1>2, <1>8 DEF StoreRight, WriteVirtWord
  <2>3. z \in Word
    BY <1>1 DEF Word, ShiftLeft, Low
  <2>4. k \in 0 .. 3
    BY <1>1
  <2>5. K \in Nat /\ K <= WordBits /\ K = k * ByteBits
    BY <1>4, Widths
  <2> HIDE DEF q, A, n, a, w, k, K
  <2>6. \A b \in Bits(WordBits) : b \in y <=> b \in z
    <3> TAKE b \in Bits(WordBits)
    <3>1. b \in Bits(DwordBits) /\ b \in 0 .. WordBits - 1
      BY Widths DEF Bits
    <3>2. /\ b \in Up(rt, k) <=> b - K \in rt
          /\ b \in Up(Ones(4), k) <=> b - K \in 0 .. WordBits - 1
      BY <2>4, <2>5, <3>1, UpBits, Widths DEF Ones, Bits
    <3>3. b \in y <=> IF b \in Low(Up(Ones(4), k), WordBits) THEN b \in Up(rt, k) ELSE b \in x
      BY <1>1, <2>1, MaskedBits
    <3>4. b \in Low(Up(Ones(4), k), WordBits) <=> b - K \in 0 .. WordBits - 1
      BY <3>2 DEF Low
    <3>5. b \in z <=> b - K \in W(rt) \/ (b \in x /\ b < K)
      BY <2>5, <3>1 DEF ShiftLeft, Low, Bits
    <3>6. b - K \in W(rt) <=> b - K \in rt /\ b - K \in 0 .. WordBits - 1
      BY DEF W, Low, Bits
    <3>7. b - K \in 0 .. WordBits - 1 <=> ~(b < K)
      BY <2>5, <3>1, Widths
    <3> HIDE DEF y, z, x
    <3> QED BY <3>2, <3>3, <3>4, <3>5, <3>6, <3>7
  <2> HIDE DEF y, z, v, c
  <2>7. y = z
    BY <1>6, <2>3, <2>6, EqualWords
  <2> QED BY <1>6, <2>2, <2>7
<1> QED BY <1>7, <1>8

(* Every store leaves the same memory. *)
LEMMA StoresAgree ==
  ASSUME NEW i \in Instruction, NEW rs, NEW rt \in Dword, NEW m,
         m \in [MemoryWords -> Word], i.op \in StoreOps \cup {"swl", "swr"},
         InMemory(Address(i, rs)), Offset(Address(i, rs), Alignment(i)) = 0, CRt(i) = W(rt)
  PROVE  BusWrite(VrRequest(i, rs, rt), m) = StoreToMemory(i, VirtualAddress(i, W(rs)), m)
<1> DEFINE q == VrRequest(i, rs, rt)
           A == Address(i, rs)
           a == VirtualAddress(i, W(rs))
           w == WordOf(A)
           x == m[w]
           n == Offset(A, 4)
           N == n * ByteBits
           y == Masked(x, q.data, q.wdqm)
           v == BusWrite(q, m)
           c == StoreToMemory(i, a, m)
<1>1. /\ x \in Word /\ n \in 0 .. 3 /\ w \in MemoryWords
      /\ a \in Word /\ W(A) = a
  BY OffsetInWord4, AddressesAgree DEF InMemory
<1>2. /\ WordOf(a) = w /\ Offset(a, 4) = n /\ WordOf(Base(a)) = w /\ ~IsDevice(a)
      /\ ~IsDevice(Base(a))
  <2>1. WordOf(a) = WordOf(A) /\ Offset(a, 4) = n /\ WordOf(Base(a)) = WordOf(a)
    BY <1>1, PlacesAgree, AlignedPlace
  <2> HIDE DEF A, a
  <2> QED BY <2>1, <1>1, ExecuteAssumption DEF IsDevice
<1>3. W(rt) \in Word /\ \A b \in Bits(WordBits) : b \in W(rt) <=> b \in rt
  BY LowIsWord DEF W, Low
<1>4. /\ N \in Nat /\ N <= 3 * ByteBits /\ (n + 1) * ByteBits = N + ByteBits
      /\ (3 - n) * ByteBits = WordBits - ByteBits - N
      /\ (4 - n) * ByteBits = WordBits - N
  BY <1>1, Products
<1>5. q.wide = FALSE /\ WordOf(q.vaddr) = w
  <2>1. i.op \in StoreOps => q = LOAD_STORE(i, rs, rt)
    BY DEF VrRequest, Is, LoadOps, StoreOps, LinkedOps
  <2>2. i.op \in {"swl", "swr"} => q = SWL_SWR(i, rs, rt)
    BY DEF VrRequest, Is, LoadOps, StoreOps, LinkedOps
  <2>3. i.op \in StoreOps => q.wide = FALSE /\ q.vaddr = Aligned(A, 4)
    BY <2>1 DEF LOAD_STORE, Write, Is, StoreOps
  <2>4. i.op \in {"swl", "swr"} => q.wide = FALSE /\ q.vaddr = Aligned(A, 4)
    BY <2>2 DEF SWL_SWR, Write
  <2> QED BY <2>3, <2>4, AlignedPlace
<1>6. v = [m EXCEPT ![w] = y] /\ y \in Word
  <2>1. y \in Word
    BY DEF Masked, Low, Word
  <2>2. v = [m EXCEPT ![WordOf(q.vaddr)] = Masked(m[WordOf(q.vaddr)], q.data, q.wdqm)]
    <3> HIDE DEF q
    <3> QED BY <1>5 DEF BusWrite
  <2> HIDE DEF q, w, v
  <2> QED BY <2>1, <2>2, <1>5
<1>7. ASSUME i.op \in StoreOps PROVE v = c
  <2> DEFINE s == RequestSize(i)
             S == s * ByteBits
  <2>1. /\ s = IF i.op = "sb" THEN 1 ELSE IF i.op = "sh" THEN 2 ELSE 4
        /\ q.data = Down(Up(rt, 4 - s), n)
        /\ q.wdqm = Down(Low(Up(Ones(4), 4 - s), WordBits), n)
    BY <1>7 DEF VrRequest, Is, LoadOps, StoreOps, LinkedOps, LOAD_STORE, RequestSize, Write
  <2>2. s \in {1, 2, 4}
    BY <2>1
  <2> HIDE DEF q, A, n, a, s, w
  <2>3. \A b \in Bits(WordBits) :
          b \in y <=> IF WordBits <= b + S + N /\ b + N < WordBits
                      THEN b + S + N - WordBits \in rt ELSE b \in x
    BY <1>1, <2>1, <2>2, StoredBits
  <2>4. CASE i.op = "sb"
    <3> DEFINE z == (x \ ShiftLeft(Ones(1), ByteBits * (3 - n), WordBits))
                       \cup ShiftLeft(Low(W(rt), ByteBits), ByteBits * (3 - n), WordBits)
    <3>1. c = [m EXCEPT ![w] = z]
      BY <1>1, <1>2, <2>4 DEF StoreToMemory, WriteVirtByte, Shamt
    <3>2. \A b \in Bits(WordBits) :
            b \in z <=> IF WordBits <= b + ByteBits + N /\ b + N < WordBits
                        THEN b + ByteBits + N - WordBits \in W(rt) ELSE b \in x
      BY <1>1, <1>3, WrittenBits
    <3>3. z \in Word
      BY <1>1, WrittenWord, Widths DEF Ones, Word, Bits
    <3>4. S = ByteBits
      BY <2>1, <2>4, Widths
    <3> HIDE DEF y, z, x, N, S
    <3>5. \A b \in Bits(WordBits) : b \in y <=> b \in z
      <4> TAKE b \in Bits(WordBits)
      <4>1. WordBits <= b + ByteBits + N /\ b + N < WordBits =>
              b + ByteBits + N - WordBits \in Bits(WordBits)
        BY <1>4, Widths DEF Bits
      <4> QED BY <4>1, <2>3, <3>2, <3>4, <1>3
    <3>6. y = z
      BY <1>6, <3>3, <3>5, EqualWords
    <3> HIDE DEF v, c
    <3> QED BY <1>6, <3>1, <3>6
  <2>5. CASE i.op = "sh"
    <3> DEFINE Put(u, k, h) == (u \ ShiftLeft(Ones(1), ByteBits * (3 - k), WordBits))
                     \cup ShiftLeft(Low(h, ByteBits), ByteBits * (3 - k), WordBits)
               g == ShiftRight(W(rt), ByteBits)
               z1 == Put(x, n, g)
               z == Put(z1, n + 1, W(rt))
    <3>1. 0 \notin A /\ 0 \notin a /\ n \in {0, 2}
      <4>1. Offset(A, 2) = 0
        BY <2>5 DEF Alignment, Is, A
      <4>2. 0 \notin A
        BY <4>1 DEF Offset
      <4> QED BY <4>2, <1>1 DEF W, Low, n, Offset
    <3>2. WordOf(Next1(a)) = w /\ Offset(Next1(a), 4) = n + 1
      BY <1>1, <1>2, <3>1, NextPlace
    <3>3. z1 \in Word
      BY <1>1, WrittenWord, Widths DEF Ones, Word, Bits
    <3>4. c = [m EXCEPT ![w] = z]
      <4>1. WriteVirtByte(a, Low(g, ByteBits), m) = [m EXCEPT ![w] = z1]
        BY <1>2 DEF WriteVirtByte, Shamt
      <4> HIDE DEF z1
      <4>2. WriteVirtByte(Next1(a), Low(W(rt), ByteBits), [m EXCEPT ![w] = z1]) = [m EXCEPT ![w] = z]
        BY <1>1, <3>2 DEF WriteVirtByte, Shamt
      <4>3. c = StoreHalf(a, W(rt), m)
        BY <2>5 DEF StoreToMemory, CRt
      <4> QED BY <4>1, <4>2, <4>3 DEF StoreHalf
    <3>5. z \in Word
      <4> HIDE DEF z1
      <4>1. Ones(1) \in Word
        BY Widths DEF Ones, Word, Bits
      <4> QED BY <3>3, <4>1, WrittenWord
    <3>6. \A b \in Bits(WordBits) :
            b \in z1 <=> IF WordBits <= b + ByteBits + N /\ b + N < WordBits
                         THEN b + ByteBits + N - WordBits \in g ELSE b \in x
      <4>1. g \in Word
        BY LowShift, Widths DEF W, Low, Word, ShiftRight, Bits
      <4> QED BY <1>1, <4>1, WrittenBits
    <3>7. \A b \in Bits(WordBits) :
            b \in z <=> IF WordBits <= b + ByteBits + (N + ByteBits)
                             /\ b + (N + ByteBits) < WordBits
                        THEN b + ByteBits + (N + ByteBits) - WordBits \in W(rt) ELSE b \in z1
      <4> HIDE DEF z1
      <4>1. n + 1 \in 0 .. 3
        BY <3>1
      <4> QED BY <1>3, <1>4, <3>3, <4>1, WrittenBits
    <3>8. S = HalfBits
      BY <2>1, <2>5, Widths
    <3>9. \A b \in Bits(ByteBits) : b \in g <=> b + ByteBits \in W(rt)
      BY Widths DEF ShiftRight, Bits
    <3> HIDE DEF y, z, z1, x, N, S, g
    <3>10. \A b \in Bits(WordBits) : b \in y <=> b \in z
      <4> TAKE b \in Bits(WordBits)
      <4>1. CASE b + N + ByteBits < WordBits
        <5>1. b \in z <=> IF WordBits <= b + HalfBits + N
                          THEN b + HalfBits + N - WordBits \in W(rt) ELSE b \in z1
          <6>1. /\ b + ByteBits + (N + ByteBits) = b + HalfBits + N
                /\ b + (N + ByteBits) < WordBits
            BY <4>1, <1>4, Widths DEF Bits
          <6>2. b \in z <=> IF WordBits <= b + ByteBits + (N + ByteBits)
                              /\ b + (N + ByteBits) < WordBits
                         THEN b + ByteBits + (N + ByteBits) - WordBits \in W(rt) ELSE b \in z1
            BY <3>7
          <6> QED BY <6>1, <6>2, <1>4, Widths DEF Bits
        <5>2. b \in z1 <=> b \in x
          BY <4>1, <1>4, <3>6, Widths DEF Bits
        <5>3. b + HalfBits + N - WordBits \in Bits(WordBits) \/ ~(WordBits <= b + HalfBits + N)
          BY <4>1, <1>4, Widths DEF Bits
        <5>4. b + N < WordBits
          BY <4>1, <1>4, Widths DEF Bits
        <5> QED BY <5>1, <5>2, <5>3, <5>4, <2>3, <3>8, <1>3
      <4>2. CASE ~(b + N + ByteBits < WordBits)
        <5>1. b \in z <=> b \in z1
          BY <4>2, <3>7, <1>4, Widths DEF Bits
        <5>2. b \in z1 <=> IF b + N < WordBits
                           THEN b + ByteBits + N - WordBits \in g ELSE b \in x
          BY <4>2, <3>6, <1>4, Widths DEF Bits
        <5>3. b + N < WordBits =>
                (b + ByteBits + N - WordBits \in g <=> b + HalfBits + N - WordBits \in rt)
          <6> SUFFICES ASSUME b + N < WordBits
                       PROVE  b + ByteBits + N - WordBits \in g <=> b + HalfBits + N - WordBits \in rt
            OBVIOUS
          <6>1. /\ b + ByteBits + N - WordBits \in Bits(ByteBits)
                /\ b + ByteBits + N - WordBits + ByteBits = b + HalfBits + N - WordBits
                /\ b + HalfBits + N - WordBits \in Bits(WordBits)
            BY <4>2, <1>4, Widths DEF Bits
          <6> QED BY <6>1, <3>9, <1>3
        <5>4. WordBits <= b + HalfBits + N
          BY <4>2, <1>4, Widths DEF Bits
        <5> QED BY <5>1, <5>2, <5>3, <5>4, <2>3, <3>8
      <4> QED BY <4>1, <4>2
    <3>11. y = z
      BY <1>6, <3>5, <3>10, EqualWords
    <3> HIDE DEF v, c
    <3> QED BY <1>6, <3>4, <3>11
  <2>6. CASE i.op = "sw"
    <3>1. n = 0
      BY <2>6 DEF n, A, Alignment, Is
    <3>2. c = [m EXCEPT ![w] = W(rt)]
      BY <1>2, <2>6 DEF StoreToMemory, WriteVirtWord, CRt
    <3>3. S = WordBits /\ N = 0
      BY <2>1, <2>6, <3>1, Widths
    <3> HIDE DEF y, x, N, S
    <3>4. \A b \in Bits(WordBits) : b \in y <=> b \in W(rt)
      <4> TAKE b \in Bits(WordBits)
      <4>1. WordBits <= b + S + N /\ b + N < WordBits /\ b + S + N - WordBits = b
        BY <3>3, Widths DEF Bits
      <4> QED BY <4>1, <2>3, <1>3
    <3>5. y = W(rt)
      BY <1>3, <1>6, <3>4, EqualWords
    <3> HIDE DEF v, c
    <3> QED BY <1>6, <3>2, <3>5
  <2> QED BY <1>7, <2>4, <2>5, <2>6 DEF StoreOps
<1>8. ASSUME i.op \in {"swl", "swr"} PROVE v = c
  BY <1>8, PartialStoresAgree DEF StoreToMemory, CRt
<1> QED BY <1>7, <1>8

---------------------------------------------------------------------------
(* The invariant of the co-simulation: the types of both cores and, in a guest
   that both run, narrow registers and an empty register 0.  A step of such a
   guest starts from cores that agree. *)
CmState == [regs : [Reg -> Word], hi : Word, lo : Word, next : NextPc, llbit : BOOLEAN]
ZeroRegisters == ~Wide => vr.regs[0] = {} /\ cm.regs[0] = {}
Sound == Holds /\ InterpreterTypes /\ ZeroRegisters

Ready(i) == /\ Sound /\ ~Wide /\ Agreed
            /\ i \in program /\ i \in Instruction
Kept == /\ vr'.regs[0] = {} /\ cm' \in CmState /\ cm'.regs[0] = {}
        /\ cmem' \in [MemoryWords -> Word] /\ cport' \in [0 .. 3 -> Byte]

(* What two cores have in common that agree, except the successor. *)
Same(v, c) == /\ \A r \in Reg \ {0} : W(v.regs[r]) = c.regs[r]
              /\ W(v.hi) = c.hi /\ W(v.lo) = c.lo
Follows(n, p) == n.kind = p.kind /\ W(n.pc) = p.pc

LEMMA AgreedMeans ==
  /\ Agreed <=> /\ alive /\ Same(vr, cm) /\ Follows(vr.next, cm.next)
                /\ vmem = cmem /\ vport = cport
  /\ Agreed' <=> /\ alive' /\ Same(vr', cm') /\ Follows(vr'.next, cm'.next)
                 /\ vmem' = cmem' /\ vport' = cport'
  BY DEF Agreed, Same, Follows

LEMMA ReadyMeans ==
  ASSUME NEW i, Ready(i)
  PROVE  /\ i \in Instruction /\ i \in program /\ program \in Programs
         /\ vr \in VrState /\ Narrow(vr) /\ cm \in CmState
         /\ vr.regs[0] = {} /\ cm.regs[0] = {}
         /\ alive /\ Same(vr, cm) /\ Follows(vr.next, cm.next)
         /\ vmem = cmem /\ vport = cport
         /\ vmem \in [MemoryWords -> Word] /\ vport \in [0 .. 3 -> Byte]
  BY AgreedMeans, HoldsMeans DEF Ready, Sound, InterpreterTypes, CmState, ZeroRegisters

(* The operands. *)
LEMMA OperandsAgree ==
  ASSUME NEW i, Ready(i)
  PROVE  /\ VRs(i) \in Dword /\ VRt(i) \in Dword
         /\ SignExtended(VRs(i)) /\ SignExtended(VRt(i))
         /\ CRs(i) = W(VRs(i)) /\ CRt(i) = W(VRt(i))
         /\ i.rs \in Reg /\ i.rt \in Reg /\ i.rd \in Reg /\ Dest(i) \in Reg
         /\ i.rs = 0 => VRs(i) = {}
<1>1. i.rs \in Reg /\ i.rt \in Reg /\ i.rd \in Reg
  BY ReadyMeans DEF Instruction
<1>2. \A r \in Reg : W(vr.regs[r]) = cm.regs[r]
  <2>1. W({}) = {}
    BY DEF W, Low
  <2> QED BY <2>1, ReadyMeans DEF Same
<1> QED BY <1>1, <1>2, ReadyMeans DEF VRs, VRt, CRs, CRt, Dest, VrState, Narrow

LEMMA RetireAgrees ==
  ASSUME NEW v \in VrState, NEW c \in CmState, NEW d \in Reg, NEW x \in Dword, NEW y \in Word,
         NEW n \in NextPc, NEW p \in NextPc, W(x) = y, Same(v, c)
  PROVE  /\ Same(Retire(v, d, x, n), Retire(c, d, y, p))
         /\ Retire(v, d, x, n).next = n /\ Retire(c, d, y, p).next = p
<1> DEFINE u == Retire(v, d, x, n)
           e == Retire(c, d, y, p)
<1>1. /\ u.hi = v.hi /\ u.lo = v.lo /\ u.next = n
      /\ \A r \in Reg \ {0} : u.regs[r] = IF r = d THEN x ELSE v.regs[r]
  BY DEF Retire, VrState
<1>2. /\ e.hi = c.hi /\ e.lo = c.lo /\ e.next = p
      /\ \A r \in Reg \ {0} : e.regs[r] = IF r = d THEN y ELSE c.regs[r]
  BY DEF Retire, CmState
<1> HIDE DEF u, e
<1>3. Same(u, e)
  BY <1>1, <1>2 DEF Same
<1> QED BY <1>1, <1>2, <1>3 DEF u, e

LEMMA RetireZero ==
  /\ \A v \in VrState, d \in Reg : \A x, n : v.regs[0] = {} => Retire(v, d, x, n).regs[0] = {}
  /\ \A c \in CmState, d \in Reg : \A x, n : c.regs[0] = {} => Retire(c, d, x, n).regs[0] = {}
<1>1. 0 \in Reg
  BY ExecuteAssumption
<1> QED BY <1>1 DEF Retire, VrState, CmState

LEMMA CmRetireKeeps ==
  ASSUME NEW c \in CmState, NEW d \in Reg, NEW y \in Word, NEW p \in NextPc
  PROVE  Retire(c, d, y, p) \in CmState
<1> DEFINE w == IF d = 0 THEN {} ELSE y
<1>1. w \in Word
  BY DEF Word
<1>2. Retire(c, d, y, p) = [c EXCEPT !.regs[d] = w, !.next = p] /\ c.regs \in [Reg -> Word]
  BY DEF Retire, CmState
<1> HIDE DEF w
<1> QED BY <1>1, <1>2 DEF CmState

LEMMA SequentialFollows ==
  Follows(Sequential, Sequential) /\ Sequential \in NextPc
  BY Successors DEF Follows, Sequential, W, Low

(* An instruction that writes a register on each core. *)
LEMMA RegisterStep ==
  ASSUME NEW i, Ready(i), NEW d \in Reg, NEW x \in Dword, NEW y \in Word, W(x) = y,
         NEW n \in NextPc, NEW p \in NextPc, Follows(n, p),
         vr' = Retire(vr, d, x, n), cm' = Retire(cm, d, y, p)
  PROVE  /\ vr'.regs[0] = {} /\ cm' \in CmState /\ cm'.regs[0] = {}
         /\ Same(vr', cm') /\ Follows(vr'.next, cm'.next)
<1>1. vr \in VrState /\ cm \in CmState /\ vr.regs[0] = {} /\ cm.regs[0] = {} /\ Same(vr, cm)
  BY ReadyMeans
<1>2. vr'.regs[0] = {} /\ cm'.regs[0] = {}
  BY <1>1, RetireZero
<1>3. cm' \in CmState
  BY <1>1, CmRetireKeeps
<1>4. Same(vr', cm') /\ vr'.next = n /\ cm'.next = p
  BY <1>1, RetireAgrees
<1> QED BY <1>2, <1>3, <1>4

LEMMA IntegerAgrees ==
  ASSUME NEW i, Ready(i), Integer(i)
  PROVE  Kept /\ Agreed'
<1> DEFINE x == VrResult(i, VRs(i), VRt(i))
           y == CmResult(i, CRs(i), CRt(i))
<1>1. W(x) = y
  <2>1. i.op \in {"lui", "sll"} => VRs(i) = {}
    BY ReadyMeans, OperandsAgree, EncodingAssumption
  <2>2. i.op = "sllv" => i.sa = 0
    BY ReadyMeans, EncodingAssumption
  <2> QED BY <2>1, <2>2, ReadyMeans, OperandsAgree, ResultsAgree DEF Integer
<1>2. x \in Dword /\ y \in Word
  <2>1. x \in Dword
    BY OperandsAgree, ReadyMeans, ResultIsNarrow DEF Integer
  <2> HIDE DEF x, y
  <2> QED BY <2>1, <1>1, LowIsWord
<1>3. /\ vr' = Retire(vr, Dest(i), x, Sequential) /\ cm' = Retire(cm, Dest(i), y, Sequential)
      /\ UNCHANGED <<cmem, cport, vmem, vport, alive>>
  BY DEF Integer, Interpreter, KeepMemory, KeepCopies, Ready
<1> HIDE DEF x, y
<1>4. /\ vr'.regs[0] = {} /\ cm' \in CmState /\ cm'.regs[0] = {}
      /\ Same(vr', cm') /\ Follows(vr'.next, cm'.next)
  BY <1>1, <1>2, <1>3, OperandsAgree, SequentialFollows, RegisterStep
<1> QED BY <1>3, <1>4, ReadyMeans, AgreedMeans DEF Kept

LEMMA LaterKeeps ==
  ASSUME NEW i, Ready(i), Later(i)
  PROVE  Kept
<1> DEFINE y == Conditional(i, CRs(i), CRt(i), cm.regs[i.rd])
<1>1. y \in Word
  <2>1. CRs(i) \in Word /\ cm.regs[i.rd] \in Word
    BY OperandsAgree, ReadyMeans DEF CRs, CmState
  <2>2. \A v : Pattern(v, WordBits) \in Word
    BY DEF Pattern, Word
  <2> QED BY <2>1, <2>2 DEF Conditional, Later, ConditionalOps
<1>2. /\ vr' = [vr EXCEPT !.next = Sequential] /\ cm' = Retire(cm, i.rd, y, Sequential)
      /\ UNCHANGED <<cmem, cport>>
  BY DEF Later, Interpreter, KeepCopies, Ready
<1> HIDE DEF y
<1>3. vr'.regs[0] = {}
  BY <1>2, ReadyMeans DEF VrState
<1>4. cm' \in CmState /\ cm'.regs[0] = {}
  BY <1>1, <1>2, ReadyMeans, OperandsAgree, CmRetireKeeps, RetireZero, Successors
<1> QED BY <1>2, <1>3, <1>4, ReadyMeans DEF Kept

LEMMA SetHiLoAgrees ==
  ASSUME NEW v \in VrState, NEW c \in CmState, NEW p, NEW h, Same(v, c),
         W(p.lo) = h.lo, W(p.hi) = h.hi, v.regs[0] = {}, c.regs[0] = {}
  PROVE  LET u == SetHiLo(v, p)
             e == SetHiLo(c, h)
         IN /\ u.regs[0] = {} /\ e \in CmState /\ e.regs[0] = {}
            /\ Same(u, e) /\ Follows(u.next, e.next)
<1> DEFINE u == SetHiLo(v, p)
           e == SetHiLo(c, h)
<1>1. h.lo \in Word /\ h.hi \in Word
  BY LowIsWord
<1>2. u.regs = v.regs /\ u.lo = p.lo /\ u.hi = p.hi /\ u.next = Sequential
  BY DEF SetHiLo, VrState
<1>3. /\ e.regs = c.regs /\ e.lo = h.lo /\ e.hi = h.hi /\ e.next = Sequential
      /\ e \in CmState
  BY <1>1, Successors DEF SetHiLo, CmState
<1> HIDE DEF u, e
<1>4. Same(u, e)
  BY <1>2, <1>3 DEF Same
<1>5. /\ u.regs[0] = {} /\ e \in CmState /\ e.regs[0] = {}
      /\ Same(u, e) /\ Follows(u.next, e.next)
  BY <1>2, <1>3, <1>4, SequentialFollows
<1> QED BY <1>5 DEF u, e

LEMMA MultiplyDivideAgrees ==
  ASSUME NEW i, Ready(i), MultiplyDivide(i)
  PROVE  Kept /\ (~Diverges(i) => Agreed')
<1> DEFINE p == IF Is(i, {"mult", "multu"}) THEN MULT_MULTU(i, VRs(i), VRt(i))
                                            ELSE DIV_DIVU(i, VRs(i), VRt(i), vr)
           h == IF Is(i, {"mult", "multu"}) THEN Multiply(i, CRs(i), CRt(i))
                                            ELSE Divide(i, CRs(i), CRt(i), cm)
<1>1. /\ vr' = SetHiLo(vr, p) /\ cm' = SetHiLo(cm, h)
      /\ UNCHANGED <<cmem, cport, vmem, vport>>
      /\ alive' = ~HostFaults(i, CRs(i), CRt(i))
  BY DEF MultiplyDivide, Interpreter, KeepMemory, KeepCopies, Ready
<1>2. W(p.lo) = h.lo /\ W(p.hi) = h.hi
  <2>1. W(vr.lo) = cm.lo /\ W(vr.hi) = cm.hi /\ CRs(i) = W(VRs(i)) /\ CRt(i) = W(VRt(i))
    BY ReadyMeans, OperandsAgree DEF Same
  <2>2. /\ W(MULT_MULTU(i, VRs(i), VRt(i)).lo) = Multiply(i, CRs(i), CRt(i)).lo
        /\ W(MULT_MULTU(i, VRs(i), VRt(i)).hi) = Multiply(i, CRs(i), CRt(i)).hi
        /\ W(DIV_DIVU(i, VRs(i), VRt(i), vr).lo) = Divide(i, CRs(i), CRt(i), cm).lo
        /\ W(DIV_DIVU(i, VRs(i), VRt(i), vr).hi) = Divide(i, CRs(i), CRt(i), cm).hi
    BY <2>1, HiLoAgree
  <2> QED BY <2>2
<1> HIDE DEF p, h
<1>3. /\ vr'.regs[0] = {} /\ cm' \in CmState /\ cm'.regs[0] = {}
      /\ Same(vr', cm') /\ Follows(vr'.next, cm'.next)
  BY <1>1, <1>2, ReadyMeans, SetHiLoAgrees
<1>4. ~Diverges(i) => alive'
  BY <1>1 DEF Diverges
<1> QED BY <1>1, <1>3, <1>4, ReadyMeans, AgreedMeans DEF Kept

LEMMA MoveHiLoAgrees ==
  ASSUME NEW i, Ready(i), MoveHiLo(i)
  PROVE  Kept /\ Agreed'
<1>1. /\ vr.hi \in Dword /\ vr.lo \in Dword /\ cm.hi \in Word /\ cm.lo \in Word
      /\ W(vr.hi) = cm.hi /\ W(vr.lo) = cm.lo
  BY ReadyMeans DEF VrState, CmState, Same
<1>2. UNCHANGED <<cmem, cport, vmem, vport, alive>>
  BY DEF MoveHiLo, Interpreter, KeepMemory, KeepCopies, Ready
<1>3. /\ vr'.regs[0] = {} /\ cm' \in CmState /\ cm'.regs[0] = {}
      /\ Same(vr', cm') /\ Follows(vr'.next, cm'.next)
  <2>1. CASE i.op = "mfhi"
    <3>1. /\ vr' = Retire(vr, i.rd, vr.hi, Sequential)
          /\ cm' = Retire(cm, i.rd, cm.hi, Sequential)
      BY <2>1 DEF MoveHiLo, Interpreter, Ready
    <3> QED BY <3>1, <1>1, OperandsAgree, SequentialFollows, RegisterStep
  <2>2. CASE i.op = "mflo"
    <3>1. /\ vr' = Retire(vr, i.rd, vr.lo, Sequential)
          /\ cm' = Retire(cm, i.rd, cm.lo, Sequential)
      BY <2>2 DEF MoveHiLo, Interpreter, Ready
    <3> QED BY <3>1, <1>1, OperandsAgree, SequentialFollows, RegisterStep
  <2>3. CASE i.op = "mthi"
    <3> DEFINE p == [lo |-> vr.lo, hi |-> vr.regs[i.rs]]
               h == [lo |-> cm.lo, hi |-> cm.regs[i.rs]]
    <3>1. /\ vr' = [vr EXCEPT !.hi = vr.regs[i.rs], !.next = Sequential]
          /\ cm' = [cm EXCEPT !.hi = cm.regs[i.rs], !.next = Sequential]
      BY <2>3 DEF MoveHiLo, Interpreter, Ready
    <3>2. vr' = SetHiLo(vr, p)
      BY <3>1, ReadyMeans DEF SetHiLo, VrState
    <3>3. cm' = SetHiLo(cm, h)
      BY <3>1, ReadyMeans DEF SetHiLo, CmState
    <3>4. W(p.lo) = h.lo /\ W(p.hi) = h.hi
      BY <1>1, OperandsAgree DEF VRs, CRs
    <3> HIDE DEF p, h
    <3> QED BY <3>2, <3>3, <3>4, ReadyMeans, SetHiLoAgrees
  <2>4. CASE i.op = "mtlo"
    <3> DEFINE p == [lo |-> vr.regs[i.rs], hi |-> vr.hi]
               h == [lo |-> cm.regs[i.rs], hi |-> cm.hi]
    <3>1. /\ vr' = [vr EXCEPT !.lo = vr.regs[i.rs], !.next = Sequential]
          /\ cm' = [cm EXCEPT !.lo = cm.regs[i.rs], !.next = Sequential]
      BY <2>4 DEF MoveHiLo, Interpreter, Ready
    <3>2. vr' = SetHiLo(vr, p)
      BY <3>1, ReadyMeans DEF SetHiLo, VrState
    <3>3. cm' = SetHiLo(cm, h)
      BY <3>1, ReadyMeans DEF SetHiLo, CmState
    <3>4. W(p.lo) = h.lo /\ W(p.hi) = h.hi
      BY <1>1, OperandsAgree DEF VRs, CRs
    <3> HIDE DEF p, h
    <3> QED BY <3>2, <3>3, <3>4, ReadyMeans, SetHiLoAgrees
  <2> QED BY <2>1, <2>2, <2>3, <2>4 DEF MoveHiLo, MoveHiLoOps
<1> QED BY <1>2, <1>3, ReadyMeans, AgreedMeans DEF Kept

LEMMA ControlAgrees ==
  ASSUME NEW i, Ready(i), Control(i)
  PROVE  Kept /\ (~Diverges(i) => Agreed')
<1> DEFINE n == VrNext(i, VRs(i), VRt(i))
           p == CmNext(i, CRs(i), CRt(i))
           d == CASE Is(i, LinkBranchOps \cup {"jal"}) -> Ra
                  [] i.op = "jalr" -> i.rd
                  [] OTHER -> 0
           e == IF Is(i, LinkBranchOps \cup {"jal", "jalr"}) THEN Ra ELSE 0
<1>1. /\ vr' = Retire(vr, d, Link, n) /\ cm' = Retire(cm, e, After(8), p)
      /\ UNCHANGED <<cmem, cport, vmem, vport, alive>>
  BY DEF Control, Interpreter, KeepMemory, KeepCopies, Ready
<1>2. d \in Reg /\ e \in Reg
  BY ReadyMeans, OperandsAgree, ExecuteAssumption DEF Is, LinkBranchOps
<1>3. n \in NextPc
  BY ReadyMeans, OperandsAgree, VrNextIsNext DEF Control
<1>4. Follows(n, p)
  BY ReadyMeans, OperandsAgree, NextsAgree DEF Control, Follows
<1>5. p \in NextPc
  <2>1. \A x \in Word : x \in Dword
    BY LowOfWord, LowIsWord
  <2>2. Plus(After(4), Sext18(ShiftLeft(i.imm, 2, DwordBits)), WordBits) \in Dword
    BY <2>1 DEF Plus, Word
  <2>3. CRs(i) \in Dword
    BY OperandsAgree, LowIsWord
  <2>4. (W(Pc) \ Bits(JumpBits)) \cup Low(ShiftLeft(i.imm, 2, WordBits), JumpBits) \in Dword
    BY <2>1 DEF ShiftLeft, W, Low, Word
  <2>5. BranchTo(i, CRs(i), CRt(i)) \in NextPc
    BY <2>2, Successors DEF BranchTo
  <2>6. JumpTarget(i) \in NextPc /\ JumpTo(CRs(i)) \in NextPc
    BY <2>3, <2>4, Successors DEF JumpTarget
  <2> QED BY <2>5, <2>6 DEF CmNext, Is, BranchOps, JumpOps, LikelyBranch, LinkBranchOps, Control
<1>6. Link \in Dword /\ After(8) \in Word /\ W(Link) = After(8)
  BY LinksAgree, LowIsWord, PlusIsDword DEF Link
<1>7. (i.op = "jalr" => i.rd = Ra) => d = e
  BY DEF Is, LinkBranchOps
<1> HIDE DEF n, p, d, e
<1>8. vr'.regs[0] = {} /\ cm' \in CmState /\ cm'.regs[0] = {}
  <2>1. vr'.regs[0] = {} /\ cm'.regs[0] = {}
    BY <1>1, <1>2, ReadyMeans, RetireZero
  <2> QED BY <1>1, <1>2, <1>5, <1>6, <2>1, ReadyMeans, CmRetireKeeps
<1>9. d = e => Same(vr', cm') /\ Follows(vr'.next, cm'.next)
  BY <1>1, <1>2, <1>3, <1>4, <1>5, <1>6, RegisterStep
<1>10. ~Diverges(i) => d = e
  BY <1>7 DEF Diverges
<1> QED BY <1>1, <1>8, <1>9, <1>10, ReadyMeans, AgreedMeans DEF Kept

(* Where an access goes is the same for both cores. *)
LEMMA AccessPlace ==
  ASSUME NEW i, Ready(i), Legal(i)
  PROVE  LET A == Address(i, VRs(i))
             a == VirtualAddress(i, CRs(i))
         IN /\ a = W(A) /\ a \in Word /\ Offset(A, Alignment(i)) = 0
            /\ WordOf(a) = WordOf(A) /\ Offset(a, 4) = Offset(A, 4)
            /\ IsDevice(a) <=> IsDevice(A)
            /\ ~IsDevice(A) => InMemory(A)
            /\ InMemory(A) => ~IsDevice(A)
            /\ Is(i, UnalignedOps \cup LinkedOps \cup DoubleMemoryOps) => InMemory(A)
<1> DEFINE A == Address(i, VRs(i))
           a == VirtualAddress(i, CRs(i))
<1>1. W(A) = a /\ a \in Word
  BY ReadyMeans, OperandsAgree, AddressesAgree
<1>2. WordOf(a) = WordOf(A) /\ (IsDevice(a) <=> IsDevice(A)) /\ Offset(a, 4) = Offset(A, 4)
  BY <1>1, PlacesAgree
<1>3. Offset(A, Alignment(i)) = 0
      /\ (InMemory(A) \/ (IsDevice(A) /\ ~Is(i, UnalignedOps \cup LinkedOps \cup DoubleMemoryOps)))
  BY DEF Legal
<1>4. InMemory(A) => ~IsDevice(A)
  BY ExecuteAssumption DEF InMemory, IsDevice
<1> QED BY <1>1, <1>2, <1>3, <1>4

(* The request goes to the address of the instruction, or of its word. *)
LEMMA RequestPlace ==
  ASSUME NEW i, NEW rs, NEW rt,
         i.op \in LoadOps \cup StoreOps \cup UnalignedOps \cup LinkedOps
  PROVE  LET q == VrRequest(i, rs, rt)
         IN /\ IsDevice(q.vaddr) <=> IsDevice(Address(i, rs))
            /\ WordOf(q.vaddr) = WordOf(Address(i, rs)) /\ q.wide = FALSE
            /\ i.op \in LoadOps => q.vaddr = Address(i, rs)
            /\ i.op \in StoreOps => q.vaddr = Aligned(Address(i, rs), 4)
<1> DEFINE A == Address(i, rs)
           q == VrRequest(i, rs, rt)
<1>1. CASE i.op \in LoadOps \cup StoreOps
  <2>1. q = LOAD_STORE(i, rs, rt)
    BY <1>1 DEF VrRequest, Is, LoadOps, StoreOps, LinkedOps
  <2>2. q.wide = FALSE /\ q.vaddr = IF i.op \in StoreOps THEN Aligned(A, 4) ELSE A
    BY <1>1, <2>1 DEF LOAD_STORE, Read, Write, Is, StoreOps
  <2>3. i.op \in LoadOps => i.op \notin StoreOps
    BY DEF LoadOps, StoreOps
  <2> HIDE DEF q, A
  <2>4. /\ IsDevice(q.vaddr) <=> IsDevice(A)
        /\ WordOf(q.vaddr) = WordOf(A)
    BY <2>2, AlignedPlace
  <2>5. (i.op \in LoadOps => q.vaddr = A) /\ (i.op \in StoreOps => q.vaddr = Aligned(A, 4))
    BY <2>2, <2>3
  <2> QED BY <2>2, <2>4, <2>5 DEF q, A
<1>2. CASE i.op \in UnalignedOps
  <2>1. q = LWL_LWR(i, rs, rt) \/ q = SWL_SWR(i, rs, rt)
    BY <1>2 DEF VrRequest, Is, LoadOps, StoreOps, LinkedOps, UnalignedOps
  <2>2. q.wide = FALSE /\ (q.vaddr = A \/ q.vaddr = Aligned(A, 4))
    BY <2>1 DEF LWL_LWR, SWL_SWR, Read, Write
  <2>3. i.op \notin LoadOps /\ i.op \notin StoreOps
    BY <1>2 DEF LoadOps, StoreOps, UnalignedOps
  <2> HIDE DEF q, A
  <2>4. (IsDevice(q.vaddr) <=> IsDevice(A)) /\ WordOf(q.vaddr) = WordOf(A)
    BY <2>2, AlignedPlace
  <2> QED BY <2>2, <2>3, <2>4 DEF q, A
<1>3. CASE i.op \in LinkedOps
  <2>1. q = LL_SC(i, rs)
    BY <1>3 DEF VrRequest, Is, LoadOps, StoreOps, LinkedOps
  <2>2. q.wide = FALSE /\ q.vaddr = A
    BY <2>1 DEF LL_SC, Read, Write
  <2>3. i.op \notin LoadOps /\ i.op \notin StoreOps
    BY <1>3 DEF LoadOps, StoreOps, LinkedOps
  <2> HIDE DEF q, A
  <2> QED BY <2>2, <2>3 DEF q, A
<1> QED BY <1>1, <1>2, <1>3

LEMMA LoadAgrees ==
  ASSUME NEW i, Ready(i), Load(i)
  PROVE  Kept /\ (~Diverges(i) => Agreed')
<1> DEFINE q == VrRequest(i, VRs(i), VRt(i))
           A == Address(i, VRs(i))
           a == VirtualAddress(i, CRs(i))
           x == IF IsDevice(q.vaddr) THEN DeviceRead(q, vport) ELSE BusRead(q, vmem)
           y == CASE i.op = "lwl" -> LoadLeft(a, CRt(i), cmem)
                  [] i.op = "lwr" -> LoadRight(a, CRt(i), cmem)
                  [] OTHER -> LoadAligned(i, a, cmem, cport)
<1>1. /\ vr' = Retire(vr, i.rt, x, Sequential) /\ cm' = Retire(cm, i.rt, y, Sequential)
      /\ UNCHANGED <<cmem, cport, vmem, vport, alive>>
      /\ i.op \in LoadOps \cup {"lwl", "lwr"} /\ Legal(i)
  BY DEF Load, VrLoad, Interpreter, KeepCopies, Ready
<1>2. /\ i \in Instruction /\ vmem = cmem /\ vport = cport
      /\ vmem \in [MemoryWords -> Word] /\ vport \in [0 .. 3 -> Byte]
      /\ VRs(i) \in Dword /\ VRt(i) \in Dword /\ SignExtended(VRt(i)) /\ i.rt \in Reg
      /\ CRs(i) = W(VRs(i)) /\ CRt(i) = W(VRt(i))
  BY ReadyMeans, OperandsAgree
<1>3. /\ a = W(A) /\ a \in Word /\ Offset(A, Alignment(i)) = 0
      /\ WordOf(a) = WordOf(A) /\ Offset(a, 4) = Offset(A, 4)
      /\ IsDevice(a) <=> IsDevice(A)
      /\ ~IsDevice(A) => InMemory(A)
      /\ InMemory(A) => ~IsDevice(A)
      /\ i.op \in {"lwl", "lwr"} => InMemory(A)
  BY <1>1, AccessPlace DEF Is, UnalignedOps
<1>4. /\ IsDevice(q.vaddr) <=> IsDevice(A)
      /\ i.op \in LoadOps => q.vaddr = A
  BY <1>1, RequestPlace DEF UnalignedOps
<1>5. x \in Dword
  <2>1. BusRead(q, vmem) \in Dword
    BY <1>1, <1>2, LoadIsDword
  <2>2. DeviceRead(q, vport) \in Dword
    <3> HIDE DEF q
    <3> QED BY <1>2, DeviceIsByte, ByteIsNarrow
  <2> QED BY <2>1, <2>2
<1>6. InMemory(A) => W(x) = y
  <2> SUFFICES ASSUME InMemory(A) PROVE W(x) = y
    OBVIOUS
  <2>1. x = BusRead(q, vmem)
    BY <1>3, <1>4
  <2>2. CASE i.op \in LoadOps
    <3>1. y = LoadAligned(i, a, vmem, vport)
      BY <2>2, <1>2 DEF LoadOps
    <3>2. W(BusRead(q, vmem)) = LoadAligned(i, VirtualAddress(i, W(VRs(i))), vmem, vport)
      BY <1>2, <1>3, <2>2, LoadsAgree
    <3> HIDE DEF x, y, q, A
    <3> QED BY <2>1, <3>1, <3>2, <1>2
  <2>3. CASE i.op \in {"lwl", "lwr"}
    <3>1. y = IF i.op = "lwl" THEN LoadLeft(a, W(VRt(i)), vmem)
                              ELSE LoadRight(a, W(VRt(i)), vmem)
      BY <2>3, <1>2
    <3>2. W(BusRead(q, vmem)) =
            LET b == VirtualAddress(i, W(VRs(i)))
            IN IF i.op = "lwl" THEN LoadLeft(b, W(VRt(i)), vmem)
                               ELSE LoadRight(b, W(VRt(i)), vmem)
      BY <1>2, <2>3, PartialLoadsAgree
    <3> HIDE DEF x, y, q, A
    <3> QED BY <2>1, <3>1, <3>2, <1>2
  <2> QED BY <1>1, <2>2, <2>3
<1>7. IsDevice(A) => /\ y \in Word
                     /\ ~Diverges(i) => W(x) = y
  <2> SUFFICES ASSUME IsDevice(A)
               PROVE  y \in Word /\ (~Diverges(i) => W(x) = y)
    OBVIOUS
  <2>1. i.op \in LoadOps
    BY <1>1, <1>3
  <2>2. y = LoadAligned(i, a, vmem, vport) /\ x = vport[Offset(A, 4)]
    BY <2>1, <1>2, <1>4 DEF LoadOps, DeviceRead
  <2> DEFINE byte == vport[Offset(A, 4)]
  <2>3. byte \in Byte /\ ReadVirtByte(a, vmem, vport) = byte
    BY <1>2, <1>3, OffsetInWord4 DEF ReadVirtByte
  <2>4. byte \in Word /\ W(byte) = byte
    <3>1. byte \in Word
      BY <2>3, Widths DEF Byte, Word, Bits
    <3> QED BY <3>1, LowOfWord
  <2>5. y \in Word
    <3> DEFINE low == ReadVirtByte(Next1(a), vmem, vport)
               half == low \cup ShiftLeft(byte, ByteBits, WordBits)
    <3>1. i.op \in {"lh", "lhu"} => low \in Byte
      <4> SUFFICES ASSUME i.op \in {"lh", "lhu"} PROVE low \in Byte
        OBVIOUS
      <4>1. 0 \notin A
        <5>1. Offset(A, 2) = 0
          BY <1>3 DEF Alignment, Is
        <5> QED BY <5>1 DEF Offset
      <4>2. 0 \notin a
        BY <4>1, <1>3 DEF W, Low
      <4>3. IsDevice(Next1(a))
        BY <1>3, <4>2, NextPlace
      <4>4. low = vport[Offset(Next1(a), 4)]
        BY <4>3 DEF ReadVirtByte
      <4> QED BY <4>4, <1>2, OffsetInWord4
    <3>2. i.op \in {"lh", "lhu"} => half \in Word
      <4>1. \A z \in Byte : z \in Word
        BY Widths DEF Byte, Word, Bits
      <4>2. ShiftLeft(byte, ByteBits, WordBits) \in Word
        BY DEF ShiftLeft, Word
      <4> HIDE DEF low, byte
      <4> QED BY <3>1, <4>1, <4>2 DEF Word
    <3>3. ReadVirtWord(a, vmem) = {}
      BY <1>3 DEF ReadVirtWord
    <3>4. {} \in Word
      BY DEF Word
    <3>5. y = CASE i.op = "lb" -> W(Extend(byte, ByteBits))
                [] i.op = "lbu" -> byte
                [] i.op = "lh" -> W(Extend(half, HalfBits))
                [] i.op = "lhu" -> half
                [] i.op = "lw" -> {}
      BY <2>1, <2>2, <2>3, <3>3 DEF LoadAligned
    <3> HIDE DEF y, half, byte
    <3> QED BY <2>1, <2>4, <3>2, <3>4, <3>5, LowIsWord DEF LoadOps
  <2>6. ~Diverges(i) => W(x) = y
    <3> SUFFICES ASSUME ~Diverges(i) PROVE W(x) = y
      OBVIOUS
    <3>1. ~DeviceDiverges(i)
      BY <2>1 DEF Diverges
    <3>2. i.op = "lbu" \/ (i.op = "lb" /\ ByteBits - 1 \notin byte)
      BY <2>1, <3>1 DEF DeviceDiverges, DeviceRead, LoadOps
    <3>3. CASE i.op = "lbu"
      <4>1. y = byte
        BY <2>2, <2>3, <3>3 DEF LoadAligned
      <4> QED BY <4>1, <2>2, <2>4
    <3>4. CASE i.op = "lb" /\ ByteBits - 1 \notin byte
      <4>1. y = W(Extend(byte, ByteBits))
        BY <2>2, <2>3, <3>4 DEF LoadAligned
      <4>2. Extend(byte, ByteBits) = byte
        <5> HIDE DEF byte
        <5> QED BY <2>3, <3>4 DEF Extend, Low, SignBits, Byte
      <4> QED BY <4>1, <4>2, <2>2, <2>4
    <3> QED BY <3>2, <3>3, <3>4
  <2> QED BY <2>5, <2>6
<1> HIDE DEF x, y, q, A, a
<1>8. y \in Word /\ (~Diverges(i) => W(x) = y)
  BY <1>3, <1>6, <1>7, LowIsWord
<1>9. vr'.regs[0] = {} /\ cm' \in CmState /\ cm'.regs[0] = {}
  <2>1. vr'.regs[0] = {} /\ cm'.regs[0] = {}
    BY <1>1, <1>2, ReadyMeans, RetireZero
  <2> QED BY <1>1, <1>2, <1>8, <2>1, ReadyMeans, CmRetireKeeps, Successors
<1>10. ~Diverges(i) => Same(vr', cm') /\ Follows(vr'.next, cm'.next)
  BY <1>1, <1>2, <1>5, <1>8, SequentialFollows, RegisterStep
<1> QED BY <1>1, <1>2, <1>9, <1>10, ReadyMeans, AgreedMeans DEF Kept

(* What a store of either core leaves of the rest. *)
LEMMA StoreRegisters ==
  ASSUME NEW i, Ready(i), vr' = [vr EXCEPT !.next = Sequential],
         cm' = [cm EXCEPT !.next = Sequential]
  PROVE  /\ vr'.regs[0] = {} /\ cm' \in CmState /\ cm'.regs[0] = {}
         /\ Same(vr', cm') /\ Follows(vr'.next, cm'.next)
<1>1. vr'.regs = vr.regs /\ vr'.hi = vr.hi /\ vr'.lo = vr.lo /\ vr'.next = Sequential
  BY ReadyMeans DEF VrState
<1>2. /\ cm'.regs = cm.regs /\ cm'.hi = cm.hi /\ cm'.lo = cm.lo /\ cm'.next = Sequential
      /\ cm' \in CmState
  BY ReadyMeans, Successors DEF CmState
<1> QED BY <1>1, <1>2, ReadyMeans, SequentialFollows DEF Same

(* A byte stored to the first register of the UART. *)
LEMMA DeviceStoresAgree ==
  ASSUME NEW i, Ready(i), Legal(i), i.op = "sb", Offset(Address(i, VRs(i)), 4) = 0
  PROVE  DeviceWrite(VrRequest(i, VRs(i), VRt(i)), vport)
           = StoreToDevice(i, VirtualAddress(i, CRs(i)), vport)
<1> DEFINE q == VrRequest(i, VRs(i), VRt(i))
           rt == VRt(i)
<1>1. Offset(VirtualAddress(i, CRs(i)), 4) = 0
  BY AccessPlace
<1>2. q = LOAD_STORE(i, VRs(i), VRt(i))
  BY DEF VrRequest, Is, LoadOps, StoreOps, LinkedOps
<1>3. Offset(q.vaddr, 4) = 0 /\ q.data = Down(Up(rt, 3), 0)
  BY <1>2, AlignedPlace DEF LOAD_STORE, Write, Is, RequestSize
<1>4. Low(Down(q.data, 3), ByteBits) = Low(W(rt), ByteBits)
  <2>1. rt \subseteq 0 .. DwordBits - 1
    BY OperandsAgree DEF Dword, Bits
  <2>2. \A b \in 0 .. ByteBits - 1 : b \in Down(Down(Up(rt, 3), 0), 3) <=> b \in rt
    <3> TAKE b \in 0 .. ByteBits - 1
    <3>1. Up(rt, 3) = {j \in 0 .. DwordBits - 1 : j - 3 * ByteBits \in rt}
      BY DEF Up, ShiftLeft, Bits
    <3>2. b + 3 * ByteBits \in 0 .. DwordBits - 1 /\ b \in 0 .. DwordBits - 1
      BY Widths
    <3>3. b \in Down(Down(Up(rt, 3), 0), 3) <=> b + 3 * ByteBits \in Down(Up(rt, 3), 0)
      BY <3>2 DEF Down, ShiftRight, Bits
    <3>4. b + 3 * ByteBits \in Down(Up(rt, 3), 0) <=> b + 3 * ByteBits \in Up(rt, 3)
      <4>1. b + 3 * ByteBits + 0 * ByteBits = b + 3 * ByteBits
        BY Widths
      <4> QED BY <3>2, <4>1 DEF Down, ShiftRight, Bits
    <3>5. b + 3 * ByteBits \in Up(rt, 3) <=> b \in rt
      BY <3>1, <3>2, Widths
    <3> QED BY <3>3, <3>4, <3>5
  <2>3. \A b \in 0 .. ByteBits - 1 : b \in W(rt) <=> b \in rt
    BY Widths DEF W, Low, Bits
  <2> QED BY <1>3, <2>2, <2>3 DEF Low, Bits
<1>5. CRt(i) = W(rt)
  BY OperandsAgree
<1> HIDE DEF q
<1>6. DeviceWrite(q, vport) = StoreToDevice(i, VirtualAddress(i, CRs(i)), vport)
  BY <1>1, <1>3, <1>4, <1>5 DEF DeviceWrite, StoreToDevice
<1> QED BY <1>6 DEF q

LEMMA StoreAgrees ==
  ASSUME NEW i, Ready(i), Store(i)
  PROVE  Kept /\ (~Diverges(i) => Agreed')
<1> DEFINE q == VrRequest(i, VRs(i), VRt(i))
           A == Address(i, VRs(i))
           a == VirtualAddress(i, CRs(i))
<1>1. /\ vr' = [vr EXCEPT !.next = Sequential] /\ cm' = [cm EXCEPT !.next = Sequential]
      /\ vmem' = (IF IsDevice(q.vaddr) THEN vmem ELSE BusWrite(q, vmem))
      /\ vport' = (IF IsDevice(q.vaddr) THEN DeviceWrite(q, vport) ELSE vport)
      /\ cmem' = (IF IsDevice(a) THEN cmem ELSE StoreToMemory(i, a, cmem))
      /\ cport' = (IF IsDevice(a) THEN StoreToDevice(i, a, cport) ELSE cport)
      /\ i.op \in StoreOps \cup {"swl", "swr"} /\ Legal(i) /\ VrStore(i) /\ alive' = alive
  BY DEF Store, VrStore, Interpreter, Ready
<1>2. /\ i \in Instruction /\ vmem = cmem /\ vport = cport
      /\ vmem \in [MemoryWords -> Word] /\ vport \in [0 .. 3 -> Byte]
      /\ VRs(i) \in Dword /\ VRt(i) \in Dword
      /\ CRs(i) = W(VRs(i)) /\ CRt(i) = W(VRt(i))
  BY ReadyMeans, OperandsAgree
<1>3. /\ a \in Word /\ Offset(A, Alignment(i)) = 0 /\ Offset(a, 4) = Offset(A, 4)
      /\ IsDevice(a) <=> IsDevice(A)
      /\ ~IsDevice(A) => InMemory(A)
      /\ i.op \in {"swl", "swr"} => InMemory(A)
      /\ InMemory(A) => ~IsDevice(A)
  BY <1>1, AccessPlace DEF Is, UnalignedOps
<1>4. IsDevice(q.vaddr) <=> IsDevice(A)
  BY <1>1, RequestPlace DEF UnalignedOps
<1>5. /\ vr'.regs[0] = {} /\ cm' \in CmState /\ cm'.regs[0] = {}
      /\ Same(vr', cm') /\ Follows(vr'.next, cm'.next)
  BY <1>1, StoreRegisters
<1>6. /\ vmem' \in [MemoryWords -> Word] /\ vport' \in [0 .. 3 -> Byte]
  BY <1>1, VrStoreKeeps DEF KeepsMemory, Ready, Sound
<1>7. CASE InMemory(A)
  <2>1. BusWrite(q, vmem) = StoreToMemory(i, VirtualAddress(i, W(VRs(i))), vmem)
    BY <1>1, <1>2, <1>3, <1>7, StoresAgree
  <2>2. vmem' = BusWrite(q, vmem) /\ vport' = vport
    BY <1>1, <1>3, <1>4, <1>7
  <2>3. cmem' = StoreToMemory(i, a, cmem) /\ cport' = cport
    BY <1>1, <1>3, <1>7
  <2> HIDE DEF q, A
  <2>4. cmem' = vmem' /\ cport' = vport'
    BY <2>1, <2>2, <2>3, <1>2
  <2>5. Agreed' /\ Kept
    BY <2>4, <1>1, <1>5, <1>6, ReadyMeans, AgreedMeans DEF Kept
  <2> QED BY <2>5
<1>8. CASE ~InMemory(A)
  <2>1. IsDevice(A) /\ i.op \in StoreOps
    BY <1>1, <1>3, <1>8
  <2>2. /\ vmem' = vmem /\ vport' = DeviceWrite(q, vport)
        /\ cmem' = cmem /\ cport' = StoreToDevice(i, a, vport)
    BY <1>1, <1>2, <1>3, <1>4, <2>1
  <2>3. cport' \in [0 .. 3 -> Byte]
    <3>1. \A x : Low(x, ByteBits) \in Byte
      BY DEF Low, Byte
    <3> HIDE DEF a
    <3> QED BY <1>2, <2>2, <3>1 DEF StoreToDevice
  <2>4. Kept
    BY <1>2, <1>5, <2>2, <2>3 DEF Kept
  <2>5. ~Diverges(i) => Agreed'
    <3> SUFFICES ASSUME ~Diverges(i) PROVE Agreed'
      OBVIOUS
    <3>1. i.op = "sb" /\ Offset(A, 4) = 0
      BY <2>1 DEF Diverges, DeviceDiverges, StoreOps
    <3>2. DeviceWrite(q, vport) = StoreToDevice(i, a, vport)
      BY <1>1, <3>1, DeviceStoresAgree
    <3> HIDE DEF q, a, A
    <3> QED BY <1>1, <1>2, <1>5, <2>2, <3>2, ReadyMeans, AgreedMeans
  <2> QED BY <2>4, <2>5
<1> QED BY <1>7, <1>8

LEMMA LoadLinkedKeeps ==
  ASSUME NEW i, Ready(i), LoadLinked(i)
  PROVE  Kept
<1> DEFINE a == VirtualAddress(i, CRs(i))
           y == ReadVirtWord(a, cmem)
<1>1. /\ cm' = [Retire(cm, i.rt, y, Sequential) EXCEPT !.llbit = TRUE]
      /\ UNCHANGED <<cmem, cport>> /\ VrLoad(i) /\ Legal(i) /\ i.op = "ll"
  BY DEF LoadLinked, Interpreter, KeepCopies, Ready
<1>2. y \in Word
  <2>1. InMemory(Address(i, VRs(i))) /\ WordOf(a) = WordOf(Address(i, VRs(i))) /\ ~IsDevice(a)
    BY <1>1, AccessPlace DEF Is, LinkedOps
  <2>2. cmem \in [MemoryWords -> Word]
    BY ReadyMeans
  <2> QED BY <2>1, <2>2 DEF ReadVirtWord, InMemory
<1> HIDE DEF y
<1>3. /\ Retire(cm, i.rt, y, Sequential) \in CmState
      /\ Retire(cm, i.rt, y, Sequential).regs[0] = {}
  BY <1>2, ReadyMeans, OperandsAgree, CmRetireKeeps, RetireZero, Successors
<1>4. cm' \in CmState /\ cm'.regs[0] = {}
  BY <1>1, <1>3 DEF CmState
<1>5. vr'.regs[0] = {}
  BY <1>1, ReadyMeans, OperandsAgree, RetireZero DEF VrLoad
<1> QED BY <1>1, <1>4, <1>5, ReadyMeans DEF Kept

LEMMA StoreConditionalKeeps ==
  ASSUME NEW i, Ready(i), StoreConditional(i)
  PROVE  Kept
<1> DEFINE a == VirtualAddress(i, CRs(i))
<1>1. /\ cm' = Retire(cm, i.rt, Boolean(cm.llbit), Sequential)
      /\ cmem' = IF cm.llbit THEN WriteVirtWord(a, CRt(i), cmem) ELSE cmem
      /\ cport' = cport /\ VrStore(i)
  BY DEF StoreConditional, Interpreter, Ready
<1>2. Boolean(cm.llbit) \in Word
  BY Widths DEF Boolean, Word, Bits
<1>3. cm' \in CmState /\ cm'.regs[0] = {}
  BY <1>1, <1>2, ReadyMeans, OperandsAgree, CmRetireKeeps, RetireZero, Successors
<1>4. cmem' \in [MemoryWords -> Word]
  <2>1. CRt(i) \in Word /\ cmem \in [MemoryWords -> Word]
    BY ReadyMeans, OperandsAgree, LowIsWord
  <2> HIDE DEF a
  <2> QED BY <1>1, <2>1 DEF WriteVirtWord
<1>5. vr'.regs[0] = {}
  BY <1>1, ReadyMeans DEF VrStore, VrState
<1> QED BY <1>1, <1>3, <1>4, <1>5, ReadyMeans DEF Kept

(* Every instruction of a guest that both cores run. *)
LEMMA InstructAgrees ==
  ASSUME NEW i, Ready(i), Instruct(i)
  PROVE  Kept /\ (~Diverges(i) => Agreed')
<1>1. i.op \notin WideOps
  BY DEF Ready, Wide
<1>2. ~Double(i) /\ ~DoubleMultiply(i) /\ ~DoubleLoad(i) /\ ~DoubleStore(i)
  BY <1>1 DEF Double, DoubleMultiply, DoubleLoad, DoubleStore, WideOps, DoubleMemoryOps
<1>3. CASE Integer(i)
  BY <1>3, IntegerAgrees
<1>4. CASE Later(i)
  BY <1>4, LaterKeeps DEF Diverges, Later
<1>5. CASE MultiplyDivide(i)
  BY <1>5, MultiplyDivideAgrees
<1>6. CASE MoveHiLo(i)
  BY <1>6, MoveHiLoAgrees
<1>7. CASE Control(i)
  BY <1>7, ControlAgrees
<1>8. CASE Load(i)
  BY <1>8, LoadAgrees
<1>9. CASE Store(i)
  BY <1>9, StoreAgrees
<1>10. CASE LoadLinked(i)
  BY <1>10, LoadLinkedKeeps DEF Diverges, LoadLinked, LinkedOps
<1>11. CASE StoreConditional(i)
  BY <1>11, StoreConditionalKeeps DEF Diverges, StoreConditional, LinkedOps
<1> QED BY <1>2, <1>3, <1>4, <1>5, <1>6, <1>7, <1>8, <1>9, <1>10, <1>11 DEF Instruct

LEMMA InitSound == Init => Sound
<1> SUFFICES ASSUME Init PROVE Sound
  OBVIOUS
<1>1. {} \in Word /\ {} \in Byte /\ 0 \in Reg
  BY ExecuteAssumption DEF Word, Byte
<1>2. InterpreterTypes
  <2>1. cm \in CmState
    BY <1>1, Successors DEF Init, CmState
  <2> QED BY <1>1, <2>1, LockstepAssumption DEF Init, InterpreterTypes, CmState
<1>3. ZeroRegisters
  BY <1>1 DEF Init, ZeroRegisters
<1> QED BY <1>2, <1>3, InitHolds DEF Sound

LEMMA NextSound == Sound /\ [Next]_vars => Sound'
<1> SUFFICES ASSUME Sound, [Next]_vars PROVE Sound'
  OBVIOUS
<1>1. Holds'
  BY NextHolds DEF Sound
<1>2. CASE UNCHANGED vars
  BY <1>1, <1>2 DEF vars, Sound, InterpreterTypes, ZeroRegisters, Wide
<1>3. CASE Next /\ Wide
  <2>1. PICK i \in program : Instruct(i)
    BY <1>3 DEF Next
  <2>2. Wide'
    BY <1>3 DEF Next, Wide
  <2>3. UNCHANGED <<cm, cmem, cport>>
    BY <1>3, <2>1 DEF Instruct, Integer, Later, MultiplyDivide, MoveHiLo, Control, Load, Store,
       LoadLinked, StoreConditional, Double, DoubleMultiply, DoubleLoad, DoubleStore,
       Interpreter, KeepInterpreter
  <2> QED BY <1>1, <2>2, <2>3 DEF Sound, InterpreterTypes, ZeroRegisters
<1>4. CASE Next /\ ~Wide
  <2>1. PICK i \in program : Instruct(i)
    BY <1>4 DEF Next
  <2>2. i \in Instruction
    BY <2>1, LockstepAssumption, HoldsMeans DEF Sound
  <2>3. Ready(i)
    BY <1>4, <2>1, <2>2 DEF Ready, Next
  <2>4. Kept
    BY <2>1, <2>3, InstructAgrees
  <2> QED BY <1>1, <2>4 DEF Kept, Sound, InterpreterTypes, ZeroRegisters, CmState
<1> QED BY <1>2, <1>3, <1>4

(* Both cores keep their types: doublewords on one side and words on the other,
   for every width, guest and memory. *)
THEOREM TypesHold == Spec => []TypeOK
<1>1. Sound => TypeOK
  BY DEF Sound, Holds, TypeOK
<1> QED BY <1>1, InitSound, NextSound, PTL DEF Spec

(* The two cores disagree only on the instructions listed in Diverges: on every
   other, whatever the guest executed before, they leave the same registers, HI
   and LO, memory, UART registers and successor. *)
THEOREM CoresAgree == Spec => OnlyKnownDivergence
<1> DEFINE P == ~Wide /\ ~Agreed' => \E i \in program : Diverges(i) /\ Instruct(i)
<1>1. Sound /\ [Next]_vars => [P]_vars
  <2> SUFFICES ASSUME Sound, Next, ~Wide, ~Agreed'
               PROVE  \E i \in program : Diverges(i) /\ Instruct(i)
    OBVIOUS
  <2>1. PICK i \in program : Instruct(i)
    BY DEF Next
  <2>2. i \in Instruction
    BY <2>1, LockstepAssumption, HoldsMeans DEF Sound
  <2>3. Ready(i)
    BY <2>1, <2>2 DEF Ready, Next
  <2>4. Diverges(i)
    BY <2>1, <2>3, InstructAgrees
  <2> QED BY <2>1, <2>4
<1> QED BY <1>1, InitSound, NextSound, PTL DEF Spec, OnlyKnownDivergence

---------------------------------------------------------------------------
(* The two data paths.  The doubleword that holds an address, its two words,
   and which of them the address is in. *)
LEMMA Doublewords ==
  ASSUME NEW x
  PROVE  LET w == WordOf(Aligned(x, 8))
         IN /\ InMemory(x) <=> w \in MemoryWords
            /\ w \in MemoryWords => Second(w) \in MemoryWords
            /\ 0 \notin w /\ w # Second(w)
            /\ 2 \in x => WordOf(x) = Second(w) /\ Offset(x, 8) = Offset(x, 4) + 4
            /\ 2 \notin x => WordOf(x) = w /\ Offset(x, 8) = Offset(x, 4)
<1> DEFINE w == WordOf(Aligned(x, 8))
<1>1. \A b : b \in WordOf(x) <=> b \in Bits(DwordBits) /\ b + 2 \in x /\ b + 2 \in Bits(WordBits)
  BY DEF WordOf, ShiftRight, Low
<1>2. \A b : b \in w <=> b \in WordOf(x) /\ b # 0
  <2>1. \A b : b \in w <=> b \in Bits(DwordBits) /\ b + 2 \in x \ (0 .. 2)
                           /\ b + 2 \in Bits(WordBits)
    BY DEF WordOf, ShiftRight, Low, Aligned
  <2>2. \A b \in Bits(DwordBits) : b + 2 \notin 0 .. 2 <=> b # 0
    BY DEF Bits
  <2> HIDE DEF w
  <2> QED BY <1>1, <2>1, <2>2
<1>3. 0 \in WordOf(x) <=> 2 \in x
  BY <1>1, Widths DEF Bits
<1>4. w = WordOf(x) \ {0}
  BY <1>2
<1> HIDE DEF w
<1>5. 0 \notin w /\ w # Second(w)
  BY <1>4 DEF Second
<1>6. 2 \in x => WordOf(x) = Second(w)
  BY <1>3, <1>4 DEF Second
<1>7. 2 \notin x => WordOf(x) = w
  BY <1>3, <1>4
<1>8. w \in MemoryWords => Second(w) \in MemoryWords
  BY ExecuteAssumption DEF Second
<1>9. InMemory(x) <=> w \in MemoryWords
  <2>1. InMemory(x) => w \in MemoryWords
    BY <1>4, ExecuteAssumption DEF InMemory
  <2>2. w \in MemoryWords => InMemory(x)
    BY <1>6, <1>7, <1>8 DEF InMemory
  <2> QED BY <2>1, <2>2
<1>10. Offset(x, 8) = Offset(x, 4) + (IF 2 \in x THEN 4 ELSE 0) /\ Offset(x, 4) \in 0 .. 3
  BY OffsetInWord4 DEF Offset
<1> QED BY <1>5, <1>6, <1>7, <1>8, <1>9, <1>10 DEF w

LEMMA PairBits ==
  ASSUME NEW m \in [MemoryWords -> Word], NEW w \in MemoryWords, Second(w) \in MemoryWords,
         NEW b \in Bits(DwordBits)
  PROVE  /\ b < WordBits => (b \in Pair(m, w) <=> b \in m[Second(w)])
         /\ b >= WordBits => (b \in Pair(m, w) <=> b - WordBits \in m[w])
<1>1. m[w] \subseteq Bits(WordBits) /\ m[Second(w)] \subseteq Bits(WordBits)
  BY DEF Word
<1> QED BY <1>1, Widths DEF Pair, ShiftLeft, Bits

(* A load of one word: the bytes that the line gives beyond that word are not
   in the mask. *)
LEMMA LineReadsWord ==
  ASSUME NEW q, NEW m \in [MemoryWords -> Word], InMemory(q.vaddr),
         q.wide = FALSE, q.size \in 1 .. 4,
         \A b \in q.data \cap Bits(DwordBits) :
           b + WordBits >= q.size * ByteBits + Offset(q.vaddr, 4) * ByteBits
  PROVE  LineRead(q, m) = BusRead(q, m)
<1> DEFINE x == q.vaddr
           w == WordOf(Aligned(x, 8))
           n == Offset(x, 4)
           N == n * ByteBits
           S == q.size * ByteBits
           K == (8 - q.size) * ByteBits
           line == Up(Pair(m, w), Offset(x, 8))
           bus == Up(m[WordOf(x)], n + 4)
<1>1. n \in 0 .. 3 /\ q.size \in 0 .. 4
  BY OffsetInWord4
<1>2. /\ N \in Nat /\ N <= 3 * ByteBits /\ (n + 4) * ByteBits = N + WordBits
      /\ S \in Nat /\ S <= WordBits /\ K = DwordBits - S /\ ByteBits <= S
  BY <1>1, Products
<1>3. /\ w \in MemoryWords /\ Second(w) \in MemoryWords
      /\ 2 \in x => WordOf(x) = Second(w) /\ Offset(x, 8) = n + 4
      /\ 2 \notin x => WordOf(x) = w /\ Offset(x, 8) = n
  BY Doublewords
<1>4. /\ LineRead(q, m) = q.result \cup (ShiftRightSigned(line, K, DwordBits) \cap q.data)
      /\ BusRead(q, m) = q.result \cup (ShiftRightSigned(bus, K, DwordBits) \cap q.data)
  BY DEF LineRead, BusRead
<1>5. ASSUME NEW j \in Bits(DwordBits), j >= WordBits + N
      PROVE  j \in line <=> j \in bus
  <2>1. j \in bus <=> j - (N + WordBits) \in m[WordOf(x)]
    BY <1>2 DEF Up, ShiftLeft
  <2>2. CASE 2 \in x
    <3>1. j \in line <=> j - (N + WordBits) \in Pair(m, w)
      BY <1>2, <1>3, <2>2 DEF Up, ShiftLeft
    <3>2. j - (N + WordBits) \in Bits(DwordBits) /\ j - (N + WordBits) < WordBits
      BY <1>2, <1>5, Widths DEF Bits
    <3> HIDE DEF N, w, line, bus
    <3>3. j - (N + WordBits) \in Pair(m, w) <=> j - (N + WordBits) \in m[Second(w)]
      BY <1>3, <3>2, PairBits
    <3> QED BY <1>3, <2>1, <2>2, <3>1, <3>3
  <2>3. CASE 2 \notin x
    <3>1. j \in line <=> j - N \in Pair(m, w)
      BY <1>3, <2>3 DEF Up, ShiftLeft
    <3>2. /\ j - N \in Bits(DwordBits) /\ j - N >= WordBits
          /\ j - N - WordBits = j - (N + WordBits)
      BY <1>2, <1>5, Widths DEF Bits
    <3> HIDE DEF N, w, line, bus
    <3>3. j - N \in Pair(m, w) <=> j - N - WordBits \in m[w]
      BY <1>3, <3>2, PairBits
    <3> QED BY <1>3, <2>1, <2>3, <3>1, <3>2, <3>3
  <2> QED BY <2>2, <2>3
<1>6. ASSUME NEW b \in Bits(DwordBits), b \in q.data
      PROVE  b \in ShiftRightSigned(line, K, DwordBits) <=> b \in ShiftRightSigned(bus, K, DwordBits)
  <2>1. b + WordBits >= S + N
    BY <1>6
  <2> HIDE DEF N, S, K, line, bus
  <2>2. b + K < DwordBits => b + K \in Bits(DwordBits) /\ b + K >= WordBits + N
    BY <1>2, <2>1, Widths DEF Bits
  <2>3. DwordBits - 1 \in Bits(DwordBits) /\ DwordBits - 1 >= WordBits + N
    BY <1>2, Widths DEF Bits
  <2> QED BY <2>2, <2>3, <1>5 DEF ShiftRightSigned
<1>7. \A s : ShiftRightSigned(s, K, DwordBits) \subseteq Bits(DwordBits)
  BY DEF ShiftRightSigned
<1> HIDE DEF line, bus, K
<1> QED BY <1>4, <1>6, <1>7

(* A store of one word: the other word of the doubleword stays. *)
LEMMA LineWritesWord ==
  ASSUME NEW q, NEW m \in [MemoryWords -> Word], InMemory(q.vaddr),
         q.wide = FALSE, q.wdqm \subseteq Bits(WordBits)
  PROVE  LineWrite(q, m) = BusWrite(q, m)
<1> DEFINE x == q.vaddr
           w == WordOf(Aligned(x, 8))
           amount == IF Offset(x, 8) < 4 THEN WordBits ELSE 0
           dqm == ShiftLeft(q.wdqm, amount, DwordBits)
           data == ShiftLeft(q.data, amount, DwordBits)
           dword == (Pair(m, w) \ dqm) \cup (data \cap dqm)
           new == Masked(m[WordOf(x)], q.data, q.wdqm)
<1>1. /\ w \in MemoryWords /\ Second(w) \in MemoryWords /\ w # Second(w)
      /\ 2 \in x => WordOf(x) = Second(w) /\ Offset(x, 8) = Offset(x, 4) + 4
      /\ 2 \notin x => WordOf(x) = w /\ Offset(x, 8) = Offset(x, 4)
  BY Doublewords
<1>2. amount = IF 2 \in x THEN 0 ELSE WordBits
  BY <1>1, OffsetInWord4
<1>3. LineWrite(q, m) = [m EXCEPT ![w] = ShiftRight(dword, WordBits),
                                  ![Second(w)] = Low(dword, WordBits)]
  BY DEF LineWrite
<1>4. BusWrite(q, m) = [m EXCEPT ![WordOf(x)] = new]
  BY DEF BusWrite
<1>5. m[w] \in Word /\ m[Second(w)] \in Word /\ m[WordOf(x)] \in Word
  BY <1>1
<1> HIDE DEF w, amount
<1>6. ASSUME NEW b \in Bits(DwordBits)
      PROVE  b \in dword <=> IF b - amount \in q.wdqm THEN b - amount \in q.data
                                                      ELSE b \in Pair(m, w)
  BY <1>6 DEF ShiftLeft
<1>7. \A b \in Bits(WordBits) : b \in new <=> IF b \in q.wdqm THEN b \in q.data
                                                             ELSE b \in m[WordOf(x)]
  BY <1>5, MaskedBits
<1>8. new \in Word
  BY DEF Masked, Low, Word
<1>9. /\ Low(dword, WordBits) \in Word /\ \A b \in Bits(WordBits) : b \in Low(dword, WordBits) <=> b \in dword
      /\ ShiftRight(dword, WordBits) \in Word
      /\ \A b \in Bits(WordBits) : b \in ShiftRight(dword, WordBits) <=> b + WordBits \in dword
  <2>1. dword \subseteq Bits(DwordBits)
    BY <1>5, Widths DEF Pair, ShiftLeft, Bits, Word
  <2> HIDE DEF dword
  <2> QED BY <2>1, Widths DEF Low, Word, ShiftRight, Bits
<1> HIDE DEF dword, new
<1>10. CASE 2 \in x
  <2>1. Low(dword, WordBits) = new
    <3>1. \A b \in Bits(WordBits) : b \in Low(dword, WordBits) <=> b \in new
      <4> TAKE b \in Bits(WordBits)
      <4>1. b \in Bits(DwordBits) /\ b - 0 = b /\ b < WordBits
        BY Widths DEF Bits
      <4>2. b \in Pair(m, w) <=> b \in m[Second(w)]
        BY <4>1, <1>1, PairBits
      <4> QED BY <4>1, <4>2, <1>1, <1>2, <1>6, <1>7, <1>9, <1>10
    <3> QED BY <3>1, <1>8, <1>9, EqualWords
  <2>2. ShiftRight(dword, WordBits) = m[w]
    <3>1. \A b \in Bits(WordBits) : b \in ShiftRight(dword, WordBits) <=> b \in m[w]
      <4> TAKE b \in Bits(WordBits)
      <4> DEFINE c == b + WordBits
      <4>1. /\ c \in Bits(DwordBits) /\ c - 0 \notin Bits(WordBits)
            /\ c >= WordBits /\ c - WordBits = b
        BY Widths DEF Bits
      <4>2. b \in ShiftRight(dword, WordBits) <=> c \in dword
        BY <1>9
      <4> HIDE DEF c
      <4>3. c \in Pair(m, w) <=> b \in m[w]
        BY <4>1, <1>1, PairBits
      <4>4. c - amount \notin q.wdqm
        BY <4>1, <1>2, <1>10
      <4> QED BY <4>1, <4>2, <4>3, <4>4, <1>6
    <3> QED BY <3>1, <1>5, <1>9, EqualWords
  <2> QED BY <2>1, <2>2, <1>1, <1>3, <1>4, <1>10
<1>11. CASE 2 \notin x
  <2>1. Low(dword, WordBits) = m[Second(w)]
    <3>1. \A b \in Bits(WordBits) : b \in Low(dword, WordBits) <=> b \in m[Second(w)]
      <4> TAKE b \in Bits(WordBits)
      <4>1. b \in Bits(DwordBits) /\ b - WordBits \notin Bits(WordBits) /\ b < WordBits
        BY Widths DEF Bits
      <4>2. b \in Pair(m, w) <=> b \in m[Second(w)]
        BY <4>1, <1>1, PairBits
      <4> QED BY <4>1, <4>2, <1>2, <1>6, <1>9, <1>11
    <3> QED BY <3>1, <1>5, <1>9, EqualWords
  <2>2. ShiftRight(dword, WordBits) = new
    <3>1. \A b \in Bits(WordBits) : b \in ShiftRight(dword, WordBits) <=> b \in new
      <4> TAKE b \in Bits(WordBits)
      <4> DEFINE c == b + WordBits
      <4>1. c \in Bits(DwordBits) /\ c >= WordBits /\ c - WordBits = b
        BY Widths DEF Bits
      <4>2. b \in ShiftRight(dword, WordBits) <=> c \in dword
        BY <1>9
      <4> HIDE DEF c
      <4>3. c \in Pair(m, w) <=> b \in m[w]
        BY <4>1, <1>1, PairBits
      <4>4. c - amount = b
        BY <4>1, <1>2, <1>11
      <4>5. b \in new <=> IF b \in q.wdqm THEN b \in q.data ELSE b \in m[w]
        BY <1>1, <1>7, <1>11
      <4>6. c \in dword <=> IF b \in q.wdqm THEN b \in q.data ELSE c \in Pair(m, w)
        BY <4>1, <4>4, <1>6
      <4> QED BY <4>2, <4>3, <4>5, <4>6
    <3> QED BY <3>1, <1>8, <1>9, EqualWords
  <2> QED BY <2>1, <2>2, <1>1, <1>3, <1>4, <1>11
<1> QED BY <1>10, <1>11

(* Doubleword requests: the same doubleword on both paths. *)
LEMMA LineReadsDoubleword ==
  ASSUME NEW q, NEW m, q.wide = TRUE
  PROVE  LineRead(q, m) = BusRead(q, m)
  BY DEF LineRead, BusRead

LEMMA LineWritesDoubleword ==
  ASSUME NEW q, NEW m \in [MemoryWords -> Word], InMemory(q.vaddr), q.wide = TRUE
  PROVE  LineWrite(q, m) = BusWrite(q, m)
<1> DEFINE w == WordOf(Aligned(q.vaddr, 8))
           dqm == ShiftLeft(q.wdqm, 0, DwordBits)
           data == ShiftLeft(q.data, 0, DwordBits)
           dword == (Pair(m, w) \ dqm) \cup (data \cap dqm)
           high == Masked(m[w], Down(q.data, 4), Down(q.wdqm, 4))
           low == Masked(m[Second(w)], q.data, q.wdqm)
<1>1. w \in MemoryWords /\ Second(w) \in MemoryWords /\ w # Second(w)
  BY Doublewords
<1>2. m[w] \in Word /\ m[Second(w)] \in Word
  BY <1>1
<1>3. LineWrite(q, m) = [m EXCEPT ![w] = ShiftRight(dword, WordBits),
                                  ![Second(w)] = Low(dword, WordBits)]
  BY DEF LineWrite
<1>4. BusWrite(q, m) = [m EXCEPT ![w] = high, ![Second(w)] = low]
  BY <1>1 DEF BusWrite
<1> HIDE DEF w
<1>5. ASSUME NEW b \in Bits(DwordBits)
      PROVE  b \in dword <=> IF b \in q.wdqm THEN b \in q.data ELSE b \in Pair(m, w)
  <2>1. b - 0 = b
    BY DEF Bits
  <2> QED BY <2>1 DEF ShiftLeft
<1>6. dword \subseteq Bits(DwordBits)
  BY <1>2, Widths DEF Pair, ShiftLeft, Bits, Word
<1>7. high \in Word /\ low \in Word
  BY DEF Masked, Low, Word
<1>8. \A b \in Bits(WordBits) :
        /\ b \in low <=> IF b \in q.wdqm THEN b \in q.data ELSE b \in m[Second(w)]
        /\ b \in high <=> IF b \in Down(q.wdqm, 4) THEN b \in Down(q.data, 4) ELSE b \in m[w]
  BY <1>2, MaskedBits
<1> HIDE DEF dword, high, low
<1>9. Low(dword, WordBits) = low
  <2>1. \A b \in Bits(WordBits) : b \in Low(dword, WordBits) <=> b \in low
    <3> TAKE b \in Bits(WordBits)
    <3>1. b \in Bits(DwordBits) /\ b < WordBits
      BY Widths DEF Bits
    <3>2. b \in Pair(m, w) <=> b \in m[Second(w)]
      BY <3>1, <1>1, PairBits
    <3> QED BY <3>1, <3>2, <1>5, <1>8 DEF Low
  <2>2. Low(dword, WordBits) \in Word
    BY DEF Low, Word
  <2> QED BY <2>1, <2>2, <1>7, EqualWords
<1>10. ShiftRight(dword, WordBits) = high
  <2>1. \A b \in Bits(WordBits) : b \in ShiftRight(dword, WordBits) <=> b \in high
    <3> TAKE b \in Bits(WordBits)
    <3>1. /\ b + WordBits \in Bits(DwordBits) /\ b + WordBits - WordBits = b
          /\ b + WordBits >= WordBits /\ b \in Bits(DwordBits)
      BY Widths DEF Bits
    <3>2. b + WordBits \in Pair(m, w) <=> b \in m[w]
      <4> DEFINE c == b + WordBits
      <4>1. c \in Bits(DwordBits) /\ c >= WordBits /\ c - WordBits = b
        BY Widths DEF Bits
      <4> HIDE DEF c
      <4>2. c \in Pair(m, w) <=> b \in m[w]
        BY <4>1, <1>1, PairBits
      <4> QED BY <4>2 DEF c
    <3>3. \A s : b \in Down(s, 4) <=> b + WordBits \in s
      <4>1. 4 * ByteBits = WordBits
        BY Widths
      <4> QED BY <3>1, <4>1 DEF Down, ShiftRight
    <3>4. b \in ShiftRight(dword, WordBits) <=> b + WordBits \in dword
      BY <3>1 DEF ShiftRight
    <3> QED BY <3>1, <3>2, <3>3, <3>4, <1>5, <1>8
  <2>2. ShiftRight(dword, WordBits) \in Word
    BY <1>6, Widths DEF ShiftRight, Word, Bits
  <2> QED BY <2>1, <2>2, <1>7, EqualWords
<1> QED BY <1>3, <1>4, <1>9, <1>10

(* The requests of a word or less: what they read is inside the word, and so
   is what they write. *)
LEMMA WordRequests ==
  ASSUME NEW i, NEW rs, NEW rt,
         i.op \in LoadOps \cup StoreOps \cup UnalignedOps \cup LinkedOps \cup {"lwu"},
         InMemory(Address(i, rs)), Offset(Address(i, rs), Alignment(i)) = 0
  PROVE  LET q == VrRequest(i, rs, rt)
         IN /\ InMemory(q.vaddr) /\ q.wide = FALSE
            /\ q.write => q.wdqm \subseteq Bits(WordBits)
            /\ ~q.write => /\ q.size \in 1 .. 4
                           /\ \A b \in q.data \cap Bits(DwordBits) :
                                b + WordBits >= q.size * ByteBits + Offset(q.vaddr, 4) * ByteBits
<1> DEFINE q == VrRequest(i, rs, rt)
           A == Address(i, rs)
           n == Offset(A, 4)
<1>1. n \in 0 .. 3 /\ InMemory(A)
  BY OffsetInWord4
<1>2. /\ InMemory(Aligned(A, 4)) /\ Offset(Aligned(A, 4), 4) = 0
  <2> HIDE DEF A
  <2> QED BY <1>1, AlignedPlace DEF InMemory
<1>3. /\ n * ByteBits \in Nat /\ n * ByteBits <= 3 * ByteBits /\ 0 * ByteBits = 0
      /\ (n + 1) * ByteBits = n * ByteBits + ByteBits
  BY <1>1, Products, Widths
<1>4. \A s, k : Down(Low(s, WordBits), k) \subseteq Bits(WordBits) \/ k \notin 0 .. 3
  <2> SUFFICES ASSUME NEW s, NEW k \in 0 .. 3, NEW b, b \in Down(Low(s, WordBits), k)
               PROVE  b \in Bits(WordBits)
    OBVIOUS
  <2>1. k * ByteBits \in Nat
    BY Products
  <2>2. b \in Bits(DwordBits) /\ b + k * ByteBits \in Bits(WordBits)
    BY DEF Down, ShiftRight, Low
  <2> HIDE DEF n
  <2> QED BY <2>1, <2>2, Widths DEF Bits
<1>5. Ones(4) = Bits(WordBits) /\ Ones(4) = Low(Ones(4), WordBits)
  BY Widths DEF Ones, Low
<1>6. CASE i.op \in LoadOps \cup {"lwu"}
  <2> DEFINE s == RequestSize(i)
  <2>1. /\ q.write = FALSE /\ q.vaddr = A /\ q.wide = FALSE /\ q.size = s
        /\ s = IF i.op \in {"lb", "lbu"} THEN 1 ELSE IF i.op \in {"lh", "lhu"} THEN 2 ELSE 4
    BY <1>6 DEF VrRequest, Is, LoadOps, StoreOps, LinkedOps, LOAD_STORE, RequestSize, Read
  <2>2. i.op \in {"lh", "lhu"} => n <= 2
    <3>1. i.op \in {"lh", "lhu"} => Offset(A, 2) = 0
      BY DEF Alignment, Is
    <3> QED BY <3>1 DEF Offset
  <2>3. i.op \in {"lw", "lwu"} => n = 0
    BY DEF Alignment, Is
  <2>4. s \in 1 .. 4 /\ s + n <= 4
    BY <1>1, <1>6, <2>1, <2>2, <2>3 DEF LoadOps
  <2> HIDE DEF q, A, n, s
  <2>5. s * ByteBits + n * ByteBits <= WordBits /\ s * ByteBits \in Int
    <3>1. CASE s = 1
      BY <3>1, <1>3, Widths
    <3>2. CASE s = 2
      <4>1. n \in {0, 1, 2}
        BY <3>2, <2>4, <1>1
      <4> QED BY <3>2, <4>1, Widths
    <3>3. CASE s = 4
      BY <3>3, <2>4, <1>1, Widths
    <3> QED BY <2>1, <3>1, <3>2, <3>3
  <2>6. \A b \in Bits(DwordBits) : b + WordBits >= s * ByteBits + n * ByteBits
    BY <2>5, <1>3, Widths DEF Bits
  <2> QED BY <1>1, <2>1, <2>4, <2>6 DEF q, A, n
<1>7. CASE i.op \in StoreOps
  <2>1. /\ q.write = TRUE /\ q.vaddr = Aligned(A, 4) /\ q.wide = FALSE
        /\ q.wdqm = Down(Low(Up(Ones(4), 4 - RequestSize(i)), WordBits), n)
    BY <1>7 DEF VrRequest, Is, LoadOps, StoreOps, LinkedOps, LOAD_STORE, Write
  <2> QED BY <1>1, <1>2, <1>4, <2>1
<1>8. CASE i.op = "lwl"
  <2>1. /\ q.write = FALSE /\ q.vaddr = A /\ q.wide = FALSE /\ q.size = 4
        /\ q.data = Up(Ones(8), n)
    BY <1>8 DEF VrRequest, Is, LoadOps, StoreOps, LinkedOps, LWL_LWR, Read
  <2>2. \A b \in Bits(DwordBits) : b \in Up(Ones(8), n) => b >= n * ByteBits
    BY <1>1, UpBits
  <2>3. 4 * ByteBits = WordBits
    BY Widths
  <2> HIDE DEF q, A, n
  <2>4. ASSUME NEW b \in q.data \cap Bits(DwordBits)
        PROVE  b + WordBits >= q.size * ByteBits + n * ByteBits
    BY <2>1, <2>2, <2>3, <1>3, Widths DEF Bits
  <2> QED BY <1>1, <2>1, <2>4 DEF q, A, n
<1>9. CASE i.op = "lwr"
  <2>1. /\ q.write = FALSE /\ q.vaddr = Aligned(A, 4) /\ q.wide = FALSE /\ q.size = n + 1
    BY <1>9 DEF VrRequest, Is, LoadOps, StoreOps, LinkedOps, LWL_LWR, Read
  <2> HIDE DEF q, A, n
  <2>2. \A b \in Bits(DwordBits) :
          b + WordBits >= q.size * ByteBits + Offset(q.vaddr, 4) * ByteBits
    BY <2>1, <1>1, <1>2, <1>3, Widths DEF Bits
  <2> QED BY <1>1, <1>2, <2>1, <2>2 DEF q, A, n
<1>10. CASE i.op = "swl"
  <2>1. /\ q.write = TRUE /\ q.vaddr = Aligned(A, 4) /\ q.wide = FALSE
        /\ q.wdqm = Down(Ones(4), n)
    BY <1>10 DEF VrRequest, Is, LoadOps, StoreOps, LinkedOps, SWL_SWR, Write
  <2> HIDE DEF A, n, q
  <2> QED BY <1>1, <1>2, <1>4, <1>5, <2>1 DEF q, A, n
<1>11. CASE i.op = "swr"
  <2>1. /\ q.write = TRUE /\ q.vaddr = Aligned(A, 4) /\ q.wide = FALSE
        /\ q.wdqm = Low(Up(Ones(4), 3 - n), WordBits)
    BY <1>11 DEF VrRequest, Is, LoadOps, StoreOps, LinkedOps, SWL_SWR, Write
  <2> HIDE DEF A, n, q
  <2> QED BY <1>2, <2>1 DEF Low, q, A, n
<1>12. CASE i.op = "ll"
  <2>1. /\ q.write = FALSE /\ q.vaddr = A /\ q.wide = FALSE /\ q.size = 4 /\ q.data = {}
    BY <1>12 DEF VrRequest, Is, LoadOps, StoreOps, LinkedOps, LL_SC, Read
  <2> QED BY <1>1, <2>1
<1>13. CASE i.op = "sc"
  <2>1. /\ q.write = TRUE /\ q.vaddr = A /\ q.wide = FALSE /\ q.wdqm = Ones(4)
    BY <1>13 DEF VrRequest, Is, LoadOps, StoreOps, LinkedOps, LL_SC, Write
  <2> QED BY <1>1, <1>5, <2>1
<1> QED BY <1>6, <1>7, <1>8, <1>9, <1>10, <1>11, <1>12, <1>13 DEF UnalignedOps, LinkedOps

LEMMA DoublewordRequests ==
  ASSUME NEW i, NEW rs, NEW rt, i.op \in DoubleMemoryOps \ {"lwu"}, InMemory(Address(i, rs))
  PROVE  LET q == VrRequest(i, rs, rt)
         IN q.wide = TRUE /\ (q.write => InMemory(q.vaddr))
<1> DEFINE q == VrRequest(i, rs, rt)
           A == Address(i, rs)
<1>1. InMemory(Aligned(A, 4))
  <2> HIDE DEF A
  <2> QED BY AlignedPlace DEF InMemory, A
<1>2. CASE i.op \in {"ld", "sd"}
  BY <1>2 DEF VrRequest, Is, LoadOps, StoreOps, LinkedOps, LD_SD, Read, Write
<1>3. CASE i.op \in {"ldl", "ldr"}
  BY <1>3 DEF VrRequest, Is, LoadOps, StoreOps, LinkedOps, LDL_LDR, Read
<1>4. CASE i.op \in {"sdl", "sdr"}
  BY <1>1, <1>4 DEF VrRequest, Is, LoadOps, StoreOps, LinkedOps, SDL_SDR, Write
<1> QED BY <1>2, <1>3, <1>4 DEF DoubleMemoryOps, DoubleLoadOps, DoubleStoreOps

(* A load or store that hits in the data cache and one that goes to the bus do
   the same: the register and the memory never depend on which of the two data
   paths of the VR4300 the access took. *)
THEOREM PathsAlwaysAgree == Spec => []PathsAgree
<1>1. Holds => PathsAgree
  <2> SUFFICES ASSUME Holds, NEW i \in program,
                      i.op \in LoadOps \cup StoreOps \cup UnalignedOps \cup LinkedOps
                                 \cup DoubleMemoryOps,
                      Legal(i), InMemory(Address(i, VRs(i)))
               PROVE  LET q == VrRequest(i, VRs(i), VRt(i))
                      IN IF q.write THEN LineWrite(q, vmem) = BusWrite(q, vmem)
                                    ELSE LineRead(q, vmem) = BusRead(q, vmem)
    BY DEF PathsAgree
  <2>1. vmem \in [MemoryWords -> Word]
    BY HoldsMeans
  <2>2. Offset(Address(i, VRs(i)), Alignment(i)) = 0
    BY DEF Legal
  <2> DEFINE q == VrRequest(i, VRs(i), VRt(i))
  <2>3. CASE i.op \in DoubleMemoryOps \ {"lwu"}
    <3>1. q.wide = TRUE /\ (q.write => InMemory(q.vaddr))
      BY <2>3, DoublewordRequests
    <3> HIDE DEF q
    <3> QED BY <2>1, <3>1, LineReadsDoubleword, LineWritesDoubleword DEF q
  <2>4. CASE i.op \notin DoubleMemoryOps \ {"lwu"}
    <3>1. /\ InMemory(q.vaddr) /\ q.wide = FALSE
          /\ q.write => q.wdqm \subseteq Bits(WordBits)
          /\ ~q.write => /\ q.size \in 1 .. 4
                         /\ \A b \in q.data \cap Bits(DwordBits) :
                              b + WordBits >= q.size * ByteBits + Offset(q.vaddr, 4) * ByteBits
      BY <2>2, <2>4, WordRequests
    <3> HIDE DEF q
    <3> QED BY <2>1, <3>1, LineReadsWord, LineWritesWord DEF q
  <2> QED BY <2>3, <2>4
<1> QED BY <1>1, InitHolds, NextHolds, PTL DEF Spec

---------------------------------------------------------------------------
(* The bytes at an unaligned address.  Above the bits of a small addend, a sum
   depends only on the carry out of them. *)
LEMMA CarryBeyond ==
  ASSUME NEW x, NEW t \in Nat, NEW y \in SUBSET Bits(t), NEW b \in Nat, b >= t
  PROVE  Carry(x, y, b) <=> Carry(x, y, t) /\ \A k \in t .. b - 1 : k \in x
<1>1. ASSUME Carry(x, y, b) PROVE Carry(x, y, t) /\ \A k \in t .. b - 1 : k \in x
  <2>1. PICK j \in Bits(b) : j \in x \cap y /\ \A k \in j + 1 .. b - 1 : k \in x \cup y
    BY <1>1 DEF Carry
  <2>2. j \in Bits(t) /\ \A k \in t .. b - 1 : k \notin y
    BY <2>1 DEF Bits
  <2>3. \A k \in j + 1 .. t - 1 : k \in j + 1 .. b - 1
    BY <2>2 DEF Bits
  <2>4. \A k \in t .. b - 1 : k \in j + 1 .. b - 1
    BY <2>2 DEF Bits
  <2> QED BY <2>1, <2>2, <2>3, <2>4 DEF Carry
<1>2. ASSUME Carry(x, y, t), \A k \in t .. b - 1 : k \in x PROVE Carry(x, y, b)
  <2>1. PICK j \in Bits(t) : j \in x \cap y /\ \A k \in j + 1 .. t - 1 : k \in x \cup y
    BY <1>2 DEF Carry
  <2>2. j \in Bits(b) /\ \A k \in j + 1 .. b - 1 : k \in j + 1 .. t - 1 \/ k \in t .. b - 1
    BY <2>1 DEF Bits
  <2> QED BY <2>1, <2>2, <1>2 DEF Carry
<1> QED BY <1>1, <1>2

LEMMA SumBeyond ==
  ASSUME NEW x \in Word, NEW t \in Bits(WordBits), NEW y \in SUBSET Bits(t)
  PROVE  /\ ~Carry(x, y, t) =>
              \A b \in Bits(WordBits) : b >= t => (b \in Plus(x, y, WordBits) <=> b \in x)
         /\ Carry(x, y, t) =>
              /\ ~(t \in Plus(x, y, WordBits) <=> t \in x)
              /\ \A z \in SUBSET Bits(t), b \in Bits(WordBits) :
                   Carry(x, z, t) /\ b >= t =>
                     (b \in Plus(x, z, WordBits) <=> b \in Plus(x, y, WordBits))
<1>1. t \in Nat /\ \A b \in Bits(WordBits) : b \in Nat
  BY DEF Bits
<1>2. \A z \in SUBSET Bits(t), b \in Bits(WordBits) :
        b >= t => b \notin z /\ (Carry(x, z, b) <=> Carry(x, z, t) /\ \A k \in t .. b - 1 : k \in x)
  <2> SUFFICES ASSUME NEW z \in SUBSET Bits(t), NEW b \in Bits(WordBits), b >= t
               PROVE  b \notin z /\ (Carry(x, z, b) <=> Carry(x, z, t) /\ \A k \in t .. b - 1 : k \in x)
    OBVIOUS
  <2>1. b \notin z
    BY <1>1 DEF Bits
  <2>2. Carry(x, z, b) <=> Carry(x, z, t) /\ \A k \in t .. b - 1 : k \in x
    BY <1>1, CarryBeyond
  <2> QED BY <2>1, <2>2
<1>3. \A z \in SUBSET Bits(t), b \in Bits(WordBits) :
        b >= t => (b \in Plus(x, z, WordBits) <=>
                     (b \notin x <=> (Carry(x, z, t) /\ \A k \in t .. b - 1 : k \in x)))
  <2> SUFFICES ASSUME NEW z \in SUBSET Bits(t), NEW b \in Bits(WordBits), b >= t
               PROVE  b \in Plus(x, z, WordBits) <=>
                        (b \notin x <=> (Carry(x, z, t) /\ \A k \in t .. b - 1 : k \in x))
    OBVIOUS
  <2>1. b \in Plus(x, z, WordBits) <=> ((b \in x <=> b \in z) <=> Carry(x, z, b))
    BY PlusBit
  <2> QED BY <2>1, <1>2
<1>4. \A k \in t .. t - 1 : k \in x
  BY <1>1
<1>5. ASSUME ~Carry(x, y, t), NEW b \in Bits(WordBits), b >= t
      PROVE  b \in Plus(x, y, WordBits) <=> b \in x
  BY <1>3, <1>5
<1>6. ASSUME Carry(x, y, t) PROVE ~(t \in Plus(x, y, WordBits) <=> t \in x)
  BY <1>1, <1>3, <1>4, <1>6
<1>7. ASSUME Carry(x, y, t), NEW z \in SUBSET Bits(t), NEW b \in Bits(WordBits),
             Carry(x, z, t), b >= t
      PROVE  b \in Plus(x, z, WordBits) <=> b \in Plus(x, y, WordBits)
  BY <1>3, <1>7
<1> QED BY <1>5, <1>6, <1>7

(* The low bits of the sum of an address and a number from 0 to 7, and the
   carries out of the word and of the doubleword. *)
LEMMA SmallSum ==
  ASSUME NEW a \in Word, NEW k \in 0 .. 7
  PROVE  LET p == At(a, k)
             n == Offset(a, 8)
         IN /\ Offset(p, 8) = (n + k) % 8
            /\ Carry(a, Small(k), 3) <=> n + k >= 8
            /\ Carry(a, Small(k), 2) <=> (n % 4) + (k % 4) >= 4
<1> DEFINE p == At(a, k)
           y == Small(k)
           c1 == 0 \in a /\ 0 \in y
           c2 == (1 \in a /\ 1 \in y) \/ ((1 \in a \/ 1 \in y) /\ c1)
           c3 == (2 \in a /\ 2 \in y) \/ ((2 \in a \/ 2 \in y) /\ c2)
<1>1. /\ ~Carry(a, y, 0)
      /\ \A b \in Nat : Carry(a, y, b + 1) <=> \/ b \in a /\ b \in y
                                               \/ (b \in a \/ b \in y) /\ Carry(a, y, b)
  BY CarryNext
<1>2. /\ Carry(a, y, 1) <=> c1
      /\ Carry(a, y, 2) <=> c2
      /\ Carry(a, y, 3) <=> c3
  <2>1. ASSUME NEW b \in Nat, NEW d, d = b + 1
        PROVE  Carry(a, y, d) <=> \/ b \in a /\ b \in y
                                  \/ (b \in a \/ b \in y) /\ Carry(a, y, b)
    BY <1>1, <2>1
  <2>2. 1 = 0 + 1 /\ 2 = 1 + 1 /\ 3 = 2 + 1 /\ 0 \in Nat /\ 1 \in Nat /\ 2 \in Nat
    OBVIOUS
  <2> HIDE DEF y
  <2>3. Carry(a, y, 1) <=> \/ 0 \in a /\ 0 \in y
                           \/ (0 \in a \/ 0 \in y) /\ Carry(a, y, 0)
    BY <2>1, <2>2
  <2>4. Carry(a, y, 2) <=> \/ 1 \in a /\ 1 \in y
                           \/ (1 \in a \/ 1 \in y) /\ Carry(a, y, 1)
    BY <2>1, <2>2
  <2>5. Carry(a, y, 3) <=> \/ 2 \in a /\ 2 \in y
                           \/ (2 \in a \/ 2 \in y) /\ Carry(a, y, 2)
    BY <2>1, <2>2
  <2> QED BY <1>1, <2>3, <2>4, <2>5
<1>4. 0 \in Bits(WordBits) /\ 1 \in Bits(WordBits) /\ 2 \in Bits(WordBits)
  BY Widths DEF Bits
<1>5. /\ 0 \in p <=> ((0 \in a <=> 0 \in y) <=> Carry(a, y, 0))
      /\ 1 \in p <=> ((1 \in a <=> 1 \in y) <=> Carry(a, y, 1))
      /\ 2 \in p <=> ((2 \in a <=> 2 \in y) <=> Carry(a, y, 2))
  BY <1>4, PlusBit DEF At
<1>6. /\ 0 \in y <=> k \in {1, 3, 5, 7}
      /\ 1 \in y <=> k \in {2, 3, 6, 7}
      /\ 2 \in y <=> k \in {4, 5, 6, 7}
  <2>1. k \in {0, 1, 2, 3, 4, 5, 6, 7}
    OBVIOUS
  <2> QED BY <2>1 DEF Small
<1>7. Offset(a, 8) = (IF 2 \in a THEN 4 ELSE 0) + (IF 1 \in a THEN 2 ELSE 0)
                       + (IF 0 \in a THEN 1 ELSE 0)
  BY DEF Offset
<1>8. Offset(p, 8) = (IF 2 \in p THEN 4 ELSE 0) + (IF 1 \in p THEN 2 ELSE 0)
                       + (IF 0 \in p THEN 1 ELSE 0)
  BY DEF Offset
<1> DEFINE n == Offset(a, 8)
           o == Offset(p, 8)
           C(b) == Carry(a, y, b)
<1>9. ~C(0) /\ (C(1) <=> c1) /\ (C(2) <=> c2) /\ (C(3) <=> c3)
  BY <1>1, <1>2
<1> HIDE DEF p, y, C, n, o
<1>10. o = (n + k) % 8 /\ (C(3) <=> n + k >= 8) /\ (C(2) <=> (n % 4) + (k % 4) >= 4)
  <2>1. k \in {0, 1, 2, 3, 4, 5, 6, 7}
    OBVIOUS
  <2>2. n = (IF 2 \in a THEN 4 ELSE 0) + (IF 1 \in a THEN 2 ELSE 0)
                       + (IF 0 \in a THEN 1 ELSE 0)
    BY <1>7 DEF n
  <2>3. o = (IF 2 \in p THEN 4 ELSE 0) + (IF 1 \in p THEN 2 ELSE 0)
                       + (IF 0 \in p THEN 1 ELSE 0)
    BY <1>8 DEF o
  <2>4. /\ 0 \in p <=> ((0 \in a <=> 0 \in y) <=> C(0))
        /\ 1 \in p <=> ((1 \in a <=> 1 \in y) <=> C(1))
        /\ 2 \in p <=> ((2 \in a <=> 2 \in y) <=> C(2))
    BY <1>5 DEF C
  <2> QED BY <2>1, <2>2, <2>3, <2>4, <1>6, <1>9
<1> QED BY <1>10 DEF C, n, o, p, y

LEMMA SmallBits ==
  /\ \A k \in 0 .. 3 : Small(k) \in SUBSET Bits(2)
  /\ \A k \in 0 .. 7 : Small(k) \in SUBSET Bits(3)
  /\ 2 \in Bits(WordBits) /\ 3 \in Bits(WordBits)
<1>1. \A k \in 0 .. 3 : (k \div 4) % 2 = 0
  OBVIOUS
<1> QED BY <1>1, Widths DEF Small, Bits

(* The word of an address, and the doubleword, by the bits of the address. *)
LEMMA WordsByBits ==
  ASSUME NEW x \in Word, NEW y \in Word
  PROVE  WordOf(x) = WordOf(y) <=> \A b \in Bits(WordBits) : b >= 2 => (b \in x <=> b \in y)
<1>1. \A z \in Word : Low(z, WordBits) = z
  BY DEF Low, Word
<1>2. \A b : b \in WordOf(x) <=> b \in Bits(DwordBits) /\ b + 2 \in x
  BY <1>1 DEF WordOf, ShiftRight
<1>3. \A b : b \in WordOf(y) <=> b \in Bits(DwordBits) /\ b + 2 \in y
  BY <1>1 DEF WordOf, ShiftRight
<1>4. x \subseteq Bits(WordBits) /\ y \subseteq Bits(WordBits)
  BY DEF Word
<1>5. ASSUME WordOf(x) = WordOf(y), NEW b \in Bits(WordBits), b >= 2
      PROVE  b \in x <=> b \in y
  <2>1. b - 2 \in Bits(DwordBits) /\ b - 2 + 2 = b
    BY <1>5, Widths DEF Bits
  <2> QED BY <2>1, <1>2, <1>3, <1>5
<1>6. ASSUME \A b \in Bits(WordBits) : b >= 2 => (b \in x <=> b \in y)
      PROVE  WordOf(x) = WordOf(y)
  <2>1. ASSUME NEW b \in Bits(DwordBits) PROVE b + 2 \in x <=> b + 2 \in y
    <3>1. b + 2 >= 2
      BY DEF Bits
    <3> QED BY <3>1, <1>4, <1>6
  <2> QED BY <2>1, <1>2, <1>3
<1> QED BY <1>5, <1>6

LEMMA AtIsWord ==
  ASSUME NEW a, NEW k
  PROVE  At(a, k) \in Word
  BY DEF At, Plus, Word

(* The bytes at an address and after it: those in its word, and those in the
   word of the last of them. *)
LEMMA WordAt ==
  ASSUME NEW a \in Word, NEW k \in 0 .. 3
  PROVE  LET p == At(a, k)
             e == At(a, 3)
             n == Offset(a, 4)
         IN /\ n + k < 4 => WordOf(p) = WordOf(a) /\ Offset(p, 4) = n + k
            /\ n + k >= 4 => WordOf(p) = WordOf(e) /\ Offset(p, 4) = n + k - 4
            /\ n > 0 => WordOf(e) # WordOf(a)
<1> DEFINE p == At(a, k)
           e == At(a, 3)
           n == Offset(a, 4)
<1>1. \A x : Offset(x, 4) = Offset(x, 8) % 4 /\ Offset(x, 8) \in 0 .. 7
  BY DEF Offset
<1>2. /\ Offset(p, 8) = (Offset(a, 8) + k) % 8
      /\ Carry(a, Small(k), 2) <=> (Offset(a, 8) % 4) + (k % 4) >= 4
      /\ Carry(a, Small(3), 2) <=> (Offset(a, 8) % 4) + (3 % 4) >= 4
  BY SmallSum
<1>3. /\ Offset(p, 4) = (n + k) % 4 /\ n \in 0 .. 3
      /\ Carry(a, Small(k), 2) <=> n + k >= 4
      /\ Carry(a, Small(3), 2) <=> n > 0
  <2> DEFINE A == Offset(a, 8)
             P == Offset(p, 8)
  <2>1. n = A % 4 /\ Offset(p, 4) = P % 4 /\ A \in 0 .. 7 /\ P = (A + k) % 8
    BY <1>1, <1>2
  <2>2. /\ Carry(a, Small(k), 2) <=> (A % 4) + (k % 4) >= 4
        /\ Carry(a, Small(3), 2) <=> (A % 4) + (3 % 4) >= 4
    BY <1>2
  <2> HIDE DEF A, P, n, p
  <2> QED BY <2>1, <2>2
<1>4. p \in Word /\ e \in Word
  BY AtIsWord
<1>5. /\ Small(k) \in SUBSET Bits(2) /\ Small(3) \in SUBSET Bits(2) /\ 2 \in Bits(WordBits)
      /\ 3 \in 0 .. 3
  BY SmallBits
<1>6. ASSUME n + k < 4 PROVE WordOf(p) = WordOf(a)
  <2>1. \A b \in Bits(WordBits) : b >= 2 => (b \in p <=> b \in a)
    BY <1>3, <1>5, <1>6, SumBeyond DEF At
  <2> HIDE DEF p
  <2> QED BY <2>1, <1>4, WordsByBits
<1>7. ASSUME n + k >= 4 PROVE WordOf(p) = WordOf(e)
  <2>1. n > 0
    BY <1>3, <1>7
  <2>2. \A b \in Bits(WordBits) : b >= 2 => (b \in p <=> b \in e)
    BY <2>1, <1>3, <1>5, <1>7, SumBeyond DEF At
  <2> HIDE DEF p, e
  <2> QED BY <2>2, <1>4, WordsByBits
<1>8. ASSUME n > 0 PROVE WordOf(e) # WordOf(a)
  <2>1. ~(2 \in e <=> 2 \in a)
    BY <1>3, <1>5, <1>8, SumBeyond DEF At
  <2>2. 2 \in Bits(WordBits) /\ 2 >= 2
    BY <1>5
  <2> HIDE DEF e
  <2>3. WordOf(e) = WordOf(a) => (2 \in e <=> 2 \in a)
    BY <2>2, <1>4, WordsByBits
  <2> QED BY <2>1, <2>3
<1> HIDE DEF n
<1>9. /\ n + k < 4 => (n + k) % 4 = n + k
      /\ n + k >= 4 => (n + k) % 4 = n + k - 4
  BY <1>3
<1> QED BY <1>3, <1>6, <1>7, <1>8, <1>9 DEF n

(* The positions, in bits, of the bytes at and after byte n of a word or a
   doubleword: T bytes. *)
LEMMA Places ==
  ASSUME NEW T \in {4, 8}, NEW n \in 0 .. T - 1, NEW k \in 0 .. T - 1
  PROVE  LET M == T * ByteBits
             N == n * ByteBits
             K == k * ByteBits
         IN /\ M \in Nat /\ N \in Nat /\ K \in Nat /\ (n = 0 => N = 0)
            /\ N <= M - ByteBits /\ K <= M - ByteBits
            /\ ByteBits * (T - 1 - k) = M - ByteBits - K
            /\ (T - n) * ByteBits = M - N /\ (T - 1 - n) * ByteBits = M - ByteBits - N
            /\ n + k < T => /\ N + K <= M - ByteBits
                            /\ ByteBits * (T - 1 - (n + k)) = M - ByteBits - N - K
            /\ n + k >= T => /\ N + K >= M
                             /\ ByteBits * (T - 1 - (n + k - T)) = 2 * M - ByteBits - N - K
<1> DEFINE M == T * ByteBits
           N == n * ByteBits
           K == k * ByteBits
<1>1. ASSUME NEW j \in 0 .. T - 1
      PROVE  /\ j * ByteBits \in Nat /\ j * ByteBits <= M - ByteBits
             /\ ByteBits * (T - 1 - j) = M - ByteBits - j * ByteBits
             /\ (T - j) * ByteBits = M - j * ByteBits
             /\ (T - 1 - j) * ByteBits = M - ByteBits - j * ByteBits
  <2>1. j \in {0, 1, 2, 3, 4, 5, 6, 7}
    OBVIOUS
  <2>2. j * ByteBits \in Nat /\ j * ByteBits <= M - ByteBits
    BY <2>1, Widths
  <2> QED BY <2>2, Widths
<1>2. M \in Nat /\ (n = 0 => N = 0)
  BY Widths
<1>3. ASSUME n + k < T
      PROVE  N + K <= M - ByteBits /\ ByteBits * (T - 1 - (n + k)) = M - ByteBits - N - K
  <2>1. n + k \in 0 .. T - 1 /\ (n + k) * ByteBits = N + K
    BY <1>3, Widths
  <2> HIDE DEF M
  <2>2. (n + k) * ByteBits <= M - ByteBits
        /\ ByteBits * (T - 1 - (n + k)) = M - ByteBits - (n + k) * ByteBits
    BY <2>1, <1>1
  <2> QED BY <2>1, <2>2, <1>1, <1>2, Widths
<1>4. ASSUME n + k >= T
      PROVE  N + K >= M /\ ByteBits * (T - 1 - (n + k - T)) = 2 * M - ByteBits - N - K
  <2>1. n + k - T \in 0 .. T - 1 /\ (n + k - T) * ByteBits = N + K - M
    BY <1>4, Widths
  <2> HIDE DEF M
  <2>2. (n + k - T) * ByteBits \in Nat
        /\ ByteBits * (T - 1 - (n + k - T)) = M - ByteBits - (n + k - T) * ByteBits
    BY <2>1, <1>1
  <2> QED BY <2>1, <2>2, <1>1, <1>2, Widths
<1> QED BY <1>1, <1>2, <1>3, <1>4

(* Byte k of T bytes, in bits. *)
BytePlace(T, k) == ByteBits * (T - 1 - k)

(* A pattern x of T bytes that holds those of u from byte n on, and then the
   first of z. *)
Spans(x, u, z, T, n) ==
  \A c \in Bits(T * ByteBits) :
    c \in x <=> IF c < n * ByteBits THEN c + T * ByteBits - n * ByteBits \in z
                                    ELSE c - n * ByteBits \in u

LEMMA LoadedPlaces ==
  ASSUME NEW T \in {4, 8}, NEW n \in 0 .. T - 1, NEW k \in 0 .. T - 1,
         NEW b \in Bits(ByteBits), NEW x, NEW u, NEW z, Spans(x, u, z, T, n)
  PROVE  b + BytePlace(T, k) \in x <=> IF n + k < T THEN b + BytePlace(T, n + k) \in u
                                                    ELSE b + BytePlace(T, n + k - T) \in z
<1> DEFINE M == T * ByteBits
           N == n * ByteBits
           K == k * ByteBits
           c == b + BytePlace(T, k)
           d == b + BytePlace(T, n + k)
           f == b + BytePlace(T, n + k - T)
<1>1. /\ M \in Nat /\ N \in Nat /\ K \in Nat
      /\ N <= M - ByteBits /\ K <= M - ByteBits /\ c = b + (M - ByteBits - K)
      /\ n + k < T => N + K <= M - ByteBits /\ d = b + (M - ByteBits - N - K)
      /\ n + k >= T => N + K >= M /\ f = b + (2 * M - ByteBits - N - K)
  BY Places DEF BytePlace
<1>2. \A j \in Bits(M) : j \in x <=> IF j < N THEN j + M - N \in z ELSE j - N \in u
  BY DEF Spans
<1>3. b \in 0 .. ByteBits - 1
  BY DEF Bits
<1> HIDE DEF M, N, K, c, d, f
<1>4. c \in Bits(M)
  BY <1>1, <1>3, Widths DEF Bits
<1>5. ASSUME n + k < T PROVE ~(c < N) /\ c - N = d
  BY <1>1, <1>3, <1>5, Widths
<1>6. ASSUME n + k >= T PROVE c < N /\ c + M - N = f
  BY <1>1, <1>3, <1>6, Widths
<1>7. c \in x <=> IF n + k < T THEN d \in u ELSE f \in z
  BY <1>2, <1>4, <1>5, <1>6
<1> QED BY <1>7 DEF c, d, f

(* T bytes of x in the last bytes of u, from byte n on, and the first of z. *)
Spread(x, u, z, T, n) ==
  /\ \A c \in Bits(T * ByteBits) :
       c < T * ByteBits - n * ByteBits => (c \in u <=> c + n * ByteBits \in x)
  /\ n > 0 => \A c \in Bits(T * ByteBits) :
                c >= T * ByteBits - n * ByteBits =>
                  (c \in z <=> c - (T * ByteBits - n * ByteBits) \in x)

LEMMA StoredPlaces ==
  ASSUME NEW T \in {4, 8}, NEW n \in 0 .. T - 1, NEW k \in 0 .. T - 1,
         NEW b \in Bits(ByteBits), NEW x, NEW u, NEW z, Spread(x, u, z, T, n)
  PROVE  b + BytePlace(T, k) \in x <=> IF n + k < T THEN b + BytePlace(T, n + k) \in u
                                                    ELSE b + BytePlace(T, n + k - T) \in z
<1> DEFINE M == T * ByteBits
           N == n * ByteBits
           K == k * ByteBits
           c == b + BytePlace(T, k)
           d == b + BytePlace(T, n + k)
           f == b + BytePlace(T, n + k - T)
<1>1. /\ M \in Nat /\ N \in Nat /\ K \in Nat
      /\ N <= M - ByteBits /\ K <= M - ByteBits /\ c = b + (M - ByteBits - K)
      /\ n + k < T => N + K <= M - ByteBits /\ d = b + (M - ByteBits - N - K)
      /\ n + k >= T => N + K >= M /\ f = b + (2 * M - ByteBits - N - K)
  BY Places DEF BytePlace
<1>2. /\ \A j \in Bits(M) : j < M - N => (j \in u <=> j + N \in x)
      /\ n > 0 => \A j \in Bits(M) : j >= M - N => (j \in z <=> j - (M - N) \in x)
  BY DEF Spread
<1>3. b \in 0 .. ByteBits - 1
  BY DEF Bits
<1> HIDE DEF M, N, K, c, d, f
<1>4. ASSUME n + k < T PROVE d \in Bits(M) /\ d < M - N /\ d + N = c
  BY <1>1, <1>3, <1>4, Widths DEF Bits
<1>5. ASSUME n + k >= T PROVE f \in Bits(M) /\ f >= M - N /\ f - (M - N) = c /\ n > 0
  BY <1>1, <1>3, <1>5, Widths DEF Bits
<1>6. c \in x <=> IF n + k < T THEN d \in u ELSE f \in z
  BY <1>2, <1>4, <1>5
<1> QED BY <1>6 DEF c, d, f

(* A byte of memory, and a byte of a register. *)
LEMMA ByteAtBits ==
  ASSUME NEW m, NEW p, NEW b \in Bits(ByteBits)
  PROVE  b \in ByteAt(m, p) <=> b + BytePlace(4, Offset(p, 4)) \in m[WordOf(p)]
<1>1. 4 - 1 = 3
  OBVIOUS
<1>2. b \in ByteAt(m, p) <=> b + ByteBits * (3 - Offset(p, 4)) \in m[WordOf(p)]
  BY Widths DEF ByteAt, Shamt, Low, ShiftRight, Bits
<1> QED BY <1>1, <1>2 DEF BytePlace

LEMMA RegisterByteBits ==
  ASSUME NEW x, NEW n, NEW k \in 0 .. n - 1, NEW b \in Bits(ByteBits)
  PROVE  b \in WordBytes(x, n)[k] <=> b + BytePlace(n, k) \in x
  BY Widths DEF WordBytes, Low, ShiftRight, Bits, BytePlace

LEMMA EqualBytes ==
  ASSUME NEW x, NEW m, NEW a, NEW n,
         \A k \in 0 .. n - 1, b \in Bits(ByteBits) :
           b \in WordBytes(x, n)[k] <=> b \in ByteAt(m, At(a, k))
  PROVE  WordBytes(x, n) = BytesOf(m, a, n)
<1>1. \A k \in 0 .. n - 1 : WordBytes(x, n)[k] \subseteq Bits(ByteBits)
                            /\ ByteAt(m, At(a, k)) \subseteq Bits(ByteBits)
  BY DEF WordBytes, ByteAt, Low
<1>2. \A k \in 0 .. n - 1 : WordBytes(x, n)[k] = ByteAt(m, At(a, k))
  BY <1>1
<1> QED BY <1>2 DEF WordBytes, BytesOf

(* The four bytes at an address, from byte n of its word on, and at the start of
   the word after it. *)
LEMMA WordBytesAt ==
  ASSUME NEW a \in Word, NEW k \in 0 .. 3, NEW b \in Bits(ByteBits), NEW m
  PROVE  LET n == Offset(a, 4)
         IN b \in ByteAt(m, At(a, k)) <=>
              IF n + k < 4 THEN b + BytePlace(4, n + k) \in m[WordOf(a)]
                           ELSE b + BytePlace(4, n + k - 4) \in m[WordOf(At(a, 3))]
<1> DEFINE n == Offset(a, 4)
           p == At(a, k)
           e == At(a, 3)
<1>1. b \in ByteAt(m, p) <=> b + BytePlace(4, Offset(p, 4)) \in m[WordOf(p)]
  BY ByteAtBits
<1>2. /\ n + k < 4 => WordOf(p) = WordOf(a) /\ Offset(p, 4) = n + k
      /\ n + k >= 4 => WordOf(p) = WordOf(e) /\ Offset(p, 4) = n + k - 4
  BY WordAt
<1>3. n \in 0 .. 3
  BY OffsetInWord4
<1>4. n + k >= 4 <=> ~(n + k < 4)
  BY <1>3
<1> HIDE DEF n, p, e
<1>5. b \in ByteAt(m, p) <=> IF n + k < 4 THEN b + BytePlace(4, n + k) \in m[WordOf(a)]
                                          ELSE b + BytePlace(4, n + k - 4) \in m[WordOf(e)]
  BY <1>1, <1>2, <1>4
<1> QED BY <1>5 DEF n, p, e

LEMMA WordMoved ==
  ASSUME NEW x, NEW m, NEW a \in Word,
         \/ Spans(x, m[WordOf(a)], m[WordOf(At(a, 3))], 4, Offset(a, 4))
         \/ Spread(x, m[WordOf(a)], m[WordOf(At(a, 3))], 4, Offset(a, 4))
  PROVE  WordBytes(x, 4) = BytesOf(m, a, 4)
<1> DEFINE n == Offset(a, 4)
           u == m[WordOf(a)]
           z == m[WordOf(At(a, 3))]
<1>1. ASSUME NEW k \in 0 .. 4 - 1, NEW b \in Bits(ByteBits)
      PROVE  b \in WordBytes(x, 4)[k] <=> b \in ByteAt(m, At(a, k))
  <2>1. k \in 0 .. 3 /\ 4 \in {4, 8} /\ n \in 0 .. 4 - 1
    BY OffsetInWord4
  <2>2. b \in ByteAt(m, At(a, k)) <=> IF n + k < 4 THEN b + BytePlace(4, n + k) \in u
                                                   ELSE b + BytePlace(4, n + k - 4) \in z
    BY <2>1, WordBytesAt
  <2>3. b \in WordBytes(x, 4)[k] <=> b + BytePlace(4, k) \in x
    BY RegisterByteBits
  <2>4. Spans(x, u, z, 4, n) \/ Spread(x, u, z, 4, n)
    OBVIOUS
  <2> HIDE DEF n, u, z
  <2>5. b + BytePlace(4, k) \in x <=> IF n + k < 4 THEN b + BytePlace(4, n + k) \in u
                                                   ELSE b + BytePlace(4, n + k - 4) \in z
    BY <2>1, <2>4, LoadedPlaces, StoredPlaces
  <2> QED BY <2>2, <2>3, <2>5
<1> QED BY <1>1, EqualBytes

(* op_lwl and then op_lwr load the word at an address, whatever the register
   held; op_swl and then op_swr store it. *)
LEMMA LoadPair ==
  ASSUME NEW a \in Word, NEW u \in Word, NEW m \in [MemoryWords -> Word],
         InMemory(a), InMemory(At(a, 3))
  PROVE  WordBytes(LoadRight(At(a, 3), LoadLeft(a, u, m), m), 4) = BytesOf(m, a, 4)
<1> DEFINE e == At(a, 3)
           n == Offset(a, 4)
           N == n * ByteBits
           x == LoadLeft(a, u, m)
           y == LoadRight(e, x, m)
<1>1. n \in 0 .. 3 /\ N \in Nat /\ N <= 3 * ByteBits /\ (n = 0 => N = 0)
  BY OffsetInWord4, Products, Widths
<1>2. /\ n = 0 => WordOf(e) = WordOf(a) /\ Offset(e, 4) = 3
      /\ n > 0 => Offset(e, 4) = n - 1
  <2>1. /\ n + 3 < 4 => WordOf(e) = WordOf(a) /\ Offset(e, 4) = n + 3
        /\ n + 3 >= 4 => Offset(e, 4) = n + 3 - 4
    BY WordAt
  <2> HIDE DEF n, e
  <2> QED BY <1>1, <2>1
<1>3. \A p : InMemory(p) => ReadVirtWord(Base(p), m) = m[WordOf(p)]
  <2> SUFFICES ASSUME NEW p, InMemory(p) PROVE ReadVirtWord(Base(p), m) = m[WordOf(p)]
    OBVIOUS
  <2>1. WordOf(Base(p)) = WordOf(p)
    BY AlignedPlace
  <2> QED BY <2>1, ExecuteAssumption DEF ReadVirtWord, InMemory, IsDevice
<1>4. m[WordOf(a)] \subseteq Bits(WordBits) /\ m[WordOf(e)] \subseteq Bits(WordBits)
  BY DEF InMemory, Word
<1>5. x = ShiftLeft(m[WordOf(a)], N, WordBits) \cup Low(u, N)
  BY <1>3 DEF LoadLeft
<1>6. y = ShiftRight(m[WordOf(e)], (3 - Offset(e, 4)) * ByteBits)
            \cup (x \ Bits((4 - (3 - Offset(e, 4))) * ByteBits))
  BY <1>3 DEF LoadRight
<1> HIDE DEF x, y, n, e
<1>7. ASSUME NEW c \in Bits(WordBits)
      PROVE  c \in y <=> IF c < N THEN c + WordBits - N \in m[WordOf(e)]
                                  ELSE c - N \in m[WordOf(a)]
  <2> HIDE DEF N
  <2>1. c \in x <=> c - N \in m[WordOf(a)] \/ (c \in u /\ c < N)
    BY <1>1, <1>5 DEF ShiftLeft, Low, Bits
  <2>2. c - N \in m[WordOf(a)] => c >= N
    BY <1>1, <1>4 DEF Bits
  <2>3. CASE n = 0
    <3>1. (3 - Offset(e, 4)) * ByteBits = 0 /\ (4 - (3 - Offset(e, 4))) * ByteBits = WordBits
      BY <1>2, <2>3, Widths
    <3>2. c \in y <=> c \in m[WordOf(a)]
      <4>1. c + 0 = c /\ c \in Bits(DwordBits)
        BY Widths DEF Bits
      <4> QED BY <1>2, <1>6, <2>3, <3>1, <4>1 DEF ShiftRight
    <3>3. N = 0 /\ c - 0 = c /\ ~(c < 0)
      BY <1>1, <2>3 DEF Bits
    <3> QED BY <3>2, <3>3
  <2>4. CASE n > 0
    <3>1. (3 - Offset(e, 4)) * ByteBits = WordBits - N /\ (4 - (3 - Offset(e, 4))) * ByteBits = N
      <4>1. 3 - Offset(e, 4) = 4 - n /\ 4 - (4 - n) = n
        BY <1>1, <1>2, <2>4
      <4>2. (4 - n) * ByteBits = WordBits - N
        BY <1>1, Products DEF N
      <4> QED BY <4>1, <4>2 DEF N
    <3>2. c \in y <=> c + (WordBits - N) \in m[WordOf(e)] \/ (c \in x /\ c >= N)
      BY <1>1, <1>6, <3>1, Widths DEF ShiftRight, Bits
    <3>3. /\ c + (WordBits - N) = c + WordBits - N
          /\ c + (WordBits - N) \in m[WordOf(e)] => c < N
      BY <1>1, <1>4, Widths DEF Bits
    <3>4. ~(c < N) <=> c >= N
      BY <1>1 DEF Bits
    <3> QED BY <2>1, <2>2, <3>2, <3>3, <3>4
  <2> QED BY <1>1, <2>3, <2>4
<1>8. WordBytes(y, 4) = BytesOf(m, a, 4)
  <2>1. 4 * ByteBits = WordBits
    BY Widths
  <2>2. Spans(y, m[WordOf(a)], m[WordOf(e)], 4, n)
    BY <1>7, <2>1 DEF Spans
  <2> QED BY <2>2, WordMoved DEF n, e
<1> QED BY <1>8 DEF x, y, e

LEMMA StorePair ==
  ASSUME NEW a \in Word, NEW u \in Word, NEW m \in [MemoryWords -> Word],
         InMemory(a), InMemory(At(a, 3))
  PROVE  /\ StoreLeft(a, u, m) \in [MemoryWords -> Word]
         /\ BytesOf(StoreRight(At(a, 3), u, StoreLeft(a, u, m)), a, 4) = WordBytes(u, 4)
<1> DEFINE e == At(a, 3)
           n == Offset(a, 4)
           N == n * ByteBits
           w == WordOf(a)
           z == WordOf(e)
           s == StoreLeft(a, u, m)
           t == StoreRight(e, u, s)
           left == (m[w] \ Bits((4 - n) * ByteBits)) \cup ShiftRight(u, N)
           right == ShiftLeft(u, (3 - Offset(e, 4)) * ByteBits, WordBits)
                      \cup Low(s[z], (3 - Offset(e, 4)) * ByteBits)
<1>1. /\ n \in 0 .. 3 /\ N \in Nat /\ N <= 3 * ByteBits /\ (n = 0 => N = 0)
      /\ (4 - n) * ByteBits = WordBits - N
  BY OffsetInWord4, Products, Widths
<1>2. /\ n = 0 => z = w /\ Offset(e, 4) = 3
      /\ n > 0 => z # w /\ Offset(e, 4) = n - 1
  <2>1. /\ n + 3 < 4 => z = w /\ Offset(e, 4) = n + 3
        /\ n + 3 >= 4 => Offset(e, 4) = n + 3 - 4
        /\ n > 0 => z # w
    BY WordAt
  <2> HIDE DEF n, e, z, w
  <2> QED BY <1>1, <2>1
<1>3. w \in MemoryWords /\ z \in MemoryWords /\ m[w] \in Word /\ u \subseteq Bits(WordBits)
  BY DEF InMemory, Word
<1>4. \A p, v, f : InMemory(p) => WriteVirtWord(Base(p), v, f) = [f EXCEPT ![WordOf(p)] = v]
  <2> SUFFICES ASSUME NEW p, NEW v, NEW f, InMemory(p)
               PROVE  WriteVirtWord(Base(p), v, f) = [f EXCEPT ![WordOf(p)] = v]
    OBVIOUS
  <2>1. WordOf(Base(p)) = WordOf(p)
    BY AlignedPlace
  <2> QED BY <2>1, ExecuteAssumption DEF WriteVirtWord, InMemory, IsDevice
<1>5. s = [m EXCEPT ![w] = left]
  BY <1>4 DEF StoreLeft
<1>6. t = [s EXCEPT ![z] = right]
  BY <1>4 DEF StoreRight
<1>7. left \in Word
  BY <1>1, <1>3, Widths DEF Word, ShiftRight, Bits
<1> HIDE DEF left
<1>8. s \in [MemoryWords -> Word]
  BY <1>5, <1>7
<1>9. s[w] = left /\ s[z] \subseteq Bits(WordBits)
  BY <1>3, <1>5, <1>8 DEF Word
<1>10. t[z] = right /\ (z # w => t[w] = left)
  BY <1>3, <1>6, <1>8, <1>9
<1>11. \A c \in Bits(WordBits) : c \in left <=> (c \in m[w] /\ c >= WordBits - N) \/ c + N \in u
  BY <1>1, Widths DEF left, ShiftRight, Bits
<1> HIDE DEF n, e, w, z, s, t
<1>12. ASSUME NEW c \in Bits(WordBits), c < WordBits - N PROVE c \in t[w] <=> c + N \in u
  <2> HIDE DEF N
  <2>1. CASE n = 0
    <3>1. (3 - Offset(e, 4)) * ByteBits = 0
      BY <1>2, <2>1, Widths
    <3>2. c - 0 = c /\ c + 0 = c /\ N = 0 /\ Low(s[z], 0) = {}
      BY <1>1, <2>1 DEF Bits, Low
    <3>3. c \in right <=> c \in u
      BY <3>1, <3>2 DEF right, ShiftLeft
    <3> QED BY <1>2, <1>10, <2>1, <3>2, <3>3
  <2>2. CASE n > 0
    <3>1. ~(c >= WordBits - N)
      BY <1>1, <1>12, Widths DEF Bits
    <3> QED BY <1>2, <1>10, <1>11, <2>2, <3>1
  <2> QED BY <1>1, <2>1, <2>2
<1>13. ASSUME n > 0, NEW c \in Bits(WordBits), c >= WordBits - N
       PROVE  c \in t[z] <=> c - (WordBits - N) \in u
  <2>1. (3 - Offset(e, 4)) * ByteBits = WordBits - N
    <3>1. 3 - Offset(e, 4) = 4 - n
      BY <1>1, <1>2, <1>13
    <3> QED BY <1>1, <3>1
  <2> HIDE DEF N
  <2>2. c \notin Bits(WordBits - N)
    BY <1>1, <1>13, Widths DEF Bits
  <2> QED BY <1>10, <2>1, <2>2 DEF right, ShiftLeft, Low
<1>14. WordBytes(u, 4) = BytesOf(t, a, 4)
  <2>1. 4 * ByteBits = WordBits
    BY Widths
  <2>2. Spread(u, t[w], t[z], 4, n)
    BY <1>12, <1>13, <2>1 DEF Spread
  <2> QED BY <2>2, WordMoved DEF n, e, w, z
<1> QED BY <1>8, <1>14 DEF s, t, e

(* The instructions of UnalignedWord. *)
LEMMA PartialInstructions ==
  ASSUME NEW a \in Word, NEW v,
         NEW op \in {"lwl", "lwr", "swl", "swr", "ldl", "ldr", "sdl", "sdr"}
  PROVE  LET i == Partial(op)
         IN /\ i.op = op
            /\ Address(i, a) = a /\ VirtualAddress(i, W(a)) = a
            /\ op \in {"lwl", "lwr"} => VrRequest(i, a, v) = LWL_LWR(i, a, v)
            /\ op \in {"swl", "swr"} => VrRequest(i, a, v) = SWL_SWR(i, a, v)
            /\ op \in {"ldl", "ldr"} => VrRequest(i, a, v) = LDL_LDR(i, a, v)
            /\ op \in {"sdl", "sdr"} => VrRequest(i, a, v) = SDL_SDR(i, a, v)
<1> DEFINE i == Partial(op)
<1>1. /\ i.op = op /\ i.rs = 0 /\ i.rt = 0 /\ i.rd = 0 /\ i.imm = {} /\ i.sa = 0
  BY DEF Partial
<1>2. Address(i, a) = a
  <2>1. Imm(i) = {}
    BY <1>1, Widths DEF Imm, Extend, Low, SignBits
  <2>2. a \in Dword
    BY Widths DEF Word, Dword, Bits
  <2> QED BY <2>1, <2>2, PlusNothing, PlusCommutative DEF Address
<1>3. W(a) = a /\ VirtualAddress(i, W(a)) = a
  BY <1>2, LowOfWord, AddressesAgree
<1> HIDE DEF i
<1>4. /\ op \in {"lwl", "lwr"} => VrRequest(i, a, v) = LWL_LWR(i, a, v)
      /\ op \in {"swl", "swr"} => VrRequest(i, a, v) = SWL_SWR(i, a, v)
      /\ op \in {"ldl", "ldr"} => VrRequest(i, a, v) = LDL_LDR(i, a, v)
      /\ op \in {"sdl", "sdr"} => VrRequest(i, a, v) = SDL_SDR(i, a, v)
  BY <1>1 DEF VrRequest, Is, LoadOps, StoreOps, LinkedOps
<1> QED BY <1>1, <1>2, <1>3, <1>4 DEF i

LEMMA LowBytes ==
  ASSUME NEW x
  PROVE  WordBytes(W(x), 4) = WordBytes(x, 4)
<1>1. ASSUME NEW k \in 0 .. 4 - 1
      PROVE  Low(ShiftRight(W(x), ByteBits * (4 - 1 - k)), ByteBits)
               = Low(ShiftRight(x, ByteBits * (4 - 1 - k)), ByteBits)
  <2> DEFINE S == ByteBits * (4 - 1 - k)
  <2>1. S \in Nat /\ S <= WordBits - ByteBits
    <3>1. k \in 0 .. 3 /\ 4 - 1 = 3
      OBVIOUS
    <3>2. ByteBits * (4 - 1 - k) = 4 * ByteBits - ByteBits - k * ByteBits /\ k * ByteBits \in Nat
          /\ k * ByteBits <= 4 * ByteBits - ByteBits
      BY Places
    <3> QED BY <3>1, <3>2, Widths
  <2> HIDE DEF S
  <2>2. \A b \in Bits(ByteBits) : b + S \in Bits(WordBits)
    BY <2>1, Widths DEF Bits
  <2>3. Low(ShiftRight(W(x), S), ByteBits) = Low(ShiftRight(x, S), ByteBits)
    BY <2>2 DEF W, Low, ShiftRight
  <2> QED BY <2>3 DEF S
<1> QED BY <1>1 DEF WordBytes

(* The pairs of partial loads and of partial stores move the four bytes at any
   address of the memory, on both cores, and leave the register narrow in a
   guest of 32-bit instructions. *)
THEOREM PairsMoveWords == Spec => []UnalignedWord
<1>1. Sound => UnalignedWord
  <2> SUFFICES ASSUME Sound, NEW a \in Word, NEW r \in Reg, InMemory(a), InMemory(At(a, 3))
               PROVE  LET v == vr.regs[r]
                          x == BusRead(LWL_LWR(Partial("lwl"), a, v), vmem)
                          y == BusRead(LWL_LWR(Partial("lwr"), At(a, 3), x), vmem)
                          s == BusWrite(SWL_SWR(Partial("swl"), a, v), vmem)
                          t == BusWrite(SWL_SWR(Partial("swr"), At(a, 3), v), s)
                          cx == LoadRight(At(a, 3), LoadLeft(a, W(v), cmem), cmem)
                          ct == StoreRight(At(a, 3), W(v), StoreLeft(a, W(v), cmem))
                      IN /\ WordBytes(y, 4) = BytesOf(vmem, a, 4)
                         /\ WordBytes(cx, 4) = BytesOf(cmem, a, 4)
                         /\ BytesOf(t, a, 4) = WordBytes(v, 4)
                         /\ BytesOf(ct, a, 4) = WordBytes(v, 4)
                         /\ ~Wide => SignExtended(y)
    BY DEF UnalignedWord
  <2> DEFINE v == vr.regs[r]
             e == At(a, 3)
             x == BusRead(LWL_LWR(Partial("lwl"), a, v), vmem)
             y == BusRead(LWL_LWR(Partial("lwr"), e, x), vmem)
             s == BusWrite(SWL_SWR(Partial("swl"), a, v), vmem)
             t == BusWrite(SWL_SWR(Partial("swr"), e, v), s)
             cx == LoadRight(e, LoadLeft(a, W(v), cmem), cmem)
             ct == StoreRight(e, W(v), StoreLeft(a, W(v), cmem))
  <2>1. /\ v \in Dword /\ (~Wide => SignExtended(v))
        /\ vmem \in [MemoryWords -> Word] /\ cmem \in [MemoryWords -> Word]
    BY HoldsMeans DEF Sound, InterpreterTypes, VrState, Narrow
  <2>2. W(v) \in Word /\ e \in Word /\ e \in Dword /\ a \in Dword
    BY LowIsWord, AtIsWord, Widths DEF Word, Dword, Bits
  <2>3. WordBytes(cx, 4) = BytesOf(cmem, a, 4)
    BY <2>1, <2>2, LoadPair
  <2>4. BytesOf(ct, a, 4) = WordBytes(v, 4)
    BY <2>1, <2>2, StorePair, LowBytes
  <2> HIDE DEF v, e
  <2>5. W(x) = LoadLeft(a, W(v), vmem) /\ x \in Dword /\ (~Wide => SignExtended(x))
    <3> DEFINE i == Partial("lwl")
    <3>1. /\ i.op = "lwl" /\ Address(i, a) = a
          /\ VirtualAddress(i, W(a)) = a /\ VrRequest(i, a, v) = LWL_LWR(i, a, v)
      <4>1. "lwl" \in {"lwl", "lwr", "swl", "swr", "ldl", "ldr", "sdl", "sdr"}
        OBVIOUS
      <4> QED BY <2>2, <4>1, PartialInstructions
    <3> HIDE DEF i
    <3>2. W(BusRead(VrRequest(i, a, v), vmem)) = LoadLeft(a, W(v), vmem)
      BY <2>1, <3>1, PartialLoadsAgree
    <3>3. BusRead(VrRequest(i, a, v), vmem) \in Dword
      BY <2>1, <3>1, LoadIsDword
    <3>4. ~Wide => SignExtended(BusRead(VrRequest(i, a, v), vmem))
      BY <2>1, <2>2, <3>1, LoadIsNarrow
    <3> QED BY <3>1, <3>2, <3>3, <3>4 DEF i
  <2> HIDE DEF x
  <2>6. W(y) = LoadRight(e, W(x), vmem) /\ (~Wide => SignExtended(y))
    <3> DEFINE i == Partial("lwr")
    <3>1. /\ i.op = "lwr" /\ Address(i, e) = e
          /\ VirtualAddress(i, W(e)) = e /\ VrRequest(i, e, x) = LWL_LWR(i, e, x)
      <4>1. "lwr" \in {"lwl", "lwr", "swl", "swr", "ldl", "ldr", "sdl", "sdr"}
        OBVIOUS
      <4> QED BY <2>2, <4>1, PartialInstructions
    <3> HIDE DEF i
    <3>2. W(BusRead(VrRequest(i, e, x), vmem)) = LoadRight(e, W(x), vmem)
      BY <2>1, <2>5, <3>1, PartialLoadsAgree DEF e
    <3>3. ~Wide => SignExtended(BusRead(VrRequest(i, e, x), vmem))
      BY <2>2, <2>5, <3>1, LoadIsNarrow
    <3> QED BY <3>1, <3>2, <3>3 DEF i
  <2>7. WordBytes(y, 4) = BytesOf(vmem, a, 4)
    <3>1. WordBytes(W(y), 4) = BytesOf(vmem, a, 4)
      BY <2>1, <2>2, <2>5, <2>6, LoadPair DEF e
    <3> QED BY <3>1, LowBytes
  <2>8. s = StoreLeft(a, W(v), vmem)
    <3> DEFINE i == Partial("swl")
    <3>1. /\ i.op = "swl" /\ Address(i, a) = a
          /\ VirtualAddress(i, W(a)) = a /\ VrRequest(i, a, v) = SWL_SWR(i, a, v)
      <4>1. "swl" \in {"lwl", "lwr", "swl", "swr", "ldl", "ldr", "sdl", "sdr"}
        OBVIOUS
      <4> QED BY <2>2, <4>1, PartialInstructions
    <3> HIDE DEF i
    <3>2. BusWrite(VrRequest(i, a, v), vmem) = StoreLeft(a, W(v), vmem)
      BY <2>1, <3>1, PartialStoresAgree
    <3> QED BY <3>1, <3>2 DEF i
  <2>9. /\ s \in [MemoryWords -> Word]
        /\ BytesOf(StoreRight(e, W(v), s), a, 4) = WordBytes(v, 4)
    BY <2>1, <2>2, <2>8, StorePair, LowBytes DEF e
  <2> HIDE DEF s
  <2>10. t = StoreRight(e, W(v), s)
    <3> DEFINE i == Partial("swr")
    <3>1. /\ i.op = "swr" /\ Address(i, e) = e
          /\ VirtualAddress(i, W(e)) = e /\ VrRequest(i, e, v) = SWL_SWR(i, e, v)
      <4>1. "swr" \in {"lwl", "lwr", "swl", "swr", "ldl", "ldr", "sdl", "sdr"}
        OBVIOUS
      <4> QED BY <2>2, <4>1, PartialInstructions
    <3> HIDE DEF i
    <3>2. BusWrite(VrRequest(i, e, v), s) = StoreRight(e, W(v), s)
      BY <2>1, <2>9, <3>1, PartialStoresAgree DEF e
    <3> QED BY <3>1, <3>2 DEF i
  <2> QED BY <2>3, <2>4, <2>6, <2>7, <2>9, <2>10 DEF v, e, x, s
<1> QED BY <1>1, InitSound, NextSound, PTL DEF Spec

(* The doubleword of an address. *)
Home(x) == WordOf(Aligned(x, 8))

LEMMA HomesByBits ==
  ASSUME NEW x \in Word, NEW y \in Word
  PROVE  Home(x) = Home(y) <=> \A b \in Bits(WordBits) : b >= 3 => (b \in x <=> b \in y)
<1>1. Aligned(x, 8) = x \ (0 .. 2) /\ Aligned(y, 8) = y \ (0 .. 2)
  BY DEF Aligned
<1>2. Aligned(x, 8) \in Word /\ Aligned(y, 8) \in Word
  BY <1>1 DEF Word
<1>3. Home(x) = Home(y) <=>
        \A b \in Bits(WordBits) : b >= 2 => (b \in Aligned(x, 8) <=> b \in Aligned(y, 8))
  BY <1>2, WordsByBits DEF Home
<1>4. \A b \in Bits(WordBits) : b >= 2 => (b \notin 0 .. 2 <=> b >= 3)
  BY DEF Bits
<1>5. \A b \in Bits(WordBits) : b >= 3 => b >= 2
  BY DEF Bits
<1> QED BY <1>1, <1>3, <1>4, <1>5

LEMMA DoubleAt ==
  ASSUME NEW a \in Word, NEW k \in 0 .. 7
  PROVE  LET p == At(a, k)
             e == At(a, 7)
             n == Offset(a, 8)
         IN /\ n \in 0 .. 7
            /\ n + k < 8 => Home(p) = Home(a) /\ Offset(p, 8) = n + k
            /\ n + k >= 8 => Home(p) = Home(e) /\ Offset(p, 8) = n + k - 8
            /\ n > 0 => Home(e) # Home(a)
<1> DEFINE p == At(a, k)
           e == At(a, 7)
           n == Offset(a, 8)
<1>1. n \in 0 .. 7
  BY DEF Offset
<1>2. /\ Offset(p, 8) = (n + k) % 8
      /\ Carry(a, Small(k), 3) <=> n + k >= 8
      /\ Carry(a, Small(7), 3) <=> n + 7 >= 8
  BY SmallSum
<1>3. p \in Word /\ e \in Word
  BY AtIsWord
<1>4. /\ Small(k) \in SUBSET Bits(3) /\ Small(7) \in SUBSET Bits(3) /\ 3 \in Bits(WordBits)
      /\ 7 \in 0 .. 7
  BY SmallBits
<1> HIDE DEF n
<1>5. ASSUME n + k < 8 PROVE Home(p) = Home(a)
  <2>1. ~(n + k >= 8)
    BY <1>1, <1>5
  <2>2. \A b \in Bits(WordBits) : b >= 3 => (b \in p <=> b \in a)
    BY <1>2, <1>4, <2>1, SumBeyond DEF At
  <2> HIDE DEF p
  <2> QED BY <2>2, <1>3, HomesByBits
<1>6. ASSUME n + k >= 8 PROVE Home(p) = Home(e)
  <2>1. n + 7 >= 8
    BY <1>1, <1>6
  <2>2. \A b \in Bits(WordBits) : b >= 3 => (b \in p <=> b \in e)
    BY <2>1, <1>2, <1>4, <1>6, SumBeyond DEF At
  <2> HIDE DEF p, e
  <2> QED BY <2>2, <1>3, HomesByBits
<1>7. ASSUME n > 0 PROVE Home(e) # Home(a)
  <2>1. n + 7 >= 8
    BY <1>1, <1>7
  <2>2. ~(3 \in e <=> 3 \in a)
    BY <2>1, <1>2, <1>4, SumBeyond DEF At
  <2>3. 3 \in Bits(WordBits) /\ 3 >= 3
    BY <1>4
  <2> HIDE DEF e
  <2>4. Home(e) = Home(a) => (3 \in e <=> 3 \in a)
    BY <2>3, <1>3, HomesByBits
  <2> QED BY <2>2, <2>4
<1>8. /\ n + k < 8 => (n + k) % 8 = n + k
      /\ n + k >= 8 => (n + k) % 8 = n + k - 8
  BY <1>1
<1> QED BY <1>1, <1>2, <1>5, <1>6, <1>7, <1>8 DEF n

(* The eight bytes at an address, in the doublewords of the first and of the last. *)
LEMMA PairByte ==
  ASSUME NEW m \in [MemoryWords -> Word], NEW p, InMemory(p), NEW b \in Bits(ByteBits)
  PROVE  b \in ByteAt(m, p) <=> b + BytePlace(8, Offset(p, 8)) \in Pair(m, Home(p))
<1> DEFINE o == Offset(p, 4)
           h == Home(p)
           c == b + BytePlace(4, o)
<1>1. /\ h \in MemoryWords /\ Second(h) \in MemoryWords
      /\ 2 \in p => WordOf(p) = Second(h) /\ Offset(p, 8) = o + 4
      /\ 2 \notin p => WordOf(p) = h /\ Offset(p, 8) = o
  BY Doublewords DEF Home
<1>2. b \in ByteAt(m, p) <=> c \in m[WordOf(p)]
  BY ByteAtBits
<1>3. /\ BytePlace(4, o) = 3 * ByteBits - o * ByteBits
      /\ BytePlace(8, o) = 7 * ByteBits - o * ByteBits
      /\ BytePlace(8, o + 4) = 3 * ByteBits - o * ByteBits
  BY OffsetInWord4, Widths DEF BytePlace
<1>4. o * ByteBits \in Nat /\ o * ByteBits <= 3 * ByteBits
  BY OffsetInWord4, Products
<1> HIDE DEF o, h
<1> DEFINE f == c + WordBits
<1>5. /\ c \in Bits(DwordBits) /\ c < WordBits
      /\ f \in Bits(DwordBits) /\ f >= WordBits /\ f - WordBits = c
  BY <1>3, <1>4, Widths DEF Bits
<1>6. b + BytePlace(8, o) = f /\ b + BytePlace(8, o + 4) = c
  BY <1>3, <1>4, Widths DEF Bits
<1> HIDE DEF c, f
<1>7. c \in Pair(m, h) <=> c \in m[Second(h)]
  BY <1>1, <1>5, PairBits
<1>8. f \in Pair(m, h) <=> c \in m[h]
  BY <1>1, <1>5, PairBits
<1> QED BY <1>1, <1>2, <1>6, <1>7, <1>8 DEF o, h

LEMMA DoubleBytesAt ==
  ASSUME NEW m \in [MemoryWords -> Word], NEW a \in Word, InMemory(a), InMemory(At(a, 7)),
         NEW k \in 0 .. 7, NEW b \in Bits(ByteBits)
  PROVE  LET n == Offset(a, 8)
         IN b \in ByteAt(m, At(a, k)) <=>
              IF n + k < 8 THEN b + BytePlace(8, n + k) \in Pair(m, Home(a))
                           ELSE b + BytePlace(8, n + k - 8) \in Pair(m, Home(At(a, 7)))
<1> DEFINE n == Offset(a, 8)
           p == At(a, k)
           e == At(a, 7)
<1>1. /\ n \in 0 .. 7
      /\ n + k < 8 => Home(p) = Home(a) /\ Offset(p, 8) = n + k
      /\ n + k >= 8 => Home(p) = Home(e) /\ Offset(p, 8) = n + k - 8
  BY DoubleAt
<1> HIDE DEF n, p, e
<1>2. n + k >= 8 <=> ~(n + k < 8)
  BY <1>1
<1>3. InMemory(p)
  <2>1. Home(a) \in MemoryWords /\ Home(e) \in MemoryWords
    BY Doublewords DEF Home, e
  <2>2. Home(p) \in MemoryWords
    BY <1>1, <1>2, <2>1
  <2> QED BY <2>2, Doublewords DEF Home
<1>4. b \in ByteAt(m, p) <=> b + BytePlace(8, Offset(p, 8)) \in Pair(m, Home(p))
  BY <1>3, PairByte
<1>5. b \in ByteAt(m, p) <=> IF n + k < 8 THEN b + BytePlace(8, n + k) \in Pair(m, Home(a))
                                          ELSE b + BytePlace(8, n + k - 8) \in Pair(m, Home(e))
  BY <1>1, <1>2, <1>4
<1> QED BY <1>5 DEF n, p, e

LEMMA DoubleMoved ==
  ASSUME NEW x, NEW m \in [MemoryWords -> Word], NEW a \in Word, InMemory(a), InMemory(At(a, 7)),
         \/ Spans(x, Pair(m, Home(a)), Pair(m, Home(At(a, 7))), 8, Offset(a, 8))
         \/ Spread(x, Pair(m, Home(a)), Pair(m, Home(At(a, 7))), 8, Offset(a, 8))
  PROVE  WordBytes(x, 8) = BytesOf(m, a, 8)
<1> DEFINE n == Offset(a, 8)
           u == Pair(m, Home(a))
           z == Pair(m, Home(At(a, 7)))
<1>1. ASSUME NEW k \in 0 .. 8 - 1, NEW b \in Bits(ByteBits)
      PROVE  b \in WordBytes(x, 8)[k] <=> b \in ByteAt(m, At(a, k))
  <2>1. k \in 0 .. 7 /\ 8 \in {4, 8} /\ n \in 0 .. 8 - 1
    BY DEF Offset
  <2>2. b \in ByteAt(m, At(a, k)) <=> IF n + k < 8 THEN b + BytePlace(8, n + k) \in u
                                                   ELSE b + BytePlace(8, n + k - 8) \in z
    BY <2>1, DoubleBytesAt
  <2>3. b \in WordBytes(x, 8)[k] <=> b + BytePlace(8, k) \in x
    BY RegisterByteBits
  <2>4. Spans(x, u, z, 8, n) \/ Spread(x, u, z, 8, n)
    OBVIOUS
  <2> HIDE DEF n, u, z
  <2>5. b + BytePlace(8, k) \in x <=> IF n + k < 8 THEN b + BytePlace(8, n + k) \in u
                                                   ELSE b + BytePlace(8, n + k - 8) \in z
    BY <2>1, <2>4, LoadedPlaces, StoredPlaces
  <2> QED BY <2>2, <2>3, <2>5
<1> QED BY <1>1, EqualBytes

(* The 64-bit partial loads and stores, by bits: bytes from o on of the
   doubleword go to the top of the register, bytes up to o to its bottom. *)
LEMMA AlignedDouble ==
  ASSUME NEW x
  PROVE  /\ Home(Aligned(x, 4)) = Home(x) /\ Home(Aligned(x, 8)) = Home(x)
         /\ Offset(Aligned(x, 8), 8) = 0
<1>1. Aligned(Aligned(x, 4), 8) = Aligned(x, 8) /\ Aligned(Aligned(x, 8), 8) = Aligned(x, 8)
  <2>1. 0 .. 1 \subseteq 0 .. 2
    OBVIOUS
  <2> QED BY <2>1 DEF Aligned
<1>2. 0 \notin Aligned(x, 8) /\ 1 \notin Aligned(x, 8) /\ 2 \notin Aligned(x, 8)
  BY DEF Aligned
<1> QED BY <1>1, <1>2 DEF Home, Offset

LEMMA OffsetInDouble ==
  ASSUME NEW x
  PROVE  LET o == Offset(x, 8)
         IN /\ o \in 0 .. 7
            /\ o * ByteBits \in Nat /\ (o = 0 => o * ByteBits = 0)
            /\ o * ByteBits <= DwordBits - ByteBits
            /\ (o + 1) * ByteBits = o * ByteBits + ByteBits
            /\ (8 - (o + 1)) * ByteBits = DwordBits - ByteBits - o * ByteBits
            /\ (7 - o) * ByteBits = DwordBits - ByteBits - o * ByteBits
<1> DEFINE o == Offset(x, 8)
<1>1. o \in 0 .. 7
  BY DEF Offset
<1> HIDE DEF o
<1>2. o \in {0, 1, 2, 3, 4, 5, 6, 7}
  BY <1>1
<1>3. /\ o * ByteBits \in Nat /\ (o = 0 => o * ByteBits = 0)
      /\ o * ByteBits <= DwordBits - ByteBits
      /\ (o + 1) * ByteBits = o * ByteBits + ByteBits
      /\ (8 - (o + 1)) * ByteBits = DwordBits - ByteBits - o * ByteBits
      /\ (7 - o) * ByteBits = DwordBits - ByteBits - o * ByteBits
  BY <1>2, Widths
<1> QED BY <1>1, <1>3 DEF o

LEMMA PairIsDword ==
  ASSUME NEW m \in [MemoryWords -> Word], NEW p, InMemory(p)
  PROVE  Pair(m, Home(p)) \subseteq Bits(DwordBits)
<1>1. Home(p) \in MemoryWords /\ Second(Home(p)) \in MemoryWords
  BY Doublewords DEF Home
<1>2. m[Second(Home(p))] \subseteq Bits(WordBits)
  BY <1>1 DEF Word
<1>3. Bits(WordBits) \subseteq Bits(DwordBits)
  BY Widths DEF Bits
<1> QED BY <1>2, <1>3 DEF Pair, ShiftLeft

LEMMA DoubleLoadBits ==
  ASSUME NEW p \in Word, NEW v, NEW m \in [MemoryWords -> Word], InMemory(p),
         NEW c \in Bits(DwordBits)
  PROVE  LET N == Offset(p, 8) * ByteBits
             u == Pair(m, Home(p))
         IN /\ c \in BusRead(LDL_LDR(Partial("ldl"), p, v), m) <=>
                 IF c < N THEN c \in v ELSE c - N \in u
            /\ c \in BusRead(LDL_LDR(Partial("ldr"), p, v), m) <=>
                 IF c < N + ByteBits THEN c + (DwordBits - ByteBits - N) \in u ELSE c \in v
<1> DEFINE o == Offset(p, 8)
           N == o * ByteBits
           u == Pair(m, Home(p))
<1>1. /\ o \in 0 .. 7 /\ N \in Nat /\ N <= DwordBits - ByteBits
      /\ (o + 1) * ByteBits = N + ByteBits
      /\ (8 - (o + 1)) * ByteBits = DwordBits - ByteBits - N
  BY OffsetInDouble
<1>2. u \subseteq Bits(DwordBits)
  BY PairIsDword
<1>3. c \in Nat /\ c < DwordBits /\ Ones(8) = Bits(DwordBits)
  BY Widths DEF Bits, Ones
<1>4. c \in BusRead(LDL_LDR(Partial("ldl"), p, v), m) <=> IF c < N THEN c \in v ELSE c - N \in u
  <2> DEFINE i == Partial("ldl")
             q == LDL_LDR(i, p, v)
             left == Up(Ones(8), o)
  <2>1. i.op = "ldl" /\ Address(i, p) = p
    <3>1. "ldl" \in {"lwl", "lwr", "swl", "swr", "ldl", "ldr", "sdl", "sdr"}
      OBVIOUS
    <3> QED BY <3>1, PartialInstructions
  <2> HIDE DEF i
  <2>2. /\ q.vaddr = p /\ q.data = left /\ q.size = 8 /\ q.wide = TRUE /\ q.result = v \ left
    BY <2>1 DEF LDL_LDR, Read
  <2> HIDE DEF q
  <2>3. BusRead(q, m) = (v \ left) \cup (ShiftRightSigned(Up(u, o), (8 - 8) * ByteBits, DwordBits)
                                           \cap left)
    BY <2>2 DEF BusRead, Home
  <2>4. (8 - 8) * ByteBits = 0
    BY Widths
  <2>5. c \in left <=> c >= N
    BY <1>1, <1>3, Widths DEF Up, ShiftLeft, Bits
  <2>6. c \in ShiftRightSigned(Up(u, o), 0, DwordBits) <=> c - N \in u
    <3>1. c + 0 = c
      BY <1>3
    <3> HIDE DEF N, u
    <3> QED BY <1>3, <3>1 DEF ShiftRightSigned, Up, ShiftLeft, N
  <2>7. c >= N <=> ~(c < N)
    BY <1>1, <1>3
  <2> HIDE DEF left, N, u, o
  <2>8. c \in BusRead(q, m) <=> IF c < N THEN c \in v ELSE c - N \in u
    BY <2>3, <2>4, <2>5, <2>6, <2>7
  <2> QED BY <2>8 DEF q, i
<1>5. c \in BusRead(LDL_LDR(Partial("ldr"), p, v), m) <=>
        IF c < N + ByteBits THEN c + (DwordBits - ByteBits - N) \in u ELSE c \in v
  <2> DEFINE i == Partial("ldr")
             q == LDL_LDR(i, p, v)
             right == Ones(o + 1)
             K == DwordBits - ByteBits - N
  <2>1. i.op = "ldr" /\ Address(i, p) = p
    <3>1. "ldr" \in {"lwl", "lwr", "swl", "swr", "ldl", "ldr", "sdl", "sdr"}
      OBVIOUS
    <3> QED BY <3>1, PartialInstructions
  <2> HIDE DEF i
  <2>2. /\ q.vaddr = Aligned(p, 8) /\ q.data = right /\ q.size = o + 1 /\ q.wide = TRUE
        /\ q.result = v \ right
    BY <2>1 DEF LDL_LDR, Read
  <2> HIDE DEF q
  <2>3. Home(q.vaddr) = Home(p) /\ Offset(q.vaddr, 8) = 0
    BY <2>2, AlignedDouble
  <2>4. BusRead(q, m) = (v \ right) \cup (ShiftRightSigned(Up(u, 0), K, DwordBits) \cap right)
    BY <1>1, <2>2, <2>3 DEF BusRead, Home
  <2>5. c \in right <=> c < N + ByteBits
    BY <1>1, <1>3, Widths DEF Ones, Bits
  <2>6. Up(u, 0) = u
    <3>1. 0 * ByteBits = 0 /\ \A d \in Bits(DwordBits) : d - 0 = d
      BY Widths DEF Bits
    <3> HIDE DEF u
    <3> QED BY <1>2, <3>1 DEF Up, ShiftLeft
  <2>7. c < N + ByteBits => c + K < DwordBits
    BY <1>1, <1>3, Widths
  <2> HIDE DEF right, N, u, o, K
  <2>8. c \in BusRead(q, m) <=> IF c < N + ByteBits THEN c + K \in u ELSE c \in v
    BY <1>3, <2>4, <2>5, <2>6, <2>7 DEF ShiftRightSigned
  <2> QED BY <2>8 DEF q, i, K
<1> QED BY <1>4, <1>5

LEMMA PairWritten ==
  ASSUME NEW q, NEW m \in [MemoryWords -> Word], InMemory(q.vaddr), q.wide = TRUE
  PROVE  LET h == Home(q.vaddr)
             t == BusWrite(q, m)
         IN /\ t \in [MemoryWords -> Word]
            /\ \A c \in Bits(DwordBits) :
                 c \in Pair(t, h) <=> IF c \in q.wdqm THEN c \in q.data ELSE c \in Pair(m, h)
            /\ \A x : InMemory(x) /\ Home(x) # h => Pair(t, Home(x)) = Pair(m, Home(x))
<1> DEFINE h == Home(q.vaddr)
           t == BusWrite(q, m)
           high == Masked(m[h], Down(q.data, 4), Down(q.wdqm, 4))
           low == Masked(m[Second(h)], q.data, q.wdqm)
<1>1. h \in MemoryWords /\ Second(h) \in MemoryWords /\ h # Second(h) /\ 0 \notin h
  BY Doublewords DEF Home
<1>2. t = [m EXCEPT ![h] = high, ![Second(h)] = low]
  BY <1>1 DEF BusWrite, Home
<1> HIDE DEF h, t
<1>3. m[h] \in Word /\ m[Second(h)] \in Word
  BY <1>1
<1>4. high \in Word /\ low \in Word
  BY DEF Masked, Low, Word
<1>5. \A b \in Bits(WordBits) :
        /\ b \in low <=> IF b \in q.wdqm THEN b \in q.data ELSE b \in m[Second(h)]
        /\ b \in high <=> IF b \in Down(q.wdqm, 4) THEN b \in Down(q.data, 4) ELSE b \in m[h]
  BY <1>3, MaskedBits
<1> HIDE DEF high, low
<1>6. t \in [MemoryWords -> Word] /\ t[h] = high /\ t[Second(h)] = low
  BY <1>1, <1>2, <1>4
<1>7. ASSUME NEW c \in Bits(DwordBits)
      PROVE  c \in Pair(t, h) <=> IF c \in q.wdqm THEN c \in q.data ELSE c \in Pair(m, h)
  <2>1. CASE c < WordBits
    <3>1. c \in Bits(WordBits)
      BY <2>1, Widths DEF Bits
    <3>2. (c \in Pair(t, h) <=> c \in t[Second(h)]) /\ (c \in Pair(m, h) <=> c \in m[Second(h)])
      BY <1>1, <1>6, <2>1, PairBits
    <3> QED BY <1>5, <1>6, <3>1, <3>2
  <2>2. CASE c >= WordBits
    <3> DEFINE d == c - WordBits
    <3>1. d \in Bits(WordBits) /\ d \in Bits(DwordBits) /\ d + 4 * ByteBits = c
      BY <2>2, Widths DEF Bits
    <3>2. (c \in Pair(t, h) <=> d \in t[h]) /\ (c \in Pair(m, h) <=> d \in m[h])
      BY <1>1, <1>6, <2>2, PairBits
    <3> HIDE DEF d
    <3>3. \A s : d \in Down(s, 4) <=> c \in s
      BY <3>1 DEF Down, ShiftRight
    <3> QED BY <1>5, <1>6, <3>1, <3>2, <3>3
  <2> QED BY <2>1, <2>2, Widths DEF Bits
<1>8. ASSUME NEW x, InMemory(x), Home(x) # h PROVE Pair(t, Home(x)) = Pair(m, Home(x))
  <2> DEFINE g == Home(x)
  <2>1. g \in MemoryWords /\ Second(g) \in MemoryWords /\ 0 \notin g
    BY <1>8, Doublewords DEF Home
  <2>2. g # h
    BY <1>8
  <2> HIDE DEF g
  <2>3. g # Second(h) /\ Second(g) # h /\ Second(g) # Second(h)
    BY <1>1, <2>1, <2>2 DEF Second
  <2>4. t[g] = m[g] /\ t[Second(g)] = m[Second(g)]
    BY <1>2, <2>1, <2>2, <2>3
  <2> QED BY <2>4 DEF Pair, g
<1> QED BY <1>6, <1>7, <1>8 DEF h, t

LEMMA DoubleStoreBits ==
  ASSUME NEW p \in Word, NEW v, NEW m \in [MemoryWords -> Word], InMemory(p)
  PROVE  LET N == Offset(p, 8) * ByteBits
             h == Home(p)
             s == BusWrite(SDL_SDR(Partial("sdl"), p, v), m)
             t == BusWrite(SDL_SDR(Partial("sdr"), p, v), m)
         IN /\ s \in [MemoryWords -> Word] /\ t \in [MemoryWords -> Word]
            /\ \A c \in Bits(DwordBits) : c < DwordBits - N => (c \in Pair(s, h) <=> c + N \in v)
            /\ \A c \in Bits(DwordBits) :
                 c >= DwordBits - ByteBits - N =>
                   (c \in Pair(t, h) <=> c - (DwordBits - ByteBits - N) \in v)
            /\ \A x : InMemory(x) /\ Home(x) # h => Pair(t, Home(x)) = Pair(m, Home(x))
<1> DEFINE o == Offset(p, 8)
           N == o * ByteBits
           K == DwordBits - ByteBits - N
           h == Home(p)
<1>1. /\ o \in 0 .. 7 /\ N \in Nat /\ N <= DwordBits - ByteBits /\ (7 - o) * ByteBits = K
  BY OffsetInDouble
<1>2. Ones(8) = Bits(DwordBits) /\ InMemory(Aligned(p, 4)) /\ Home(Aligned(p, 4)) = h
  BY Widths, AlignedPlace, AlignedDouble DEF Ones, InMemory
<1>3. LET s == BusWrite(SDL_SDR(Partial("sdl"), p, v), m)
      IN /\ s \in [MemoryWords -> Word]
         /\ \A c \in Bits(DwordBits) : c < DwordBits - N => (c \in Pair(s, h) <=> c + N \in v)
  <2> DEFINE i == Partial("sdl")
             q == SDL_SDR(i, p, v)
  <2>1. i.op = "sdl" /\ Address(i, p) = p
    <3>1. "sdl" \in {"lwl", "lwr", "swl", "swr", "ldl", "ldr", "sdl", "sdr"}
      OBVIOUS
    <3> QED BY <3>1, PartialInstructions
  <2> HIDE DEF i
  <2>2. /\ q.vaddr = Aligned(p, 4) /\ q.data = Down(v, o) /\ q.wdqm = Down(Ones(8), o)
        /\ q.wide = TRUE
    BY <2>1 DEF SDL_SDR, Write
  <2> HIDE DEF q, h, o
  <2>3. /\ BusWrite(q, m) \in [MemoryWords -> Word]
        /\ \A c \in Bits(DwordBits) :
             c \in Pair(BusWrite(q, m), h) <=> IF c \in q.wdqm THEN c \in q.data ELSE c \in Pair(m, h)
    BY <1>2, <2>2, PairWritten
  <2>4. ASSUME NEW c \in Bits(DwordBits), c < DwordBits - N
        PROVE  c \in q.wdqm /\ (c \in q.data <=> c + N \in v)
    <3>1. c + N \in Bits(DwordBits)
      BY <1>1, <2>4, Widths DEF Bits
    <3> QED BY <1>2, <2>2, <3>1 DEF Down, ShiftRight
  <2> HIDE DEF N
  <2> QED BY <2>3, <2>4 DEF q, i
<1>4. LET t == BusWrite(SDL_SDR(Partial("sdr"), p, v), m)
      IN /\ t \in [MemoryWords -> Word]
         /\ \A c \in Bits(DwordBits) : c >= K => (c \in Pair(t, h) <=> c - K \in v)
         /\ \A x : InMemory(x) /\ Home(x) # h => Pair(t, Home(x)) = Pair(m, Home(x))
  <2> DEFINE i == Partial("sdr")
             q == SDL_SDR(i, p, v)
  <2>1. i.op = "sdr" /\ Address(i, p) = p
    <3>1. "sdr" \in {"lwl", "lwr", "swl", "swr", "ldl", "ldr", "sdl", "sdr"}
      OBVIOUS
    <3> QED BY <3>1, PartialInstructions
  <2> HIDE DEF i
  <2>2. /\ q.vaddr = Aligned(p, 4) /\ q.data = Up(v, 7 - o) /\ q.wdqm = Up(Ones(8), 7 - o)
        /\ q.wide = TRUE
    BY <2>1 DEF SDL_SDR, Write
  <2> HIDE DEF q, h, o
  <2>3. /\ BusWrite(q, m) \in [MemoryWords -> Word]
        /\ \A c \in Bits(DwordBits) :
             c \in Pair(BusWrite(q, m), h) <=> IF c \in q.wdqm THEN c \in q.data ELSE c \in Pair(m, h)
        /\ \A x : InMemory(x) /\ Home(x) # h => Pair(BusWrite(q, m), Home(x)) = Pair(m, Home(x))
    <3>1. InMemory(q.vaddr) /\ q.wide = TRUE /\ Home(q.vaddr) = h
      BY <1>2, <2>2
    <3> QED BY <3>1, PairWritten
  <2>4. K \in Nat
    BY <1>1, Widths
  <2> HIDE DEF K
  <2>5. ASSUME NEW c \in Bits(DwordBits), c >= K
        PROVE  c \in q.wdqm /\ (c \in q.data <=> c - K \in v)
    <3>1. c - K \in Bits(DwordBits)
      BY <2>4, <2>5, Widths DEF Bits
    <3> QED BY <1>1, <1>2, <2>2, <3>1 DEF Up, ShiftLeft
  <2> QED BY <2>3, <2>5 DEF q, i
<1> QED BY <1>3, <1>4

LEMMA LoadDoublePair ==
  ASSUME NEW a \in Word, NEW v, NEW m \in [MemoryWords -> Word], InMemory(a), InMemory(At(a, 7))
  PROVE  LET x == BusRead(LDL_LDR(Partial("ldl"), a, v), m)
         IN WordBytes(BusRead(LDL_LDR(Partial("ldr"), At(a, 7), x), m), 8) = BytesOf(m, a, 8)
<1> DEFINE e == At(a, 7)
           n == Offset(a, 8)
           o == Offset(e, 8)
           N == n * ByteBits
           u == Pair(m, Home(a))
           z == Pair(m, Home(e))
           x == BusRead(LDL_LDR(Partial("ldl"), a, v), m)
           y == BusRead(LDL_LDR(Partial("ldr"), e, x), m)
<1>1. e \in Word /\ 8 * ByteBits = DwordBits
  BY AtIsWord, Widths
<1>2. /\ n \in 0 .. 7 /\ N \in Nat /\ (n = 0 => N = 0) /\ N <= DwordBits - ByteBits
      /\ o * ByteBits \in Nat /\ (o + 1) * ByteBits = o * ByteBits + ByteBits
      /\ o \in 0 .. 7
  BY OffsetInDouble
<1>3. /\ n = 0 => Home(e) = Home(a) /\ o = 7
      /\ n > 0 => o = n - 1
  <2>1. /\ n + 7 < 8 => Home(e) = Home(a) /\ o = n + 7
        /\ n + 7 >= 8 => o = n + 7 - 8
    BY DoubleAt
  <2> HIDE DEF n, e, o
  <2> QED BY <1>2, <2>1
<1>4. /\ \A c \in Bits(DwordBits) : c \in x <=> IF c < N THEN c \in v ELSE c - N \in u
      /\ \A c \in Bits(DwordBits) :
           c \in y <=> IF c < o * ByteBits + ByteBits
                       THEN c + (DwordBits - ByteBits - o * ByteBits) \in z ELSE c \in x
  BY <1>1, DoubleLoadBits
<1>5. u \subseteq Bits(DwordBits)
  BY PairIsDword
<1> HIDE DEF e, n, o, u, z, x, y
<1>6. ASSUME NEW c \in Bits(DwordBits)
      PROVE  c \in y <=> IF c < N THEN c + DwordBits - N \in z ELSE c - N \in u
  <2>1. CASE n = 0
    <3>1. o * ByteBits + ByteBits = DwordBits /\ N = 0
      BY <1>2, <1>3, <2>1, Widths
    <3>2. /\ c < DwordBits /\ ~(c < 0) /\ c - 0 = c
          /\ c + (DwordBits - ByteBits - o * ByteBits) = c
      BY <1>2, <3>1, Widths DEF Bits
    <3>3. z = u
      BY <1>3, <2>1 DEF z, u
    <3> QED BY <1>4, <3>1, <3>2, <3>3
  <2>2. CASE n > 0
    <3>1. o * ByteBits + ByteBits = N
      <4>1. o + 1 = n
        BY <1>2, <1>3, <2>2
      <4> QED BY <1>2, <4>1
    <3> HIDE DEF N
    <3>2. c + (DwordBits - ByteBits - o * ByteBits) = c + DwordBits - N
      BY <1>2, <3>1, Widths DEF Bits
    <3> QED BY <1>4, <3>1, <3>2
  <2> QED BY <1>2, <2>1, <2>2
<1>7. Spans(y, u, z, 8, n)
  BY <1>1, <1>6 DEF Spans
<1>8. WordBytes(y, 8) = BytesOf(m, a, 8)
  BY <1>7, DoubleMoved DEF u, z, n, e
<1> QED BY <1>8 DEF x, y, e

LEMMA StoreDoublePair ==
  ASSUME NEW a \in Word, NEW v, NEW m \in [MemoryWords -> Word], InMemory(a), InMemory(At(a, 7))
  PROVE  LET s == BusWrite(SDL_SDR(Partial("sdl"), a, v), m)
             t == BusWrite(SDL_SDR(Partial("sdr"), At(a, 7), v), s)
         IN BytesOf(t, a, 8) = WordBytes(v, 8)
<1> DEFINE e == At(a, 7)
           n == Offset(a, 8)
           o == Offset(e, 8)
           N == n * ByteBits
           O == o * ByteBits
           s == BusWrite(SDL_SDR(Partial("sdl"), a, v), m)
           t == BusWrite(SDL_SDR(Partial("sdr"), e, v), s)
           u == Pair(t, Home(a))
           z == Pair(t, Home(e))
<1>1. e \in Word /\ 8 * ByteBits = DwordBits
  BY AtIsWord, Widths
<1>2. /\ n \in 0 .. 7 /\ N \in Nat /\ (n = 0 => N = 0) /\ N <= DwordBits - ByteBits
      /\ O \in Nat /\ (o + 1) * ByteBits = O + ByteBits /\ o \in 0 .. 7
  BY OffsetInDouble
<1>3. /\ n = 0 => Home(e) = Home(a) /\ o = 7
      /\ n > 0 => o = n - 1 /\ Home(e) # Home(a)
  <2>1. /\ n + 7 < 8 => Home(e) = Home(a) /\ o = n + 7
        /\ n + 7 >= 8 => o = n + 7 - 8
        /\ n > 0 => Home(e) # Home(a)
    BY DoubleAt
  <2> HIDE DEF n, e, o
  <2> QED BY <1>2, <2>1
<1>4. /\ s \in [MemoryWords -> Word]
      /\ \A c \in Bits(DwordBits) : c < DwordBits - N => (c \in Pair(s, Home(a)) <=> c + N \in v)
  BY DoubleStoreBits
<1> HIDE DEF s
<1>5. /\ \A c \in Bits(DwordBits) : c >= DwordBits - ByteBits - O =>
           (c \in z <=> c - (DwordBits - ByteBits - O) \in v)
      /\ Home(a) # Home(e) => u = Pair(s, Home(a))
      /\ t \in [MemoryWords -> Word]
  <2>1. InMemory(e)
    OBVIOUS
  <2> HIDE DEF e
  <2> QED BY <1>1, <1>4, <2>1, DoubleStoreBits
<1> HIDE DEF e, n, o, O, t, u, z
<1>6. ASSUME NEW c \in Bits(DwordBits), c < DwordBits - N PROVE c \in u <=> c + N \in v
  <2>1. CASE n = 0
    <3>1. O + ByteBits = DwordBits /\ N = 0
      BY <1>2, <1>3, <2>1, Widths
    <3>2. DwordBits - ByteBits - O = 0 /\ c >= 0 /\ c - 0 = c /\ c + 0 = c
      BY <1>2, <3>1, Widths DEF Bits
    <3>3. z = u
      BY <1>3, <2>1 DEF z, u
    <3> QED BY <1>5, <3>1, <3>2, <3>3
  <2>2. CASE n > 0
    BY <1>3, <1>4, <1>5, <1>6, <2>2
  <2> QED BY <1>2, <2>1, <2>2
<1>7. ASSUME n > 0, NEW c \in Bits(DwordBits), c >= DwordBits - N
      PROVE  c \in z <=> c - (DwordBits - N) \in v
  <2>1. O + ByteBits = N
    <3>1. o + 1 = n
      BY <1>2, <1>3, <1>7
    <3> QED BY <1>2, <3>1
  <2> HIDE DEF N
  <2>2. DwordBits - ByteBits - O = DwordBits - N
    BY <1>2, <2>1, Widths
  <2> QED BY <1>5, <1>7, <2>2
<1>8. Spread(v, u, z, 8, n)
  BY <1>1, <1>6, <1>7 DEF Spread
<1>9. WordBytes(v, 8) = BytesOf(t, a, 8)
  BY <1>5, <1>8, DoubleMoved DEF u, z, n, e
<1> QED BY <1>9 DEF s, t, e

(* The pairs of 64-bit partial loads and of partial stores of the VR4300 move
   the eight bytes at any address of the memory. *)
THEOREM PairsMoveDoublewords == Spec => []UnalignedDouble
<1>1. Holds => UnalignedDouble
  <2> SUFFICES ASSUME Holds, NEW a \in Word, NEW r \in Reg, InMemory(a), InMemory(At(a, 7))
               PROVE  LET v == vr.regs[r]
                          x == BusRead(LDL_LDR(Partial("ldl"), a, v), vmem)
                          y == BusRead(LDL_LDR(Partial("ldr"), At(a, 7), x), vmem)
                          s == BusWrite(SDL_SDR(Partial("sdl"), a, v), vmem)
                          t == BusWrite(SDL_SDR(Partial("sdr"), At(a, 7), v), s)
                      IN WordBytes(y, 8) = BytesOf(vmem, a, 8) /\ BytesOf(t, a, 8) = WordBytes(v, 8)
    BY DEF UnalignedDouble
  <2>1. vmem \in [MemoryWords -> Word]
    BY HoldsMeans
  <2> QED BY <2>1, LoadDoublePair, StoreDoublePair
<1> QED BY <1>1, InitHolds, NextHolds, PTL DEF Spec
=============================================================================
