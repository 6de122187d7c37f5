---------------------------- MODULE CmipsExecute ----------------------------
(***************************************************************************)
(* The instruction functions of the cmips interpreter (src/src/emu.c), on  *)
(* 32-bit words.  An operator stands for the group of op_ functions its    *)
(* comment names; rs and rt are getRs and getRt of instruction i.          *)
(***************************************************************************)
EXTENDS Vr4300Execute

W(x) == Low(x, WordBits)
HalfImm(i) == W(Imm(i))                    \* (int16_t) getImm(op)
Value(x) == Signed(x, WordBits)

---------------------------------------------------------------------------
(* op_sltu ... op_add *)
ThreeRegister(i, rs, rt) ==
  CASE i.op = "sltu" -> Boolean(Less(rs, rt, WordBits))
    [] i.op = "slt" -> Boolean(LessSigned(rs, rt, WordBits))
    [] i.op = "nor" -> Complement(rs \cup rt, WordBits)
    [] i.op = "xor" -> Xor(rs, rt)
    [] i.op = "or" -> rs \cup rt
    [] i.op = "and" -> rs \cap rt
    [] Is(i, {"sub", "subu"}) -> Minus(rs, rt, WordBits)
    [] Is(i, {"add", "addu"}) -> Plus(rs, rt, WordBits)

\* Mutant of Immediate: sltiu compares with the immediate not extended.
ImmediateUnsigned(i, rs) ==
  CASE i.op = "slti" -> Boolean(LessSigned(rs, HalfImm(i), WordBits))
    [] i.op = "sltiu" -> Boolean(Less(rs, i.imm, WordBits))
    [] i.op = "addiu" -> Plus(rs, HalfImm(i), WordBits)
    [] i.op = "xori" -> Xor(rs, i.imm)
    [] i.op = "ori" -> rs \cup i.imm
(* op_slti ... op_ori *)
Immediate(i, rs) ==
  CASE i.op = "slti" -> Boolean(LessSigned(rs, HalfImm(i), WordBits))
    [] i.op = "sltiu" -> Boolean(Less(rs, HalfImm(i), WordBits))
    [] i.op = "addiu" -> Plus(rs, HalfImm(i), WordBits)
    [] i.op = "xori" -> Xor(rs, i.imm)
    [] i.op = "ori" -> rs \cup i.imm

(* op_andi, op_lui, op_addi *)
ImmediateRest(i, rs) ==
  CASE i.op = "andi" -> rs \cap i.imm
    [] i.op = "lui" -> ShiftLeft(i.imm, HalfBits, WordBits)
    [] i.op = "addi" -> Plus(rs, HalfImm(i), WordBits)

(* op_srav ... op_sll *)
Shifted(i, rs, rt) ==
  LET sa == IF Is(i, {"srav", "srlv", "sllv"}) THEN Count(rs) ELSE i.sa
  IN CASE Is(i, {"srav", "sra"}) -> ShiftRightSigned(rt, sa, WordBits)
       [] Is(i, {"srlv", "srl"}) -> ShiftRight(rt, sa)
       [] Is(i, {"sllv", "sll"}) -> ShiftLeft(rt, sa, WordBits)

\* Mutant of Multiply: LO keeps the whole product.
MultiplyWide(i, rs, rt) ==
  LET result == Pattern(Value(rs) * Value(rt), DwordBits)
  IN [lo |-> result, hi |-> ShiftRight(result, WordBits)]
(* op_multu, op_mult *)
Multiply(i, rs, rt) ==
  LET value(x) == IF i.op = "multu" THEN Natural[x] ELSE Value(x)
      result == Pattern(value(rs) * value(rt), DwordBits)
  IN [lo |-> W(result), hi |-> ShiftRight(result, WordBits)]

(* op_divu, op_div *)
Divide(i, rs, rt, c) ==
  LET value(x) == IF i.op = "divu" THEN Natural[x] ELSE Value(x)
  IN IF rt = {} THEN [lo |-> c.lo, hi |-> c.hi]
     ELSE [lo |-> Pattern(Quotient(value(rs), value(rt)), WordBits),
           hi |-> Pattern(Remainder(value(rs), value(rt)), WordBits)]

(* The 32-bit division of op_div overflows, and the host process is killed. *)
HostFaults(i, rs, rt) ==
  /\ i.op = "div"
  /\ rs = {WordBits - 1}
  /\ rt = Bits(WordBits)

(* op_movz, op_movn, op_mul: the new value of rd, from its old one. *)
Conditional(i, rs, rt, rd) ==
  CASE i.op = "movz" -> IF rt = {} THEN rs ELSE rd
    [] i.op = "movn" -> IF rt # {} THEN rs ELSE rd
    [] i.op = "mul" -> Pattern(Value(rs) * Value(rt), WordBits)

---------------------------------------------------------------------------
(* Branches of emu.c: delaypc, or the slot skipped by the likely forms. *)
Condition(i, rs, rt) ==
  CASE Is(i, {"beq", "beql"}) -> rs = rt
    [] Is(i, {"bne", "bnel"}) -> rs # rt
    [] Is(i, {"bgtz", "bgtzl"}) -> WordBits - 1 \notin rs /\ rs # {}
    [] Is(i, {"blez", "blezl"}) -> WordBits - 1 \in rs \/ rs = {}
    [] Is(i, {"bgez", "bgezl", "bgezal"}) -> WordBits - 1 \notin rs
    [] Is(i, {"bltz", "bltzl", "bltzal"}) -> WordBits - 1 \in rs
LikelyBranch == {"beql", "bnel", "bgtzl", "blezl", "bgezl", "bltzl"}

Sext18(x) == W(x \cup (IF HalfBits + 1 \in x THEN Bits(DwordBits) \ Bits(HalfBits + 2)
                                              ELSE {}))
After(n) == Plus(W(Pc), Pattern(n, WordBits), WordBits)
BranchTo(i, rs, rt) ==
  IF Condition(i, rs, rt)
  THEN JumpTo(Plus(After(4), Sext18(ShiftLeft(i.imm, 2, DwordBits)), WordBits))
  ELSE IF Is(i, LikelyBranch) THEN SkipSlot ELSE Sequential

(* op_j, op_jal: the top of the pc kept, the field in the rest. *)
JumpTarget(i) ==
  JumpTo((W(Pc) \ Bits(JumpBits)) \cup Low(ShiftLeft(i.imm, 2, WordBits), JumpBits))

---------------------------------------------------------------------------
(* Memory: virtual addresses of kseg0 and kseg1. *)
VirtualAddress(i, rs) == Plus(rs, HalfImm(i), WordBits)
Base(a) == a \ {0, 1}
Shamt(a) == ByteBits * (3 - Offset(a, 4))
Next1(a) == Plus(a, {0}, WordBits)

ReadVirtByte(a, m, port) ==
  IF IsDevice(a) THEN port[Offset(a, 4)]
                 ELSE Low(ShiftRight(m[WordOf(a)], Shamt(a)), ByteBits)
WriteVirtByte(a, val, m) ==
  [m EXCEPT ![WordOf(a)] = (@ \ ShiftLeft(Ones(1), Shamt(a), WordBits))
                             \cup ShiftLeft(val, Shamt(a), WordBits)]
(* uart_read answers 0 whatever the register, uart_write does nothing. *)
ReadVirtWord(a, m) == IF IsDevice(a) THEN {} ELSE m[WordOf(a)]
WriteVirtWord(a, val, m) == IF IsDevice(a) THEN m ELSE [m EXCEPT ![WordOf(a)] = val]

(* op_lb, op_lbu, op_lh, op_lhu, op_lw: the value loaded. *)
LoadAligned(i, a, m, port) ==
  LET half == ReadVirtByte(Next1(a), m, port)
                \cup ShiftLeft(ReadVirtByte(a, m, port), ByteBits, WordBits)
  IN CASE i.op = "lb" -> W(Extend(ReadVirtByte(a, m, port), ByteBits))
       [] i.op = "lbu" -> ReadVirtByte(a, m, port)
       [] i.op = "lh" -> W(Extend(half, HalfBits))
       [] i.op = "lhu" -> half
       [] i.op = "lw" -> ReadVirtWord(a, m)

(* op_sh stores the high byte, then the low one at the next address. *)
StoreHalf(a, rt, m) ==
  WriteVirtByte(Next1(a), Low(rt, ByteBits),
                WriteVirtByte(a, Low(ShiftRight(rt, ByteBits), ByteBits), m))

(* op_lwl *)
LoadLeft(a, rt, m) ==
  LET n == Offset(a, 4)
  IN ShiftLeft(ReadVirtWord(Base(a), m), n * ByteBits, WordBits) \cup Low(rt, n * ByteBits)
(* op_lwr *)
LoadRight(a, rt, m) ==
  LET n == 3 - Offset(a, 4)
  IN ShiftRight(ReadVirtWord(Base(a), m), n * ByteBits)
       \cup (rt \ Bits((4 - n) * ByteBits))
(* op_swl *)
StoreLeft(a, rt, m) ==
  LET n == Offset(a, 4)
  IN WriteVirtWord(Base(a), (m[WordOf(a)] \ Bits((4 - n) * ByteBits))
                              \cup ShiftRight(rt, n * ByteBits), m)
(* op_swr *)
StoreRight(a, rt, m) ==
  LET n == 3 - Offset(a, 4)
  IN WriteVirtWord(Base(a), ShiftLeft(rt, n * ByteBits, WordBits)
                              \cup Low(m[WordOf(a)], n * ByteBits), m)
=============================================================================
