--------------------------- MODULE Vr4300Execute ---------------------------
(***************************************************************************)
(* The execution functions of the VR4300 (src/vr4300/functions.c) and the  *)
(* two data paths of its memory stage: the access of a resident cache line *)
(* (src/vr4300/pipeline.c) and the access that goes to the bus             *)
(* (src/vr4300/fault.c).  Each operator bears the name of its function and *)
(* takes the instruction i and the operands rs, rt of the EX stage.        *)
(***************************************************************************)
EXTENDS BitWords

CONSTANTS Reg,          \* general registers, 0 among them
          Ra,           \* the link register
          Pc,           \* address of the instruction being executed
          JumpBits,     \* width of the field a jump replaces in the pc
          MemoryWords,  \* addresses of the words of physical memory
          DeviceWord    \* address of the word of the UART's registers

(* A word address is a byte address without its low two bits. *)
WordAddress == SUBSET Bits(WordBits - 2)

ASSUME ExecuteAssumption ==
  /\ 0 \in Reg /\ Ra \in Reg \ {0}
  /\ Pc \in Dword /\ SignExtended(Pc)
  /\ JumpBits \in 0 .. WordBits
  /\ MemoryWords \subseteq WordAddress
  /\ \A w \in MemoryWords : w \cup {0} \in MemoryWords /\ w \ {0} \in MemoryWords
  /\ DeviceWord \in WordAddress \ MemoryWords

(* An instruction: the fields the functions extract from iw. *)
Instruction == [op : STRING, rs : Reg, rt : Reg, rd : Reg,
                imm : Half, sa : Bits(WordBits)]

Imm(i) == Extend(i.imm, HalfBits)
Is(i, ops) == i.op \in ops

---------------------------------------------------------------------------
(* Integer functions: the result latched for the write back. *)

ADD_SUB(i, rs, rt) ==
  Extend(IF i.op = "sub" THEN Minus(rs, rt, DwordBits)
                           ELSE Plus(rs, rt, DwordBits), WordBits)
ADDU_SUBU(i, rs, rt) ==
  Extend(IF i.op = "subu" THEN Minus(rs, rt, DwordBits)
                            ELSE Plus(rs, rt, DwordBits), WordBits)
ADDI_SUBI(i, rs) == Extend(Plus(rs, Imm(i), DwordBits), WordBits)
ADDIU_LUI_SUBIU(i, rs) ==
  LET immshift == IF i.op = "lui" THEN HalfBits ELSE 0
  IN Extend(Plus(rs, ShiftLeft(Imm(i), immshift, DwordBits), DwordBits),
            WordBits)

Bitwise(i, rs, rt) ==
  (IF Is(i, {"and", "or", "andi", "ori"}) THEN rs \cap rt ELSE {})
    \cup (IF Is(i, {"or", "xor", "ori", "xori"}) THEN Xor(rs, rt) ELSE {})
AND_OR_XOR(i, rs, rt) == Bitwise(i, rs, rt)
ANDI_ORI_XORI(i, rs) == Bitwise(i, rs, i.imm)
NOR(rs, rt) == Complement(rs \cup rt, DwordBits)

(* rs & 0x1F *)
Count(rs) == Natural[Low(rs, ShiftBits)]
\* Mutant of SLL_SLLV: the result is not cast to a word.
ShiftWithoutCast(i, rs, rt) == ShiftLeft(rt, Count(rs) + i.sa, DwordBits)
SLL_SLLV(i, rs, rt) ==
  Extend(ShiftLeft(rt, Count(rs) + i.sa, DwordBits), WordBits)
Sra(rt, sa) == Extend(ShiftRightSigned(rt, sa, WordBits), WordBits)
SRA(i, rt) == Sra(rt, i.sa)
SRAV(rs, rt) == Sra(rt, Count(rs))
Srl(rt, sa) == Extend(ShiftRight(Low(rt, WordBits), sa), WordBits)
SRL(i, rt) == Srl(rt, i.sa)
SRLV(rs, rt) == Srl(rt, Count(rs))

SLT(rs, rt) == Boolean(LessSigned(rs, rt, DwordBits))
SLTI(i, rs) == SLT(rs, Imm(i))
SLTU(rs, rt) == Boolean(Less(rs, rt, DwordBits))
SLTIU(i, rs) == SLTU(rs, Imm(i))

(* The 64-bit forms. *)
DADD_DSUB(i, rs, rt) ==
  IF Is(i, {"dsub", "dsubu"}) THEN Minus(rs, rt, DwordBits)
                              ELSE Plus(rs, rt, DwordBits)
DADDI_DSUBI(i, rs) == Plus(rs, Imm(i), DwordBits)
DoubleShift(i, rs) ==
  IF Is(i, {"dsllv", "dsrlv", "dsrav"}) THEN Natural[Low(rs, ShiftBits + 1)]
  ELSE i.sa + (IF Is(i, {"dsll32", "dsrl32", "dsra32"}) THEN WordBits ELSE 0)
DSLL(i, rs, rt) == ShiftLeft(rt, DoubleShift(i, rs), DwordBits)
DSRA(i, rs, rt) == ShiftRightSigned(rt, DoubleShift(i, rs), DwordBits)
DSRL(i, rs, rt) == ShiftRight(rt, DoubleShift(i, rs))

---------------------------------------------------------------------------
(* Functions of HI and LO: the pair they leave there. *)

MULT_MULTU(i, rs, rt) ==
  LET value(x) == IF i.op = "multu" THEN Natural[Low(x, WordBits)]
                                      ELSE Signed(x, WordBits)
      result == Pattern(value(rs) * value(rt), DwordBits)
  IN [lo |-> Extend(result, WordBits),
      hi |-> Extend(ShiftRight(result, WordBits), WordBits)]

DIV_DIVU(i, rs, rt, c) ==
  LET value(x) == IF i.op = "divu" THEN Natural[Low(x, WordBits)]
                                     ELSE Signed(x, WordBits)
      truncated(v) == Extend(Pattern(v, WordBits), WordBits)
  IN IF Low(rt, WordBits) = {} THEN [lo |-> c.lo, hi |-> c.hi]
     ELSE [lo |-> truncated(Quotient(value(rs), value(rt))),
           hi |-> truncated(Remainder(value(rs), value(rt)))]

DMULT_DMULTU(i, rs, rt) ==
  LET value(x) == IF i.op = "dmultu" THEN Natural[x]
                                       ELSE Signed(x, DwordBits)
      result == Pattern(value(rs) * value(rt), 2 * DwordBits)
  IN [lo |-> Low(result, DwordBits),
      hi |-> {b \in Bits(DwordBits) : b + DwordBits \in result}]

(* The host divides 64-bit integers: it faults on the quotient that has no
   64-bit representation (DivisionFaults). *)
DDIV_DDIVU(i, rs, rt, c) ==
  LET value(x) == IF i.op = "ddivu" THEN Natural[x]
                                      ELSE Signed(x, DwordBits)
  IN IF rt = {} THEN [lo |-> c.lo, hi |-> c.hi]
     ELSE [lo |-> Pattern(Quotient(value(rs), value(rt)), DwordBits),
           hi |-> Pattern(Remainder(value(rs), value(rt)), DwordBits)]
DivisionFaults(i, rs, rt) ==
  /\ i.op = "ddiv"
  /\ rs = {DwordBits - 1}
  /\ rt = Bits(DwordBits)

---------------------------------------------------------------------------
(* Branches and jumps: where the fetch goes after the delay slot. *)

Sequential == [kind |-> "next", pc |-> {}]
SkipSlot == [kind |-> "skip", pc |-> {}]
JumpTo(pc) == [kind |-> "jump", pc |-> pc]
Link == Plus(Pc, Pattern(8, DwordBits), DwordBits)

Branch(i, taken, likely) ==
  IF taken
  THEN JumpTo(Plus(Pc, Plus(ShiftLeft(Imm(i), 2, DwordBits),
                            Pattern(4, DwordBits), DwordBits), DwordBits))
  ELSE IF likely THEN SkipSlot ELSE Sequential

Negative(x) == DwordBits - 1 \in x
BEQ_BEQL_BNE_BNEL(i, rs, rt) ==
  Branch(i, (rs = rt) <=> ~Is(i, {"bne", "bnel"}), Is(i, {"beql", "bnel"}))
BGEZ_BGEZL_BLTZ_BLTZL(i, rs) ==
  Branch(i, Negative(rs) <=> ~Is(i, {"bgez", "bgezl"}), Is(i, {"bgezl", "bltzl"}))
BGEZAL_BGEZALL_BLTZAL_BLTZALL(i, rs) ==
  Branch(i, Negative(rs) <=> ~Is(i, {"bgezal", "bgezall"}),
         Is(i, {"bgezall", "bltzall"}))
BGTZ_BGTZL_BLEZ_BLEZL(i, rs) ==
  Branch(i, (Negative(rs) \/ rs = {}) <=> ~Is(i, {"bgtz", "bgtzl"}),
         Is(i, {"bgtzl", "blezl"}))
J_JAL(i) ==
  JumpTo((Pc \ Bits(JumpBits)) \cup Low(ShiftLeft(i.imm, 2, DwordBits), JumpBits))
JALR_JR(rs) == JumpTo(rs)

---------------------------------------------------------------------------
(* Memory functions: the bus request latched for the memory stage.  data is
   the mask of a read and the value of a write, result what the read data
   is merged into. *)

Address(i, rs) == Plus(rs, Imm(i), DwordBits)
\* address & (n - 1) and address & ~(n - 1), for n among 1, 2, 4 and 8.
Offset(x, n) == ((IF 2 \in x THEN 4 ELSE 0) + (IF 1 \in x THEN 2 ELSE 0)
                   + (IF 0 \in x THEN 1 ELSE 0)) % n
Aligned(x, n) == x \ (IF n = 8 THEN 0 .. 2 ELSE 0 .. 1)
Ones(n) == Bits(n * ByteBits)
Up(x, n) == ShiftLeft(x, n * ByteBits, DwordBits)
Down(x, n) == ShiftRight(x, n * ByteBits)

Read(vaddr, mask, size, wide, result) ==
  [write |-> FALSE, vaddr |-> vaddr, data |-> mask, wdqm |-> {},
   size |-> size, wide |-> wide, result |-> result]
Write(vaddr, data, dqm, size, wide) ==
  [write |-> TRUE, vaddr |-> vaddr, data |-> data, wdqm |-> dqm,
   size |-> size, wide |-> wide, result |-> {}]

RequestSize(i) ==
  IF Is(i, {"lb", "lbu", "sb"}) THEN 1
  ELSE IF Is(i, {"lh", "lhu", "sh"}) THEN 2 ELSE 4

LOAD_STORE(i, rs, rt) ==
  LET address == Address(i, rs)
      size == RequestSize(i)
  IN IF Is(i, {"sb", "sh", "sw"})
     THEN Write(Aligned(address, 4),
                Down(Up(rt, 4 - size), Offset(address, 4)),
                Down(Low(Up(Ones(4), 4 - size), WordBits), Offset(address, 4)),
                size, FALSE)
     ELSE Read(address,
               IF Is(i, {"lbu", "lhu", "lwu"}) THEN Ones(size) ELSE Ones(8),
               size, FALSE, {})

LL_SC(i, rs) ==
  IF i.op = "sc" THEN Write(Address(i, rs), Ones(8), Ones(4), 4, FALSE)
                 ELSE Read(Address(i, rs), {}, 4, FALSE, {})

\* Mutant of LWL_LWR: the byte lanes kept by lwr are those of lwl.
MergeLeftOnly(i, rs, rt) ==
  LET address == Address(i, rs)
      offset == Offset(address, 4)
      left == Up(Ones(8), offset)
  IN IF i.op = "lwr"
     THEN Read(Aligned(address, 4), Ones(offset + 1), offset + 1, FALSE, rt \ left)
     ELSE Read(address, left, 4, FALSE, rt \ left)
LWL_LWR(i, rs, rt) ==
  LET address == Address(i, rs)
      offset == Offset(address, 4)
      left == Up(Ones(8), offset)
      right == IF offset = 3 THEN Ones(8) ELSE Ones(offset + 1)
  IN IF i.op = "lwr"
     THEN Read(Aligned(address, 4), right, offset + 1, FALSE, rt \ right)
     ELSE Read(address, left, 4, FALSE, rt \ left)

LDL_LDR(i, rs, rt) ==
  LET address == Address(i, rs)
      offset == Offset(address, 8)
      left == Up(Ones(8), offset)
      right == Ones(offset + 1)
  IN IF i.op = "ldr"
     THEN Read(Aligned(address, 8), right, offset + 1, TRUE, rt \ right)
     ELSE Read(address, left, 8, TRUE, rt \ left)

LD_SD(i, rs, rt) ==
  IF i.op = "sd" THEN Write(Address(i, rs), rt, Ones(8), 8, TRUE)
                 ELSE Read(Address(i, rs), Ones(8), 8, TRUE, {})

SWL_SWR(i, rs, rt) ==
  LET address == Address(i, rs)
      offset == Offset(address, 4)
  IN IF i.op = "swr"
     THEN Write(Aligned(address, 4), Up(rt, 3 - offset),
                Low(Up(Ones(4), 3 - offset), WordBits), 4, FALSE)
     ELSE Write(Aligned(address, 4), Down(rt, offset),
                Down(Ones(4), offset), 4, FALSE)

\* Mutant of SDL_SDR: the offset is taken within a word.
OffsetInWord(i, rs, rt) ==
  LET address == Address(i, rs)
      offset == Offset(address, 4)
  IN IF i.op = "sdr"
     THEN Write(Aligned(address, 4), Up(rt, 7 - offset),
                Up(Ones(8), 7 - offset), 8, TRUE)
     ELSE Write(Aligned(address, 4), Down(rt, offset),
                Down(Ones(8), offset), 8, TRUE)
SDL_SDR(i, rs, rt) ==
  LET address == Address(i, rs)
      offset == Offset(address, 8)
  IN IF i.op = "sdr"
     THEN Write(Aligned(address, 4), Up(rt, 7 - offset),
                Up(Ones(8), 7 - offset), 8, TRUE)
     ELSE Write(Aligned(address, 4), Down(rt, offset),
                Down(Ones(8), offset), 8, TRUE)

---------------------------------------------------------------------------
(* The data paths.  Memory m is a function of word addresses; kseg0 and kseg1
   map the low bits of an address to physical memory.  The words of a doubleword
   have addresses that differ in bit 0. *)

WordOf(vaddr) == ShiftRight(Low(vaddr, WordBits), 2)
IsDevice(vaddr) == WordOf(vaddr) = DeviceWord
InMemory(vaddr) == WordOf(vaddr) \in MemoryWords
Second(w) == w \cup {0}
Pair(m, w) == ShiftLeft(m[w], WordBits, DwordBits) \cup m[Second(w)]
Masked(word, data, dqm) == Low((word \ dqm) \cup (data \cap dqm), WordBits)

(* VR4300_DCM without a cache: the bus reads and writes whole words. *)
BusRead(q, m) ==
  LET hiword == IF q.wide THEN WordOf(Aligned(q.vaddr, 8)) ELSE WordOf(q.vaddr)
      sdata == IF q.wide
               THEN Up(Pair(m, hiword), Offset(q.vaddr, 8))
               ELSE Up(m[hiword], Offset(q.vaddr, 4) + 4)
  IN q.result \cup (ShiftRightSigned(sdata, (8 - q.size) * ByteBits, DwordBits)
                      \cap q.data)
BusWrite(q, m) ==
  IF q.wide
  THEN LET w == WordOf(Aligned(q.vaddr, 8))
       IN [m EXCEPT ![w] = Masked(@, Down(q.data, 4), Down(q.wdqm, 4)),
                    ![Second(w)] = Masked(@, q.data, q.wdqm)]
  ELSE [m EXCEPT ![WordOf(q.vaddr)] = Masked(@, q.data, q.wdqm)]

(* The UART replaces the result with the register it reads, and takes the top
   byte of the word it is written. *)
DeviceRead(q, port) == port[Offset(q.vaddr, 4)]
DeviceWrite(q, port) ==
  [port EXCEPT ![Offset(q.vaddr, 4)] = Low(Down(q.data, 3), ByteBits)]

(* vr4300_dc_stage on a resident line: the doubleword that holds the address,
   shifted by the byte in it. *)
LineRead(q, m) ==
  q.result \cup
    (ShiftRightSigned(Up(Pair(m, WordOf(Aligned(q.vaddr, 8))), Offset(q.vaddr, 8)),
                      (8 - q.size) * ByteBits, DwordBits) \cap q.data)
\* Mutant of LineWrite: the word is not moved to its half of the doubleword.
LineWriteLowWord(q, m) ==
  LET w == WordOf(Aligned(q.vaddr, 8))
      dword == (Pair(m, w) \ q.wdqm) \cup (q.data \cap q.wdqm)
  IN [m EXCEPT ![w] = ShiftRight(dword, WordBits), ![Second(w)] = Low(dword, WordBits)]
LineWrite(q, m) ==
  LET w == WordOf(Aligned(q.vaddr, 8))
      shiftamt == IF ~q.wide /\ Offset(q.vaddr, 8) < 4 THEN WordBits ELSE 0
      wdqm == ShiftLeft(q.wdqm, shiftamt, DwordBits)
      dword == (Pair(m, w) \ wdqm)
                 \cup (ShiftLeft(q.data, shiftamt, DwordBits) \cap wdqm)
  IN [m EXCEPT ![w] = ShiftRight(dword, WordBits), ![Second(w)] = Low(dword, WordBits)]
=============================================================================
