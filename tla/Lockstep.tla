------------------------------ MODULE Lockstep ------------------------------
(***************************************************************************)
(* The co-simulation of runCen64 (src/src/main.c), the check of one core   *)
(* against the other that its loop makes when the code under its #if 0 is  *)
(* enabled: the cmips interpreter and the VR4300 execute the same          *)
(* instruction, each on its registers and its copy of the memory, and the  *)
(* run aborts at the first register, pc or memory word on which they       *)
(* disagree.  A guest is a set of instructions executed in any order:      *)
(* addresses are those of kseg0 and kseg1, aligned as the instruction      *)
(* requires, and inside the memory or the UART (on others one core aborts  *)
(* or exits).  The UART keeps what it is sent.  The interpreter has no     *)
(* 64-bit instructions: a guest that uses them runs on the VR4300 alone.   *)
(***************************************************************************)
EXTENDS CmipsExecute

CONSTANTS Programs, InitialMemory

\* The link of a call is a 32-bit address: the call is not at the end of the
\* lower half of the address space, where the 64-bit adder leaves it.
ASSUME LockstepAssumption ==
  /\ Programs \subseteq SUBSET Instruction
  /\ InitialMemory \in [MemoryWords -> Word]
  /\ SignExtended(Link)

\* The fields that an instruction has no use for are zero: VR4300_SLL_SLLV and
\* VR4300_ADDIU_LUI_SUBIU add them to those that it has.
ASSUME EncodingAssumption ==
  \A p \in Programs : \A i \in p :
    /\ i.op \in {"lui", "sll"} => i.rs = 0
    /\ i.op = "sllv" => i.sa = 0

VARIABLES program,        \* the instructions of the guest
          vr, vmem, vport,  \* the VR4300, its memory, its UART registers
          cm, cmem, cport,  \* the interpreter, its memory, its UART registers
          alive           \* the host process is still there

vars == <<program, vr, vmem, vport, cm, cmem, cport, alive>>

---------------------------------------------------------------------------
(* The instructions, by the kind of their execution function. *)
ThreeRegisterOps == {"add", "addu", "sub", "subu", "and", "or", "xor", "nor",
                     "slt", "sltu"}
ShiftOps == {"sll", "sllv", "sra", "srav", "srl", "srlv"}
ImmediateOps == {"addi", "addiu", "lui", "andi", "ori", "xori", "slti", "sltiu"}
ConditionalOps == {"movz", "movn", "mul"}
MultiplyOps == {"mult", "multu", "div", "divu"}
MoveHiLoOps == {"mfhi", "mflo", "mthi", "mtlo"}
LinkBranchOps == {"bgezal", "bltzal"}
BranchOps == LikelyBranch \cup LinkBranchOps
               \cup {"beq", "bne", "bgtz", "blez", "bgez", "bltz"}
JumpOps == {"j", "jal", "jr", "jalr"}
LoadOps == {"lb", "lbu", "lh", "lhu", "lw"}
StoreOps == {"sb", "sh", "sw"}
UnalignedOps == {"lwl", "lwr", "swl", "swr"}
LinkedOps == {"ll", "sc"}
DoubleOps == {"dadd", "daddu", "dsub", "dsubu", "daddi", "daddiu", "dsll", "dsll32",
              "dsllv", "dsra", "dsra32", "dsrav", "dsrl", "dsrl32", "dsrlv"}
DoubleMultiplyOps == {"dmult", "dmultu", "ddiv", "ddivu"}
DoubleLoadOps == {"lwu", "ld", "ldl", "ldr"}
DoubleStoreOps == {"sd", "sdl", "sdr"}
DoubleMemoryOps == DoubleLoadOps \cup DoubleStoreOps
WideOps == DoubleOps \cup DoubleMultiplyOps \cup DoubleMemoryOps

Wide == \E i \in program : i.op \in WideOps
DestinationIsRt == ImmediateOps \cup {"daddi", "daddiu"}
Dest(i) == IF i.op \in DestinationIsRt THEN i.rt ELSE i.rd

(* The decoder's tables, as far as the integer functions go. *)
VrResult(i, rs, rt) ==
  CASE Is(i, {"add", "sub"}) -> ADD_SUB(i, rs, rt)
    [] Is(i, {"addu", "subu"}) -> ADDU_SUBU(i, rs, rt)
    [] Is(i, {"and", "or", "xor"}) -> AND_OR_XOR(i, rs, rt)
    [] i.op = "nor" -> NOR(rs, rt)
    [] i.op = "slt" -> SLT(rs, rt)
    [] i.op = "sltu" -> SLTU(rs, rt)
    [] Is(i, {"sll", "sllv"}) -> SLL_SLLV(i, rs, rt)
    [] i.op = "sra" -> SRA(i, rt)
    [] i.op = "srav" -> SRAV(rs, rt)
    [] i.op = "srl" -> SRL(i, rt)
    [] i.op = "srlv" -> SRLV(rs, rt)
    [] i.op = "addi" -> ADDI_SUBI(i, rs)
    [] Is(i, {"addiu", "lui"}) -> ADDIU_LUI_SUBIU(i, rs)
    [] Is(i, {"andi", "ori", "xori"}) -> ANDI_ORI_XORI(i, rs)
    [] i.op = "slti" -> SLTI(i, rs)
    [] i.op = "sltiu" -> SLTIU(i, rs)
VrWideResult(i, rs, rt) ==
  CASE Is(i, {"dadd", "daddu", "dsub", "dsubu"}) -> DADD_DSUB(i, rs, rt)
    [] Is(i, {"daddi", "daddiu"}) -> DADDI_DSUBI(i, rs)
    [] Is(i, {"dsll", "dsll32", "dsllv"}) -> DSLL(i, rs, rt)
    [] Is(i, {"dsra", "dsra32", "dsrav"}) -> DSRA(i, rs, rt)
    [] Is(i, {"dsrl", "dsrl32", "dsrlv"}) -> DSRL(i, rs, rt)
VrNext(i, rs, rt) ==
  CASE Is(i, {"beq", "beql", "bne", "bnel"}) -> BEQ_BEQL_BNE_BNEL(i, rs, rt)
    [] Is(i, {"bgez", "bgezl", "bltz", "bltzl"}) -> BGEZ_BGEZL_BLTZ_BLTZL(i, rs)
    [] Is(i, LinkBranchOps) -> BGEZAL_BGEZALL_BLTZAL_BLTZALL(i, rs)
    [] Is(i, {"bgtz", "bgtzl", "blez", "blezl"}) -> BGTZ_BGTZL_BLEZ_BLEZL(i, rs)
    [] Is(i, {"j", "jal"}) -> J_JAL(i)
    [] Is(i, {"jr", "jalr"}) -> JALR_JR(rs)
VrRequest(i, rs, rt) ==
  CASE Is(i, LoadOps \cup StoreOps \cup {"lwu"}) -> LOAD_STORE(i, rs, rt)
    [] Is(i, LinkedOps) -> LL_SC(i, rs)
    [] Is(i, {"lwl", "lwr"}) -> LWL_LWR(i, rs, rt)
    [] Is(i, {"swl", "swr"}) -> SWL_SWR(i, rs, rt)
    [] Is(i, {"ld", "sd"}) -> LD_SD(i, rs, rt)
    [] Is(i, {"ldl", "ldr"}) -> LDL_LDR(i, rs, rt)
    [] Is(i, {"sdl", "sdr"}) -> SDL_SDR(i, rs, rt)

(* The same for doop, the interpreter's dispatcher. *)
CmResult(i, rs, rt) ==
  CASE Is(i, ThreeRegisterOps) -> ThreeRegister(i, rs, rt)
    [] Is(i, ShiftOps) -> Shifted(i, rs, rt)
    [] Is(i, {"slti", "sltiu", "addiu", "xori", "ori"}) -> Immediate(i, rs)
    [] Is(i, {"andi", "lui", "addi"}) -> ImmediateRest(i, rs)
CmNext(i, rs, rt) ==
  CASE Is(i, BranchOps) -> BranchTo(i, rs, rt)
    [] Is(i, {"j", "jal"}) -> JumpTarget(i)
    [] Is(i, {"jr", "jalr"}) -> JumpTo(rs)

(* Register 0 is cleared before the next instruction reads it. *)
Retire(c, d, v, next) ==
  [c EXCEPT !.regs[d] = IF d = 0 THEN {} ELSE v, !.next = next]
SetHiLo(c, p) == [c EXCEPT !.lo = p.lo, !.hi = p.hi, !.next = Sequential]

VRs(i) == vr.regs[i.rs]
VRt(i) == vr.regs[i.rt]
CRs(i) == cm.regs[i.rs]
CRt(i) == cm.regs[i.rt]

(* The interpreter takes no part in a guest of 64-bit instructions. *)
KeepInterpreter == UNCHANGED <<cm, cmem, cport>>
Interpreter(step) == IF Wide THEN KeepInterpreter ELSE step
KeepMemory == UNCHANGED <<vmem, vport>>
KeepCopies == UNCHANGED <<cmem, cport>>

---------------------------------------------------------------------------
Init ==
  /\ program \in Programs
  /\ vr = [regs |-> [r \in Reg |-> {}], hi |-> {}, lo |-> {}, next |-> Sequential]
  /\ cm = [regs |-> [r \in Reg |-> {}], hi |-> {}, lo |-> {}, next |-> Sequential,
           llbit |-> FALSE]
  /\ vmem = InitialMemory /\ cmem = InitialMemory
  /\ vport = [o \in 0 .. 3 |-> {}] /\ cport = [o \in 0 .. 3 |-> {}]
  /\ alive = TRUE

(* Integer instructions. *)
Integer(i) ==
  /\ i.op \in ThreeRegisterOps \cup ShiftOps \cup ImmediateOps
  /\ vr' = Retire(vr, Dest(i), VrResult(i, VRs(i), VRt(i)), Sequential)
  /\ Interpreter(/\ cm' = Retire(cm, Dest(i), CmResult(i, CRs(i), CRt(i)), Sequential)
                 /\ KeepCopies)
  /\ KeepMemory /\ UNCHANGED alive

(* Instructions later than the VR4300: its decoder has VR4300_INVALID for
   them, which does nothing. *)
Later(i) ==
  /\ i.op \in ConditionalOps
  /\ vr' = [vr EXCEPT !.next = Sequential]
  /\ Interpreter(/\ cm' = Retire(cm, i.rd, Conditional(i, CRs(i), CRt(i), cm.regs[i.rd]),
                               Sequential)
                 /\ KeepCopies)
  /\ KeepMemory /\ UNCHANGED alive

MultiplyDivide(i) ==
  /\ i.op \in MultiplyOps
  /\ vr' = SetHiLo(vr, IF Is(i, {"mult", "multu"})
                       THEN MULT_MULTU(i, VRs(i), VRt(i))
                       ELSE DIV_DIVU(i, VRs(i), VRt(i), vr))
  /\ Interpreter(/\ cm' = SetHiLo(cm, IF Is(i, {"mult", "multu"})
                                      THEN Multiply(i, CRs(i), CRt(i))
                                      ELSE Divide(i, CRs(i), CRt(i), cm))
                 /\ KeepCopies)
  /\ alive' = (Wide \/ ~HostFaults(i, CRs(i), CRt(i)))
  /\ KeepMemory

(* VR4300_MFHI_MFLO and VR4300_MTHI_MTLO; op_mfhi, op_mflo, op_mthi, op_mtlo. *)
MoveHiLo(i) ==
  LET Move(c) == CASE i.op = "mfhi" -> Retire(c, i.rd, c.hi, Sequential)
                   [] i.op = "mflo" -> Retire(c, i.rd, c.lo, Sequential)
                   [] i.op = "mthi" -> [c EXCEPT !.hi = c.regs[i.rs], !.next = Sequential]
                   [] i.op = "mtlo" -> [c EXCEPT !.lo = c.regs[i.rs], !.next = Sequential]
  IN /\ i.op \in MoveHiLoOps
     /\ vr' = Move(vr)
     /\ Interpreter(cm' = Move(cm) /\ KeepCopies)
     /\ KeepMemory /\ UNCHANGED alive

(* The link goes to rd for jalr in the VR4300, always to Ra in op_jalr. *)
Control(i) ==
  /\ i.op \in BranchOps \cup JumpOps
  /\ LET d == CASE Is(i, LinkBranchOps \cup {"jal"}) -> Ra
                [] i.op = "jalr" -> i.rd
                [] OTHER -> 0
     IN vr' = Retire(vr, d, Link, VrNext(i, VRs(i), VRt(i)))
  /\ LET d == IF Is(i, LinkBranchOps \cup {"jal", "jalr"}) THEN Ra ELSE 0
     IN Interpreter(/\ cm' = Retire(cm, d, After(8), CmNext(i, CRs(i), CRt(i)))
                    /\ KeepCopies)
  /\ KeepMemory /\ UNCHANGED alive

---------------------------------------------------------------------------
(* Memory.  kseg1 and kseg0 take the bus path: the memory stage treats both
   as uncached. *)
Alignment(i) ==
  CASE Is(i, {"lh", "lhu", "sh"}) -> 2
    [] Is(i, {"lw", "lwu", "sw", "ll", "sc"}) -> 4
    [] Is(i, {"ld", "sd"}) -> 8
    [] OTHER -> 1
Legal(i) ==
  LET a == Address(i, VRs(i))
  IN /\ Offset(a, Alignment(i)) = 0
     /\ InMemory(a) \/ (IsDevice(a) /\ ~Is(i, UnalignedOps \cup LinkedOps
                                                \cup DoubleMemoryOps))

(* The VR4300 side of a load, and of a store. *)
VrLoad(i) ==
  LET q == VrRequest(i, VRs(i), VRt(i))
      v == IF IsDevice(q.vaddr) THEN DeviceRead(q, vport) ELSE BusRead(q, vmem)
  IN /\ vr' = Retire(vr, i.rt, v, Sequential)
     /\ UNCHANGED <<vmem, vport>>
VrStore(i) ==
  LET q == VrRequest(i, VRs(i), VRt(i))
  IN /\ vmem' = IF IsDevice(q.vaddr) THEN vmem ELSE BusWrite(q, vmem)
     /\ vport' = IF IsDevice(q.vaddr) THEN DeviceWrite(q, vport) ELSE vport
     /\ vr' = [vr EXCEPT !.next = Sequential]

Load(i) ==
  LET a == VirtualAddress(i, CRs(i))
      v == CASE i.op = "lwl" -> LoadLeft(a, CRt(i), cmem)
             [] i.op = "lwr" -> LoadRight(a, CRt(i), cmem)
             [] OTHER -> LoadAligned(i, a, cmem, cport)
  IN /\ i.op \in LoadOps \cup {"lwl", "lwr"}
     /\ Legal(i) /\ VrLoad(i)
     /\ Interpreter(cm' = Retire(cm, i.rt, v, Sequential) /\ KeepCopies)
     /\ UNCHANGED alive

(* A byte store to the UART writes its register; op_sh stores two bytes, and
   uart_write ignores a word. *)
StoreToDevice(i, a, port) ==
  LET o == Offset(a, 4)
      low == Low(CRt(i), ByteBits)
  IN CASE i.op = "sb" -> [port EXCEPT ![o] = low]
       [] i.op = "sh" -> [port EXCEPT ![o] = Low(ShiftRight(CRt(i), ByteBits), ByteBits),
                                      ![o + 1] = low]
       [] OTHER -> port
StoreToMemory(i, a, m) ==
  CASE i.op = "sb" -> WriteVirtByte(a, Low(CRt(i), ByteBits), m)
    [] i.op = "sh" -> StoreHalf(a, CRt(i), m)
    [] i.op = "sw" -> WriteVirtWord(a, CRt(i), m)
    [] i.op = "swl" -> StoreLeft(a, CRt(i), m)
    [] i.op = "swr" -> StoreRight(a, CRt(i), m)

Store(i) ==
  LET a == VirtualAddress(i, CRs(i))
  IN /\ i.op \in StoreOps \cup {"swl", "swr"}
     /\ Legal(i) /\ VrStore(i)
     /\ Interpreter(/\ cmem' = IF IsDevice(a) THEN cmem ELSE StoreToMemory(i, a, cmem)
                    /\ cport' = IF IsDevice(a) THEN StoreToDevice(i, a, cport) ELSE cport
                    /\ cm' = [cm EXCEPT !.next = Sequential])
     /\ UNCHANGED alive

LoadLinked(i) ==
  /\ i.op = "ll"
  /\ Legal(i) /\ VrLoad(i)
  /\ Interpreter(
       /\ cm' = [Retire(cm, i.rt, ReadVirtWord(VirtualAddress(i, CRs(i)), cmem), Sequential)
                   EXCEPT !.llbit = TRUE]
       /\ KeepCopies)
  /\ UNCHANGED alive

StoreConditional(i) ==
  /\ i.op = "sc"
  /\ Legal(i) /\ VrStore(i)
  /\ Interpreter(
       /\ cmem' = IF cm.llbit THEN WriteVirtWord(VirtualAddress(i, CRs(i)), CRt(i), cmem)
                              ELSE cmem
       /\ cm' = Retire(cm, i.rt, Boolean(cm.llbit), Sequential)
       /\ cport' = cport)
  /\ UNCHANGED alive

(* The 64-bit instructions, on the VR4300 alone. *)
Double(i) ==
  /\ i.op \in DoubleOps
  /\ vr' = Retire(vr, Dest(i), VrWideResult(i, VRs(i), VRt(i)), Sequential)
  /\ KeepInterpreter /\ UNCHANGED <<vmem, vport, alive>>
DoubleMultiply(i) ==
  /\ i.op \in DoubleMultiplyOps
  /\ vr' = SetHiLo(vr, IF Is(i, {"dmult", "dmultu"})
                       THEN DMULT_DMULTU(i, VRs(i), VRt(i))
                       ELSE DDIV_DDIVU(i, VRs(i), VRt(i), vr))
  /\ alive' = ~DivisionFaults(i, VRs(i), VRt(i))
  /\ KeepInterpreter /\ UNCHANGED <<vmem, vport>>
DoubleLoad(i) ==
  /\ i.op \in DoubleLoadOps
  /\ Legal(i) /\ VrLoad(i)
  /\ KeepInterpreter /\ UNCHANGED alive
DoubleStore(i) ==
  /\ i.op \in DoubleStoreOps
  /\ Legal(i) /\ VrStore(i)
  /\ KeepInterpreter /\ UNCHANGED alive

Instruct(i) ==
  \/ Integer(i) \/ Later(i) \/ MultiplyDivide(i) \/ MoveHiLo(i) \/ Control(i)
  \/ Load(i) \/ Store(i) \/ LoadLinked(i) \/ StoreConditional(i)
  \/ Double(i) \/ DoubleMultiply(i) \/ DoubleLoad(i) \/ DoubleStore(i)

---------------------------------------------------------------------------
(* What runCen64 compares after each instruction, and HI and LO. *)
Agreed ==
  /\ alive
  /\ \A r \in Reg \ {0} : W(vr.regs[r]) = cm.regs[r]
  /\ W(vr.hi) = cm.hi /\ W(vr.lo) = cm.lo
  /\ vr.next.kind = cm.next.kind /\ W(vr.next.pc) = cm.next.pc
  /\ vmem = cmem /\ vport = cport

Next ==
  /\ IF Wide THEN alive ELSE Agreed
  /\ \E i \in program : Instruct(i)
  /\ UNCHANGED program

Spec == Init /\ [][Next]_vars

---------------------------------------------------------------------------
(* The values of the variables. *)
NextPc == [kind : {"next", "skip", "jump"}, pc : Dword]
Vr4300Types ==
  /\ program \in Programs
  /\ vr \in [regs : [Reg -> Dword], hi : Dword, lo : Dword, next : NextPc]
  /\ vmem \in [MemoryWords -> Word] /\ vport \in [0 .. 3 -> Byte]
  /\ alive \in BOOLEAN
InterpreterTypes ==
  /\ cm \in [regs : [Reg -> Word], hi : Word, lo : Word, next : NextPc,
             llbit : BOOLEAN]
  /\ cmem \in [MemoryWords -> Word] /\ cport \in [0 .. 3 -> Byte]
TypeOK == Vr4300Types /\ InterpreterTypes

(* A guest of 32-bit instructions leaves every register of the VR4300 the sign
   extension of its low word, however it mixes loads, partial loads, shifts,
   logic and HI/LO: the 64-bit comparisons of SLT and the branches, and the
   64-bit address adder, rely on it (functions.c casts only some results). *)
NarrowRegisters ==
  ~Wide => /\ \A r \in Reg : SignExtended(vr.regs[r])
           /\ SignExtended(vr.hi) /\ SignExtended(vr.lo)

(* The instructions on which the cores are known to differ: load linked and
   store conditional (VR4300_LL_SC has the masks of the two exchanged), the
   instructions the VR4300 does not have, a link of jalr elsewhere than Ra, the
   division that kills the host of the interpreter, and UART accesses other
   than a load of a positive byte and a store to its first register. *)
DeviceDiverges(i) ==
  /\ IsDevice(Address(i, VRs(i)))
  /\ CASE i.op = "lbu" -> FALSE
       [] i.op = "lb" -> ByteBits - 1 \in DeviceRead([vaddr |-> Address(i, VRs(i))], vport)
       [] i.op = "sb" -> Offset(Address(i, VRs(i)), 4) # 0
       [] OTHER -> TRUE
Diverges(i) ==
  \/ i.op \in LinkedOps \cup ConditionalOps
  \/ i.op = "jalr" /\ i.rd # Ra
  \/ HostFaults(i, CRs(i), CRt(i))
  \/ i.op \in LoadOps \cup StoreOps /\ DeviceDiverges(i)

(* The co-simulation stops only at an instruction of that list: on all others
   the two cores leave the same registers, HI and LO, memory, UART registers
   and successor, although one works on 64-bit registers with masks and the
   other on 32-bit words with a case per byte offset. *)
OnlyKnownDivergence ==
  [][~Wide /\ ~Agreed' => \E i \in program : Diverges(i) /\ Instruct(i)]_vars

(* The pair of partial loads, and the pair of partial stores, that compilers
   emit for a word at any address moves its four bytes, in both cores: the
   second of the pair merges with what the first left in the register. *)
Small(k) == (IF k % 2 = 1 THEN {0} ELSE {}) \cup (IF (k \div 2) % 2 = 1 THEN {1} ELSE {})
              \cup (IF (k \div 4) % 2 = 1 THEN {2} ELSE {})
At(a, k) == Plus(a, Small(k), WordBits)
ByteAt(m, a) == Low(ShiftRight(m[WordOf(a)], Shamt(a)), ByteBits)
BytesOf(m, a, n) == [k \in 0 .. n - 1 |-> ByteAt(m, At(a, k))]
WordBytes(x, n) ==
  [k \in 0 .. n - 1 |-> Low(ShiftRight(x, ByteBits * (n - 1 - k)), ByteBits)]
Partial(op) == [op |-> op, rs |-> 0, rt |-> 0, rd |-> 0, imm |-> {}, sa |-> 0]

UnalignedWord ==
  (\E i \in program : i.op \in UnalignedOps) =>
  \A a \in Word, r \in Reg :
    InMemory(a) /\ InMemory(At(a, 3)) =>
    LET v == vr.regs[r]
        x == BusRead(LWL_LWR(Partial("lwl"), a, v), vmem)
        y == BusRead(LWL_LWR(Partial("lwr"), At(a, 3), x), vmem)
        s == BusWrite(SWL_SWR(Partial("swl"), a, v), vmem)
        t == BusWrite(SWL_SWR(Partial("swr"), At(a, 3), v), s)
        cx == LoadRight(At(a, 3), LoadLeft(a, W(v), cmem), cmem)
        ct == StoreRight(At(a, 3), W(v), StoreLeft(a, W(v), cmem))
    IN /\ WordBytes(y, 4) = BytesOf(vmem, a, 4)
       /\ WordBytes(cx, 4) = BytesOf(cmem, a, 4)
       /\ BytesOf(t, a, 4) = WordBytes(v, 4)
       /\ BytesOf(ct, a, 4) = WordBytes(v, 4)
       /\ ~Wide => SignExtended(y)

(* The same for the doubleword pairs of the VR4300. *)
UnalignedDouble ==
  Wide => \A a \in Word, r \in Reg :
    InMemory(a) /\ InMemory(At(a, 7)) =>
    LET v == vr.regs[r]
        x == BusRead(LDL_LDR(Partial("ldl"), a, v), vmem)
        y == BusRead(LDL_LDR(Partial("ldr"), At(a, 7), x), vmem)
        s == BusWrite(SDL_SDR(Partial("sdl"), a, v), vmem)
        t == BusWrite(SDL_SDR(Partial("sdr"), At(a, 7), v), s)
    IN /\ WordBytes(y, 8) = BytesOf(vmem, a, 8)
       /\ BytesOf(t, a, 8) = WordBytes(v, 8)

(* A memory access gives the same register and the same memory whether it hits
   in the data cache or goes to the bus: two separate computations of shifts
   and masks, on doublewords and on words. *)
PathsAgree ==
  \A i \in program :
    i.op \in LoadOps \cup StoreOps \cup UnalignedOps \cup LinkedOps \cup DoubleMemoryOps
      /\ Legal(i) /\ InMemory(Address(i, VRs(i)))
    => LET q == VrRequest(i, VRs(i), VRt(i))
       IN IF q.write THEN LineWrite(q, vmem) = BusWrite(q, vmem)
                     ELSE LineRead(q, vmem) = BusRead(q, vmem)
=============================================================================
