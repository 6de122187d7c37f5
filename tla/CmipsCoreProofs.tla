-------------------------- MODULE CmipsCoreProofs --------------------------
(***************************************************************************)
(* Type correctness of the interpreter, its refinement of MipsFlow and the *)
(* atomicity of SC, for every program, handler, page layout and TLB size;  *)
(* and a TLB without duplicates, for every kernel of CmipsKernel, whose    *)
(* assumptions nothing before that part uses.  The same kernels satisfy    *)
(* the hypothesis of the theorem about SC.                                 *)
(***************************************************************************)
EXTENDS CmipsKernel, TLAPS, WellFoundedInduction

\* TypeOK in the parts that different instructions disturb.
CoreType ==
  /\ program \in Programs
  /\ pc \in Addr /\ delaypc \in Addr /\ inDelaySlot \in BOOLEAN
  /\ status \in [ie : BOOLEAN, exl : BOOLEAN, erl : BOOLEAN]
  /\ exccode \in ExcCode /\ bd \in BOOLEAN /\ epc \in Addr
  /\ waiting \in BOOLEAN /\ llbit \in BOOLEAN /\ shutdown \in BOOLEAN
  /\ broken \in BOOLEAN

TimerType ==
  ip \in BOOLEAN /\ count \in 0 .. CountSize - 1 /\ compare \in 0 .. CountSize - 1

MmuType ==
  /\ tlb \in [Index -> TlbEntry]
  /\ entryHi \in EntryHi /\ entryLo \in [Half -> EntryLo]
  /\ badPage \in Page /\ cp0Index \in Index \cup {NotFound}
  /\ counter \in 0 .. Entries - Wired - 1
  /\ present \subseteq Asid \X Page /\ written \subseteq Asid \X Page

LEMMA TypeParts == TypeOK <=> CoreType /\ TimerType /\ MmuType
  BY DEF TypeOK, CoreType, TimerType, MmuType

\* What step_mips() relies on without saying so: a delay slot follows a
\* branch, so that it holds none itself and EPC - 4 is where to resume.
SlotFollowsBranch == inDelaySlot => program.op[Pred(pc)] \in Branch

IInv == TypeOK /\ SlotFollowsBranch

LEMMA AddrClosed ==
  \A a \in Addr : Succ(a) \in Addr /\ Pred(a) \in Addr /\ Pred(Succ(a)) = a
                  /\ Succ(Pred(a)) = a
  BY SizeAssumption DEF Addr, Succ, Pred

LEMMA ProgramType ==
  ASSUME CoreType
  PROVE  /\ op \in Op /\ operand \in Page /\ program.target[pc] \in Addr
         /\ \A a \in Addr :
              program.op[a] \in Branch => program.op[Succ(a)] \notin Branch
<1>1. program \in [op : [Addr -> Op], target : [Addr -> Addr],
                   data : [Addr -> Page]]
  BY ProgramAssumption DEF CoreType
<1>2. QED
  BY <1>1, ProgramAssumption DEF CoreType, op, operand

-----------------------------------------------------------------------------
(* The timer.                                                              *)

LEMMA TimerStep ==
  ASSUME TimerType, Tick,
         Latch \/ (ip' = FALSE /\ compare' = (NextCount + Period) % CountSize)
  PROVE  TimerType'
<1>1. NextCount \in 0 .. CountSize - 1
  BY TimerAssumption DEF TimerType, NextCount
<1>2. (NextCount + Period) % CountSize \in 0 .. CountSize - 1
  BY <1>1, TimerAssumption
<1>3. Fired \in BOOLEAN
  BY DEF Fired, TimerType
<1>4. QED
  BY <1>1, <1>2, <1>3 DEF TimerType, Tick, Latch

-----------------------------------------------------------------------------
(* Exceptions.                                                             *)

LEMMA ExceptionType ==
  ASSUME CoreType, NEW code \in ExcCode, NEW result,
         handleException(code, result), waiting' \in BOOLEAN
  PROVE  CoreType'
<1>1. Pred(pc) \in Addr
  BY AddrClosed DEF CoreType
<1>2. Vector(code, result) \in Addr
  BY AddrAssumption DEF Vector
<1>3. QED
  BY <1>1, <1>2 DEF CoreType, handleException

LEMMA TlbExceptionType ==
  ASSUME CoreType, MmuType, NEW p \in Page, NEW write \in BOOLEAN,
         TlbException(p, write), waiting' = waiting
  PROVE  CoreType' /\ MmuType'
<1> DEFINE result == Lookup(p, write)
           code == IF result = "dirty" THEN "Mod"
                   ELSE IF write THEN "TLBS" ELSE "TLBL"
<1>1. code \in ExcCode /\ handleException(code, result)
  BY DEF TlbException, ExcCode
<1>2. CoreType'
  <2> HIDE DEF code, result
  <2>1. waiting' \in BOOLEAN
    BY DEF CoreType
  <2>2. QED
    BY <1>1, <2>1, ExceptionType
<1>3. p \div 2 \in Vpn2
  BY PageAssumption DEF Page, Vpn2
<1>4. MmuType'
  BY <1>3 DEF TlbException, handleException, MmuType, EntryHi, tables
<1>5. QED
  BY <1>2, <1>4

-----------------------------------------------------------------------------
(* Instructions.                                                           *)

LEMMA AdvanceType ==
  ASSUME CoreType, NEW a \in Addr, Advance(a)
  PROVE  pc' \in Addr /\ delaypc' \in Addr /\ inDelaySlot' \in BOOLEAN
  BY DEF CoreType, Advance

\* Instructions that leave the MMU and the page tables alone.
CoreInstruction ==
  \/ ExecAlu \/ ExecLoadLinked \/ ExecStoreConditional \/ ExecBranch
  \/ ExecLikelyNotTaken \/ ExecWait \/ ExecPowerOff \/ ExecMoveToStatus
  \/ ExecMoveToEpc \/ ExecEret \/ ExecEretInSlot \/ ExecMoveToCompare

\* Instructions that leave the rest alone.
MmuInstruction ==
  \/ ExecMoveToEntryHi \/ ExecMoveToEntryLo \/ FixPageTable
  \/ ExecTlbProbe \/ ExecTlbWriteIndexed \/ ExecTlbWriteRandom

LEMMA CoreInstructionType ==
  ASSUME CoreType, CoreInstruction
  PROVE  CoreType'
<1>1. /\ pc \in Addr /\ Succ(pc) \in Addr /\ Succ(Succ(pc)) \in Addr
      /\ Succ(epc) \in Addr
  BY AddrClosed DEF CoreType
<1>2. CASE /\ ExecAlu \/ ExecLoadLinked \/ ExecStoreConditional \/ ExecWait
              \/ ExecPowerOff \/ ExecMoveToStatus \/ ExecEretInSlot
              \/ ExecMoveToEpc \/ ExecMoveToCompare
  <2>1. Advance(Succ(pc))
    BY <1>2 DEF ExecAlu, ExecLoadLinked, ExecStoreConditional, ExecWait,
                ExecPowerOff, ExecMoveToStatus, ExecEretInSlot, ExecMoveToEpc,
                ExecMoveToCompare, Plain
  <2>2. pc' \in Addr /\ delaypc' \in Addr /\ inDelaySlot' \in BOOLEAN
    BY <1>1, <2>1, AdvanceType
  <2>3. program' = program /\ exccode' = exccode /\ bd' = bd
    BY <1>2 DEF ExecAlu, ExecLoadLinked, ExecStoreConditional, ExecWait,
                ExecPowerOff, ExecMoveToStatus, ExecEretInSlot, ExecMoveToEpc,
                ExecMoveToCompare, Executes
  <2>4. /\ UNCHANGED epc \/ epc' = Succ(epc)
        /\ UNCHANGED status \/ status' = [ie |-> TRUE, exl |-> FALSE, erl |-> FALSE]
        /\ UNCHANGED waiting \/ waiting' = TRUE
        /\ UNCHANGED shutdown \/ shutdown' = TRUE
        /\ UNCHANGED llbit \/ llbit' = TRUE
        /\ UNCHANGED broken \/ broken' = FALSE
    BY <1>2
       DEF ExecAlu, ExecLoadLinked, ExecStoreConditional, ExecWait,
           ExecPowerOff, ExecMoveToStatus, ExecEretInSlot, ExecMoveToEpc,
           ExecMoveToCompare, link
  <2>5. epc' \in Addr
    BY <1>1, <2>4 DEF CoreType
  <2>6. status' \in [ie : BOOLEAN, exl : BOOLEAN, erl : BOOLEAN]
    <3>1. [ie |-> TRUE, exl |-> FALSE, erl |-> FALSE]
             \in [ie : BOOLEAN, exl : BOOLEAN, erl : BOOLEAN]
      OBVIOUS
    <3>2. QED
      BY <2>4, <3>1, Zenon DEF CoreType
  <2>7. /\ waiting' \in BOOLEAN /\ shutdown' \in BOOLEAN
        /\ llbit' \in BOOLEAN /\ broken' \in BOOLEAN
    BY <2>4, Zenon DEF CoreType
  <2>8. QED
    BY <2>2, <2>3, <2>5, <2>7, <2>6 DEF CoreType
<1>3. CASE ExecBranch
  <2>1. HandlerOf[exccode] \in Addr /\ program.target[pc] \in Addr
    BY HandlerAssumption, ProgramType DEF CoreType
  <2>2. delaypc' \in Addr
    BY <1>1, <1>3, <2>1 DEF ExecBranch
  <2>3. pc' \in Addr /\ inDelaySlot' \in BOOLEAN
    BY <1>1, <1>3, <2>2 DEF ExecBranch, CoreType
  <2>4. QED
    BY <1>3, <2>2, <2>3 DEF ExecBranch, Executes, CoreType, link
<1>4. CASE ExecLikelyNotTaken
  <2>1. pc' \in Addr /\ delaypc' \in Addr /\ inDelaySlot' \in BOOLEAN
    BY <1>1, <1>4, AdvanceType DEF ExecLikelyNotTaken
  <2>2. QED
    BY <1>4, <2>1 DEF ExecLikelyNotTaken, Executes, CoreType, link
<1>5. CASE ExecEret
  BY <1>5, AddrAssumption DEF ExecEret, Executes, CoreType
<1>6. QED
  BY <1>2, <1>3, <1>4, <1>5 DEF CoreInstruction

LEMMA MmuInstructionType ==
  ASSUME CoreType, MmuType, MmuInstruction
  PROVE  CoreType' /\ MmuType'
<1>1. CoreType'
  <2>1. Advance(Succ(pc)) /\ Succ(pc) \in Addr
    BY AddrClosed
       DEF CoreType, MmuInstruction, ExecMoveToEntryHi, ExecMoveToEntryLo,
           FixPageTable, ExecTlbProbe, ExecTlbWriteIndexed, ExecTlbWriteRandom,
           Plain
  <2>2. pc' \in Addr /\ delaypc' \in Addr /\ inDelaySlot' \in BOOLEAN
    BY <2>1, AdvanceType
  <2>3. UNCHANGED <<program, status, cause, waiting, shutdown, link>>
    BY DEF MmuInstruction, ExecMoveToEntryHi, ExecMoveToEntryLo, FixPageTable,
           ExecTlbProbe, ExecTlbWriteIndexed, ExecTlbWriteRandom, Executes, cause
  <2>4. QED
    BY <2>2, <2>3 DEF CoreType, cause, link
<1>2. \A i \in Index : WriteEntry(i) => tlb' \in [Index -> TlbEntry]
  BY DEF WriteEntry, MmuType, EntryHi, EntryLo, TlbEntry, Half
<1> SUFFICES MmuType'
  BY <1>1
<1>3. CASE ExecMoveToEntryHi
  BY <1>3, PageAssumption
     DEF ExecMoveToEntryHi, MmuType, EntryHi, Vpn2, tables
<1>4. CASE ExecMoveToEntryLo
  BY <1>4 DEF ExecMoveToEntryLo, MmuType, EntryLo, tables
<1>5. CASE FixPageTable
  <2>1. Pte(badPage) \in Asid \X Page
    BY PageAssumption DEF Pte, MmuType, EntryHi, Asid
  <2>2. QED
    BY <1>5, <2>1 DEF FixPageTable, MmuType, mmu
<1>6. CASE ExecTlbProbe
  BY <1>6 DEF ExecTlbProbe, FirstMatch, Matching, MmuType, tables
<1>7. CASE ExecTlbWriteIndexed
  <2>1. (IF cp0Index = NotFound THEN 0 ELSE cp0Index) \in Index
    BY TlbAssumption DEF MmuType, Index
  <2>2. tlb' \in [Index -> TlbEntry]
    BY <1>2, <1>7, <2>1 DEF ExecTlbWriteIndexed
  <2>3. QED
    BY <1>7, <2>2 DEF ExecTlbWriteIndexed, MmuType, tables
<1>8. CASE ExecTlbWriteRandom
  <2>1. randomInRange \in 0 .. Entries - Wired - 1
    BY TlbAssumption DEF randomInRange, MmuType, Index
  <2>2. Wired + randomInRange \in Index
    BY <2>1, TlbAssumption DEF Index
  <2>3. tlb' \in [Index -> TlbEntry]
    BY <1>2, <1>8, <2>2 DEF ExecTlbWriteRandom
  <2>4. QED
    BY <1>8, <2>1, <2>3 DEF ExecTlbWriteRandom, MmuType, tables
<1>9. QED
  BY <1>3, <1>4, <1>5, <1>6, <1>7, <1>8 DEF MmuInstruction

-----------------------------------------------------------------------------
(* Type correctness.                                                       *)

StepException ==
  StepInterrupt \/ StepFetchFault \/ StepDataFault \/ StepSyscall

LEMMA StepExceptionType ==
  ASSUME CoreType, MmuType, StepException
  PROVE  CoreType' /\ MmuType'
<1>1. CASE StepInterrupt
  <2>1. handleException("Int", "match") /\ waiting' \in BOOLEAN /\ "Int" \in ExcCode
    BY <1>1 DEF StepInterrupt, ExcCode
  <2>2. CoreType'
    BY <2>1, ExceptionType
  <2>3. UNCHANGED mmu /\ UNCHANGED tables
    BY <1>1 DEF StepInterrupt, handleException
  <2>4. QED
    BY <2>2, <2>3 DEF MmuType, mmu, tables
<1>2. CASE StepFetchFault
  <2>1. PageOf[pc] \in Page
    BY PageAssumption DEF CoreType
  <2>2. TlbException(PageOf[pc], FALSE) /\ waiting' = waiting
    BY <1>2 DEF StepFetchFault
  <2>3. QED
    BY <2>1, <2>2, TlbExceptionType
<1>3. CASE StepDataFault
  <2>1. operand \in Page
    BY ProgramType
  <2>2. TlbException(operand, ~ReadFails) /\ waiting' = waiting
    BY <1>3 DEF StepDataFault
  <2>3. (~ReadFails) \in BOOLEAN
    BY DEF ReadFails
  <2>4. QED
    BY <2>1, <2>2, <2>3, TlbExceptionType
<1>4. CASE StepSyscall
  <2>1. /\ handleException("SYS", "match") /\ waiting' = waiting
        /\ "SYS" \in ExcCode
    BY <1>4 DEF StepSyscall, ExcCode
  <2>2. waiting' \in BOOLEAN
    BY <2>1 DEF CoreType
  <2>3. CoreType'
    BY <2>1, <2>2, ExceptionType
  <2>4. UNCHANGED mmu /\ UNCHANGED tables
    BY <1>4 DEF StepSyscall, handleException
  <2>5. QED
    BY <2>3, <2>4 DEF MmuType, mmu, tables
<1>5. QED
  BY <1>1, <1>2, <1>3, <1>4 DEF StepException

\* Next by what a step can disturb.
LEMMA NextCases ==
  Next <=> \/ StepOff \/ StepWaiting
           \/ StepException \/ CoreInstruction \/ MmuInstruction
  BY DEF Next, StepException, CoreInstruction, MmuInstruction

LEMMA Ticks ==
  ASSUME StepWaiting \/ StepException \/ CoreInstruction \/ MmuInstruction
  PROVE  /\ Tick
         /\ \/ Latch
            \/ ip' = FALSE /\ compare' = (NextCount + Period) % CountSize
<1>1. CASE StepWaiting \/ StepException
  BY <1>1 DEF StepWaiting, StepException, StepInterrupt, StepFetchFault,
              StepDataFault, StepSyscall
<1>2. CASE CoreInstruction
  BY <1>2 DEF CoreInstruction, ExecAlu, ExecLoadLinked, ExecStoreConditional,
              ExecBranch, ExecLikelyNotTaken, ExecWait, ExecPowerOff,
              ExecMoveToStatus, ExecMoveToEpc, ExecEret, ExecEretInSlot,
              ExecMoveToCompare, Executes, Plain
<1>3. CASE MmuInstruction
  BY <1>3 DEF MmuInstruction, ExecMoveToEntryHi, ExecMoveToEntryLo, FixPageTable,
              ExecTlbProbe, ExecTlbWriteIndexed, ExecTlbWriteRandom, Executes,
              Plain
<1>4. QED
  BY <1>1, <1>2, <1>3

LEMMA InitType == Init => TypeOK
<1> SUFFICES ASSUME Init PROVE TypeOK
  OBVIOUS
<1>1. 0 \in Addr /\ 0 \in Vpn2 /\ 0 \in Asid /\ 0 \in Page /\ 0 \in Index
      /\ 0 \in 0 .. CountSize - 1 /\ 0 \in 0 .. Entries - Wired - 1
  BY SizeAssumption, PageAssumption, TlbAssumption, TimerAssumption
     DEF Addr, Vpn2, Asid, Page, Index
<1>2. CoreType
  BY <1>1, AddrAssumption DEF Init, CoreType, ExcCode
<1>3. TimerType
  BY <1>1 DEF Init, TimerType
<1>4. MmuType
  <2>1. tlb \in [Index -> TlbEntry]
    BY <1>1 DEF Init, TlbEntry, Zeros
  <2>2. entryHi \in EntryHi /\ entryLo \in [Half -> EntryLo]
    BY <1>1 DEF Init, EntryHi, EntryLo
  <2>3. QED
    BY <1>1, <2>1, <2>2 DEF Init, MmuType
<1>5. QED
  BY <1>2, <1>3, <1>4, TypeParts

LEMMA StepType ==
  ASSUME TypeOK, [Next]_vars
  PROVE  TypeOK'
<1>1. CoreType /\ TimerType /\ MmuType
  BY TypeParts
<1>2. CASE UNCHANGED vars
  BY <1>2 DEF vars, where, cause, timer, mmu, tables, link, TypeOK
<1>3. CASE StepOff
  BY <1>2, <1>3 DEF StepOff
<1>4. CASE StepWaiting \/ StepException \/ CoreInstruction \/ MmuInstruction
  <2>1. TimerType'
    BY <1>1, <1>4, Ticks, TimerStep
  <2> SUFFICES CoreType' /\ MmuType'
    BY <2>1 DEF TypeOK, CoreType, TimerType, MmuType
  <2>2. CASE StepWaiting
    BY <1>1, <2>2 DEF StepWaiting, CoreType, MmuType, where, cause, mmu, tables, link
  <2>3. CASE StepException
    BY <1>1, <2>3, StepExceptionType
  <2>4. CASE CoreInstruction
    <3>1. UNCHANGED mmu /\ UNCHANGED tables
      BY <2>4 DEF CoreInstruction, ExecAlu, ExecLoadLinked, ExecStoreConditional,
                  ExecBranch, ExecLikelyNotTaken, ExecWait, ExecPowerOff,
                  ExecMoveToStatus, ExecMoveToEpc, ExecEret, ExecEretInSlot,
                  ExecMoveToCompare
    <3>2. MmuType'
      BY <1>1, <3>1 DEF MmuType, mmu, tables
    <3>3. QED
      BY <1>1, <2>4, <3>2, CoreInstructionType
  <2>5. CASE MmuInstruction
    BY <1>1, <2>5, MmuInstructionType
  <2>6. QED
    BY <1>4, <2>2, <2>3, <2>4, <2>5
<1>5. QED
  BY <1>2, <1>3, <1>4, NextCases

\* Registers, TLB entries and the replacement index keep their ranges,
\* whatever the program does (step_mips and the handlers it calls).
THEOREM TypeCorrect == Spec => []TypeOK
<1>1. Init => TypeOK
  BY InitType
<1>2. TypeOK /\ [Next]_vars => TypeOK'
  BY StepType
<1>3. QED
  BY <1>1, <1>2, PTL DEF Spec

-----------------------------------------------------------------------------
(* A delay slot follows a branch.                                          *)

LEMMA InstructionAt ==
  ASSUME NEW kinds, Executes(kinds)
  PROVE  op \in kinds /\ program' = program
  BY DEF Executes

LEMMA StepSlot ==
  ASSUME TypeOK, SlotFollowsBranch, [Next]_vars
  PROVE  SlotFollowsBranch'
<1>1. CASE ExecBranch
  <2>1. pc \in Addr /\ inDelaySlot \in BOOLEAN
    BY DEF TypeOK
  <2>2. op \in Branch /\ program' = program /\ inDelaySlot' = ~inDelaySlot
    BY <1>1, InstructionAt DEF ExecBranch
  <2>3. inDelaySlot' => pc' = Succ(pc)
    BY <1>1, <2>1 DEF ExecBranch
  <2>4. inDelaySlot' => Pred(pc') = pc
    BY <2>1, <2>3, AddrClosed
  <2>5. QED
    BY <2>2, <2>4 DEF SlotFollowsBranch, op, Pred
<1>2. CASE UNCHANGED vars
  BY <1>2 DEF vars, where, SlotFollowsBranch, Pred
<1>3. CASE StepOff
  BY <1>2, <1>3 DEF StepOff
<1>4. CASE StepWaiting
  BY <1>4 DEF StepWaiting, where, SlotFollowsBranch, Pred
<1>5. CASE StepException
  <2>1. ~inDelaySlot'
    BY <1>5 DEF StepException, StepInterrupt, StepFetchFault, StepDataFault,
                StepSyscall, TlbException, handleException
  <2>2. QED
    BY <2>1 DEF SlotFollowsBranch
<1>6. CASE ExecEret
  <2>1. ~inDelaySlot'
    BY <1>6 DEF ExecEret
  <2>2. QED
    BY <2>1 DEF SlotFollowsBranch
<1>7. CASE (CoreInstruction /\ ~ExecBranch /\ ~ExecEret) \/ MmuInstruction
  <2>1. ~inDelaySlot'
    BY <1>7 DEF CoreInstruction, ExecAlu, ExecLoadLinked, ExecStoreConditional,
                ExecLikelyNotTaken, ExecWait, ExecPowerOff, ExecMoveToStatus,
                ExecMoveToEpc, ExecEretInSlot, ExecMoveToCompare,
                MmuInstruction, ExecMoveToEntryHi, ExecMoveToEntryLo,
                FixPageTable, ExecTlbProbe, ExecTlbWriteIndexed,
                ExecTlbWriteRandom, Plain, Advance
  <2>2. QED
    BY <2>1 DEF SlotFollowsBranch
<1>8. QED
  BY <1>1, <1>2, <1>3, <1>4, <1>5, <1>6, <1>7, NextCases

LEMMA Invariance == Spec => []IInv
<1>1. Init => IInv
  BY InitType DEF IInv, Init, SlotFollowsBranch
<1>2. IInv /\ [Next]_vars => IInv'
  BY StepType, StepSlot DEF IInv
<1>3. QED
  BY <1>1, <1>2, PTL DEF Spec

-----------------------------------------------------------------------------
(* Refinement.                                                             *)

npc == IF inDelaySlot THEN delaypc ELSE Succ(pc)
flowvars == <<pc, npc, inDelaySlot, status.exl, status.erl, epc>>

\* An instruction that is no branch is a step of MipsFlow.
LEMMA AdvanceExecutes ==
  ASSUME CoreType, Advance(Succ(pc)),
         \/ UNCHANGED <<status, epc>>
         \/ status' = [ie |-> TRUE, exl |-> FALSE, erl |-> FALSE] /\ UNCHANGED epc
         \/ epc' \in Addr /\ UNCHANGED status
  PROVE  Flow!Execute
<1>1. pc' = npc /\ ~inDelaySlot'
  BY DEF Advance, npc
<1>2. Flow!GoTo(npc)
  BY <1>1 DEF Flow!GoTo, Flow!Succ, Succ, npc
<1>3. QED
  BY <1>2 DEF Flow!Execute, Flow!Addr, Addr, Flow!GoTo, Flow!Succ, Succ, npc

LEMMA ExceptionTraps ==
  ASSUME CoreType, NEW code, NEW result, handleException(code, result)
  PROVE  Flow!Trap
<1>1. Vector(code, result) \in {RefillVec, GeneralVec}
  BY DEF Vector
<1>2. Flow!GoTo(Vector(code, result))
  BY DEF handleException, Flow!GoTo, Flow!Succ, Succ
<1>3. status'.exl = TRUE /\ status'.erl = status.erl
  BY DEF handleException, CoreType
<1>4. epc' = IF status.exl THEN epc ELSE IF inDelaySlot THEN Flow!Pred(pc) ELSE pc
  BY DEF handleException, Flow!Pred, Pred
<1>5. QED
  BY <1>1, <1>2, <1>3, <1>4 DEF Flow!Trap

LEMMA NoBranchInSlot ==
  ASSUME CoreType, SlotFollowsBranch, inDelaySlot
  PROVE  op \notin Branch
<1>1. program.op[Pred(pc)] \in Branch /\ Pred(pc) \in Addr /\ Succ(Pred(pc)) = pc
  BY AddrClosed DEF SlotFollowsBranch, CoreType
<1>2. QED
  BY <1>1, ProgramType DEF op

LEMMA BranchRefines ==
  ASSUME CoreType, CoreType', SlotFollowsBranch, ExecBranch
  PROVE  Flow!Branch
<1>1. op \in Branch
  BY InstructionAt DEF ExecBranch
<1>2. ~inDelaySlot
  BY <1>1, NoBranchInSlot
<1>3. pc' = Succ(pc) /\ inDelaySlot' = TRUE /\ UNCHANGED <<status, epc>>
  BY <1>2 DEF ExecBranch
<1>4. delaypc' \in Addr
  BY DEF CoreType
<1>5. QED
  BY <1>2, <1>3, <1>4 DEF Flow!Branch, Flow!Addr, Addr, Flow!Succ, Succ

LEMMA LikelyRefines ==
  ASSUME CoreType, SlotFollowsBranch, ExecLikelyNotTaken
  PROVE  Flow!AnnulSlot
<1>1. op \in Branch
  BY InstructionAt DEF ExecLikelyNotTaken, Branch
<1>2. ~inDelaySlot
  BY <1>1, NoBranchInSlot
<1>3. /\ pc' = Succ(Succ(pc)) /\ inDelaySlot' = FALSE
      /\ UNCHANGED <<status, epc>>
  BY <1>2 DEF ExecLikelyNotTaken, Advance
<1>4. QED
  BY <1>2, <1>3 DEF Flow!AnnulSlot, Flow!GoTo, Flow!Succ, Succ

LEMMA EretRefines ==
  ASSUME CoreType, ExecEret
  PROVE  Flow!Return
<1>1. /\ ~inDelaySlot /\ inDelaySlot' = inDelaySlot /\ epc' = epc
      /\ status.erl \in BOOLEAN /\ status.exl \in BOOLEAN
  BY DEF ExecEret, CoreType
<1>2. CASE status.erl
  <2>1. pc' = ErrorEpc /\ status' = [status EXCEPT !.erl = FALSE]
    BY <1>2 DEF ExecEret
  <2>2. status'.erl = FALSE /\ status'.exl = status.exl
    BY <2>1 DEF CoreType
  <2>3. QED
    BY <1>1, <1>2, <2>1, <2>2 DEF Flow!Return, Flow!GoTo, Flow!Succ, Succ
<1>3. CASE ~status.erl
  <2>1. pc' = epc /\ status' = [status EXCEPT !.exl = FALSE]
    BY <1>3 DEF ExecEret
  <2>2. status'.exl = FALSE /\ status'.erl = status.erl
    BY <2>1 DEF CoreType
  <2>3. QED
    BY <1>1, <1>3, <2>1, <2>2 DEF Flow!Return, Flow!GoTo, Flow!Succ, Succ
<1>4. QED
  BY <1>2, <1>3

\* Every other instruction that completes.
LEMMA OthersRefine ==
  ASSUME CoreType,
         \/ CoreInstruction /\ ~ExecBranch /\ ~ExecLikelyNotTaken /\ ~ExecEret
         \/ MmuInstruction
  PROVE  Flow!Execute
<1>1. Advance(Succ(pc))
  BY DEF CoreInstruction, ExecAlu, ExecLoadLinked, ExecStoreConditional,
         ExecWait, ExecPowerOff, ExecMoveToStatus, ExecMoveToEpc,
         ExecEretInSlot, ExecMoveToCompare, MmuInstruction, ExecMoveToEntryHi,
         ExecMoveToEntryLo, FixPageTable, ExecTlbProbe, ExecTlbWriteIndexed,
         ExecTlbWriteRandom, Plain
<1>2. \/ UNCHANGED <<status, epc>>
      \/ status' = [ie |-> TRUE, exl |-> FALSE, erl |-> FALSE] /\ UNCHANGED epc
      \/ epc' = Succ(epc) /\ UNCHANGED status
  BY DEF CoreInstruction, ExecAlu, ExecLoadLinked, ExecStoreConditional,
         ExecWait, ExecPowerOff, ExecMoveToStatus, ExecMoveToEpc,
         ExecEretInSlot, ExecMoveToCompare, MmuInstruction, ExecMoveToEntryHi,
         ExecMoveToEntryLo, FixPageTable, ExecTlbProbe, ExecTlbWriteIndexed,
         ExecTlbWriteRandom
<1>3. Succ(epc) \in Addr
  BY AddrClosed DEF CoreType
<1>4. QED
  BY <1>1, <1>2, <1>3, AdvanceExecutes

LEMMA ExceptionRefines ==
  ASSUME CoreType, StepException
  PROVE  Flow!Trap
<1>1. \E code, result : handleException(code, result)
  BY DEF StepException, StepInterrupt, StepFetchFault, StepDataFault, StepSyscall,
         TlbException
<1>2. QED
  BY <1>1, ExceptionTraps

LEMMA StepRefines ==
  ASSUME TypeOK, TypeOK', SlotFollowsBranch, [Next]_vars
  PROVE  [Flow!Next]_flowvars
<1>1. CoreType /\ CoreType'
  BY DEF TypeOK, CoreType
<1>2. CASE UNCHANGED vars
  BY <1>2 DEF vars, where, cause, flowvars, npc, Succ
<1>3. CASE StepOff
  BY <1>2, <1>3 DEF StepOff
<1>4. CASE StepWaiting
  BY <1>4 DEF StepWaiting, where, cause, flowvars, npc, Succ
<1>5. CASE StepException
  BY <1>1, <1>5, ExceptionRefines DEF Flow!Next
<1>6. CASE ExecBranch
  BY <1>1, <1>6, BranchRefines DEF Flow!Next
<1>7. CASE ExecLikelyNotTaken
  BY <1>1, <1>7, LikelyRefines DEF Flow!Next
<1>8. CASE ExecEret
  BY <1>1, <1>8, EretRefines DEF Flow!Next
<1>9. CASE \/ CoreInstruction /\ ~ExecBranch /\ ~ExecLikelyNotTaken /\ ~ExecEret
           \/ MmuInstruction
  BY <1>1, <1>9, OthersRefine DEF Flow!Next
<1>10. QED
  BY <1>2, <1>3, <1>4, <1>5, <1>6, <1>7, <1>8, <1>9, NextCases

\* step_mips executes every program whose delay slots hold no branch in the
\* order that MipsFlow prescribes: no instruction is lost or repeated by an
\* interrupt, a TLB miss or a page fault, in a delay slot or outside.
THEOREM Refinement == Spec => ImplementsFlow
<1>1. Init => Flow!Init
  BY DEF Init, Flow!Init, Flow!Succ, Succ
<1>2. IInv /\ IInv' /\ [Next]_vars => [Flow!Next]_(Flow!vars)
  BY StepRefines DEF IInv, flowvars, npc, Flow!vars, Flow!where, Flow!Succ, Succ
<1>3. QED
  BY <1>1, <1>2, Invariance, PTL DEF Spec, ImplementsFlow, Flow!Spec

-----------------------------------------------------------------------------
(* Store conditional.                                                      *)

\* The kernel's part: at exception level it neither clears EXL but by ERET
\* nor stores conditionally.
HandlersEndWithEret ==
  [][ status.exl => ~ExecMoveToStatus /\ ~ExecStoreConditional ]_vars

\* The core's part: a link that an exception has broken lasts no longer than
\* the exception level.
LinkFollowsLevel == llbit /\ broken => status.exl

\* EXL is raised by every exception and lowered by two instructions.
LEMMA LevelStep ==
  ASSUME TypeOK, Next
  PROVE  \/ UNCHANGED <<llbit, broken, status>>
         \/ StepException /\ status'.exl
         \/ ExecLoadLinked /\ ~broken'
         \/ ExecEret /\ ~llbit'
         \/ ExecMoveToStatus /\ UNCHANGED link
<1>1. CASE StepException
  <2>1. status' = [status EXCEPT !.exl = TRUE]
    BY <1>1 DEF StepException, StepInterrupt, StepFetchFault, StepDataFault,
                StepSyscall, TlbException, handleException
  <2>2. QED
    BY <1>1, <2>1 DEF TypeOK
<1>2. CASE StepOff \/ StepWaiting
  BY <1>2 DEF StepOff, StepWaiting, vars, link
<1>3. CASE MmuInstruction
  BY <1>3 DEF MmuInstruction, ExecMoveToEntryHi, ExecMoveToEntryLo, FixPageTable,
              ExecTlbProbe, ExecTlbWriteIndexed, ExecTlbWriteRandom, link
<1>4. CASE CoreInstruction
  BY <1>4 DEF CoreInstruction, ExecAlu, ExecLoadLinked, ExecStoreConditional,
              ExecBranch, ExecLikelyNotTaken, ExecWait, ExecPowerOff,
              ExecMoveToStatus, ExecMoveToEpc, ExecEret, ExecEretInSlot,
              ExecMoveToCompare, link
<1>5. QED
  BY <1>1, <1>2, <1>3, <1>4, NextCases

LEMMA LinkStep ==
  ASSUME TypeOK, LinkFollowsLevel, [Next]_vars,
         status.exl => ~ExecMoveToStatus
  PROVE  LinkFollowsLevel'
<1>1. CASE UNCHANGED vars
  BY <1>1 DEF vars, link, LinkFollowsLevel
<1>2. CASE Next
  BY <1>2, LevelStep DEF LinkFollowsLevel, link
<1>3. QED
  BY <1>1, <1>2

\* A store conditional never writes when an exception came after its load
\* linked, for every kernel whose handlers end with ERET: the core clears
\* llbit in op_eret only, and handleException leaves it.
THEOREM StoreConditionalAtomic == Spec /\ HandlersEndWithEret => ScAtomic
<1> DEFINE Level == status.exl => ~ExecMoveToStatus /\ ~ExecStoreConditional
           Atomic == ExecStoreConditional /\ llbit => ~broken
<1>1. Init => LinkFollowsLevel
  BY DEF Init, LinkFollowsLevel
<1>2. TypeOK /\ LinkFollowsLevel /\ [Next]_vars /\ [Level]_vars
        => LinkFollowsLevel'
  <2>1. ASSUME TypeOK, LinkFollowsLevel, UNCHANGED vars PROVE LinkFollowsLevel'
    BY <2>1 DEF vars, link, LinkFollowsLevel
  <2>2. QED
    BY <2>1, LinkStep
<1>3. LinkFollowsLevel /\ [Level]_vars => [Atomic]_vars
  BY DEF LinkFollowsLevel
<1>4. QED
  BY <1>1, <1>2, <1>3, TypeCorrect, PTL DEF Spec, HandlersEndWithEret, ScAtomic

-----------------------------------------------------------------------------
(* No duplicates in the TLB, from here to the end.  CmipsKernel says what  *)
(* the guest's kernel is assumed to be; KernelInv follows it from the      *)
(* exception to the write: EXL is set exactly in the handlers' text, the   *)
(* refill line runs for a pair that no entry matches, the page fault line  *)
(* for one that an entry matches, and what is written is as global as the  *)
(* pair is.                                                                *)

\* Both pages of pair v are global.
GlobalPair(v) == 2 * v \in GlobalPages /\ 2 * v + 1 \in GlobalPages

LoadedGlobal ==
  entryLo[0].g /\ entryLo[1].g <=> GlobalPair(entryHi.vpn2)

\* The handlers run at exception level and the rest below it; ERL lasts for
\* the first instruction, and ERET leads out of the handlers.
LevelIsText ==
  /\ status.exl <=> pc \in KernelText
  /\ status.erl => pc = BootPc /\ ~inDelaySlot
  /\ epc \notin KernelText

\* A branch does not cross the border, and only the dispatch enters a line.
SlotStaysInText ==
  /\ inDelaySlot => (delaypc \in KernelText <=> pc \in KernelText)
  /\ inDelaySlot /\ pc \in KernelText =>
       pc = DispatchSlot \/ delaypc \notin Lines
  /\ pc = DispatchSlot => inDelaySlot /\ delaypc = HandlerOf[exccode]

\* MTC0 to EPC in the call handler does not step into the handlers.
CallReturns ==
  pc \in {GeneralVec, DispatchSlot, CallHead} =>
    /\ exccode = "SYS" => Succ(epc) \notin KernelText
    /\ pc = CallHead => exccode = "SYS"

RefillMisses ==
  /\ pc \in {RefillVec, RefillWrite} => Matching(entryHi.vpn2) = {}
  /\ pc = RefillWrite => LoadedGlobal

FaultMatches ==
  /\ pc \in {GeneralVec, DispatchSlot} /\ exccode \in TlbCode =>
       Matching(entryHi.vpn2) # {}
  /\ pc \in {FaultHead, FaultProbe} => Matching(entryHi.vpn2) # {}
  /\ pc \in {FaultLoad, FaultWrite} => cp0Index \in Matching(entryHi.vpn2)
  /\ pc = FaultWrite => LoadedGlobal

\* Two entries for one pair are both global or both not.
GlobalTogether ==
  \A i \in Index :
    tlb[i].vpn2 # 0 => (tlb[i].g <=> GlobalPair(tlb[i].vpn2))

KernelInv ==
  /\ LevelIsText /\ SlotStaysInText /\ CallReturns
  /\ RefillMisses /\ FaultMatches /\ GlobalTogether

\* The text of the program that runs.
LEMMA RunningText ==
  ASSUME CoreType
  PROVE  OutsideText(program) /\ InsideText(program) /\ LinesText(program)
  BY KernelAssumption DEF CoreType

LEMMA TextOfLines ==
  ASSUME CoreType
  PROVE  /\ Lines \subseteq KernelText /\ KernelText \subseteq Addr
         /\ LinesText(program)
  BY RunningText, LayoutAssumption

\* A pair that the scan does not find has no entry.
LEMMA ScanFinds ==
  ASSUME NEW v, Matching(v) # {}
  PROVE  FirstMatch(v) # {}
<1>1. Matching(v) \subseteq Nat /\ Matching(v) \subseteq Index
  BY DEF Matching, Index
<1>2. PICK i \in Matching(v) : \A j \in Matching(v) : ~(<<j, i>> \in OpToRel(<, Nat))
  BY <1>1, NatLessThanWellFounded, WFMin
<1>3. \A j \in Matching(v) : ~(j < i)
  BY <1>1, <1>2 DEF OpToRel
<1>4. \A j \in Matching(v) : i <= j
  BY <1>1, <1>3
<1>5. QED
  BY <1>4 DEF FirstMatch

Instruction == CoreInstruction \/ MmuInstruction

\* What an instruction leaves alone, by its kind.
LEMMA Effects ==
  ASSUME CoreType, Instruction
  PROVE  /\ program' = program /\ exccode' = exccode
         /\ op \notin {"eret", "ei"} => status' = status
         /\ op = "ei" => status' = [ie |-> TRUE, exl |-> FALSE, erl |-> FALSE]
         /\ epc' = IF op = "mtepc" THEN Succ(epc) ELSE epc
         /\ op \notin {"asid", "mtlo", "tlbp", "tlbwi", "tlbwr"} => UNCHANGED mmu
         /\ op \notin {"tlbwi", "tlbwr"} => UNCHANGED tlb
         /\ op = "mtlo" => ExecMoveToEntryLo
         /\ op = "tlbp" => ExecTlbProbe
         /\ op = "tlbwi" => ExecTlbWriteIndexed
         /\ op = "tlbwr" => ExecTlbWriteRandom
<1>1. CASE CoreInstruction
  BY <1>1 DEF CoreInstruction, ExecAlu, ExecLoadLinked, ExecStoreConditional,
              ExecBranch, ExecLikelyNotTaken, ExecWait, ExecPowerOff,
              ExecMoveToStatus, ExecMoveToEpc, ExecEret, ExecEretInSlot,
              ExecMoveToCompare, Executes, Branch, mmu
<1>2. CASE MmuInstruction
  BY <1>2 DEF MmuInstruction, ExecMoveToEntryHi, ExecMoveToEntryLo, FixPageTable,
              ExecTlbProbe, ExecTlbWriteIndexed, ExecTlbWriteRandom, Executes,
              mmu
<1>3. QED
  BY <1>1, <1>2 DEF Instruction

\* Where an instruction goes.
LEMMA Moves ==
  ASSUME CoreType, Instruction
  PROVE  \/ op = "eret" /\ ExecEret
         \/ op = "jrexc" /\ ExecBranch /\ delaypc' = HandlerOf[exccode]
         \/ /\ ~inDelaySlot /\ op # "jrexc"
            /\ pc' \in Follows(program, pc)
            /\ inDelaySlot' => delaypc' \in Follows(program, pc)
         \/ inDelaySlot /\ op \in Branch
         \/ inDelaySlot /\ pc' = delaypc /\ ~inDelaySlot'
<1>1. /\ pc \in Addr /\ Succ(pc) \in Addr /\ Succ(Succ(pc)) \in Addr
      /\ program.target[pc] \in Addr /\ inDelaySlot \in BOOLEAN
  BY AddrClosed, ProgramType DEF CoreType
<1>2. CASE ExecEret
  BY <1>2, InstructionAt DEF ExecEret
<1>3. CASE ExecBranch
  <2>1. op \in Branch /\ inDelaySlot' = ~inDelaySlot
    BY <1>3, InstructionAt DEF ExecBranch
  <2>2. CASE inDelaySlot
    BY <2>1, <2>2
  <2>3. ASSUME ~inDelaySlot, op = "jrexc"
        PROVE  delaypc' = HandlerOf[exccode]
    BY <1>3, <2>3 DEF ExecBranch
  <2>4. ASSUME ~inDelaySlot, op # "jrexc"
        PROVE  /\ pc' \in Follows(program, pc)
               /\ delaypc' \in Follows(program, pc)
    <3>1. pc' = Succ(pc)
      BY <1>3, <2>4 DEF ExecBranch
    <3>2. op \in {"beq", "beql", "j"}
      BY <2>1, <2>4 DEF Branch
    <3>3. \/ delaypc' = program.target[pc]
          \/ delaypc' = Succ(Succ(pc)) /\ op = "beq"
      BY <1>3, <3>2 DEF ExecBranch
    <3>4. QED
      BY <1>1, <3>1, <3>2, <3>3 DEF Follows, op
  <2>5. QED
    BY <1>3, <2>1, <2>2, <2>3, <2>4
<1>4. CASE ExecLikelyNotTaken
  <2>1. op = "beql" /\ Advance(Succ(Succ(pc)))
    BY <1>4, InstructionAt DEF ExecLikelyNotTaken
  <2>2. QED
    BY <1>1, <2>1 DEF Advance, Follows, op
<1>5. CASE ExecEretInSlot
  BY <1>5 DEF ExecEretInSlot, Plain, Advance
<1>6. CASE \/ CoreInstruction /\ ~ExecEret /\ ~ExecBranch /\ ~ExecLikelyNotTaken
                             /\ ~ExecEretInSlot
           \/ MmuInstruction
  <2>1. Advance(Succ(pc))
    BY <1>6 DEF CoreInstruction, ExecAlu, ExecLoadLinked, ExecStoreConditional,
           ExecWait, ExecPowerOff, ExecMoveToStatus, ExecMoveToEpc,
           ExecMoveToCompare, MmuInstruction, ExecMoveToEntryHi,
           ExecMoveToEntryLo, FixPageTable, ExecTlbProbe, ExecTlbWriteIndexed,
           ExecTlbWriteRandom, Plain
  <2>2. op # "eret" /\ op # "jrexc"
    BY <1>6 DEF CoreInstruction, ExecAlu, ExecLoadLinked, ExecStoreConditional,
           ExecWait, ExecPowerOff, ExecMoveToStatus, ExecMoveToEpc,
           ExecMoveToCompare, MmuInstruction, ExecMoveToEntryHi,
           ExecMoveToEntryLo, FixPageTable, ExecTlbProbe, ExecTlbWriteIndexed,
           ExecTlbWriteRandom, Executes
  <2>3. QED
    BY <1>1, <2>1, <2>2 DEF Advance, Follows, op
<1>7. QED
  BY <1>2, <1>3, <1>4, <1>5, <1>6 DEF Instruction, CoreInstruction

-----------------------------------------------------------------------------
(* Exceptions come from outside the handlers.                              *)

LEMMA ExceptionsOutside ==
  ASSUME CoreType, LevelIsText, StepException
  PROVE  ~status.exl /\ ~status.erl /\ pc \notin KernelText
<1>1. OutsideText(program) /\ InsideText(program) /\ pc \in Addr
  BY RunningText DEF CoreType
<1>2. \A p, write : Lookup(p, write) # "match" => p # Unmapped /\ ~status.erl
  BY DEF Lookup
<1>3. CASE StepInterrupt
  BY <1>3 DEF StepInterrupt, Interruptible, LevelIsText
<1>4. CASE StepFetchFault
  <2>1. PageOf[pc] # Unmapped /\ ~status.erl
    BY <1>2, <1>4 DEF StepFetchFault
  <2>2. QED
    BY <1>1, <2>1 DEF InsideText, LevelIsText
<1>5. CASE StepDataFault
  <2>1. op \in Memory /\ operand # Unmapped /\ ~status.erl
    BY <1>2, <1>5 DEF StepDataFault, ReadFails, WriteFails, Memory
  <2>2. QED
    BY <1>1, <2>1 DEF InsideText, LevelIsText, op, operand
<1>6. CASE StepSyscall
  <2>1. program.op[pc] = "syscall"
    BY <1>6 DEF StepSyscall, op
  <2>2. ~status.erl
    BY <1>1, <2>1 DEF LevelIsText, OutsideText
  <2>3. QED
    BY <1>1, <2>1, <2>2 DEF InsideText, LevelIsText
<1>7. QED
  BY <1>3, <1>4, <1>5, <1>6 DEF StepException

\* What an exception does to the TLB and to what CP0 holds of it.
LEMMA ExceptionScan ==
  ASSUME TypeOK, ~status.exl, StepException
  PROVE  /\ tlb' = tlb /\ program' = program
         /\ pc' \in {RefillVec, GeneralVec} /\ ~inDelaySlot'
         /\ epc' = IF inDelaySlot THEN Pred(pc) ELSE pc
         /\ status' = [status EXCEPT !.exl = TRUE]
         /\ exccode' = "SYS" => op = "syscall"
         /\ pc' = RefillVec /\ RefillVec # GeneralVec
              => Matching(entryHi.vpn2)' = {}
         /\ pc' = GeneralVec /\ RefillVec # GeneralVec /\ exccode' \in TlbCode
              => Matching(entryHi.vpn2)' # {}
<1>1. CASE StepInterrupt
  BY <1>1 DEF StepInterrupt, handleException, Vector, mmu, TlbCode
<1>2. CASE StepSyscall
  BY <1>2 DEF StepSyscall, handleException, Vector, mmu, TlbCode
<1>3. ASSUME NEW p \in Page, NEW write \in BOOLEAN, TlbException(p, write)
      PROVE  /\ tlb' = tlb /\ program' = program
             /\ pc' \in {RefillVec, GeneralVec} /\ ~inDelaySlot'
             /\ epc' = IF inDelaySlot THEN Pred(pc) ELSE pc
             /\ status' = [status EXCEPT !.exl = TRUE]
             /\ exccode' # "SYS"
             /\ pc' = RefillVec /\ RefillVec # GeneralVec
                  => Matching(entryHi.vpn2)' = {}
             /\ Lookup(p, write) # "match" /\ pc' = GeneralVec
                /\ RefillVec # GeneralVec
                  => Matching(entryHi.vpn2)' # {}
  <2> DEFINE result == Lookup(p, write)
             code == IF result = "dirty" THEN "Mod"
                     ELSE IF write THEN "TLBS" ELSE "TLBL"
  <2>1. /\ handleException(code, result) /\ tlb' = tlb
        /\ entryHi' = [entryHi EXCEPT !.vpn2 = p \div 2]
    BY <1>3 DEF TlbException
  <2>2. entryHi'.vpn2 = p \div 2 /\ entryHi'.asid = entryHi.asid
    BY <2>1 DEF TypeOK, EntryHi
  <2>3. Matching(entryHi.vpn2)' = Matching(p \div 2)
    BY <2>1, <2>2 DEF Matching
  <2>4. result = "nomatch" => FirstMatch(p \div 2) = {}
    BY DEF Lookup
  <2>5. result \notin {"match", "nomatch"} => FirstMatch(p \div 2) # {}
    BY DEF Lookup
  <2>6. FirstMatch(p \div 2) \subseteq Matching(p \div 2)
    BY DEF FirstMatch
  <2>7. FirstMatch(p \div 2) = {} => Matching(p \div 2) = {}
    BY ScanFinds
  <2>8. code \in {"Mod", "TLBL", "TLBS"} /\ (result = "nomatch" => code # "Mod")
    OBVIOUS
  <2> HIDE DEF result, code
  <2>9. /\ program' = program /\ ~inDelaySlot' /\ exccode' = code
        /\ epc' = IF inDelaySlot THEN Pred(pc) ELSE pc
        /\ status' = [status EXCEPT !.exl = TRUE]
        /\ pc' = IF code \in {"TLBL", "TLBS"} /\ result = "nomatch"
                   THEN RefillVec ELSE GeneralVec
    BY <2>1 DEF handleException, Vector
  <2>10. pc' = RefillVec /\ RefillVec # GeneralVec
           => Matching(entryHi.vpn2)' = {}
    BY <2>3, <2>4, <2>7, <2>9
  <2>11. result # "match" /\ pc' = GeneralVec /\ RefillVec # GeneralVec
           => Matching(entryHi.vpn2)' # {}
    BY <2>3, <2>5, <2>6, <2>8, <2>9
  <2>12. QED
    BY <2>1, <2>8, <2>9, <2>10, <2>11 DEF result
<1>4. CASE StepFetchFault
  <2>1. /\ PageOf[pc] \in Page /\ TlbException(PageOf[pc], FALSE)
        /\ Lookup(PageOf[pc], FALSE) # "match"
    BY <1>4, PageAssumption DEF StepFetchFault, TypeOK
  <2>2. QED
    BY <1>3, <2>1
<1>5. CASE StepDataFault
  <2>1. operand \in Page
    BY ProgramType, TypeParts
  <2>2. (~ReadFails) \in BOOLEAN /\ TlbException(operand, ~ReadFails)
    BY <1>5 DEF StepDataFault, ReadFails
  <2>3. Lookup(operand, ~ReadFails) # "match"
    <3>1. CASE ReadFails
      BY <3>1 DEF ReadFails
    <3>2. CASE ~ReadFails
      BY <1>5, <3>2 DEF StepDataFault, WriteFails
    <3>3. QED
      BY <3>1, <3>2
  <2>4. QED
    BY <1>3, <2>1, <2>2, <2>3
<1>6. QED
  BY <1>1, <1>2, <1>4, <1>5 DEF StepException


LEMMA ExceptionKeeps ==
  ASSUME TypeOK, SlotFollowsBranch, KernelInv, StepException
  PROVE  KernelInv'
<1>1. CoreType /\ pc \in Addr
  BY TypeParts DEF CoreType
<1>2. /\ OutsideText(program) /\ LinesText(program)
      /\ InsideText(program) /\ Lines \subseteq KernelText /\ KernelText \subseteq Addr
  BY <1>1, RunningText, TextOfLines
<1>3. LevelIsText /\ GlobalTogether
  BY DEF KernelInv
<1>4. ~status.exl /\ ~status.erl /\ pc \notin KernelText
  BY <1>1, <1>3, ExceptionsOutside
<1>5. /\ tlb' = tlb /\ program' = program
      /\ pc' \in {RefillVec, GeneralVec} /\ ~inDelaySlot'
      /\ epc' = IF inDelaySlot THEN Pred(pc) ELSE pc
      /\ status' = [status EXCEPT !.exl = TRUE]
      /\ exccode' = "SYS" => op = "syscall"
  BY <1>4, ExceptionScan
<1>6. status'.exl /\ ~status'.erl
  BY <1>4, <1>5 DEF TypeOK
<1>7. pc' \in KernelText /\ pc' \in Lines
  BY <1>2, <1>5 DEF Lines
<1>8. /\ pc' # DispatchSlot /\ pc' # CallHead /\ pc' # RefillWrite
      /\ pc' \notin {FaultHead, FaultProbe, FaultLoad, FaultWrite}
      /\ RefillVec # GeneralVec
  <2>1. /\ RefillVec # GeneralVec
        /\ GeneralVec \notin {DispatchSlot, CallHead, RefillWrite, FaultHead,
                              FaultProbe, FaultLoad, FaultWrite}
        /\ RefillVec \notin {DispatchSlot, CallHead, RefillWrite, FaultHead,
                             FaultProbe, FaultWrite}
    BY <1>2 DEF LinesText
  <2>2. RefillVec # FaultLoad
    <3>1. RefillWrite # FaultWrite
      BY <1>2 DEF LinesText
    <3>2. QED
      BY <3>1 DEF RefillWrite, FaultWrite
  <2>3. QED
    BY <1>5, <2>1, <2>2
<1>9. inDelaySlot => Pred(pc) \notin KernelText /\ Succ(Pred(pc)) \notin KernelText
  <2> SUFFICES ASSUME inDelaySlot
               PROVE  Pred(pc) \notin KernelText /\ Succ(Pred(pc)) \notin KernelText
    OBVIOUS
  <2> DEFINE a == Pred(pc)
  <2>1. a \in Addr /\ Succ(a) = pc
    BY <1>1, AddrClosed
  <2>2. program.op[a] \in Branch
    BY DEF SlotFollowsBranch
  <2> HIDE DEF a
  <2>3. pc \in Follows(program, a)
    BY <1>1, <2>1, <2>2 DEF Follows, Branch
  <2>4. ASSUME a \in KernelText PROVE FALSE
    <3>1. a = DispatchSlot
      BY <1>2, <1>4, <2>3, <2>4 DEF InsideText
    <3>2. QED
      BY <1>2, <2>2, <3>1 DEF LinesText, Branch
  <2>5. QED
    BY <1>4, <2>1, <2>4 DEF a
<1>10. exccode' = "SYS" /\ ~inDelaySlot => Succ(pc) \notin KernelText
  <2> SUFFICES ASSUME exccode' = "SYS", ~inDelaySlot
               PROVE  Succ(pc) \notin KernelText
    OBVIOUS
  <2>1. program.op[pc] = "syscall"
    BY <1>5 DEF op
  <2>2. Succ(pc) \in Follows(program, pc)
    BY <1>1, <2>1, AddrClosed DEF Follows
  <2>3. QED
    BY <1>1, <1>2, <1>4, <2>2 DEF OutsideText
<1>11. LevelIsText'
  BY <1>4, <1>5, <1>6, <1>7, <1>9 DEF LevelIsText
<1>12. SlotStaysInText'
  BY <1>5, <1>8 DEF SlotStaysInText, DispatchSlot
<1>13. CallReturns'
  BY <1>5, <1>8, <1>9, <1>10
     DEF CallReturns, DispatchSlot, CallHead, Succ
<1>14. RefillMisses'
  BY <1>4, <1>8, ExceptionScan DEF RefillMisses, RefillWrite
<1>15. FaultMatches'
  BY <1>4, <1>5, <1>8, ExceptionScan
     DEF FaultMatches, DispatchSlot, FaultHead, FaultProbe, FaultLoad, FaultWrite
<1>16. GlobalTogether'
  BY <1>3, <1>5 DEF GlobalTogether, GlobalPair
<1>17. QED
  BY <1>11, <1>12, <1>13, <1>14, <1>15, <1>16 DEF KernelInv

-----------------------------------------------------------------------------
(* Outside the handlers, and on the way out of them.                       *)

LEMMA LeavesAlone ==
  ASSUME CoreType, LevelIsText, Instruction, pc \notin KernelText
  PROVE  /\ program' = program /\ exccode' = exccode
         /\ epc' = epc /\ UNCHANGED tlb
         /\ ~status'.exl /\ ~status'.erl
         /\ op # "jrexc"
<1>1. OutsideText(program) /\ pc \in Addr
  BY RunningText DEF CoreType
<1>2. /\ op \notin {"jrexc", "mtepc", "tlbwr", "tlbwi"}
      /\ status.erl => op = "ei"
  BY <1>1 DEF OutsideText, op, LevelIsText
<1>3. ~status.exl
  BY DEF LevelIsText
<1>4. ~status'.exl /\ ~status'.erl
  <2>1. CASE op = "eret"
    <3>1. ExecEret \/ UNCHANGED status
      BY <2>1 DEF Instruction, CoreInstruction, MmuInstruction, ExecAlu,
            ExecLoadLinked, ExecStoreConditional, ExecBranch, ExecLikelyNotTaken,
            ExecWait, ExecPowerOff, ExecMoveToStatus, ExecMoveToEpc,
            ExecEretInSlot, ExecMoveToCompare, ExecMoveToEntryHi,
            ExecMoveToEntryLo, FixPageTable, ExecTlbProbe, ExecTlbWriteIndexed,
            ExecTlbWriteRandom, Executes
    <3>2. QED
      BY <1>2, <1>3, <2>1, <3>1 DEF ExecEret, CoreType
  <2>2. CASE op # "eret"
    BY <1>2, <1>3, <2>2, Effects
  <2>3. QED
    BY <2>1, <2>2
<1>5. QED
  BY <1>2, <1>4, Effects

LEMMA OutsideKeeps ==
  ASSUME TypeOK, SlotFollowsBranch, KernelInv, Instruction, pc \notin KernelText
  PROVE  KernelInv' /\ UNCHANGED tlb
<1>1. CoreType /\ pc \in Addr /\ inDelaySlot \in BOOLEAN
  BY TypeParts DEF CoreType
<1>2. /\ LevelIsText /\ SlotStaysInText /\ GlobalTogether
      /\ OutsideText(program) /\ Lines \subseteq KernelText
      /\ {ErrorEpc} \cap KernelText = {}
  BY <1>1, RunningText, LayoutAssumption DEF KernelInv
<1>3. /\ program' = program /\ exccode' = exccode /\ epc' = epc /\ UNCHANGED tlb
      /\ ~status'.exl /\ ~status'.erl /\ op # "jrexc"
  BY <1>1, <1>2, LeavesAlone
<1>4. Follows(program, pc) \cap KernelText = {}
  BY <1>1, <1>2 DEF OutsideText
<1>5. pc' \notin KernelText /\ (inDelaySlot' => delaypc' \notin KernelText)
  <2>1. CASE ExecEret
    BY <1>2, <2>1 DEF ExecEret, LevelIsText
  <2>2. CASE /\ ~inDelaySlot /\ pc' \in Follows(program, pc)
             /\ inDelaySlot' => delaypc' \in Follows(program, pc)
    BY <1>4, <2>2
  <2>3. CASE inDelaySlot /\ pc' = delaypc /\ ~inDelaySlot'
    BY <1>2, <2>3 DEF SlotStaysInText
  <2>4. inDelaySlot => op \notin Branch
    BY <1>1, NoBranchInSlot
  <2>5. QED
    BY <1>1, <1>3, <2>1, <2>2, <2>3, <2>4, Moves
<1>6. LevelIsText'
  BY <1>2, <1>3, <1>5 DEF LevelIsText
<1>7. pc' \notin Lines
  BY <1>2, <1>5
<1>8. SlotStaysInText' /\ CallReturns' /\ RefillMisses' /\ FaultMatches'
  BY <1>5, <1>7
     DEF SlotStaysInText, CallReturns, RefillMisses, FaultMatches, Lines,
         RefillWrite, DispatchSlot, FaultHead, FaultProbe, FaultLoad,
         FaultWrite, CallHead
<1>9. GlobalTogether'
  BY <1>2, <1>3 DEF GlobalTogether, GlobalPair
<1>10. QED
  BY <1>3, <1>6, <1>8, <1>9 DEF KernelInv

LEMMA ReturnKeeps ==
  ASSUME TypeOK, KernelInv, ExecEret, pc \in KernelText
  PROVE  KernelInv' /\ UNCHANGED tlb
<1>1. /\ LevelIsText /\ GlobalTogether /\ Lines \subseteq KernelText
      /\ BootPc \notin KernelText
  BY LayoutAssumption DEF KernelInv
<1>2. ~status.erl /\ epc \notin KernelText
  BY <1>1 DEF LevelIsText
<1>3. /\ pc' = epc /\ status' = [status EXCEPT !.exl = FALSE] /\ UNCHANGED tlb
      /\ ~inDelaySlot' /\ epc' = epc
  BY <1>2 DEF ExecEret, mmu
<1>4. pc' \notin KernelText /\ pc' \notin Lines
  BY <1>1, <1>2, <1>3
<1>5. ~status'.exl /\ ~status'.erl
  BY <1>2, <1>3 DEF TypeOK
<1>6. LevelIsText'
  BY <1>2, <1>3, <1>4, <1>5 DEF LevelIsText
<1>7. SlotStaysInText' /\ CallReturns' /\ RefillMisses' /\ FaultMatches'
  BY <1>3, <1>4
     DEF SlotStaysInText, CallReturns, RefillMisses, FaultMatches, Lines,
         RefillWrite, DispatchSlot, FaultHead, FaultProbe, FaultLoad,
         FaultWrite, CallHead
<1>8. GlobalTogether'
  BY <1>1, <1>3 DEF GlobalTogether, GlobalPair
<1>9. QED
  BY <1>3, <1>6, <1>7, <1>8 DEF KernelInv

-----------------------------------------------------------------------------
(* Along the handlers.                                                     *)

LEMMA InsideMoves ==
  ASSUME TypeOK, SlotFollowsBranch, KernelInv, Instruction, pc \in KernelText,
         ~ExecEret
  PROVE  /\ status' = status /\ pc' \in KernelText
         /\ pc' \notin {RefillVec, GeneralVec}
         /\ pc' = RefillWrite => pc = RefillVec
         /\ pc' = DispatchSlot =>
              pc = GeneralVec /\ inDelaySlot' /\ delaypc' = HandlerOf[exccode]
         /\ pc' = FaultHead => pc = DispatchSlot /\ exccode \in TlbCode
         /\ pc' = CallHead => pc = DispatchSlot /\ exccode = "SYS"
         /\ pc' = FaultProbe => pc = FaultHead
         /\ pc' = FaultLoad => pc = FaultProbe
         /\ pc' = FaultWrite => pc = FaultLoad
         /\ inDelaySlot' =>
              delaypc' \in KernelText /\ (pc' = DispatchSlot \/ delaypc' \notin Lines)
<1>1. CoreType /\ pc \in Addr /\ inDelaySlot \in BOOLEAN /\ exccode \in ExcCode
  BY TypeParts DEF CoreType
<1>2. /\ LevelIsText /\ SlotStaysInText
      /\ InsideText(program) /\ LinesText(program) /\ Lines \subseteq KernelText
  BY <1>1, RunningText, TextOfLines DEF KernelInv
<1>3. /\ HandlerOf["Int"] \in KernelText \ Lines
      /\ \A c \in TlbCode : HandlerOf[c] = FaultHead
      /\ HandlerOf["SYS"] = CallHead
  BY LayoutAssumption DEF CallHead
<1>4. op # "ei" /\ (op = "jrexc" => pc = GeneralVec)
  BY <1>2 DEF InsideText, op
<1>5. inDelaySlot => op \notin Branch
  BY <1>1, <1>2, NoBranchInSlot DEF KernelInv
<1>6. status' = status
  <2>1. op = "eret" => UNCHANGED status
    BY DEF Instruction, CoreInstruction, MmuInstruction, ExecAlu,
           ExecLoadLinked, ExecStoreConditional, ExecBranch, ExecLikelyNotTaken,
           ExecWait, ExecPowerOff, ExecMoveToStatus, ExecMoveToEpc,
           ExecEretInSlot, ExecMoveToCompare, ExecMoveToEntryHi,
           ExecMoveToEntryLo, FixPageTable, ExecTlbProbe, ExecTlbWriteIndexed,
           ExecTlbWriteRandom, Executes
  <2>2. QED
    BY <1>1, <1>4, <2>1, Effects
<1>7. /\ RefillVec \in Lines /\ GeneralVec \in Lines /\ RefillWrite \in Lines
      /\ DispatchSlot \in Lines /\ FaultHead \in Lines /\ CallHead \in Lines
      /\ FaultProbe \in Lines /\ FaultLoad \in Lines /\ FaultWrite \in Lines
  BY DEF Lines
<1>8. CASE op = "jrexc" /\ ExecBranch /\ delaypc' = HandlerOf[exccode]
  <2>1. pc = GeneralVec /\ ~inDelaySlot
    BY <1>4, <1>5, <1>8 DEF Branch
  <2>2. pc' = DispatchSlot
    BY <1>8, <2>1 DEF ExecBranch, DispatchSlot
  <2>3. inDelaySlot'
    BY <1>8, <2>1 DEF ExecBranch
  <2>4. /\ DispatchSlot \notin {RefillVec, GeneralVec, RefillWrite, FaultHead,
                                CallHead, FaultProbe, FaultLoad, FaultWrite}
    BY <1>2 DEF LinesText
  <2>5. delaypc' \in KernelText
    BY <1>1, <1>2, <1>3, <1>7, <1>8 DEF ExcCode, TlbCode
  <2>6. QED
    BY <1>2, <1>6, <1>7, <1>8, <2>1, <2>2, <2>3, <2>4, <2>5
<1>9. CASE /\ ~inDelaySlot /\ op # "jrexc"
           /\ pc' \in Follows(program, pc)
           /\ inDelaySlot' => delaypc' \in Follows(program, pc)
  <2>1. pc # DispatchSlot /\ pc # GeneralVec
    BY <1>2, <1>9 DEF SlotStaysInText, LinesText, op
  <2>2. \A b \in Follows(program, pc) :
          b \in KernelText /\ (b \in Lines => <<pc, b>> \in Along)
    BY <1>2, <2>1 DEF InsideText
  <2>3. pc' \in KernelText /\ (pc' \in Lines => <<pc, pc'>> \in Along)
    BY <1>9, <2>2
  <2>4. /\ RefillVec \notin {RefillWrite, DispatchSlot, FaultProbe, FaultWrite}
        /\ GeneralVec \notin {RefillWrite, DispatchSlot, FaultProbe, FaultLoad,
                              FaultWrite}
        /\ FaultHead \notin {RefillWrite, DispatchSlot, FaultProbe, FaultLoad,
                             FaultWrite}
        /\ CallHead \notin {RefillWrite, DispatchSlot, FaultProbe, FaultLoad,
                            FaultWrite}
        /\ RefillWrite \notin {DispatchSlot, FaultProbe, FaultLoad, FaultWrite}
        /\ DispatchSlot \notin {FaultProbe, FaultLoad, FaultWrite}
        /\ FaultProbe \notin {FaultLoad, FaultWrite}
        /\ FaultLoad # FaultWrite
    BY <1>2 DEF LinesText
  <2>5. RefillVec # FaultLoad
    BY <2>4 DEF RefillWrite, FaultWrite
  <2>6. /\ pc' \notin {RefillVec, GeneralVec, FaultHead, CallHead}
        /\ pc' = RefillWrite => pc = RefillVec
        /\ pc' # DispatchSlot
        /\ pc' = FaultProbe => pc = FaultHead
        /\ pc' = FaultLoad => pc = FaultProbe
        /\ pc' = FaultWrite => pc = FaultLoad
    BY <1>7, <2>1, <2>3, <2>4, <2>5 DEF Along
  <2>7. inDelaySlot' => delaypc' \in KernelText /\ delaypc' \notin Lines
    <3> SUFFICES ASSUME inDelaySlot'
                 PROVE  delaypc' \in KernelText /\ delaypc' \notin Lines
      OBVIOUS
    <3>1. ExecBranch
      BY DEF Instruction, CoreInstruction, MmuInstruction, ExecAlu,
           ExecLoadLinked, ExecStoreConditional, ExecLikelyNotTaken,
           ExecWait, ExecPowerOff, ExecMoveToStatus, ExecMoveToEpc, ExecEret,
           ExecEretInSlot, ExecMoveToCompare, ExecMoveToEntryHi,
           ExecMoveToEntryLo, FixPageTable, ExecTlbProbe, ExecTlbWriteIndexed,
           ExecTlbWriteRandom, Plain, Advance
    <3>2. program.op[pc] \in Branch
      BY <3>1, InstructionAt DEF ExecBranch, op
    <3>3. delaypc' \in KernelText /\ (delaypc' \in Lines => <<pc, delaypc'>> \in Along)
      BY <1>9, <2>2
    <3>4. pc \notin {RefillVec, FaultHead, FaultProbe, FaultLoad}
      BY <1>2, <3>2 DEF LinesText, Branch
    <3>5. QED
      BY <2>1, <3>3, <3>4 DEF Along
  <2>8. QED
    BY <1>6, <2>3, <2>6, <2>7
<1>10. CASE inDelaySlot /\ pc' = delaypc /\ ~inDelaySlot'
  <2>1. pc' \in KernelText
    BY <1>2, <1>10 DEF SlotStaysInText
  <2>2. CASE pc # DispatchSlot
    <3>1. pc' \notin Lines
      BY <1>2, <1>10, <2>2 DEF SlotStaysInText
    <3>2. QED
      BY <1>6, <1>7, <1>10, <2>1, <3>1
  <2>3. CASE pc = DispatchSlot
    <3>1. pc' = HandlerOf[exccode]
      BY <1>2, <1>10, <2>3 DEF SlotStaysInText
    <3>2. /\ FaultHead \notin {RefillVec, GeneralVec, RefillWrite, DispatchSlot,
                               CallHead, FaultProbe, FaultLoad, FaultWrite}
          /\ CallHead \notin {RefillVec, GeneralVec, RefillWrite, DispatchSlot,
                              FaultHead, FaultProbe, FaultLoad, FaultWrite}
      BY <1>2 DEF LinesText
    <3>3. \/ exccode = "Int" /\ pc' \notin Lines
          \/ exccode = "SYS" /\ pc' = CallHead
          \/ exccode \in TlbCode /\ pc' = FaultHead
      BY <1>1, <1>3, <3>1 DEF ExcCode, TlbCode
    <3>4. QED
      BY <1>6, <1>7, <1>10, <2>1, <2>3, <3>2, <3>3
  <2>4. QED
    BY <2>2, <2>3
<1>11. QED
  BY <1>1, <1>5, <1>8, <1>9, <1>10, Moves

\* mtlo brings the G bits of the pair in EntryHi.
LEMMA LoadsGlobal ==
  ASSUME TypeOK, ExecMoveToEntryLo
  PROVE  /\ tlb' = tlb /\ entryHi' = entryHi /\ cp0Index' = cp0Index
         /\ LoadedGlobal'
<1>1. tlb' = tlb /\ entryHi' = entryHi /\ cp0Index' = cp0Index
  BY DEF ExecMoveToEntryLo
<1>2. entryHi.vpn2 \in Int
  BY PageAssumption DEF TypeOK, EntryHi, Vpn2
<1>3. entryLo' = [h \in Half |-> LET p == 2 * entryHi.vpn2 + h
                                 IN [v |-> Pte(p) \in present,
                                     d |-> Pte(p) \in written,
                                     g |-> p \in GlobalPages]]
  BY DEF ExecMoveToEntryLo
<1>4. /\ entryLo'[0].g <=> 2 * entryHi.vpn2 + 0 \in GlobalPages
      /\ entryLo'[1].g <=> 2 * entryHi.vpn2 + 1 \in GlobalPages
  BY <1>3 DEF Half
<1>5. 2 * entryHi.vpn2 + 0 = 2 * entryHi.vpn2
  BY <1>2
<1>6. QED
  BY <1>1, <1>4, <1>5 DEF LoadedGlobal, GlobalPair

\* The probe finds an entry when one matches.
LEMMA ProbeFinds ==
  ASSUME ExecTlbProbe, Matching(entryHi.vpn2) # {}
  PROVE  cp0Index' \in Matching(entryHi.vpn2)'
<1>1. FirstMatch(entryHi.vpn2) # {}
  BY ScanFinds
<1>2. cp0Index' \in FirstMatch(entryHi.vpn2) /\ tlb' = tlb /\ entryHi' = entryHi
  BY <1>1 DEF ExecTlbProbe
<1>3. QED
  BY <1>2 DEF FirstMatch, Matching

\* Everything but the TLB itself.
LEMMA InsideKeeps ==
  ASSUME TypeOK, SlotFollowsBranch, KernelInv, Instruction, pc \in KernelText,
         ~ExecEret
  PROVE  /\ LevelIsText' /\ SlotStaysInText' /\ CallReturns'
         /\ RefillMisses' /\ FaultMatches'
<1>1. CoreType /\ pc \in Addr
  BY TypeParts DEF CoreType
<1>2. /\ LevelIsText /\ SlotStaysInText /\ CallReturns /\ RefillMisses
      /\ FaultMatches /\ InsideText(program) /\ LinesText(program)
      /\ BootPc \notin KernelText
  BY <1>1, RunningText, LayoutAssumption DEF KernelInv
<1>3. /\ status' = status /\ pc' \in KernelText
      /\ pc' \notin {RefillVec, GeneralVec}
      /\ pc' = RefillWrite => pc = RefillVec
      /\ pc' = DispatchSlot =>
           pc = GeneralVec /\ inDelaySlot' /\ delaypc' = HandlerOf[exccode]
      /\ pc' = FaultHead => pc = DispatchSlot /\ exccode \in TlbCode
      /\ pc' = CallHead => pc = DispatchSlot /\ exccode = "SYS"
      /\ pc' = FaultProbe => pc = FaultHead
      /\ pc' = FaultLoad => pc = FaultProbe
      /\ pc' = FaultWrite => pc = FaultLoad
      /\ inDelaySlot' =>
           delaypc' \in KernelText /\ (pc' = DispatchSlot \/ delaypc' \notin Lines)
  BY InsideMoves
<1>4. exccode' = exccode /\ epc' = IF op = "mtepc" THEN Succ(epc) ELSE epc
  BY <1>1, Effects
<1>5. /\ pc = RefillVec => op = "mtlo"
      /\ pc = GeneralVec => op = "jrexc"
      /\ pc = DispatchSlot => op = "alu"
      /\ pc = FaultHead => op = "fixpte"
      /\ pc = FaultProbe => op = "tlbp"
      /\ pc = FaultLoad => op = "mtlo"
  BY <1>2 DEF LinesText, op
<1>6. op = "mtepc" => pc = CallHead
  BY <1>2 DEF InsideText, op
<1>7. LevelIsText'
  <2>1. ~status.erl
    BY <1>2 DEF LevelIsText
  <2>2. epc' \notin KernelText
    BY <1>2, <1>4, <1>6 DEF LevelIsText, CallReturns
  <2>3. QED
    BY <1>2, <1>3, <2>1, <2>2 DEF LevelIsText
<1>8. SlotStaysInText'
  BY <1>3, <1>4
     DEF SlotStaysInText, DispatchSlot, Lines, RefillWrite, FaultHead,
         FaultProbe, FaultLoad, FaultWrite, CallHead
<1>9. CallReturns'
  <2>1. pc' \in {GeneralVec, DispatchSlot, CallHead} => epc' = epc
    BY <1>3, <1>4, <1>5
  <2>2. pc' \in {GeneralVec, DispatchSlot, CallHead}
          => pc \in {GeneralVec, DispatchSlot, CallHead}
             /\ (pc' = CallHead => exccode = "SYS")
    BY <1>3
  <2>3. QED
    BY <1>2, <1>4, <2>1, <2>2 DEF CallReturns, DispatchSlot, CallHead, Succ
<1>10. RefillMisses'
  <2> SUFFICES ASSUME pc' = RefillWrite
               PROVE  Matching(entryHi.vpn2)' = {} /\ LoadedGlobal'
    BY <1>3 DEF RefillMisses, RefillWrite
  <2>1. pc = RefillVec /\ ExecMoveToEntryLo
    BY <1>1, <1>3, <1>5, Effects
  <2>2. Matching(entryHi.vpn2) = {}
    BY <1>2, <2>1 DEF RefillMisses
  <2>3. tlb' = tlb /\ entryHi' = entryHi /\ LoadedGlobal'
    BY <2>1, LoadsGlobal
  <2>4. QED
    BY <2>2, <2>3 DEF Matching
<1>11. FaultMatches'
  <2>1. ASSUME pc' = DispatchSlot, exccode' \in TlbCode
        PROVE  Matching(entryHi.vpn2)' # {}
    <3>1. pc = GeneralVec /\ exccode \in TlbCode /\ UNCHANGED mmu
      BY <1>1, <1>3, <1>4, <1>5, <2>1, Effects
    <3>2. QED
      BY <1>2, <3>1 DEF FaultMatches, Matching, mmu
  <2>2. ASSUME pc' = FaultHead
        PROVE  Matching(entryHi.vpn2)' # {}
    <3>1. pc = DispatchSlot /\ exccode \in TlbCode /\ UNCHANGED mmu
      BY <1>1, <1>3, <1>4, <1>5, <2>2, Effects
    <3>2. QED
      BY <1>2, <3>1 DEF FaultMatches, Matching, mmu
  <2>3. ASSUME pc' = FaultProbe
        PROVE  Matching(entryHi.vpn2)' # {}
    <3>1. pc = FaultHead /\ UNCHANGED mmu
      BY <1>1, <1>3, <1>5, <2>3, Effects
    <3>2. QED
      BY <1>2, <3>1 DEF FaultMatches, Matching, mmu
  <2>4. ASSUME pc' = FaultLoad
        PROVE  cp0Index' \in Matching(entryHi.vpn2)'
    <3>1. pc = FaultProbe /\ ExecTlbProbe
      BY <1>1, <1>3, <1>5, <2>4, Effects
    <3>2. Matching(entryHi.vpn2) # {}
      BY <1>2, <3>1 DEF FaultMatches
    <3>3. QED
      BY <3>1, <3>2, ProbeFinds
  <2>5. ASSUME pc' = FaultWrite
        PROVE  cp0Index' \in Matching(entryHi.vpn2)' /\ LoadedGlobal'
    <3>1. pc = FaultLoad /\ ExecMoveToEntryLo
      BY <1>1, <1>3, <1>5, <2>5, Effects
    <3>2. cp0Index \in Matching(entryHi.vpn2)
      BY <1>2, <3>1 DEF FaultMatches
    <3>3. /\ tlb' = tlb /\ entryHi' = entryHi /\ cp0Index' = cp0Index
          /\ LoadedGlobal'
      BY <3>1, LoadsGlobal
    <3>4. QED
      BY <3>2, <3>3 DEF Matching
  <2>6. QED
    BY <1>3, <2>1, <2>2, <2>3, <2>4, <2>5
       DEF FaultMatches, DispatchSlot, FaultHead, FaultProbe, FaultLoad, FaultWrite
<1>12. QED
  BY <1>7, <1>8, <1>9, <1>10, <1>11

-----------------------------------------------------------------------------
(* The two places where the TLB is written.                                *)

\* An entry for the pair in EntryHi does no harm where every other entry for
\* that pair belongs to another address space.
LEMMA WriteKeeps ==
  ASSUME TypeOK, NoDuplicate, GlobalTogether, LoadedGlobal,
         NEW i \in Index, WriteEntry(i),
         \A j \in Index \ {i} :
           tlb[j].vpn2 = entryHi.vpn2 /\ tlb[j].vpn2 # 0 =>
             ~tlb[j].g /\ tlb[j].asid # entryHi.asid
  PROVE  NoDuplicate' /\ GlobalTogether'
<1>1. tlb \in [Index -> TlbEntry]
  BY DEF TypeOK
<1>2. /\ \A j \in Index \ {i} : tlb'[j] = tlb[j]
      /\ tlb'[i].vpn2 = entryHi.vpn2 /\ tlb'[i].asid = entryHi.asid
      /\ tlb'[i].g <=> GlobalPair(entryHi.vpn2)
  BY <1>1 DEF WriteEntry, LoadedGlobal
<1>3. GlobalTogether'
  BY <1>2 DEF GlobalTogether, GlobalPair
<1>4. \A j \in Index \ {i} :
        tlb'[j].vpn2 = tlb'[i].vpn2 /\ tlb'[i].vpn2 # 0 =>
          ~tlb'[i].g /\ ~tlb'[j].g /\ tlb'[j].asid # tlb'[i].asid
  BY <1>2 DEF GlobalTogether
<1>5. \A j, k \in Index \ {i} :
        j # k /\ tlb'[j].vpn2 = tlb'[k].vpn2 /\ tlb'[j].vpn2 # 0 =>
          ~tlb'[j].g /\ ~tlb'[k].g /\ tlb'[j].asid # tlb'[k].asid
  BY <1>2 DEF NoDuplicate
<1>6. NoDuplicate'
  BY <1>4, <1>5 DEF NoDuplicate
<1>7. QED
  BY <1>3, <1>6

LEMMA InsideWrites ==
  ASSUME TypeOK, KernelInv, NoDuplicate, Instruction, pc \in KernelText
  PROVE  NoDuplicate' /\ GlobalTogether'
<1>1. CoreType
  BY TypeParts
<1>2. /\ GlobalTogether /\ RefillMisses /\ FaultMatches /\ InsideText(program)
  BY <1>1, RunningText DEF KernelInv
<1>3. CASE op = "tlbwr"
  <2>1. pc = RefillWrite /\ ExecTlbWriteRandom
    BY <1>1, <1>2, <1>3, Effects DEF InsideText, op
  <2>2. Matching(entryHi.vpn2) = {} /\ LoadedGlobal
    BY <1>2, <2>1 DEF RefillMisses
  <2>3. Wired + randomInRange \in Index /\ WriteEntry(Wired + randomInRange)
    <3>1. randomInRange \in 0 .. Entries - Wired - 1
      BY TlbAssumption DEF randomInRange, TypeOK, Index
    <3>2. QED
      BY <2>1, <3>1, TlbAssumption DEF Index, ExecTlbWriteRandom
  <2>4. \A j \in Index :
          tlb[j].vpn2 = entryHi.vpn2 => ~tlb[j].g /\ tlb[j].asid # entryHi.asid
    BY <2>2 DEF Matching
  <2>5. QED
    BY <1>2, <2>2, <2>3, <2>4, WriteKeeps
<1>4. CASE op = "tlbwi"
  <2>1. pc = FaultWrite /\ ExecTlbWriteIndexed
    BY <1>1, <1>2, <1>4, Effects DEF InsideText, op
  <2>2. cp0Index \in Matching(entryHi.vpn2) /\ LoadedGlobal
    BY <1>2, <2>1 DEF FaultMatches
  <2>3. /\ cp0Index \in Index /\ tlb[cp0Index].vpn2 = entryHi.vpn2
        /\ tlb[cp0Index].g \/ tlb[cp0Index].asid = entryHi.asid
    BY <2>2 DEF Matching
  <2>4. WriteEntry(cp0Index)
    BY <2>1, <2>3, TlbAssumption DEF ExecTlbWriteIndexed, NotFound, Index
  <2>5. \A j \in Index \ {cp0Index} :
          tlb[j].vpn2 = entryHi.vpn2 /\ tlb[j].vpn2 # 0 =>
            ~tlb[j].g /\ tlb[j].asid # entryHi.asid
    BY <2>3 DEF NoDuplicate
  <2>6. QED
    BY <1>2, <2>2, <2>3, <2>4, <2>5, WriteKeeps
<1>5. CASE op \notin {"tlbwr", "tlbwi"}
  <2>1. UNCHANGED tlb
    BY <1>1, <1>5, Effects
  <2>2. QED
    BY <1>2, <2>1 DEF NoDuplicate, GlobalTogether, GlobalPair
<1>6. QED
  BY <1>3, <1>4, <1>5

-----------------------------------------------------------------------------

LEMMA InitKernel == Init => KernelInv /\ NoDuplicate
<1> SUFFICES ASSUME Init PROVE KernelInv /\ NoDuplicate
  OBVIOUS
<1>1. /\ 0 \notin KernelText /\ BootPc \notin KernelText /\ Lines \subseteq KernelText
  BY LayoutAssumption
<1>2. \A i \in Index : tlb[i].vpn2 = 0
  BY DEF Init
<1>3. pc = BootPc /\ pc \notin KernelText /\ pc \notin Lines
  BY <1>1 DEF Init
<1>4. LevelIsText
  BY <1>1, <1>3 DEF Init, LevelIsText
<1>5. SlotStaysInText /\ CallReturns /\ RefillMisses /\ FaultMatches
  BY <1>3 DEF Init, SlotStaysInText, CallReturns, RefillMisses, FaultMatches, Lines
<1>6. GlobalTogether /\ NoDuplicate
  BY <1>2 DEF GlobalTogether, NoDuplicate
<1>7. QED
  BY <1>4, <1>5, <1>6 DEF KernelInv

LEMMA StepKernel ==
  ASSUME IInv, KernelInv, NoDuplicate, [Next]_vars
  PROVE  KernelInv' /\ NoDuplicate'
<1>1. TypeOK /\ SlotFollowsBranch /\ CoreType
  BY TypeParts DEF IInv
<1>2. ASSUME UNCHANGED <<program, where, status, cause, mmu>>
      PROVE  KernelInv' /\ NoDuplicate'
  BY <1>2
     DEF where, cause, mmu, KernelInv, LevelIsText, SlotStaysInText, CallReturns,
         RefillMisses, FaultMatches, GlobalTogether, GlobalPair, LoadedGlobal,
         NoDuplicate, Matching, DispatchSlot, FaultHead, FaultProbe, FaultLoad,
         FaultWrite, CallHead, RefillWrite, Lines, Succ
<1>3. CASE UNCHANGED vars \/ StepOff
  BY <1>2, <1>3 DEF vars, StepOff
<1>4. CASE StepWaiting
  BY <1>2, <1>4 DEF StepWaiting
<1>5. CASE StepException
  <2>1. KernelInv'
    BY <1>1, <1>5, ExceptionKeeps
  <2>2. ~status.exl
    BY <1>1, <1>5, ExceptionsOutside DEF KernelInv
  <2>3. tlb' = tlb
    BY <1>1, <1>5, <2>2, ExceptionScan
  <2>4. QED
    BY <2>1, <2>3 DEF NoDuplicate
<1>6. CASE Instruction /\ pc \notin KernelText
  <2>1. KernelInv' /\ UNCHANGED tlb
    BY <1>1, <1>6, OutsideKeeps
  <2>2. QED
    BY <2>1 DEF NoDuplicate
<1>7. CASE ExecEret /\ pc \in KernelText
  <2>1. KernelInv' /\ UNCHANGED tlb
    BY <1>1, <1>7, ReturnKeeps
  <2>2. QED
    BY <2>1 DEF NoDuplicate
<1>8. CASE Instruction /\ pc \in KernelText /\ ~ExecEret
  <2>1. /\ LevelIsText' /\ SlotStaysInText' /\ CallReturns'
        /\ RefillMisses' /\ FaultMatches'
    BY <1>1, <1>8, InsideKeeps
  <2>2. GlobalTogether' /\ NoDuplicate'
    BY <1>1, <1>8, InsideWrites
  <2>3. QED
    BY <2>1, <2>2 DEF KernelInv
<1>9. QED
  BY <1>3, <1>4, <1>5, <1>6, <1>7, <1>8, NextCases DEF Instruction

LEMMA KernelInvariance == Spec => [](IInv /\ KernelInv /\ NoDuplicate)
<1>1. Init => KernelInv /\ NoDuplicate
  BY InitKernel
<1>2. IInv /\ KernelInv /\ NoDuplicate /\ [Next]_vars
        => KernelInv' /\ NoDuplicate'
  BY StepKernel
<1>3. QED
  BY <1>1, <1>2, Invariance, PTL DEF Spec

\* No two entries translate one page for one address space, for every kernel
\* that KernelAssumption describes: handleException takes the refill vector
\* exactly when the scan found no entry (exceptionWasNoMatch), so that TLBWR
\* adds a pair that is missing and TLBWI replaces the one that TLBP found.
THEOREM TlbHasNoDuplicates == Spec => []NoDuplicate
  BY KernelInvariance, PTL

\* A store conditional never writes when an exception came after its load
\* linked, for every such kernel: EXL is set while its handlers run and only
\* then, and their text neither lowers it but by ERET nor contains an SC.
THEOREM LinksDoNotSurvive == Spec => ScAtomic
<1> DEFINE Level == status.exl => ~ExecMoveToStatus /\ ~ExecStoreConditional
<1>1. IInv /\ KernelInv => Level
  <2> SUFFICES ASSUME IInv, KernelInv, status.exl
               PROVE  ~ExecMoveToStatus /\ ~ExecStoreConditional
    OBVIOUS
  <2>1. CoreType /\ pc \in KernelText
    BY TypeParts DEF IInv, KernelInv, LevelIsText
  <2>2. op \notin {"ei", "sc"}
    BY <2>1, RunningText DEF InsideText, op
  <2>3. QED
    BY <2>2, InstructionAt DEF ExecMoveToStatus, ExecStoreConditional
<1>2. Spec => HandlersEndWithEret
  BY <1>1, KernelInvariance, PTL DEF HandlersEndWithEret
<1>3. QED
  BY <1>2, StoreConditionalAtomic, PTL
=============================================================================
