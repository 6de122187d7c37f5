------------------------------ MODULE CmipsCore ------------------------------
(***************************************************************************)
(* The interpreter of src/emu.c.  step_mips() advances the timer, then     *)
(* takes an interrupt, sleeps, or executes one instruction; pc, delaypc    *)
(* and inDelaySlot together say where the program is.  Exceptions go to    *)
(* the guest, which refills the 16-entry software TLB itself.  Every path  *)
(* through step_mips is one action.                                        *)
(*                                                                         *)
(* Data is abstracted: an address is a small integer, an instruction is    *)
(* its kind with a branch target and the page of its operand.  The guest's *)
(* page tables and its dispatch on ExcCode are given as instruction kinds  *)
(* of their own ("mtlo", "fixpte", "jrexc").                               *)
(***************************************************************************)
EXTENDS Integers

CONSTANTS
  Size,          \* addresses (in words) are 0 .. Size-1 and wrap
  BootPc,        \* where the loader leaves pc
  RefillVec,     \* 0x80000000
  GeneralVec,    \* 0x80000180
  ErrorEpc,      \* CP0_ErrorEpc, which nothing writes
  HandlerOf,     \* the guest's handler for each exception code
  PageOf,        \* the page of an address; Unmapped for kseg0 and kseg1
  MaxPage,       \* pages are 0 .. MaxPage
  GlobalPages,   \* pages the guest maps for every address space
  Asids,         \* address spaces: 0 .. Asids-1
  Entries,       \* 16
  Wired,         \* CP0_Wired
  CountSize,     \* 2^32
  Period,        \* steps from an acknowledgement to the next timer interrupt
  Programs       \* the programs explored

Addr == 0 .. Size - 1
Page == 0 .. MaxPage
Unmapped == 0
Vpn2 == 0 .. MaxPage \div 2
Asid == 0 .. Asids - 1
Index == 0 .. Entries - 1
Half == {0, 1}

ExcCode == {"Int", "Mod", "TLBL", "TLBS", "SYS"}

\* "alu" stands for every instruction that only computes; "ei" for an MTC0 to
\* Status that sets IE and clears EXL and ERL; "ack" for an MTC0 to Compare;
\* "asid" for an MTC0 to EntryHi that switches the address space; "mtepc" for
\* an MTC0 to EPC that steps over the instruction; "off" for the byte store
\* that switches the machine off.
Op == {"alu", "lw", "sw", "swl", "ll", "sc", "beq", "beql", "j", "jrexc",
       "syscall", "wait", "ei", "ack", "asid", "mtepc", "mtlo", "fixpte",
       "tlbp", "tlbwi", "tlbwr", "eret", "off"}
Branch == {"beq", "beql", "j", "jrexc"}

Succ(a) == IF a = Size - 1 THEN 0 ELSE a + 1
Pred(a) == IF a = 0 THEN Size - 1 ELSE a - 1

ASSUME SizeAssumption == Size \in Nat \ {0}
ASSUME AddrAssumption == {BootPc, RefillVec, GeneralVec, ErrorEpc} \subseteq Addr
ASSUME HandlerAssumption == HandlerOf \in [ExcCode -> Addr]
ASSUME PageAssumption ==
  /\ MaxPage \in Nat /\ Asids \in Nat \ {0} /\ GlobalPages \subseteq Page
  /\ PageOf \in [Addr -> Page]
ASSUME TlbAssumption == Entries \in Nat \ {0} /\ Wired \in Index
ASSUME TimerAssumption == CountSize \in Nat \ {0} /\ Period \in Nat

\* The architecture leaves a branch in a delay slot undefined.
ASSUME ProgramAssumption ==
  /\ Programs \subseteq [op : [Addr -> Op], target : [Addr -> Addr],
                         data : [Addr -> Page]]
  /\ \A p \in Programs : \A a \in Addr :
       p.op[a] \in Branch => p.op[Succ(a)] \notin Branch

VARIABLES
  program,       \* text in memory, fixed
  pc, delaypc, inDelaySlot,
  status,        \* Status.IE, Status.EXL, Status.ERL
  exccode, bd,   \* Cause.ExcCode, Cause.BD
  ip,            \* Cause bit 15, external interrupt 5; its mask bit is set
  epc,
  count, compare,
  waiting,
  llbit,
  shutdown,
  tlb,
  entryHi, entryLo,
  badPage,       \* the page of CP0_BadVAddr
  cp0Index,      \* CP0_Index, NotFound when its top bit is set
  counter,       \* of randomInRange
  present, written,  \* the guest's page tables: valid and dirty pages
  broken         \* history: an exception was handled since the last LL

where   == <<pc, delaypc, inDelaySlot>>
cause   == <<exccode, bd, epc>>
timer   == <<count, compare, ip>>
mmu     == <<tlb, entryHi, entryLo, badPage, cp0Index, counter>>
tables  == <<present, written>>
link    == <<llbit, broken>>
vars == <<program, where, status, cause, timer, waiting, shutdown, mmu, tables,
          link>>

NotFound == -1

EntryLo == [v : BOOLEAN, d : BOOLEAN, g : BOOLEAN]
EntryHi == [vpn2 : Vpn2, asid : Asid]
TlbEntry == [vpn2 : Vpn2, asid : Asid, g : BOOLEAN,
             v : [Half -> BOOLEAN], d : [Half -> BOOLEAN]]

Zeros == [h \in Half |-> FALSE]

Init ==
  /\ program \in Programs
  /\ pc = BootPc /\ delaypc = 0 /\ inDelaySlot = FALSE
  /\ status = [ie |-> FALSE, exl |-> FALSE, erl |-> TRUE]
  /\ exccode = "Int" /\ bd = FALSE /\ ip = FALSE /\ epc = 0
  /\ count = 0 /\ compare = 0
  /\ waiting = FALSE /\ llbit = FALSE /\ shutdown = FALSE
  /\ tlb = [i \in Index |-> [vpn2 |-> 0, asid |-> 0, g |-> FALSE,
                             v |-> Zeros, d |-> Zeros]]
  /\ entryHi = [vpn2 |-> 0, asid |-> 0]
  /\ entryLo = [h \in Half |-> [v |-> FALSE, d |-> FALSE, g |-> FALSE]]
  /\ badPage = 0 /\ cp0Index = 0 /\ counter = 0
  /\ present = {} /\ written = {}
  /\ broken = FALSE

-----------------------------------------------------------------------------
(* The software TLB.                                                       *)

\* Entries that translate pair v in the current address space.
Matching(v) ==
  {i \in Index : tlb[i].vpn2 = v /\ (tlb[i].g \/ tlb[i].asid = entryHi.asid)}

\* The one that a scan from entry 0 finds, if any.
FirstMatch(v) == {i \in Matching(v) : \A j \in Matching(v) : i <= j}

\* translateAddress and tlb_lookup.  All pages lie in useg, which is not
\* translated at error level.
Lookup(p, write) ==
  LET found == FirstMatch(p \div 2)
  IN IF p = Unmapped \/ status.erl THEN "match"
     ELSE IF found = {} THEN "nomatch"
     ELSE IF \E i \in found : ~tlb[i].v[p % 2] THEN "invalid"
     ELSE IF write /\ \E i \in found : ~tlb[i].d[p % 2] THEN "dirty"
     ELSE "match"

\* helper_writeTlbEntry: both halves of the pair, global if both are.
WriteEntry(i) ==
  tlb' = [tlb EXCEPT ![i] =
            [vpn2 |-> entryHi.vpn2, asid |-> entryHi.asid,
             g |-> entryLo[0].g /\ entryLo[1].g,
             v |-> [h \in Half |-> entryLo[h].v],
             d |-> [h \in Half |-> entryLo[h].d]]]

-----------------------------------------------------------------------------
(* The beginning and the end of a step.                                    *)

NextCount == IF count = CountSize - 1 THEN 0 ELSE count + 1

\* Mutant of Tick: a step that only waits does not count.
TickAwake == count' = IF waiting THEN count ELSE NextCount

Tick == count' = NextCount

\* The timer interrupt as the step sees it, after the count.
Fired == ip \/ NextCount = compare

Interruptible == Fired /\ status.ie /\ ~status.exl /\ ~status.erl

\* A pending interrupt stays so until an MTC0 to Compare.
Latch == ip' = Fired /\ UNCHANGED compare

\* The step gets to fetch an instruction.
Awake == ~shutdown /\ ~Interruptible /\ ~waiting

\* Mutant of Vector: tlb_lookup does not reset exceptionWasNoMatch, so that
\* an invalid entry is taken for a missing one.
VectorNoReset(code, result) ==
  IF ~status.exl /\ code \in {"TLBL", "TLBS"} THEN RefillVec ELSE GeneralVec

\* The refill vector, for a pair that no entry matches.
Vector(code, result) ==
  IF ~status.exl /\ code \in {"TLBL", "TLBS"} /\ result = "nomatch"
  THEN RefillVec ELSE GeneralVec

\* Mutant of handleException: the delay slot is forgotten.
handleExceptionAtPc(code, result) ==
  /\ inDelaySlot' = FALSE
  /\ epc' = IF status.exl THEN epc ELSE pc
  /\ bd' = IF status.exl THEN bd ELSE inDelaySlot
  /\ exccode' = code
  /\ status' = [status EXCEPT !.exl = TRUE]
  /\ pc' = Vector(code, result)
  /\ broken' = TRUE
  /\ UNCHANGED <<delaypc, llbit, program, shutdown, tables>>

\* An exception at pc.  At exception level EPC and BD keep their values.
handleException(code, result) ==
  /\ inDelaySlot' = FALSE
  /\ epc' = IF status.exl THEN epc ELSE IF inDelaySlot THEN Pred(pc) ELSE pc
  /\ bd' = IF status.exl THEN bd ELSE inDelaySlot
  /\ exccode' = code
  /\ status' = [status EXCEPT !.exl = TRUE]
  /\ pc' = Vector(code, result)
  /\ broken' = TRUE
  /\ UNCHANGED <<delaypc, llbit, program, shutdown, tables>>

\* A failed lookup of page p; the ASID of EntryHi stays.
TlbException(p, write) ==
  LET result == Lookup(p, write)
      code == IF result = "dirty" THEN "Mod" ELSE IF write THEN "TLBS" ELSE "TLBL"
  IN /\ handleException(code, result)
     /\ entryHi' = [entryHi EXCEPT !.vpn2 = p \div 2]
     /\ badPage' = p
     /\ UNCHANGED <<tlb, entryLo, cp0Index, counter>>

-----------------------------------------------------------------------------
(* Steps that execute no instruction.                                      *)

StepOff == shutdown /\ UNCHANGED vars

StepInterrupt ==
  /\ ~shutdown /\ Interruptible
  /\ Tick /\ Latch
  /\ handleException("Int", "match")
  /\ waiting' = FALSE
  /\ UNCHANGED mmu

StepWaiting ==
  /\ ~shutdown /\ ~Interruptible /\ waiting
  /\ Tick /\ Latch
  /\ UNCHANGED <<program, where, status, cause, waiting, shutdown, mmu, tables,
                 link>>

StepFetchFault ==
  /\ Awake /\ Lookup(PageOf[pc], FALSE) # "match"
  /\ Tick /\ Latch
  /\ TlbException(PageOf[pc], FALSE)
  /\ UNCHANGED waiting

-----------------------------------------------------------------------------
(* Steps that fail in the instruction.                                     *)

op == program.op[pc]
operand == program.data[pc]
Fetched == Awake /\ Lookup(PageOf[pc], FALSE) = "match"

\* SWL reads the word before it writes it; SC writes only if the link holds.
ReadFails == op \in {"lw", "ll", "swl"} /\ Lookup(operand, FALSE) # "match"
WriteFails == /\ op \in {"sw", "swl"} \/ (op = "sc" /\ llbit)
              /\ Lookup(operand, TRUE) # "match"

StepDataFault ==
  /\ Fetched /\ (ReadFails \/ WriteFails)
  /\ Tick /\ Latch
  /\ TlbException(operand, ~ReadFails)
  /\ UNCHANGED waiting

StepSyscall ==
  /\ Fetched /\ op = "syscall"
  /\ Tick /\ Latch
  /\ handleException("SYS", "match")
  /\ UNCHANGED <<waiting, mmu>>

-----------------------------------------------------------------------------
(* Instructions.                                                           *)

Executes(kinds) ==
  /\ Fetched /\ op \in kinds /\ ~ReadFails /\ ~WriteFails
  /\ Tick
  /\ UNCHANGED <<program, exccode, bd>>

\* What step_mips does to pc after the instruction: the branch whose slot
\* this was is taken, or execution goes on to a.
Advance(a) ==
  /\ pc' = IF inDelaySlot THEN delaypc ELSE a
  /\ inDelaySlot' = FALSE
  /\ UNCHANGED delaypc

\* Nothing but pc and the timer changes, apart from what is listed.
Plain == Advance(Succ(pc)) /\ Latch

ExecAlu ==
  /\ Executes({"alu", "lw", "sw", "swl"})
  /\ Plain
  /\ UNCHANGED <<status, epc, waiting, shutdown, mmu, tables, link>>

ExecLoadLinked ==
  /\ Executes({"ll"})
  /\ Plain
  /\ llbit' = TRUE /\ broken' = FALSE
  /\ UNCHANGED <<status, epc, waiting, shutdown, mmu, tables>>

ExecStoreConditional ==
  /\ Executes({"sc"})
  /\ Plain
  /\ UNCHANGED <<status, epc, waiting, shutdown, mmu, tables, link>>

\* A branch in a slot would take the place of the first one.
ExecBranch ==
  /\ Executes(Branch)
  /\ delaypc' \in CASE op \in {"beq"} -> {program.target[pc], Succ(Succ(pc))}
                    [] op = "jrexc" -> {HandlerOf[exccode]}
                    [] OTHER -> {program.target[pc]}
  /\ pc' = IF inDelaySlot THEN delaypc' ELSE Succ(pc)
  /\ inDelaySlot' = ~inDelaySlot
  /\ Latch
  /\ UNCHANGED <<status, epc, waiting, shutdown, mmu, tables, link>>

\* A likely branch that is not taken skips its slot.
ExecLikelyNotTaken ==
  /\ Executes({"beql"})
  /\ Advance(Succ(Succ(pc))) /\ Latch
  /\ UNCHANGED <<status, epc, waiting, shutdown, mmu, tables, link>>

ExecWait ==
  /\ Executes({"wait"})
  /\ Plain
  /\ waiting' = TRUE
  /\ UNCHANGED <<status, epc, shutdown, mmu, tables, link>>

ExecPowerOff ==
  /\ Executes({"off"})
  /\ Plain
  /\ shutdown' = TRUE
  /\ UNCHANGED <<status, epc, waiting, mmu, tables, link>>

ExecMoveToStatus ==
  /\ Executes({"ei"})
  /\ Plain
  /\ status' = [ie |-> TRUE, exl |-> FALSE, erl |-> FALSE]
  /\ UNCHANGED <<epc, waiting, shutdown, mmu, tables, link>>

ExecMoveToEpc ==
  /\ Executes({"mtepc"})
  /\ Plain
  /\ epc' = Succ(epc)
  /\ UNCHANGED <<status, waiting, shutdown, mmu, tables, link>>

\* Mutant of ExecEret: the link survives the return.
ExecEretKeepsLink ==
  /\ Executes({"eret"}) /\ ~inDelaySlot
  /\ IF status.erl
       THEN pc' = ErrorEpc /\ status' = [status EXCEPT !.erl = FALSE]
       ELSE pc' = epc /\ status' = [status EXCEPT !.exl = FALSE]
  /\ Latch
  /\ UNCHANGED <<delaypc, inDelaySlot, epc, waiting, shutdown, mmu, tables,
                 link>>

ExecEret ==
  /\ Executes({"eret"}) /\ ~inDelaySlot
  /\ llbit' = FALSE
  /\ IF status.erl
       THEN pc' = ErrorEpc /\ status' = [status EXCEPT !.erl = FALSE]
       ELSE pc' = epc /\ status' = [status EXCEPT !.exl = FALSE]
  /\ Latch
  /\ UNCHANGED <<delaypc, inDelaySlot, epc, waiting, shutdown, mmu, tables,
                 broken>>

\* In a delay slot ERET does nothing at all.
ExecEretInSlot ==
  /\ Executes({"eret"}) /\ inDelaySlot
  /\ Plain
  /\ UNCHANGED <<status, epc, waiting, shutdown, mmu, tables, link>>

-----------------------------------------------------------------------------
(* Instructions that the guest's handlers use.                             *)

\* MTC0 to Compare acknowledges the interrupt and sets the next one.
ExecMoveToCompare ==
  /\ Executes({"ack"})
  /\ Advance(Succ(pc))
  /\ ip' = FALSE /\ compare' = (NextCount + Period) % CountSize
  /\ UNCHANGED <<status, epc, waiting, shutdown, mmu, tables, link>>

ExecMoveToEntryHi ==
  /\ Executes({"asid"})
  /\ Plain
  /\ \E a \in Asid \ {entryHi.asid} : entryHi' = [vpn2 |-> 0, asid |-> a]
  /\ UNCHANGED <<status, epc, waiting, shutdown, tlb, entryLo, badPage,
                 cp0Index, counter, tables, link>>

\* The guest's page table entry for page p.
Pte(p) == <<IF p \in GlobalPages THEN 0 ELSE entryHi.asid, p>>

\* MTC0 to both EntryLo registers, from the page tables.
ExecMoveToEntryLo ==
  /\ Executes({"mtlo"})
  /\ Plain
  /\ entryLo' = [h \in Half |-> LET p == 2 * entryHi.vpn2 + h
                                IN [v |-> Pte(p) \in present,
                                    d |-> Pte(p) \in written,
                                    g |-> p \in GlobalPages]]
  /\ UNCHANGED <<status, epc, waiting, shutdown, tlb, entryHi, badPage,
                 cp0Index, counter, tables, link>>

\* The guest makes the faulting page present, and dirty after a store.
FixPageTable ==
  /\ Executes({"fixpte"})
  /\ Plain
  /\ present' = present \cup {Pte(badPage)}
  /\ written' = IF exccode \in {"Mod", "TLBS"}
                  THEN written \cup {Pte(badPage)} ELSE written
  /\ UNCHANGED <<status, epc, waiting, shutdown, mmu, link>>

ExecTlbProbe ==
  /\ Executes({"tlbp"})
  /\ Plain
  /\ LET found == FirstMatch(entryHi.vpn2)
     IN cp0Index' \in IF found = {} THEN {NotFound} ELSE found
  /\ UNCHANGED <<status, epc, waiting, shutdown, tlb, entryHi, entryLo, badPage,
                 counter, tables, link>>

\* The index is cut to four bits, so that NotFound writes entry 0.
ExecTlbWriteIndexed ==
  /\ Executes({"tlbwi"})
  /\ Plain
  /\ WriteEntry(IF cp0Index = NotFound THEN 0 ELSE cp0Index)
  /\ UNCHANGED <<status, epc, waiting, shutdown, entryHi, entryLo, badPage,
                 cp0Index, counter, tables, link>>

\* Mutants of randomInRange: the counter never wraps, or never moves.
UnboundedRandom == counter + 1
FixedRandom == counter

\* The counter of randomInRange, as the offset from Wired that it selects.
randomInRange == (counter + 1) % (Entries - Wired)

ExecTlbWriteRandom ==
  /\ Executes({"tlbwr"})
  /\ Plain
  /\ counter' = randomInRange
  /\ WriteEntry(Wired + randomInRange)
  /\ UNCHANGED <<status, epc, waiting, shutdown, entryHi, entryLo, badPage,
                 cp0Index, tables, link>>

-----------------------------------------------------------------------------

Next ==
  \/ StepOff \/ StepInterrupt \/ StepWaiting
  \/ StepFetchFault \/ StepDataFault \/ StepSyscall
  \/ ExecAlu \/ ExecLoadLinked \/ ExecStoreConditional
  \/ ExecBranch \/ ExecLikelyNotTaken
  \/ ExecWait \/ ExecPowerOff
  \/ ExecMoveToStatus \/ ExecMoveToEpc \/ ExecEret \/ ExecEretInSlot
  \/ ExecMoveToCompare \/ ExecMoveToEntryHi \/ ExecMoveToEntryLo
  \/ FixPageTable \/ ExecTlbProbe \/ ExecTlbWriteIndexed \/ ExecTlbWriteRandom

Spec == Init /\ [][Next]_vars

\* runEmulator() calls step_mips() until the machine is switched off.
FairSpec == Spec /\ WF_vars(Next)

-----------------------------------------------------------------------------
(* Properties.                                                             *)

\* Every register of the model stays in its range, the replacement counter
\* and the addresses computed by branches, exceptions and ERET included.
TypeOK ==
  /\ program \in Programs
  /\ pc \in Addr /\ delaypc \in Addr /\ inDelaySlot \in BOOLEAN
  /\ status \in [ie : BOOLEAN, exl : BOOLEAN, erl : BOOLEAN]
  /\ exccode \in ExcCode /\ bd \in BOOLEAN /\ ip \in BOOLEAN /\ epc \in Addr
  /\ count \in 0 .. CountSize - 1 /\ compare \in 0 .. CountSize - 1
  /\ waiting \in BOOLEAN /\ llbit \in BOOLEAN /\ shutdown \in BOOLEAN
  /\ tlb \in [Index -> TlbEntry]
  /\ entryHi \in EntryHi /\ entryLo \in [Half -> EntryLo]
  /\ badPage \in Page /\ cp0Index \in Index \cup {NotFound}
  /\ counter \in 0 .. Entries - Wired - 1
  /\ present \subseteq Asid \X Page /\ written \subseteq Asid \X Page
  /\ broken \in BOOLEAN

\* Two entries never translate one pair for one address space.  tlb_lookup
\* takes the first match, so that a second one would be a stale translation;
\* only the choice between the refill vector and the general one, made from
\* exceptionWasNoMatch, keeps the guest from writing one.
NoDuplicate ==
  \A i, j \in Index :
    i # j /\ tlb[i].vpn2 = tlb[j].vpn2 /\ tlb[i].vpn2 # 0 =>
      ~tlb[i].g /\ ~tlb[j].g /\ tlb[i].asid # tlb[j].asid

\* A store conditional never writes when an exception came between it and the
\* load linked.  Exceptions leave llbit alone: the ERET of the handler clears it.
ScAtomic == [][ExecStoreConditional /\ llbit => ~broken]_vars

\* step_mips executes the program in the order the architecture prescribes,
\* whatever combination of interrupts, page faults, delay slots and annulled
\* slots it meets.
Flow == INSTANCE MipsFlow WITH
  npc <- IF inDelaySlot THEN delaypc ELSE Succ(pc), slot <- inDelaySlot,
  exl <- status.exl, erl <- status.erl, Vectors <- {RefillVec, GeneralVec}

ImplementsFlow == Flow!Spec

\* A waiting core wakes up: Count runs on while step_mips returns early.
WaitWakes == waiting ~> ~waiting

\* An instruction in a mapped page completes.
UserInstruction ==
  /\ PageOf[pc] # Unmapped
  /\ Fetched /\ ~ReadFails /\ ~WriteFails /\ op # "syscall"
  /\ Next

\* The user program goes on until it switches the machine off: the refills of
\* the pages that one instruction and its branch need do not evict each other.
UserProgress == []<><<UserInstruction>>_vars \/ <>shutdown
=============================================================================
