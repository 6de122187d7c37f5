--------------------------- MODULE Vr4300Pipeline ---------------------------
(***************************************************************************)
(* The five-stage pipeline of the VR4300 core (vr4300/pipeline.c) together *)
(* with the interlocks and exceptions of vr4300/fault.c, ERET and MTC0 of  *)
(* vr4300/cp0.c and the control side of the EX functions of functions.c.   *)
(*                                                                         *)
(* vr4300_cycle() runs the stages backwards, WB DC EX RF IC, each reading  *)
(* the latch the stage before it filled on the previous pclock.  A stage   *)
(* may abort the rest of the cycle and name, in the register               *)
(* PIPELINE_CYCLE_TYPE, where the next cycle resumes.  Two drivers exist:  *)
(* the fast one never looks at the fault field of a latch, the slow one    *)
(* skips faulted latches.  Here every stage function is one action, and    *)
(* `stage' is the stage the running cycle calls next.                      *)
(*                                                                         *)
(* Data is abstracted: an address is a small integer, an instruction is    *)
(* its kind, register values are left out and every outcome that depends   *)
(* on them (branch conditions, TLB and cache hits) is a choice.            *)
(***************************************************************************)
EXTENDS Integers

CONSTANTS
  Size,          \* addresses (in instruction words) are 0 .. Size-1 and wrap
  BootPc,        \* where VR4300_RST sends the core (0x801E4B10)
  RefillVec,     \* TLB refill vector, offset 0x000
  GeneralVec,    \* general exception vector, offset 0x180
  ErrorEpc,      \* content of ErrorEPC, never written by the pipeline
  FetchMapped,   \* addresses fetched through the TLB
  Programs,      \* the programs explored: opcode and branch target by address
  MemoryDelay,   \* MEMORY_WORD_DELAY
  DcacheDelay,   \* DCACHE_ACCESS_DELAY
  IcacheDelay,   \* ICACHE_ACCESS_DELAY
  MciDelay,      \* cycles - 1 of vr4300_do_mci
  EpilogueStall  \* the 2 cycles of vr4300_exception_epilogue

Addr == 0 .. Size - 1

\* Instruction kinds.  "nop" stands for every instruction that only computes,
\* "mul" for those that call vr4300_do_mci, "ei"/"di" for an MTC0 to Status
\* that sets/clears IE and clears EXL and ERL, "ack" for an MTC0 to Compare.
Op == {"nop", "mul", "lw", "sw", "cache", "beq", "beql", "j", "fpu", "tne",
       "ei", "di", "ack", "eret"}

Branch == {"beq", "beql", "j"}
NoOperands == {"j", "eret"}     \* neither NEEDRS nor NEEDRT

ASSUME SizeAssumption == Size \in Nat \ {0}
ASSUME AddrAssumption ==
  {BootPc, RefillVec, GeneralVec, ErrorEpc} \subseteq Addr
ASSUME ProgramAssumption ==
  Programs \subseteq [op : [Addr -> Op], target : [Addr -> Addr]]
ASSUME DelayAssumption ==
  {MemoryDelay, DcacheDelay, IcacheDelay, MciDelay, EpilogueStall} \subseteq Nat

\* The word after and before an address; addresses wrap in 64 bits.
Succ(a) == IF a = Size - 1 THEN 0 ELSE a + 1
Pred(a) == IF a = 0 THEN Size - 1 ELSE a - 1

VARIABLES
  program,       \* text in memory, fixed
  stage,         \* the stage function the current cycle calls next
  slow,          \* the cycle runs the vr4300_cycle_slow_* functions
  icPc,          \* icrf_latch.pc
  icVia,         \* history: how the fetch came to icPc
  icrf,          \* icrf_latch.common
  rfex,          \* rfex_latch
  exdc,          \* exdc_latch
  dcwb,          \* dcwb_latch
  cycleType,     \* regs[PIPELINE_CYCLE_TYPE]
  stall,         \* cycles_to_stall
  hist,          \* exception_history
  faultPresent,  \* fault_present
  status,        \* Status.IE, Status.EXL, Status.ERL
  epc, bd,       \* EPC and Cause.BD
  irq,           \* Cause.IP7 and its mask bit
  coldReset,     \* signals & VR4300_SIGNAL_COLDRESET
  flow           \* history: the instruction that must retire next

fetch   == <<icPc, icVia>>
latches == <<fetch, icrf, rfex, exdc, dcwb>>
control == <<cycleType, stall, hist, faultPresent>>
cp0     == <<status, epc, bd, irq, coldReset>>
vars == <<program, stage, slow, latches, control, cp0, flow>>

-----------------------------------------------------------------------------
(* How the fetch came to an address, carried along with the instruction to
   be compared when it retires; no guard reads it.  "next": sequentially or
   by a branch; "reset" and "eret": redirected to the address `to'; the other
   kinds are the vectors of exceptions, "precise" if taken with EXL clear,
   "overlap" if the handler of another was yet to be fetched.  These keep the
   `to' of their victim and the EPC and BD they left.                      *)

NoJump == -1

Via == [kind : {"next", "reset", "eret", "precise", "nested", "overlap"},
        to : Addr \cup {NoJump}, epc : Addr, bd : BOOLEAN]

Onward   == [kind |-> "next", to |-> NoJump, epc |-> 0, bd |-> FALSE]
By(k, a) == [Onward EXCEPT !.kind = k, !.to = a]

Trapping(v) == v.kind \in {"precise", "nested", "overlap"}

(* Latches.  A fault field is TRUE when it differs from VR4300_FAULT_NONE;
   bd is the OPCODE_INFO_BRANCH bit of cause_data.                         *)

Common == [pc : Addr, fault : BOOLEAN, bd : BOOLEAN, killed : BOOLEAN,
           via : Via]
Zero   == [pc |-> 0, fault |-> FALSE, bd |-> FALSE, killed |-> FALSE,
           via |-> Onward]

Faulted(l) == [l EXCEPT !.fault = TRUE]

\* What the EX function decided, carried along to be compared at retirement:
\* the target a branch jumped to, whether it annuls its delay slot, and
\* whether the access requested has been made.
Outcome == [jump : Addr \cup {NoJump}, annuls : BOOLEAN, accessed : BOOLEAN]
NoOutcome == [jump |-> NoJump, annuls |-> FALSE, accessed |-> FALSE]

Request == {"none", "read", "write", "cache"}
Dest == {"gpr", "cycle_type"}

\* iw is the word fetched by RF, op what IC decoded; annul is iw_mask = 0.
RfexLatch == [common : Common, iw : Op, op : Op, annul : BOOLEAN]

\* resident: the line of this access is known to be in the data cache.
ExdcLatch == [common : Common, dest : Dest, request : Request,
              resident : BOOLEAN, outcome : Outcome]

DcwbLatch == [common : Common, dest : Dest, lastStore : BOOLEAN,
              outcome : Outcome]

Status == [ie : BOOLEAN, exl : BOOLEAN, erl : BOOLEAN]

\* A point in the program: pc is next, npc follows it (MIPS delayed branch).
Flow == [pc : Addr, npc : Addr, slot : BOOLEAN, annulled : BOOLEAN]
At(a) == [pc |-> a, npc |-> Succ(a), slot |-> FALSE, annulled |-> FALSE]

Init ==
  /\ program \in Programs
  /\ stage = "cycle" /\ slow = FALSE
  /\ icPc = BootPc /\ icVia = Onward
  /\ icrf = Zero
  /\ rfex = [common |-> Zero, iw |-> "nop", op |-> "nop", annul |-> TRUE]
  /\ exdc = [common |-> Zero, dest |-> "gpr", request |-> "none",
             resident |-> FALSE, outcome |-> NoOutcome]
  /\ dcwb = [common |-> Zero, dest |-> "gpr", lastStore |-> FALSE,
             outcome |-> NoOutcome]
  /\ cycleType = 0 /\ stall = 0 /\ hist = 0 /\ faultPresent = FALSE
  /\ status = [ie |-> FALSE, exl |-> FALSE, erl |-> FALSE]
  /\ epc = 0 /\ bd = FALSE /\ irq = FALSE
  /\ coldReset = TRUE
  /\ flow = At(0)

-----------------------------------------------------------------------------
(* Exceptions and interlocks (fault.c).                                    *)

Interruptible == irq /\ status.ie /\ ~status.exl /\ ~status.erl

\* A stage that returned 1 ends the cycle.
EndCycle == stage' = "cycle"

\* vr4300_common_interlocks: stall, then resume at the stage of that type.
Interlock(cycles, type) == stall' = cycles /\ cycleType' = type

TrapKind == IF ~status.exl THEN "precise"
            ELSE IF Trapping(icVia) THEN "overlap" ELSE "nested"

\* Mutant of Exception: Cause.BD is recorded but EPC not moved back.
ExceptionInSlot(l, vector) ==
  /\ epc' = IF status.exl THEN epc ELSE l.pc
  /\ bd' = IF status.exl THEN bd ELSE l.bd
  /\ status' = [status EXCEPT !.exl = TRUE]
  /\ Interlock(EpilogueStall, 0)
  /\ hist' = 0 /\ faultPresent' = TRUE
  /\ icPc' = vector
  /\ icVia' = [kind |-> TrapKind, to |-> l.via.to, epc |-> epc', bd |-> bd']
  /\ EndCycle
  /\ UNCHANGED <<program, slow, irq, coldReset, flow>>

\* vr4300_exception_prolog followed by vr4300_exception_epilogue for the
\* instruction in latch l.  EPC and BD are kept when EXL is already set.
Exception(l, vector) ==
  /\ epc' = IF status.exl THEN epc ELSE IF l.bd THEN Pred(l.pc) ELSE l.pc
  /\ bd' = IF status.exl THEN bd ELSE l.bd
  /\ status' = [status EXCEPT !.exl = TRUE]
  /\ Interlock(EpilogueStall, 0)
  /\ hist' = 0 /\ faultPresent' = TRUE
  /\ icPc' = vector
  /\ icVia' = [kind |-> TrapKind, to |-> l.via.to, epc |-> epc', bd |-> bd']
  /\ EndCycle
  /\ UNCHANGED <<program, slow, irq, coldReset, flow>>

\* A TLB refill has its own vector unless an exception is being handled.
TlbVector(miss) == IF miss /\ ~status.exl THEN RefillVec ELSE GeneralVec

\* vr4300_dc_fault, vr4300_ex_fault, vr4300_rf_fault: the faulting stage and
\* everything younger; l and e are what the faulting stage has latched.
DcFault(l) ==
  /\ dcwb' = [dcwb EXCEPT !.common = Faulted(l), !.dest = exdc.dest,
                          !.outcome = exdc.outcome]
  /\ exdc' = [exdc EXCEPT !.common.fault = TRUE]
  /\ rfex' = [rfex EXCEPT !.common.fault = TRUE]
  /\ icrf' = Faulted(icrf)

ExFault(e) ==
  /\ exdc' = [e EXCEPT !.common.fault = TRUE]
  /\ rfex' = [rfex EXCEPT !.common.fault = TRUE]
  /\ icrf' = Faulted(icrf)
  /\ UNCHANGED dcwb

RfFault ==
  /\ rfex' = [rfex EXCEPT !.common = Faulted(icrf)]
  /\ icrf' = Faulted(icrf)
  /\ UNCHANGED <<exdc, dcwb>>

-----------------------------------------------------------------------------
(* vr4300_cycle: the timer may match, then stall or run a cycle.           *)

Tick == \E match \in BOOLEAN : irq' = (irq \/ match)

StallCycle ==
  /\ stage = "cycle" /\ stall > 0
  /\ Tick
  /\ stall' = stall - 1
  /\ UNCHANGED <<program, stage, slow, latches, cycleType, hist, faultPresent,
                 status, epc, bd, coldReset, flow>>

\* pipeline_function_lut, indexed by PIPELINE_CYCLE_TYPE.
Lut == <<"wb", "dc", "ex", "rf", "ic", "busywait", "dcm">>

RunCycle ==
  /\ stage = "cycle" /\ stall = 0
  /\ Tick
  /\ slow' = (faultPresent \/ cycleType # 0)
  /\ stage' = Lut[cycleType + 1]
  /\ UNCHANGED <<program, latches, control, status, epc, bd, coldReset,
                 flow>>

\* The slow driver looks at the fault field, the fast one does not.
Live(l) == ~slow \/ ~l.fault

-----------------------------------------------------------------------------
(* WB: vr4300_cycle_slow_wb and vr4300_wb_stage.                           *)

\* Mutants of SlowPass: the switch back comes a pass too early, or too late.
SlowPassEarly ==
  IF slow THEN hist' = hist + 1 /\ faultPresent' = (faultPresent /\ hist <= 2)
          ELSE UNCHANGED <<hist, faultPresent>>
SlowPassLate ==
  IF slow THEN hist' = hist + 1 /\ faultPresent' = (faultPresent /\ hist <= 5)
          ELSE UNCHANGED <<hist, faultPresent>>

\* Five slow passes after the last fault no latch can hold a fault any more.
SlowPass ==
  IF slow THEN /\ hist' = hist + 1
               /\ faultPresent' = (faultPresent /\ hist <= 3)
          ELSE UNCHANGED <<hist, faultPresent>>

\* The retiring instruction is the first one of a handler.
HandlerEntry == Trapping(dcwb.common.via)

\* What must retire next: after a reset or an ERET, what it redirected to.
Expected == IF dcwb.common.via.to = NoJump THEN flow ELSE At(dcwb.common.via.to)

\* The point after the instruction at point f retired with outcome o.
After(f, o, isBranch) ==
  [pc |-> f.npc,
   npc |-> IF o.jump = NoJump THEN Succ(f.npc) ELSE o.jump,
   slot |-> isBranch, annulled |-> o.annuls]

WbRetire ==
  /\ stage = "wb" /\ Live(dcwb.common)
  /\ SlowPass
  /\ cycleType' = IF dcwb.dest = "cycle_type" THEN 5 ELSE cycleType
  /\ flow' = After(IF HandlerEntry THEN At(dcwb.common.pc) ELSE Expected,
                   dcwb.outcome,
                   /\ program.op[dcwb.common.pc] \in Branch
                   /\ ~dcwb.common.killed)
  /\ stage' = "dc"
  /\ UNCHANGED <<program, slow, latches, stall, cp0>>

WbSkip ==
  /\ stage = "wb" /\ ~Live(dcwb.common)
  /\ SlowPass
  /\ stage' = "dc"
  /\ UNCHANGED <<program, slow, latches, cycleType, stall, cp0, flow>>

-----------------------------------------------------------------------------
(* DC: vr4300_cycle_slow_dc and vr4300_dc_stage.                           *)

\* dcwb_latch as vr4300_dc_stage first fills it.
DcLatched == [dcwb EXCEPT !.common = exdc.common, !.dest = exdc.dest,
                          !.outcome = exdc.outcome]

DcSkip ==
  /\ stage = "dc" /\ ~Live(exdc.common)
  /\ dcwb' = [dcwb EXCEPT !.common = exdc.common, !.dest = "gpr",
                          !.outcome = NoOutcome]
  /\ stage' = "ex"
  /\ UNCHANGED <<program, slow, fetch, icrf, rfex, exdc, control, cp0, flow>>

\* VR4300_RST: everything in flight is dropped, ERL is set and BEV cleared.
DcReset ==
  /\ stage = "dc" /\ Live(exdc.common) /\ coldReset
  /\ coldReset' = FALSE
  /\ DcFault(exdc.common)
  /\ Interlock(EpilogueStall, 0)
  /\ hist' = 0 /\ faultPresent' = TRUE
  /\ status' = [ie |-> FALSE, exl |-> FALSE, erl |-> TRUE]
  /\ icPc' = BootPc /\ icVia' = By("reset", BootPc)
  /\ flow' = At(BootPc)
  /\ EndCycle
  /\ UNCHANGED <<program, slow, epc, bd, irq>>

\* VR4300_INTR taken on the instruction entering DC.
DcInterrupt ==
  /\ stage = "dc" /\ Live(exdc.common) /\ ~coldReset /\ Interruptible
  /\ DcFault(exdc.common)
  /\ Exception(exdc.common, GeneralVec)

DcReady == stage = "dc" /\ Live(exdc.common) /\ ~coldReset /\ ~Interruptible

DcNoRequest ==
  /\ DcReady /\ exdc.request = "none"
  /\ dcwb' = DcLatched
  /\ stage' = "ex"
  /\ UNCHANGED <<program, slow, fetch, icrf, rfex, exdc, control, cp0, flow>>

\* VR4300_DTLB: the data address misses in the TLB, or its entry is invalid
\* or read-only.  A line filled for this access was already translated.
DcTlbFault ==
  /\ DcReady /\ exdc.request \in {"read", "write"} /\ ~exdc.resident
  /\ DcFault(exdc.common)
  /\ \E miss \in BOOLEAN : Exception(exdc.common, TlbVector(miss))

\* VR4300_WAT: the physical address matches WatchLo.
DcWatch ==
  /\ DcReady /\ exdc.request # "none" /\ ~exdc.resident
  /\ DcFault(exdc.common)
  /\ Exception(exdc.common, GeneralVec)

\* Mutant of DcUncached: the cycle resumes in DC instead of EX.
DcUncachedAgain ==
  /\ DcReady /\ exdc.request \in {"read", "write"} /\ ~exdc.resident
  /\ dcwb' = [DcLatched EXCEPT !.lastStore = FALSE, !.outcome.accessed = TRUE]
  /\ exdc' = [exdc EXCEPT !.outcome.accessed = TRUE]
  /\ Interlock(MemoryDelay, 1)
  /\ EndCycle
  /\ UNCHANGED <<program, slow, fetch, icrf, rfex, hist, faultPresent, cp0,
                 flow>>

\* An uncached access is made at once by VR4300_DCM; the cycle resumes in EX.
DcUncached ==
  /\ DcReady /\ exdc.request \in {"read", "write"} /\ ~exdc.resident
  /\ dcwb' = [DcLatched EXCEPT !.lastStore = FALSE, !.outcome.accessed = TRUE]
  /\ exdc' = [exdc EXCEPT !.outcome.accessed = TRUE]
  /\ Interlock(MemoryDelay, 2)
  /\ EndCycle
  /\ UNCHANGED <<program, slow, fetch, icrf, rfex, hist, faultPresent, cp0,
                 flow>>

\* A cached miss: the next cycle runs VR4300_DCM alone.
DcMiss ==
  /\ DcReady /\ exdc.request \in {"read", "write"} /\ ~exdc.resident
  /\ dcwb' = [DcLatched EXCEPT !.lastStore = (exdc.request = "write")]
  /\ Interlock(0, 6)
  /\ EndCycle
  /\ UNCHANGED <<program, slow, fetch, icrf, rfex, exdc, hist, faultPresent,
                 cp0, flow>>

\* Mutant of DcBusy: the store flag is not cleared while waiting.
DcBusyForever ==
  /\ DcReady /\ exdc.request \in {"read", "write"} /\ dcwb.lastStore
  /\ dcwb' = [DcLatched EXCEPT !.lastStore = TRUE]
  /\ exdc' = [exdc EXCEPT !.resident = TRUE]
  /\ Interlock(0, 1)
  /\ EndCycle
  /\ UNCHANGED <<program, slow, fetch, icrf, rfex, hist, faultPresent, cp0,
                 flow>>

\* VR4300_DCB: a cached access right after a cached store waits one cycle.
DcBusy ==
  /\ DcReady /\ exdc.request \in {"read", "write"} /\ dcwb.lastStore
  /\ dcwb' = [DcLatched EXCEPT !.lastStore = FALSE]
  /\ exdc' = [exdc EXCEPT !.resident = TRUE]
  /\ Interlock(0, 1)
  /\ EndCycle
  /\ UNCHANGED <<program, slow, fetch, icrf, rfex, hist, faultPresent, cp0,
                 flow>>

DcHit ==
  /\ DcReady /\ exdc.request \in {"read", "write"} /\ ~dcwb.lastStore
  /\ dcwb' = [DcLatched EXCEPT !.lastStore = (exdc.request = "write"),
                               !.outcome.accessed = TRUE]
  /\ exdc' = [exdc EXCEPT !.outcome.accessed = TRUE]
  /\ stage' = "ex"
  /\ UNCHANGED <<program, slow, fetch, icrf, rfex, control, cp0, flow>>

\* A CACHE operation; when it reports a delay the cycle resumes in EX.
DcCacheOp ==
  /\ DcReady /\ exdc.request = "cache"
  /\ dcwb' = [DcLatched EXCEPT !.outcome.accessed = TRUE]
  /\ exdc' = [exdc EXCEPT !.outcome.accessed = TRUE]
  /\ \/ stage' = "ex" /\ UNCHANGED control
     \/ /\ Interlock(DcacheDelay, 2)
        /\ EndCycle
        /\ UNCHANGED <<hist, faultPresent>>
  /\ UNCHANGED <<program, slow, fetch, icrf, rfex, cp0, flow>>

\* Mutant of DcmFill: the cycle type stays the one of the miss.
DcmFillAgain ==
  /\ stage = "dcm"
  /\ exdc' = [exdc EXCEPT !.resident = TRUE]
  /\ Interlock(DcacheDelay, 6)
  /\ EndCycle
  /\ UNCHANGED <<program, slow, fetch, icrf, rfex, dcwb, hist, faultPresent,
                 cp0, flow>>

\* VR4300_DCM for a cached miss: fill the line, then run DC again.
DcmFill ==
  /\ stage = "dcm"
  /\ exdc' = [exdc EXCEPT !.resident = TRUE]
  /\ Interlock(DcacheDelay, 1)
  /\ EndCycle
  /\ UNCHANGED <<program, slow, fetch, icrf, rfex, dcwb, hist, faultPresent,
                 cp0, flow>>

DcStage == \/ DcSkip \/ DcReset \/ DcInterrupt \/ DcNoRequest \/ DcTlbFault
           \/ DcWatch \/ DcUncached \/ DcMiss \/ DcBusy \/ DcHit \/ DcCacheOp

-----------------------------------------------------------------------------
(* EX: vr4300_cycle_slow_ex, vr4300_ex_stage and the EX functions.         *)

ExSkip ==
  /\ stage = "ex" /\ ~Live(rfex.common)
  /\ exdc' = [exdc EXCEPT !.common = rfex.common, !.dest = "gpr"]
  /\ stage' = "rf"
  /\ UNCHANGED <<program, slow, fetch, icrf, rfex, dcwb, control, cp0, flow>>

ExReady == stage = "ex" /\ Live(rfex.common)

\* VR4300_CPU: Status.CU1 is clear.  The rest of exdc_latch is still that of
\* the instruction before.
ExUnusable ==
  /\ ExReady /\ rfex.op = "fpu"
  /\ ExFault([exdc EXCEPT !.common = rfex.common])
  /\ Exception(rfex.common, GeneralVec)

\* VR4300_LDI: an operand is the destination of the load before.
ExLoadDelay ==
  /\ ExReady /\ exdc.request = "read" /\ rfex.op \notin NoOperands
  /\ exdc' = [exdc EXCEPT !.common = rfex.common, !.request = "none"]
  /\ Interlock(0, 2)
  /\ EndCycle
  /\ UNCHANGED <<program, slow, fetch, icrf, rfex, dcwb, hist, faultPresent,
                 cp0, flow>>

\* Mutant of ExLatched: the destination of the instruction before is kept.
ExLatchedKeepsDest == [exdc EXCEPT !.common = rfex.common,
                                   !.request = "none", !.resident = FALSE,
                                   !.outcome = NoOutcome]

\* exdc_latch when the EX function is entered.
ExLatched == [exdc EXCEPT !.common = rfex.common, !.dest = "gpr",
                          !.request = "none", !.resident = FALSE,
                          !.outcome = NoOutcome]

\* The EX function returned 0: RF is next.
ExDone == stage' = "rf" /\ UNCHANGED <<program, slow, icrf, dcwb>>

ExCompute ==
  /\ ExReady /\ rfex.op \in {"nop", "fpu"}
  /\ exdc' = ExLatched
  /\ ExDone
  /\ UNCHANGED <<fetch, rfex, control, cp0, flow>>

ExAccess ==
  /\ ExReady /\ rfex.op \in {"lw", "sw", "cache"}
  /\ exdc' = [ExLatched EXCEPT !.request = CASE rfex.op = "lw" -> "read"
                                             [] rfex.op = "sw" -> "write"
                                             [] OTHER -> "cache"]
  /\ ExDone
  /\ UNCHANGED <<fetch, rfex, control, cp0, flow>>

\* vr4300_do_mci: a multiplication stalls the pipeline after EX.
ExMultiCycle ==
  /\ ExReady /\ rfex.op = "mul"
  /\ exdc' = ExLatched
  /\ Interlock(MciDelay, 3)
  /\ EndCycle
  /\ UNCHANGED <<program, slow, fetch, icrf, rfex, dcwb, hist, faultPresent,
                 cp0, flow>>

\* A taken branch redirects the fetch that follows its delay slot.  An
\* unconditional branch to itself is detected as a busy wait: its result is
\* 5 and its destination PIPELINE_CYCLE_TYPE.
ExBranchTaken ==
  LET target == program.target[rfex.common.pc]
      waits == rfex.op = "j" /\ target = rfex.common.pc
  IN /\ ExReady /\ rfex.op \in Branch
     /\ icPc' = target
     /\ exdc' = [ExLatched EXCEPT !.dest = IF waits THEN "cycle_type" ELSE @,
                                  !.outcome.jump = target]
     /\ ExDone
     /\ UNCHANGED <<icVia, rfex, control, cp0, flow>>

\* A likely branch that is not taken masks the word fetched for its slot.
ExBranchNotTaken ==
  /\ ExReady /\ rfex.op \in {"beq", "beql"}
  /\ rfex' = [rfex EXCEPT !.annul = (rfex.op = "beql")]
  /\ exdc' = [ExLatched EXCEPT !.outcome.annuls = (rfex.op = "beql")]
  /\ ExDone
  /\ UNCHANGED <<fetch, control, cp0, flow>>

\* MTC0 takes effect in EX.
ExMoveToStatus ==
  /\ ExReady /\ rfex.op \in {"ei", "di"}
  /\ status' = [ie |-> rfex.op = "ei", exl |-> FALSE, erl |-> FALSE]
  /\ exdc' = ExLatched
  /\ ExDone
  /\ UNCHANGED <<fetch, rfex, control, epc, bd, irq, coldReset, flow>>

ExMoveToCompare ==
  /\ ExReady /\ rfex.op = "ack"
  /\ irq' = FALSE
  /\ exdc' = ExLatched
  /\ ExDone
  /\ UNCHANGED <<fetch, rfex, control, status, epc, bd, coldReset, flow>>

\* Mutant of ExEret: the instruction fetched behind it is not killed.
ExEretKeepsNext ==
  LET target == IF status.erl THEN ErrorEpc ELSE epc
  IN /\ ExReady /\ rfex.op = "eret"
     /\ icPc' = target /\ icVia' = By("eret", target)
     /\ status' = IF status.erl THEN [status EXCEPT !.erl = FALSE]
                                ELSE [status EXCEPT !.exl = FALSE]
     /\ exdc' = [ExLatched EXCEPT !.common.fault = TRUE]
     /\ cycleType' = 3 /\ hist' = 0 /\ faultPresent' = TRUE
     /\ EndCycle
     /\ UNCHANGED <<program, slow, icrf, rfex, dcwb, stall, epc, bd, irq,
                    coldReset, flow>>

\* VR4300_ERET: redirect the fetch and fault itself and the instruction
\* behind it; the next cycle runs IC only.
ExEret ==
  LET target == IF status.erl THEN ErrorEpc ELSE epc
  IN /\ ExReady /\ rfex.op = "eret"
     /\ icPc' = target /\ icVia' = By("eret", target)
     /\ status' = IF status.erl THEN [status EXCEPT !.erl = FALSE]
                                ELSE [status EXCEPT !.exl = FALSE]
     /\ exdc' = [ExLatched EXCEPT !.common.fault = TRUE]
     /\ rfex' = [rfex EXCEPT !.common.fault = TRUE]
     /\ cycleType' = 4 /\ hist' = 0 /\ faultPresent' = TRUE
     /\ EndCycle
     /\ UNCHANGED <<program, slow, icrf, dcwb, stall, epc, bd, irq, coldReset,
                    flow>>

\* VR4300_TNE with different operands: VR4300_TRAP.
ExTrap ==
  /\ ExReady /\ rfex.op = "tne"
  /\ ExFault(ExLatched)
  /\ Exception(rfex.common, GeneralVec)

\* VR4300_TNE with equal operands falls off the end of the function: the
\* caller tests whatever value happens to be returned.
ExTrapUndefined ==
  /\ ExReady /\ rfex.op = "tne"
  /\ exdc' = ExLatched
  /\ stage' \in {"rf", "cycle"}
  /\ UNCHANGED <<program, slow, fetch, icrf, rfex, dcwb, control, cp0, flow>>

ExStage == \/ ExSkip \/ ExUnusable \/ ExLoadDelay \/ ExCompute \/ ExAccess
           \/ ExMultiCycle \/ ExBranchTaken \/ ExBranchNotTaken
           \/ ExMoveToStatus \/ ExMoveToCompare \/ ExEret \/ ExTrap
           \/ ExTrapUndefined

-----------------------------------------------------------------------------
(* RF: vr4300_cycle_slow_rf and vr4300_rf_stage.                           *)

RfSkip ==
  /\ stage = "rf" /\ ~Live(icrf)
  /\ rfex' = [rfex EXCEPT !.common = icrf]
  /\ stage' = "ic"
  /\ UNCHANGED <<program, slow, fetch, icrf, exdc, dcwb, control, cp0, flow>>

\* VR4300_ITLB.  rfex_latch.iw keeps the word fetched before.
RfTlbFault ==
  /\ stage = "rf" /\ Live(icrf) /\ icrf.pc \in FetchMapped
  /\ RfFault
  /\ \E miss \in BOOLEAN : Exception(icrf, TlbVector(miss))

\* VR4300_ICB: fetch the word or fill the line, stall, then run IC.
RfBusy ==
  /\ stage = "rf" /\ Live(icrf)
  /\ rfex' = [rfex EXCEPT !.common = icrf, !.iw = program.op[icrf.pc]]
  /\ \E delay \in {MemoryDelay, IcacheDelay} : Interlock(delay, 4)
  /\ EndCycle
  /\ UNCHANGED <<program, slow, fetch, icrf, exdc, dcwb, hist, faultPresent,
                 cp0, flow>>

RfFetch ==
  /\ stage = "rf" /\ Live(icrf)
  /\ rfex' = [rfex EXCEPT !.common = icrf, !.iw = program.op[icrf.pc]]
  /\ stage' = "ic"
  /\ UNCHANGED <<program, slow, fetch, icrf, exdc, dcwb, control, cp0, flow>>

RfStage == RfSkip \/ RfTlbFault \/ RfBusy \/ RfFetch

-----------------------------------------------------------------------------
(* IC: vr4300_cycle_slow_ic and vr4300_ic_stage.  The word fetched by RF is
   masked and decoded here, and the next address latched.                  *)

\* Mutant of IcStage: the mask is not restored, the next word is masked too.
IcStageKeepsMask ==
  LET word == IF rfex.annul THEN "nop" ELSE rfex.iw
  IN /\ stage = "ic"
     /\ rfex' = [rfex EXCEPT !.iw = word, !.op = word,
                             !.common.killed = rfex.annul]
     /\ icrf' = [icrf EXCEPT !.pc = icPc, !.bd = (word \in Branch),
                             !.fault = IF slow THEN FALSE ELSE @,
                             !.via = icVia]
     /\ icPc' = Succ(icPc) /\ icVia' = Onward
     /\ cycleType' = IF slow THEN 0 ELSE cycleType
     /\ EndCycle
     /\ UNCHANGED <<program, slow, exdc, dcwb, stall, hist, faultPresent, cp0,
                    flow>>

IcStage ==
  LET word == IF rfex.annul THEN "nop" ELSE rfex.iw
  IN /\ stage = "ic"
     /\ rfex' = [rfex EXCEPT !.iw = word, !.op = word, !.annul = FALSE,
                             !.common.killed = rfex.annul]
     /\ icrf' = [icrf EXCEPT !.pc = icPc, !.bd = (word \in Branch),
                             !.fault = IF slow THEN FALSE ELSE @,
                             !.via = icVia]
     /\ icPc' = Succ(icPc) /\ icVia' = Onward
     /\ cycleType' = IF slow THEN 0 ELSE cycleType
     /\ EndCycle
     /\ UNCHANGED <<program, slow, exdc, dcwb, stall, hist, faultPresent, cp0,
                    flow>>

(* vr4300_cycle_busywait: only the interrupt condition is looked at.       *)
BusyWaitOver ==
  /\ stage = "busywait" /\ Interruptible
  /\ dcwb' = [dcwb EXCEPT !.common.fault = TRUE]
  /\ exdc' = [exdc EXCEPT !.common.fault = TRUE]
  /\ rfex' = [rfex EXCEPT !.common.fault = TRUE]
  /\ icrf' = Faulted(icrf)
  /\ Exception(dcwb.common, GeneralVec)

BusyWaitOn ==
  /\ stage = "busywait" /\ ~Interruptible
  /\ EndCycle
  /\ UNCHANGED <<program, slow, latches, control, cp0, flow>>

WbStage == WbRetire \/ WbSkip
BusyWait == BusyWaitOver \/ BusyWaitOn

Next == \/ StallCycle \/ RunCycle
        \/ WbStage \/ DcStage \/ ExStage \/ RfStage \/ IcStage
        \/ BusyWait \/ DcmFill

Spec == Init /\ [][Next]_vars

\* runCen64 keeps calling vr4300_cycle.
FairSpec == Spec /\ WF_vars(Next)

-----------------------------------------------------------------------------
(* Properties.                                                             *)

\* Every variable keeps the range the code gives it: in particular the cycle
\* type stays inside pipeline_function_lut and exception_history, which is
\* only counted while faults may be present, never runs away.
TypeOK ==
  /\ program \in Programs
  /\ stage \in {"cycle", "wb", "dc", "ex", "rf", "ic", "busywait", "dcm"}
  /\ slow \in BOOLEAN
  /\ icPc \in Addr /\ icVia \in Via
  /\ icrf \in Common
  /\ rfex \in RfexLatch
  /\ exdc \in ExdcLatch
  /\ dcwb \in DcwbLatch
  /\ cycleType \in 0 .. 6
  /\ stall \in Nat
  /\ hist \in 0 .. 5
  /\ faultPresent \in BOOLEAN
  /\ status \in Status
  /\ epc \in Addr /\ bd \in BOOLEAN
  /\ irq \in BOOLEAN /\ coldReset \in BOOLEAN
  /\ flow \in Flow

\* The fast driver never looks at the fault fields, so whenever it may run no
\* latch may hold a fault: the five slow passes counted by exception_history
\* must have pushed every fault out of the pipeline (pipeline.c, slow_wb).
FastModeClean ==
  ~faultPresent =>
    /\ ~icrf.fault /\ ~rfex.common.fault
    /\ ~exdc.common.fault /\ ~dcwb.common.fault

\* Where the pipeline is within a pass, also between two cycles of the pass.
Position == IF stage = "cycle" THEN Lut[cycleType + 1] ELSE stage

\* Why FastModeClean holds: while faults may be present, exception_history
\* tells how far they have moved.  Each slow pass pushes the last fault one
\* latch further, whatever interlock splits the pass over several cycles.
FaultsDrain ==
  /\ faultPresent =>
       /\ hist <= 4
       /\ hist >= (IF Position \in {"wb", "busywait"} THEN 1 ELSE 2)
            => ~icrf.fault
       /\ hist >= (IF Position \in {"wb", "busywait", "ic"} THEN 2 ELSE 3)
            => ~rfex.common.fault
       /\ hist >= (IF Position \in {"wb", "busywait", "ic", "rf"} THEN 3 ELSE 4)
            => ~exdc.common.fault
       /\ hist >= (IF Position \in {"dc", "dcm"} THEN 5 ELSE 4)
            => ~dcwb.common.fault
  /\ icrf.fault => rfex.common.fault
  /\ stage # "cycle" /\ ~slow => ~faultPresent
  /\ stage = "wb" /\ slow => faultPresent

\* The empty latches the core starts with drain before the cold reset.
Retiring == stage = "wb" /\ Live(dcwb.common) /\ ~coldReset

\* Programs whose behaviour the C standard defines: VR4300_TNE returns no
\* value when it does not trap, and if the undefined value it leaves is not 0
\* the same instruction retires over and over.
Defined == \A a \in Addr : program.op[a] # "tne"

\* Programs whose handlers do not begin by clearing EXL.  The BD bit of the
\* first instruction of a handler is that of the word RF fetched before the
\* exception (IC decodes it although it was killed), which does no harm as
\* long as nothing is taken on that instruction with EXL clear.
Handled == \A v \in {RefillVec, GeneralVec} :
             program.op[v] \notin {"ei", "di", "eret"}

\* Programs with no branch in the delay slot of a branch.
PlainSlots == \A a \in Addr :
                program.op[a] \in Branch => program.op[Succ(a)] \notin Branch

\* An ERET is next: it goes where it returns to instead of retiring.
Returning == program.op[flow.pc] = "eret" /\ ~flow.annulled

\* Instructions retire in program order, each once: whatever WB writes back
\* is the instruction that follows the last one (its branch target after a
\* delay slot, the EPC after an ERET and only there), and it was annulled
\* exactly when it is the slot of a likely branch that was not taken; or it is
\* the first one of a handler.  Interlocks, replays after an interrupt and
\* killed stages never skip, repeat or annul another one.
InOrderRetirement ==
  Defined /\ Handled /\ Retiring =>
    IF HandlerEntry
    THEN dcwb.common.pc \in {RefillVec, GeneralVec} /\ ~dcwb.common.killed
    ELSE /\ dcwb.common.pc = Expected.pc
         /\ dcwb.common.killed = Expected.annulled
         /\ (dcwb.common.via.kind = "eret") = Returning

\* EPC and BD, as the exception that led to the retiring instruction left
\* them, name the point execution has reached: the branch in front of it when
\* it is a delay slot.
Resumable == LET v == dcwb.common.via
             IN /\ v.bd = Expected.slot
                /\ Expected.pc = IF v.bd THEN Succ(v.epc) ELSE v.epc

\* An exception taken with EXL clear is precise: when the first instruction
\* of its handler retires, everything before the point it returns to has
\* retired and nothing behind it.
PreciseException ==
  Defined /\ Handled /\ Retiring /\ dcwb.common.via.kind = "precise" =>
    Resumable

\* The same for exceptions that overlap, one raised while the handler of the
\* other has not begun: no stage killed by the first may lose an instruction
\* (vr4300/TODO.txt:1 asks for the killed stages to be verified).
PreciseOverlap ==
  Retiring /\ dcwb.common.via.kind = "overlap" => Resumable

\* A load, store or cache operation makes its access once: it has not been
\* made when DC is entered (where an interrupt would replay the instruction),
\* and it has been made when the instruction retires.
AccessOnce ==
  /\ stage = "dc" /\ Live(exdc.common) => ~exdc.outcome.accessed
  /\ Retiring /\ ~dcwb.common.killed
       /\ program.op[dcwb.common.pc] \in {"lw", "sw", "cache"}
     => dcwb.outcome.accessed

\* While the pipeline is shut down in the busy-wait mode, the instruction an
\* interrupt would be taken on is the delay slot of a jump to itself, next
\* in program order, so that EPC leads back into the loop.
BusyWaitSound ==
  Defined /\ Handled /\ PlainSlots /\ stage = "busywait" =>
    /\ ~dcwb.common.fault /\ dcwb.common.bd
    /\ program.op[Pred(dcwb.common.pc)] = "j"
    /\ program.target[Pred(dcwb.common.pc)] = Pred(dcwb.common.pc)
    /\ Expected.pc = dcwb.common.pc /\ Expected.slot

\* The core never hangs: unless it is in the busy-wait mode instructions keep
\* retiring, whatever interlocks (LDI, ICB, DCM, DCB, MCI) combine.
Progress == []<>(Retiring \/ stage = "busywait")

\* An enabled interrupt is eventually taken or disabled by the program, also
\* out of the busy-wait mode and under any sequence of stalls.
InterruptServed == Interruptible ~> ~Interruptible

=============================================================================
