----------------------------- MODULE CmipsKernel -----------------------------
(***************************************************************************)
(* What the guest's kernel has to be for the software TLB of CmipsCore to  *)
(* hold one translation of each page.  The interpreter checks none of it:  *)
(* TLBWR and TLBWI write what CP0 holds, wherever they are executed.  Its  *)
(* own part is the choice of the vector in handleException.                *)
(*                                                                         *)
(* The handlers are straight lines of instructions, entered at their head: *)
(*   refill      mtlo, tlbwr                                               *)
(*   dispatch    jrexc, with an instruction in its slot that only computes *)
(*   page fault  fixpte, tlbp, mtlo, tlbwi                                 *)
(*   call        mtepc                                                     *)
(* The rest of the kernel, the timer's handler among it, is any text that  *)
(* raises no exception and does not jump into them.                        *)
(***************************************************************************)
EXTENDS CmipsCore

CONSTANT KernelText   \* the addresses of the exception handlers

TlbCode == {"Mod", "TLBL", "TLBS"}
Memory == {"lw", "sw", "swl", "ll", "sc"}

RefillWrite  == Succ(RefillVec)
DispatchSlot == Succ(GeneralVec)
FaultHead    == HandlerOf["TLBL"]
FaultProbe   == Succ(FaultHead)
FaultLoad    == Succ(FaultProbe)
FaultWrite   == Succ(FaultLoad)
CallHead     == HandlerOf["SYS"]

Lines == {RefillVec, RefillWrite, GeneralVec, DispatchSlot, FaultHead,
          FaultProbe, FaultLoad, FaultWrite, CallHead}

\* The steps along the lines.
Along == {<<RefillVec, RefillWrite>>, <<GeneralVec, DispatchSlot>>,
          <<FaultHead, FaultProbe>>, <<FaultProbe, FaultLoad>>,
          <<FaultLoad, FaultWrite>>}

\* Where program p goes from a, at once or after the slot, when it neither
\* takes an exception nor returns from one.
Follows(p, a) ==
  {b \in Addr :
     \/ b = Succ(a) /\ p.op[a] # "eret"
     \/ b = p.target[a] /\ p.op[a] \in {"beq", "beql", "j"}
     \/ b = Succ(Succ(a)) /\ p.op[a] \in {"beq", "beql"}}

\* The user's text and the boot code: they never get into the handlers but by
\* an exception, and leave the TLB and EPC to them.
OutsideText(p) ==
  /\ p.op[BootPc] = "ei"
  /\ \A a \in Addr \ KernelText :
       /\ Follows(p, a) \cap KernelText = {}
       /\ p.op[a] \notin {"jrexc", "mtepc", "tlbwr", "tlbwi"}

\* The handlers' text: unmapped, as its data, left by ERET only, and without
\* system calls and store conditionals.
InsideText(p) ==
  \A a \in KernelText :
    /\ PageOf[a] = Unmapped
    /\ p.op[a] \notin {"ei", "syscall", "sc"}
    /\ p.op[a] \in Memory => p.data[a] = Unmapped
    /\ p.op[a] = "jrexc" => a = GeneralVec
    /\ p.op[a] = "mtepc" => a = CallHead
    /\ p.op[a] = "tlbwr" => a = RefillWrite
    /\ p.op[a] = "tlbwi" => a = FaultWrite
    /\ a # DispatchSlot =>
         \A b \in Follows(p, a) :
           b \in KernelText /\ (b \in Lines => <<a, b>> \in Along)

LinesText(p) ==
  /\ p.op[RefillVec] = "mtlo" /\ p.op[RefillWrite] = "tlbwr"
  /\ p.op[GeneralVec] = "jrexc" /\ p.op[DispatchSlot] = "alu"
  /\ p.op[FaultHead] = "fixpte" /\ p.op[FaultProbe] = "tlbp"
  /\ p.op[FaultLoad] = "mtlo" /\ p.op[FaultWrite] = "tlbwi"
  /\ p.op[CallHead] = "mtepc"

\* 0 is the address that EPC holds until the first exception.
ASSUME LayoutAssumption ==
  /\ KernelText \subseteq Addr
  /\ {0, BootPc, ErrorEpc} \cap KernelText = {}
  /\ Lines \subseteq KernelText
  /\ HandlerOf["Int"] \in KernelText \ Lines
  /\ \A c \in TlbCode : HandlerOf[c] = FaultHead

ASSUME KernelAssumption ==
  \A p \in Programs : OutsideText(p) /\ InsideText(p) /\ LinesText(p)
=============================================================================
