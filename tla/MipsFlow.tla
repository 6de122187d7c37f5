------------------------------ MODULE MipsFlow ------------------------------
(***************************************************************************)
(* The order in which a MIPS core executes its program: delayed branches,  *)
(* annulled slots, exceptions that can be returned from, and ERET.  What   *)
(* the instructions compute is left out; what is promised is that nothing  *)
(* is skipped or executed twice, except the branch whose slot trapped.     *)
(***************************************************************************)
EXTENDS Integers

CONSTANTS
  Size,      \* addresses are 0 .. Size-1 and wrap
  BootPc,    \* where execution starts
  ErrorEpc,  \* where an ERET at error level goes
  Vectors    \* where handlers start

Addr == 0 .. Size - 1
Succ(a) == IF a = Size - 1 THEN 0 ELSE a + 1
Pred(a) == IF a = 0 THEN Size - 1 ELSE a - 1

VARIABLES
  pc, npc,   \* the next instruction and the one after it
  slot,      \* pc is the delay slot of the branch before it
  exl, erl,  \* at exception level, at error level
  epc        \* where the exception level returns to

where == <<pc, npc, slot>>
vars == <<where, exl, erl, epc>>

Init == /\ pc = BootPc /\ npc = Succ(BootPc) /\ slot = FALSE
        /\ exl = FALSE /\ erl = TRUE
        /\ epc = 0

\* Execution continues at an address that is no delay slot.
GoTo(a) == pc' = a /\ npc' = Succ(a) /\ slot' = FALSE

\* An instruction that is no branch; it may write Status or EPC.
Execute == /\ GoTo(npc)
           /\ \/ UNCHANGED <<exl, erl, epc>>
              \/ exl' = FALSE /\ erl' = FALSE /\ UNCHANGED epc
              \/ epc' \in Addr /\ UNCHANGED <<exl, erl>>

\* A branch, taken or not, whose delay slot comes next.
Branch == /\ ~slot
          /\ pc' = npc /\ npc' \in Addr /\ slot' = TRUE
          /\ UNCHANGED <<exl, erl, epc>>

\* A likely branch that is not taken annuls its slot.
AnnulSlot == /\ ~slot
             /\ GoTo(Succ(npc))
             /\ UNCHANGED <<exl, erl, epc>>

\* The instruction at pc is not executed; unless one is already being handled
\* EPC says where to resume, at the branch if pc is its slot.
Trap == /\ \E v \in Vectors : GoTo(v)
        /\ epc' = IF exl THEN epc ELSE IF slot THEN Pred(pc) ELSE pc
        /\ exl' = TRUE
        /\ UNCHANGED erl

Return == /\ ~slot
          /\ IF erl THEN GoTo(ErrorEpc) /\ erl' = FALSE /\ UNCHANGED exl
                    ELSE GoTo(epc) /\ exl' = FALSE /\ UNCHANGED erl
          /\ UNCHANGED epc

Next == Execute \/ Branch \/ AnnulSlot \/ Trap \/ Return

Spec == Init /\ [][Next]_vars
=============================================================================
