---------------------------- MODULE MCCmipsCore ----------------------------
(***************************************************************************)
(* A small guest for CmipsCore: two user pages of text, the branch at the  *)
(* end of the first one with its slot on the second, one page of data, and *)
(* the handlers of a kernel that refills the TLB, serves page faults and   *)
(* switches address spaces on every timer interrupt.                       *)
(***************************************************************************)
EXTENDS CmipsKernel, Sequences

Handlers == [c \in ExcCode |-> CASE c = "Int" -> 16
                                [] c = "SYS" -> 19
                                [] OTHER -> 21]

MCPageOf == [a \in Addr |-> CASE a \in 0 .. 3 -> 3
                             [] a \in 4 .. 7 -> 4
                             [] OTHER -> Unmapped]

DataPage == 6
SharedText == {2, 3}

Kernel ==
  << "ei", "j", "eret",                          \*  8: boot, then user
     "mtlo", "tlbwr", "eret",                    \* 11: refill
     "jrexc", "alu",                             \* 14: every other exception
     "ack", "asid", "eret",                      \* 16: timer interrupt
     "mtepc", "eret",                            \* 19: system call
     "fixpte", "tlbp", "mtlo", "tlbwi", "eret">> \* 21: page fault

\* A lock taken with LL and SC, a branch whose slot stores, and a sleep.
Lock == [op |-> <<"ll", "alu", "sc", "beq", "sw", "wait", "j", "alu">>,
         to |-> <<0, 0, 0, 6, 0, 0, 0, 0>>]

\* System calls, likely branches, and the store that ends the run.
Calls == [op |-> <<"syscall", "beql", "lw", "beql", "swl", "off", "j", "lw">>,
          to |-> <<0, 4, 0, 6, 0, 0, 0, 0>>]

Load(user) ==
  [op     |-> [a \in Addr |-> (user.op \o Kernel)[a + 1]],
   target |-> [a \in Addr |-> IF a < 8 THEN user.to[a + 1] ELSE 0],
   data   |-> [a \in Addr |-> DataPage]]

MCPrograms == {Load(Lock), Load(Calls)}

\* The handlers, without the boot code before them.
MCKernelText == 11 .. 25
=============================================================================
