-------------------------- MODULE MCVr4300Pipeline --------------------------
(***************************************************************************)
(* Instances of Vr4300Pipeline for TLC: 12 words of address space, seven   *)
(* of them for a program that loops, then a TLB refill handler (7, 8), a   *)
(* general handler that acknowledges the timer (9, 10) and a word fetched  *)
(* behind it and dropped (11).                                             *)
(***************************************************************************)
EXTENDS Vr4300PipelineOrder, Sequences

\* A program from its words; tgt gives the target of each branch.
Handlers == <<"nop", "eret", "ack", "eret", "nop">>
Words(ops, tgt) ==
  LET text == IF Len(ops) = Size THEN ops ELSE ops \o Handlers
  IN [op |-> [a \in Addr |-> text[a + 1]],
      target |-> [a \in Addr |-> IF a < Len(tgt) THEN tgt[a + 1] ELSE 0]]

\* Loads before a likely branch, a store in its slot, a slot that may fault.
LikelyLoop == Words(<<"ei", "lw", "beql", "sw", "mul", "j", "fpu">>,
                    <<0, 0, 5, 0, 0, 1, 0>>)

\* A conditional branch over a busy wait whose slot is a NOP.
BusyLoop == Words(<<"ei", "beq", "lw", "di", "ei", "j", "nop">>,
                  <<0, 4, 0, 0, 0, 5, 0>>)

\* Memory operations back to back: stores, cache operations, uncached loads.
MemoryLoop == Words(<<"ei", "sw", "sw", "cache", "lw", "j", "sw">>,
                    <<0, 0, 0, 0, 0, 1, 0>>)

\* Traps, with a handler that can itself fault before it returns.
TrapLoop == Words(<<"ei", "tne", "lw", "tne", "j", "ack", "nop",
                    "fpu", "eret", "ack", "fpu", "eret">>,
                  <<0, 0, 0, 0, 1>>)

CorePrograms == {LikelyLoop, BusyLoop, MemoryLoop}
AllPrograms == CorePrograms \cup {TrapLoop}
=============================================================================
