----------------------------- MODULE MCLockstep -----------------------------
(***************************************************************************)
(* The guests of the co-simulation, on words of four one-bit bytes and     *)
(* three registers.  Each guest combines the instructions of one kind with *)
(* enough others to reach every operand value.                             *)
(***************************************************************************)
EXTENDS Lockstep

Make(ops, ss, ts, ds, imms, sas) ==
  [op : ops, rs : ss, rt : ts, rd : ds, imm : imms, sa : sas]

MCReg == 0 .. 2
MCPc == {2} \cup (3 .. 7)                  \* -4
MCMemoryWords == {{}, {0}}                 \* bytes 0 to 7
MCInitialMemory == [w \in MCMemoryWords |-> IF w = {} THEN {0, 2, 3} ELSE {1}]
MCDeviceWord == {1}                        \* byte 8

Set(r, imms) == Make({"addiu"}, {0}, {r}, {0}, imms, {0})    \* r := imm
Increment(r) == Make({"addiu"}, {r}, {r}, {0}, {{0}}, {0})
DoubleSet(r) == Make({"daddiu"}, {0}, {r}, {0}, {{0}, {1}, {0, 1}}, {0})

LogicGuest ==
  Make(ThreeRegisterOps, {1, 2}, {1, 2}, {0, 1, 2}, {{}}, {0})
    \cup Make(ImmediateOps \ {"lui"}, {0, 1}, {1, 2}, {0}, Half, {0})
    \cup Make({"lui"}, {0}, {1, 2}, {0}, Half, {0})
ShiftGuest ==
  Make({"sll", "sra", "srl"}, {0}, {1, 2}, {1, 2}, {{}}, 0 .. 3)
    \cup Make({"sllv", "srav", "srlv"}, {1, 2}, {1, 2}, {1, 2}, {{}}, {0})
    \cup Increment(1) \cup Increment(2)
LaterGuest ==
  Make(ConditionalOps, {1, 2}, {1, 2}, {0, 1}, {{}}, {0})
    \cup Increment(1) \cup Increment(2)
MultiplyGuest ==                           \* r1 among 0, 1, -1 and -8
  Make(MultiplyOps, {1}, {2}, {0}, {{}}, {0}) \cup Make(MoveHiLoOps, {2}, {0}, {2}, {{}}, {0})
    \cup Set(1, {{0}, {0, 1}}) \cup Make({"lui"}, {0}, {1}, {0}, {{1}}, {0})
    \cup Set(2, {{0}, {0, 1}})
BranchGuest ==
  Make(BranchOps, {0, 1, 2}, {1}, {0}, Half, {0})
    \cup Make(JumpOps, {1, 2}, {0}, {1, 2}, {{0}, {1}}, {0})
    \cup Increment(1) \cup Increment(2)

(* r2 holds an address: with imm, any byte of the memory or of the UART. *)
Pointer == Make({"lui"}, {0}, {2}, {0}, {{}, {0}, {1}}, {0})
             \cup Make({"ori"}, {2}, {2}, {0}, {{1}}, {0})
Datum == Set(1, {{0}, {1}, {0, 1}})
Access(ops) == Make(ops, {2}, {1}, {0}, {{}, {0}}, {0})
Refresh == Make({"sw"}, {0}, {1}, {0}, {{}}, {0})
LoadGuest == Access(LoadOps) \cup Pointer \cup Datum \cup Refresh
StoreGuest == Access(StoreOps) \cup Pointer \cup Datum
PartialLoadGuest == Access({"lwl", "lwr"}) \cup Pointer \cup Datum \cup Refresh
PartialStoreGuest == Access({"swl", "swr"}) \cup Pointer \cup Datum
LinkedGuest == Access(LinkedOps) \cup Pointer \cup Datum \cup Refresh

DoubleGuest ==
  Make({"dadd", "daddu", "dsub", "dsubu", "dsllv", "dsrlv", "dsrav"},
       {2}, {1}, {1}, {{}}, {0})
    \cup Make({"dsll", "dsll32", "dsrl", "dsrl32", "dsra", "dsra32"},
              {0}, {1}, {1}, {{}}, {1})
    \cup Make({"daddi", "daddiu"}, {0, 1}, {1}, {0}, {{0, 1}}, {0}) \cup DoubleSet(2)
DoubleMultiplyGuest ==
  Make(DoubleMultiplyOps, {1}, {2}, {0}, {{}}, {0})
    \cup Make({"dsll"}, {0}, {1}, {1}, {{}}, {1}) \cup DoubleSet(1) \cup DoubleSet(2)
DoubleLoadGuest == Access({"lwu", "ld", "ldl", "ldr"}) \cup Pointer \cup DoubleSet(1)
DoubleStoreGuest == Access({"sd", "sdl", "sdr"}) \cup Pointer \cup DoubleSet(1)

MCPrograms == {LogicGuest, ShiftGuest, LaterGuest, MultiplyGuest, BranchGuest,
               LoadGuest, StoreGuest, PartialLoadGuest, PartialStoreGuest,
               LinkedGuest, DoubleGuest, DoubleMultiplyGuest, DoubleLoadGuest,
               DoubleStoreGuest}

(* The sums and comparisons of the cores are those of numbers. *)
ASSUME ArithmeticAssumption ==
  LET value(x) == Natural[x]
      signed(x) == Signed(x, WordBits)
  IN \A x, y \in Word :
       /\ value(Plus(x, y, WordBits)) = (value(x) + value(y)) % 2 ^ WordBits
       /\ value(Minus(x, y, WordBits)) = (value(x) - value(y)) % 2 ^ WordBits
       /\ Less(x, y, WordBits) <=> value(x) < value(y)
       /\ LessSigned(x, y, WordBits) <=> signed(x) < signed(y)
ASSUME ShiftsAssumption == 2 ^ ShiftBits = WordBits
=============================================================================
