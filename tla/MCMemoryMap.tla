---------------------------- MODULE MCMemoryMap ----------------------------
(***************************************************************************)
(* More devices than the table has room for, mapped in every order.        *)
(***************************************************************************)
EXTENDS MemoryMap

MCRanges == {[start |-> 2 * n, length |-> 1 + (n % 2)] : n \in 1 .. 8}
=============================================================================
