----------------------------- MODULE MCMachine -----------------------------
(***************************************************************************)
(* The running program with a FIFO of two characters and every register.   *)
(***************************************************************************)
EXTENDS Machine

AllCalls == {"lsr", "ier", "lcr", "mcr", "clearLast", "fetch", "empty",
             "store", "thr"}
=============================================================================
