------------------------------ MODULE CharQueue ------------------------------
(***************************************************************************)
(* What the receive side of the UART promises its guest: a queue.  Every   *)
(* character typed at the host is read once, in the order typed, unless    *)
(* the guest flushes the queue.                                            *)
(***************************************************************************)
EXTENDS Sequences

CONSTANTS
  Char,   \* what can be received
  Nul     \* what a read of the empty queue returns

VARIABLES
  queue,  \* received and not yet read
  got     \* the result of the last read

Init == queue = <<>> /\ got = Nul

Put == /\ \E c \in Char : queue' = Append(queue, c)
       /\ UNCHANGED got

Take == /\ queue # <<>>
        /\ got' = Head(queue)
        /\ queue' = Tail(queue)

TakeNothing == queue = <<>> /\ got' = Nul /\ UNCHANGED queue

Flush == queue' = <<>> /\ UNCHANGED got

Next == Put \/ Take \/ TakeNothing \/ Flush

Spec == Init /\ [][Next]_<<queue, got>>
=============================================================================
