-------------------------------- MODULE Uart --------------------------------
(***************************************************************************)
(* The 16550 serial port of the machine (src/uart.c).  The host thread     *)
(* pushes every character typed (uart_RecieveChar), the guest reads and    *)
(* writes the byte registers; both run under emu_mutex, so each call is    *)
(* one action.  Of each register only the bits the code tests are kept;    *)
(* LSR.FIFO_EMPTY is cleared and set again within one call (data is sent   *)
(* with no latency), so every other call finds it set.                     *)
(***************************************************************************)
EXTENDS Integers, Sequences

CONSTANTS
  FifoSize,        \* 32
  Char,            \* what the host may type or the guest loop back
  Nul,             \* the 0 that fifo[] starts with and uart_fifoGet returns
  GuestKeepsUp     \* TRUE: nothing is received while the FIFO is full

ASSUME FifoSizeAssumption == FifoSize \in Nat \ {0}
ASSUME KeepsUpAssumption == GuestKeepsUp \in BOOLEAN

VARIABLES
  fifo, fifoFirst, fifoLast, fifoCount,
  dataReady,       \* LSR.DATA_READY
  ierRdi, ierThri, \* IER.RDI, IER.THRI
  iir,             \* IIR
  dlab,            \* LCR.DLAB
  loopback,        \* MCR bit 4
  irq,             \* Cause bit 10, external interrupt 0
  rbr              \* what the last read of the data register returned

ring == <<fifo, fifoFirst, fifoLast, fifoCount>>
modes == <<dlab, loopback>>
vars == <<ring, dataReady, ierRdi, ierThri, iir, modes, irq, rbr>>

Index == 0 .. FifoSize - 1

\* (i + 1) % 32
After(i) == IF i = FifoSize - 1 THEN 0 ELSE i + 1

Init ==
  /\ fifo = [i \in Index |-> Nul]
  /\ fifoFirst = 0 /\ fifoLast = 0 /\ fifoCount = 0
  /\ dataReady = FALSE
  /\ ierRdi = FALSE /\ ierThri = FALSE
  /\ iir = "no_int"
  /\ dlab = FALSE /\ loopback = FALSE
  /\ irq = FALSE
  /\ rbr = Nul

-----------------------------------------------------------------------------
(* The FIFO and the interrupt line.                                        *)

\* Mutant of fifoHasData: an empty FIFO is taken to hold a character.
fifoHasDataAlways == fifoCount >= 0

fifoHasData == fifoCount > 0

\* Mutant of fifoPush: the count is capped one too low.
fifoPushShort(c) ==
  /\ fifo' = [fifo EXCEPT ![fifoLast] = c]
  /\ fifoLast' = After(fifoLast)
  /\ fifoCount' = IF fifoCount < FifoSize - 1 THEN fifoCount + 1
                                              ELSE FifoSize - 1
  /\ UNCHANGED fifoFirst

\* A full FIFO overwrites its oldest character and leaves fifoFirst there.
fifoPush(c) ==
  /\ fifo' = [fifo EXCEPT ![fifoLast] = c]
  /\ fifoLast' = After(fifoLast)
  /\ fifoCount' = IF fifoCount < FifoSize THEN fifoCount + 1 ELSE FifoSize
  /\ UNCHANGED fifoFirst

fifoGet ==
  /\ fifoFirst' = After(fifoFirst)
  /\ fifoCount' = fifoCount - 1
  /\ UNCHANGED <<fifo, fifoLast>>

\* Mutant of fifoClear: fifoLast is not reset.
fifoClearHalf ==
  fifoFirst' = 0 /\ fifoCount' = 0 /\ UNCHANGED <<fifo, fifoLast>>

fifoClear ==
  fifoLast' = 0 /\ fifoFirst' = 0 /\ fifoCount' = 0 /\ UNCHANGED fifo

\* uart_UpdateIrq, after the rest of the call has changed LSR and IER.
UpdateIrq ==
  /\ iir' = IF dataReady' /\ ierRdi' THEN "rdi"
            ELSE IF ierThri' THEN "thri" ELSE "no_int"
  /\ irq' = (iir' # "no_int")

-----------------------------------------------------------------------------
(* uart_RecieveChar.                                                       *)

Receive(c) ==
  /\ GuestKeepsUp => fifoCount < FifoSize
  /\ fifoPush(c)
  /\ dataReady' = TRUE
  /\ UNCHANGED <<ierRdi, ierThri, modes, rbr>>
  /\ UpdateIrq

\* main() hands over the character getchar() returned.
ReceiveChar == \E c \in Char : Receive(c)

-----------------------------------------------------------------------------
(* uart_ReadReg8.  Only the data register and LSR have side effects.       *)

\* Mutant of ReadData: DATA_READY is left as it was.
ReadDataStale ==
  /\ ~dlab /\ fifoHasData
  /\ rbr' = fifo[fifoFirst]
  /\ fifoGet
  /\ UNCHANGED dataReady
  /\ UNCHANGED <<ierRdi, ierThri, modes>>
  /\ UpdateIrq

ReadData ==
  /\ ~dlab /\ fifoHasData
  /\ rbr' = fifo[fifoFirst]
  /\ fifoGet
  /\ dataReady' = (fifoCount' > 0)
  /\ UNCHANGED <<ierRdi, ierThri, modes>>
  /\ UpdateIrq

\* An empty FIFO reads as 0 and leaves DATA_READY as it is.
ReadEmpty ==
  /\ ~dlab /\ ~fifoHasData
  /\ rbr' = Nul
  /\ UNCHANGED <<ring, dataReady, ierRdi, ierThri, modes>>
  /\ UpdateIrq

\* DATA_READY is recomputed, the interrupt is not.
ReadLsr ==
  /\ dataReady' = fifoHasData
  /\ UNCHANGED <<ring, ierRdi, ierThri, iir, modes, irq, rbr>>

-----------------------------------------------------------------------------
(* uart_WriteReg8.  With DLAB set offsets 0 and 1 are the divisor.         *)

WriteData ==
  /\ ~dlab
  /\ IF loopback
       THEN \E c \in Char : Receive(c)
       ELSE /\ UNCHANGED <<ring, dataReady, ierRdi, ierThri, modes, rbr>>
            /\ UpdateIrq

\* Mutant of WriteIer: what is already waiting is not looked at.
WriteIerBlind ==
  /\ ~dlab
  /\ ierRdi' \in BOOLEAN /\ ierThri' \in BOOLEAN
  /\ UNCHANGED <<ring, dataReady, iir, modes, irq, rbr>>

WriteIer ==
  /\ ~dlab
  /\ ierRdi' \in BOOLEAN /\ ierThri' \in BOOLEAN
  /\ UNCHANGED <<ring, dataReady, modes, rbr>>
  /\ UpdateIrq

\* FCR bit 1 empties the FIFO; LSR and the interrupt stay as they were.
WriteFcr ==
  /\ fifoClear
  /\ UNCHANGED <<dataReady, ierRdi, ierThri, iir, modes, irq, rbr>>

WriteLcr ==
  /\ dlab' \in BOOLEAN
  /\ UNCHANGED <<ring, dataReady, ierRdi, ierThri, iir, loopback, irq, rbr>>

WriteMcr ==
  /\ loopback' \in BOOLEAN
  /\ UNCHANGED <<ring, dataReady, ierRdi, ierThri, iir, dlab, irq, rbr>>

Next == \/ ReceiveChar
        \/ ReadData \/ ReadEmpty \/ ReadLsr
        \/ WriteData \/ WriteIer \/ WriteFcr \/ WriteLcr \/ WriteMcr

Spec == Init /\ [][Next]_vars

-----------------------------------------------------------------------------
(* Properties.                                                             *)

TypeOK ==
  /\ fifo \in [Index -> Char \cup {Nul}]
  /\ fifoFirst \in Index /\ fifoLast \in Index /\ fifoCount \in 0 .. FifoSize
  /\ dataReady \in BOOLEAN
  /\ ierRdi \in BOOLEAN /\ ierThri \in BOOLEAN
  /\ iir \in {"no_int", "thri", "rdi"}
  /\ dlab \in BOOLEAN /\ loopback \in BOOLEAN
  /\ irq \in BOOLEAN
  /\ rbr \in Char \cup {Nul}

\* The slot n places after fifoFirst.
Slot(n) == IF fifoFirst + n < FifoSize THEN fifoFirst + n
                                       ELSE fifoFirst + n - FifoSize

\* The three redundant fields of the ring agree: fifoLast is fifoCount places
\* after fifoFirst, across any mix of receptions, loopbacks, reads and FIFO
\* resets (fifoPush, fifoGet and fifoClear of uart.c update them separately), as
\* long as the guest keeps up: a full FIFO that goes on receiving breaks it.
RingAgrees ==
  fifoLast = IF fifoCount = FifoSize THEN fifoFirst ELSE Slot(fifoCount)

\* No interrupt is lost: while a character waits, DATA_READY says so, and if
\* the guest asked for the receive interrupt the line is up and IIR tells why.
\* A character may arrive between any two register accesses of the guest.
NoLostInterrupt ==
  fifoHasData => dataReady /\ (ierRdi => iir = "rdi" /\ irq)

\* A receive interrupt without a character to receive has one origin: a FIFO
\* reset that forgot LSR (uart.c:240).  Until then DATA_READY can be trusted,
\* and a guest that never resets the FIFO never takes a spurious interrupt.
StaleOnlyByReset ==
  [][ (dataReady' \/ iir' = "rdi") /\ fifoCount' = 0 =>
        \/ (dataReady \/ iir = "rdi") /\ fifoCount = 0
        \/ WriteFcr ]_vars

\* "FIFO code - used so we dont drop characters of input" (uart.c:73): what
\* was received and is waiting is still waiting, in order, after the next
\* character arrives.
Pending == [n \in 1 .. fifoCount |-> fifo[Slot(n - 1)]]
InputKept ==
  [][ ReceiveChar => SubSeq(Pending', 1, fifoCount) = Pending ]_vars

\* The receive side is a queue of characters, whatever the guest does with
\* the other registers, as long as it keeps up with the host.
Queue == INSTANCE CharQueue WITH queue <- Pending, got <- rbr
ImplementsQueue == Queue!Spec
=============================================================================
