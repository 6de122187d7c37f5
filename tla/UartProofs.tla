----------------------------- MODULE UartProofs -----------------------------
(***************************************************************************)
(* For a FIFO of any size and any set of characters: the fields of the     *)
(* UART are consistent, no receive interrupt is lost, and as long as the   *)
(* guest keeps up the receive side is a queue.                             *)
(***************************************************************************)
EXTENDS Uart, SequenceTheorems, TLAPS

\* The ring needs the guest to keep up, the interrupt does not.
IInv == TypeOK /\ NoLostInterrupt /\ (GuestKeepsUp => RingAgrees)

LEMMA IndexArithmetic ==
  /\ 0 \in Index /\ FifoSize \in Nat /\ 0 \in 0 .. FifoSize
  /\ \A i \in Index : After(i) \in Index
  BY FifoSizeAssumption DEF Index, After

\* What uart_UpdateIrq leaves behind.
LEMMA UpdatedIrq ==
  ASSUME UpdateIrq
  PROVE  /\ iir' \in {"no_int", "thri", "rdi"} /\ irq' \in BOOLEAN
         /\ dataReady' /\ ierRdi' => iir' = "rdi" /\ irq'
<1>1. iir' \in {"no_int", "thri", "rdi"}
  BY DEF UpdateIrq
<1>2. irq' \in BOOLEAN
  BY Zenon DEF UpdateIrq
<1>3. dataReady' /\ ierRdi' => iir' = "rdi"
  BY DEF UpdateIrq
<1>4. iir' # "no_int" => irq'
  BY Zenon DEF UpdateIrq
<1>5. QED
  BY <1>1, <1>2, <1>3, <1>4

LEMMA InitInv == Init => IInv
<1> SUFFICES ASSUME Init PROVE IInv
  OBVIOUS
<1>1. /\ dataReady \in BOOLEAN /\ ierRdi \in BOOLEAN /\ ierThri \in BOOLEAN
      /\ dlab \in BOOLEAN /\ loopback \in BOOLEAN /\ irq \in BOOLEAN
  BY Zenon DEF Init
<1>2. TypeOK
  BY <1>1, IndexArithmetic DEF Init, TypeOK
<1>3. NoLostInterrupt
  BY DEF Init, NoLostInterrupt, fifoHasData
<1>4. RingAgrees
  BY FifoSizeAssumption DEF Init, RingAgrees, Slot
<1>5. QED
  BY <1>2, <1>3, <1>4 DEF IInv

LEMMA ReceiveInv ==
  ASSUME IInv, NEW c \in Char, Receive(c)
  PROVE  IInv'
<1>1. /\ fifo' \in [Index -> Char \cup {Nul}] /\ fifoLast' \in Index
      /\ fifoCount' \in 0 .. FifoSize
  BY IndexArithmetic DEF IInv, TypeOK, Receive, fifoPush
<1>2. dataReady'
  BY Zenon DEF Receive
<1>3. dataReady' \in BOOLEAN
  BY Zenon DEF Receive
<1>4. TypeOK'
  BY <1>1, <1>3, UpdatedIrq DEF IInv, TypeOK, Receive, fifoPush, modes
<1>5. NoLostInterrupt'
  BY <1>2, UpdatedIrq, Zenon DEF NoLostInterrupt, Receive
<1>6. ASSUME GuestKeepsUp PROVE RingAgrees'
  BY <1>6, FifoSizeAssumption
  DEF IInv, TypeOK, RingAgrees, Slot, Receive, fifoPush, After, Index
<1>7. QED
  BY <1>4, <1>5, <1>6 DEF IInv

LEMMA ReadDataInv ==
  ASSUME IInv, ReadData
  PROVE  IInv'
<1>1. fifoCount \in 1 .. FifoSize /\ fifoFirst' \in Index
  BY IndexArithmetic DEF IInv, TypeOK, ReadData, fifoHasData, fifoGet
<1>2. fifoCount' \in 0 .. FifoSize /\ rbr' \in Char \cup {Nul}
  <2>1. fifoCount' = fifoCount - 1
    BY DEF ReadData, fifoGet
  <2>2. rbr' = fifo[fifoFirst]
    BY DEF ReadData
  <2>3. fifoCount' \in 0 .. FifoSize
    BY <1>1, <2>1, IndexArithmetic
  <2>4. rbr' \in Char \cup {Nul}
    BY <2>2 DEF IInv, TypeOK
  <2>5. QED
    BY <2>3, <2>4
<1>3. dataReady' \in BOOLEAN /\ (fifoCount' > 0 => dataReady')
  <2>1. (fifoCount' > 0) \in BOOLEAN
    OBVIOUS
  <2>2. QED
    BY <2>1, Zenon DEF ReadData
<1>4. TypeOK'
  BY <1>1, <1>2, <1>3, UpdatedIrq DEF IInv, TypeOK, ReadData, fifoGet, modes
<1>5. NoLostInterrupt'
  BY <1>3, UpdatedIrq DEF NoLostInterrupt, fifoHasData, ReadData
<1>6. ASSUME GuestKeepsUp PROVE RingAgrees'
  BY <1>1, <1>6, FifoSizeAssumption
  DEF IInv, TypeOK, RingAgrees, Slot, ReadData, fifoGet, After, Index
<1>7. QED
  BY <1>4, <1>5, <1>6 DEF IInv

LEMMA StepInv ==
  ASSUME IInv, [Next]_vars
  PROVE  IInv'
<1>1. CASE ReceiveChar
  BY <1>1, ReceiveInv DEF ReceiveChar
<1>2. CASE ReadData
  BY <1>2, ReadDataInv
\* Every other access leaves the ring alone or resets it.
<1>3. ASSUME UNCHANGED ring
      PROVE  (GuestKeepsUp => RingAgrees') /\ (fifoHasData' => fifoHasData)
  BY <1>3 DEF IInv, ring, RingAgrees, Slot, fifoHasData
<1>4. CASE ReadEmpty
  <2>1. TypeOK'
    BY <1>4, UpdatedIrq DEF IInv, TypeOK, ReadEmpty, ring, modes
  <2>2. NoLostInterrupt'
    BY <1>4 DEF NoLostInterrupt, fifoHasData, ReadEmpty, ring
  <2>3. QED
    BY <1>3, <1>4, <2>1, <2>2 DEF IInv, ReadEmpty
<1>5. CASE ReadLsr
  <2>1. dataReady' \in BOOLEAN /\ (fifoHasData => dataReady')
    <3>1. fifoHasData \in BOOLEAN
      BY DEF fifoHasData
    <3>2. QED
      BY <1>5, <3>1, Zenon DEF ReadLsr
  <2>2. TypeOK'
    BY <1>5, <2>1 DEF IInv, TypeOK, ReadLsr, ring, modes
  <2>3. NoLostInterrupt'
    BY <1>5, <2>1 DEF IInv, NoLostInterrupt, fifoHasData, ReadLsr, ring
  <2>4. QED
    BY <1>3, <1>5, <2>2, <2>3 DEF IInv, ReadLsr
<1>6. CASE WriteData
  <2>1. CASE loopback
    <3>1. PICK c \in Char : Receive(c)
      BY <1>6, <2>1 DEF WriteData
    <3>2. QED
      BY <3>1, ReceiveInv
  <2>2. CASE ~loopback
    <3>1. UpdateIrq /\ UNCHANGED <<ring, dataReady, ierRdi, ierThri, modes, rbr>>
      BY <1>6, <2>2 DEF WriteData
    <3>2. TypeOK'
      BY <3>1, UpdatedIrq DEF IInv, TypeOK, ring, modes
    <3>3. NoLostInterrupt'
      BY <3>1, UpdatedIrq DEF IInv, NoLostInterrupt, fifoHasData, ring
    <3>4. QED
      BY <1>3, <3>1, <3>2, <3>3 DEF IInv
  <2>3. QED
    BY <2>1, <2>2
<1>7. CASE WriteIer
  <2>1. TypeOK'
    BY <1>7, UpdatedIrq DEF IInv, TypeOK, WriteIer, ring, modes
  <2>2. NoLostInterrupt'
    BY <1>7, UpdatedIrq DEF IInv, NoLostInterrupt, fifoHasData, WriteIer, ring
  <2>3. QED
    BY <1>3, <1>7, <2>1, <2>2 DEF IInv, WriteIer
<1>8. CASE WriteFcr
  <2>1. TypeOK'
    BY <1>8, IndexArithmetic DEF IInv, TypeOK, WriteFcr, fifoClear, modes
  <2>2. NoLostInterrupt'
    BY <1>8 DEF NoLostInterrupt, fifoHasData, WriteFcr, fifoClear
  <2>3. RingAgrees'
    BY <1>8, FifoSizeAssumption DEF RingAgrees, Slot, WriteFcr, fifoClear
  <2>4. QED
    BY <2>1, <2>2, <2>3 DEF IInv
<1>9. CASE WriteLcr \/ WriteMcr \/ UNCHANGED vars
  <2>1. TypeOK'
    BY <1>9 DEF IInv, TypeOK, WriteLcr, WriteMcr, vars, ring, modes
  <2>2. UNCHANGED <<ring, dataReady, ierRdi, iir, irq>>
    BY <1>9 DEF WriteLcr, WriteMcr, vars
  <2>3. NoLostInterrupt'
    BY <2>2 DEF IInv, NoLostInterrupt, fifoHasData, ring
  <2>4. QED
    BY <1>3, <2>1, <2>2, <2>3 DEF IInv
<1>10. QED
  BY <1>1, <1>2, <1>4, <1>5, <1>6, <1>7, <1>8, <1>9 DEF Next

\* The inductive invariant: types, the interrupt and, without overflow, the ring.
THEOREM Invariance == Spec => []IInv
<1>1. Init => IInv
  BY InitInv
<1>2. IInv /\ [Next]_vars => IInv'
  BY StepInv
<1>3. QED
  BY <1>1, <1>2, PTL DEF Spec

-----------------------------------------------------------------------------
(* The refinement: what is pending is the abstract queue.                  *)

\* The pending characters form a sequence, read off the ring.
PendingIsSeq ==
  /\ Pending \in Seq(Char \cup {Nul}) /\ Len(Pending) = fifoCount
  /\ \A n \in 1 .. fifoCount : Pending[n] = fifo[Slot(n - 1)]

LEMMA PendingSeq == TypeOK => PendingIsSeq
<1> SUFFICES ASSUME TypeOK PROVE PendingIsSeq
  OBVIOUS
<1>1. \A n \in 1 .. fifoCount : Slot(n - 1) \in Index
  BY FifoSizeAssumption DEF TypeOK, Slot, Index
<1>2. Pending \in [1 .. fifoCount -> Char \cup {Nul}]
  BY <1>1 DEF TypeOK, Pending
<1>3. fifoCount \in Nat
  BY FifoSizeAssumption DEF TypeOK
<1>4. Pending \in Seq(Char \cup {Nul})
  BY <1>2, <1>3, SeqDef
<1>5. QED
  BY <1>2, <1>3, <1>4 DEF Pending, PendingIsSeq

LEMMA PendingSeqNext == TypeOK' => PendingIsSeq'
  BY PendingSeq, PTL

\* Receiving appends when the ring has room.
LEMMA ReceivePuts ==
  ASSUME IInv, GuestKeepsUp, NEW c \in Char, Receive(c), TypeOK'
  PROVE  Queue!Put
<1> DEFINE S == Char \cup {Nul}
<1>1. fifoCount < FifoSize /\ fifoCount' = fifoCount + 1 /\ fifoCount \in Nat
  BY FifoSizeAssumption DEF Receive, fifoPush, IInv, TypeOK
<1>2. fifoLast = Slot(fifoCount) /\ fifoLast \in Index
  BY <1>1, FifoSizeAssumption DEF IInv, TypeOK, RingAgrees
<1>3. fifo' = [fifo EXCEPT ![fifoLast] = c] /\ fifoFirst' = fifoFirst
  BY DEF Receive, fifoPush
<1>4. \A n \in 1 .. fifoCount + 1 :
        Pending'[n] = fifo'[Slot(n - 1)]
  BY <1>1, <1>3, PendingSeqNext DEF Slot, PendingIsSeq
<1>5. \A n \in 1 .. fifoCount :
        Slot(n - 1) \in Index /\ Slot(n - 1) # Slot(fifoCount)
  BY <1>1, FifoSizeAssumption DEF IInv, TypeOK, Slot, Index
<1>6. \A n \in 1 .. fifoCount : Pending'[n] = Pending[n]
  BY <1>1, <1>2, <1>3, <1>4, <1>5, PendingSeq DEF IInv, TypeOK, PendingIsSeq
<1>7. Pending'[fifoCount + 1] = c
  BY <1>1, <1>2, <1>3, <1>4 DEF IInv, TypeOK
<1>8. Pending' \in Seq(S) /\ Len(Pending') = fifoCount + 1
  BY <1>1, PendingSeqNext DEF PendingIsSeq
<1>9. /\ Append(Pending, c) \in Seq(S) /\ Len(Append(Pending, c)) = fifoCount + 1
      /\ \A n \in 1 .. fifoCount : Append(Pending, c)[n] = Pending[n]
      /\ Append(Pending, c)[fifoCount + 1] = c
  BY PendingSeq, AppendProperties DEF IInv, PendingIsSeq
<1>10. \A n \in 1 .. fifoCount + 1 : Pending'[n] = Append(Pending, c)[n]
  BY <1>1, <1>6, <1>7, <1>9
<1>11. Pending' = Append(Pending, c)
  <2> HIDE DEF S
  <2>1. QED
    BY <1>8, <1>9, <1>10, SeqEqual
<1>12. QED
  BY <1>11 DEF Queue!Put, Receive

\* Reading the data register takes the oldest character.
LEMMA ReadDataTakes ==
  ASSUME IInv, ReadData, TypeOK'
  PROVE  Queue!Take
<1> DEFINE S == Char \cup {Nul}
<1>1. /\ fifoCount' = fifoCount - 1 /\ fifoCount \in 1 .. FifoSize
      /\ fifo' = fifo /\ fifoFirst' = After(fifoFirst)
      /\ fifoFirst \in Index
  BY FifoSizeAssumption DEF ReadData, fifoHasData, fifoGet, IInv, TypeOK
<1>2. Pending \in Seq(S) /\ Len(Pending) = fifoCount /\ Pending # <<>>
  BY <1>1, PendingSeq, EmptySeq DEF IInv, PendingIsSeq
<1>3. Head(Pending) = fifo[fifoFirst]
  <2>1. Head(Pending) = Pending[1]
    BY <1>2
  <2>2. Slot(0) = fifoFirst
    BY <1>1, FifoSizeAssumption DEF Slot, Index
  <2>3. QED
    BY <1>1, <2>1, <2>2, PendingSeq DEF IInv, PendingIsSeq
<1>4. \A n \in 1 .. fifoCount - 1 : Pending'[n] = Pending[n + 1]
  <2>1. \A n \in 1 .. fifoCount - 1 :
          Pending'[n] = fifo[IF After(fifoFirst) + (n - 1) < FifoSize
                             THEN After(fifoFirst) + (n - 1)
                             ELSE After(fifoFirst) + (n - 1) - FifoSize]
    BY <1>1, PendingSeqNext DEF PendingIsSeq, Slot
  <2>2. \A n \in 1 .. fifoCount - 1 : Pending[n + 1] = fifo[Slot(n)]
    BY <1>1, PendingSeq DEF IInv, PendingIsSeq
  <2>3. \A n \in 1 .. fifoCount - 1 :
          Slot(n) = IF After(fifoFirst) + (n - 1) < FifoSize
                    THEN After(fifoFirst) + (n - 1)
                    ELSE After(fifoFirst) + (n - 1) - FifoSize
    BY <1>1, FifoSizeAssumption DEF Slot, After, Index
  <2>4. QED
    BY <2>1, <2>2, <2>3
<1>5. Pending' \in Seq(S) /\ Len(Pending') = fifoCount - 1
  BY <1>1, PendingSeqNext DEF PendingIsSeq
<1>6. /\ Tail(Pending) \in Seq(S) /\ Len(Tail(Pending)) = fifoCount - 1
      /\ \A n \in 1 .. fifoCount - 1 : Tail(Pending)[n] = Pending[n + 1]
  BY <1>2, HeadTailProperties
<1>7. Pending' = Tail(Pending)
  <2> HIDE DEF S
  <2>1. \A n \in 1 .. fifoCount - 1 : Pending'[n] = Tail(Pending)[n]
    BY <1>4, <1>6
  <2>2. QED
    BY <1>5, <1>6, <2>1, SeqEqual
<1>8. QED
  BY <1>2, <1>3, <1>7 DEF Queue!Take, ReadData

LEMMA NothingPending == TypeOK => (Pending = <<>> <=> fifoCount = 0)
  BY PendingSeq, EmptySeq DEF PendingIsSeq

LEMMA NothingPendingNext == TypeOK' => (Pending' = <<>> <=> fifoCount' = 0)
  BY PendingSeqNext, EmptySeq DEF PendingIsSeq

LEMMA StepRefines ==
  ASSUME GuestKeepsUp, IInv, [Next]_vars, TypeOK'
  PROVE  [Queue!Next]_<<Pending, rbr>>
<1>1. CASE ReceiveChar
  BY <1>1, ReceivePuts DEF ReceiveChar, Queue!Next
<1>2. CASE ReadData
  BY <1>2, ReadDataTakes DEF Queue!Next
<1>3. CASE UNCHANGED <<ring, rbr>>
  BY <1>3 DEF ring, Pending, Slot
<1>4. CASE ReadEmpty
  <2>1. Pending = <<>> /\ rbr' = Nul /\ Pending' = Pending
    BY <1>4, NothingPending DEF IInv, TypeOK, ReadEmpty, fifoHasData, ring,
                                Pending, Slot
  <2>2. QED
    BY <2>1 DEF Queue!TakeNothing, Queue!Next
<1>5. CASE WriteFcr
  <2>1. Pending' = <<>> /\ rbr' = rbr
    BY <1>5, NothingPendingNext DEF WriteFcr, fifoClear
  <2>2. QED
    BY <2>1 DEF Queue!Flush, Queue!Next
<1>6. CASE WriteData
  <2>1. CASE loopback
    BY <1>6, <2>1, ReceivePuts DEF WriteData, Queue!Next
  <2>2. CASE ~loopback
    BY <1>3, <1>6, <2>2 DEF WriteData
  <2>3. QED
    BY <2>1, <2>2
<1>7. CASE ReadLsr \/ WriteIer \/ WriteLcr \/ WriteMcr \/ UNCHANGED vars
  BY <1>3, <1>7 DEF ReadLsr, WriteIer, WriteLcr, WriteMcr, vars
<1>8. QED
  BY <1>1, <1>2, <1>4, <1>5, <1>6, <1>7 DEF Next

\* While the guest keeps up, whatever it does with the registers, it reads
\* what was typed, once and in order (uart_fifoPush to uart_ReadReg8).
THEOREM Refinement == ASSUME GuestKeepsUp PROVE Spec => ImplementsQueue
<1>1. Init => Queue!Init
  <2>1. Init => Pending = <<>> /\ rbr = Nul
    BY InitInv, NothingPending DEF IInv, Init
  <2>2. QED
    BY <2>1 DEF Queue!Init
<1>2. IInv /\ IInv' /\ [Next]_vars => [Queue!Next]_<<Pending, rbr>>
  BY StepRefines DEF IInv
<1>3. QED
  BY <1>1, <1>2, Invariance, PTL DEF Spec, ImplementsQueue, Queue!Spec

\* The fields of the UART keep their ranges: no access indexes outside fifo[].
THEOREM TypeCorrect == Spec => []TypeOK
<1>1. IInv => TypeOK
  BY DEF IInv
<1>2. QED
  BY <1>1, Invariance, PTL

\* No receive interrupt is lost, also when the FIFO overflows.
THEOREM InterruptsKept == Spec => []NoLostInterrupt
<1>1. IInv => NoLostInterrupt
  BY DEF IInv
<1>2. QED
  BY <1>1, Invariance, PTL

\* While the guest keeps up the fields of the ring agree.
THEOREM RingKept == ASSUME GuestKeepsUp PROVE Spec => []RingAgrees
<1>1. IInv => RingAgrees
  BY DEF IInv
<1>2. QED
  BY <1>1, Invariance, PTL

-----------------------------------------------------------------------------
(* A receive interrupt without a character comes from a FIFO reset only.   *)

\* The guest has something to come for: DATA_READY, or IIR names reception.
Announced == dataReady \/ iir = "rdi"

\* What uart_UpdateIrq announces, DATA_READY announces.
LEMMA UpdatedAnnounces == UpdateIrq => (Announced' => dataReady')
  BY DEF UpdateIrq, Announced

LEMMA StaleStep ==
  ASSUME IInv, Next, Announced', fifoCount' = 0, ~WriteFcr
  PROVE  Announced /\ fifoCount = 0
<1>0. fifoCount \in 0 .. FifoSize /\ dataReady \in BOOLEAN
  BY DEF IInv, TypeOK
<1>1. ASSUME NEW c \in Char, Receive(c) PROVE FALSE
  <2>1. fifoCount' = IF fifoCount < FifoSize THEN fifoCount + 1 ELSE FifoSize
    BY <1>1 DEF Receive, fifoPush
  <2>2. QED
    BY <1>0, <2>1, FifoSizeAssumption
<1>2. ASSUME ReadData PROVE FALSE
  <2>1. dataReady' = (fifoCount' > 0) /\ UpdateIrq
    BY <1>2, Zenon DEF ReadData
  <2>2. dataReady'
    BY <2>1, UpdatedAnnounces
  <2>3. ~(fifoCount' > 0)
    OBVIOUS
  <2>4. QED
    BY <2>1, <2>2, <2>3, Zenon
<1>3. CASE UNCHANGED <<ring, dataReady>> /\ UpdateIrq
  BY <1>3, UpdatedAnnounces DEF ring, Announced
<1>4. CASE UNCHANGED <<ring, dataReady, iir>>
  BY <1>4 DEF ring, Announced
\* Reading LSR makes DATA_READY right and leaves the rest.
<1>5. CASE ReadLsr
  <2>1. UNCHANGED <<ring, iir>> /\ dataReady' = fifoHasData
    BY <1>5, Zenon DEF ReadLsr
  <2>2. fifoCount = 0 /\ ~fifoHasData
    BY <2>1 DEF ring, fifoHasData
  <2>3. ~dataReady'
    BY <2>1, <2>2, Zenon
  <2>4. QED
    BY <2>1, <2>2, <2>3 DEF Announced
<1>6. CASE ReceiveChar
  BY <1>1, <1>6 DEF ReceiveChar
<1>7. CASE WriteData
  BY <1>1, <1>3, <1>7 DEF WriteData
<1>8. CASE ReadEmpty \/ WriteIer
  BY <1>3, <1>8 DEF ReadEmpty, WriteIer
<1>9. CASE WriteLcr \/ WriteMcr
  BY <1>4, <1>9 DEF WriteLcr, WriteMcr
<1>10. QED
  BY <1>2, <1>5, <1>6, <1>7, <1>8, <1>9 DEF Next

\* DATA_READY and IIR announce a character that is not there only after a FIFO
\* reset (uart.c:240), also when the FIFO overflows.
THEOREM StaleFromReset == Spec => StaleOnlyByReset
<1>1. IInv /\ [Next]_vars =>
        [ (dataReady' \/ iir' = "rdi") /\ fifoCount' = 0 =>
            \/ (dataReady \/ iir = "rdi") /\ fifoCount = 0
            \/ WriteFcr ]_vars
  BY StaleStep DEF Announced
<1>2. QED
  BY <1>1, Invariance, PTL DEF Spec, StaleOnlyByReset
=============================================================================
