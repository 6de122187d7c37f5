--------------------------- MODULE MachineProofs ---------------------------
(***************************************************************************)
(* Proofs about the running program: emu_mutex is never held by a thread   *)
(* that does not stand inside a critical section, and every call into the  *)
(* UART is one atomic step of Uart, for every FIFO size, character set and *)
(* batch length.                                                           *)
(***************************************************************************)
EXTENDS Machine, TLAPS

-----------------------------------------------------------------------------
(* The inductive invariant.                                                *)

Serial ==
  [ fifo : [Index -> Char \cup {Nul}], fifoFirst : Index, fifoLast : Index,
    fifoCount : Nat, dataReady : BOOLEAN, ierRdi : BOOLEAN, ierThri : BOOLEAN,
    iir : {"no_int", "rdi", "thri"}, dlab : BOOLEAN, loopback : BOOLEAN,
    irq : BOOLEAN, rbr : Char \cup {Nul} ]

\* The places where a thread works under the mutex, and the others.
Critical == Inside \cup {"step", "unlock"}
Apart == {"check", "lock", "free", "exit", "getchar"}

Types ==
  /\ at \in [Thread -> Critical \cup Apart]
  /\ back \in [Thread -> {"step", "sent", "unlock"}]
  /\ c \in [Thread -> Char \cup {Nul}]
  /\ serial \in Serial
  /\ seen \in Serial

\* A thread is in its critical section exactly while it holds emu_mutex.
Mutex == \A t \in Thread : at[t] \in Critical <=> emu_mutex = t

\* What a call that began with the port s and stands at a place has done to it.
SameRing(s, n) == /\ n.fifo = s.fifo /\ n.fifoFirst = s.fifoFirst
                  /\ n.fifoLast = s.fifoLast /\ n.fifoCount = s.fifoCount
SameIer(s, n) == n.ierRdi = s.ierRdi /\ n.ierThri = s.ierThri
SameIrq(s, n) == n.iir = s.iir /\ n.irq = s.irq
SameModes(s, n) == n.dlab = s.dlab /\ n.loopback = s.loopback
SameData(s, n) == n.dataReady = s.dataReady
SameRbr(s, n) == n.rbr = s.rbr

Added(count) == IF count < FifoSize THEN count + 1 ELSE FifoSize

Received(s, n) ==
  /\ \E x \in Char : n.fifo = [s.fifo EXCEPT ![s.fifoLast] = x]
  /\ n.fifoFirst = s.fifoFirst
  /\ n.fifoLast = After(s.fifoLast)
  /\ n.fifoCount = Added(s.fifoCount)
  /\ n.dataReady = TRUE
  /\ SameIer(s, n) /\ SameModes(s, n) /\ SameRbr(s, n)

Fetched(s, n) ==
  /\ s.dlab = FALSE /\ s.fifoCount > 0
  /\ n.rbr = s.fifo[s.fifoFirst]
  /\ n.fifo = s.fifo
  /\ n.fifoFirst = After(s.fifoFirst)
  /\ n.fifoLast = s.fifoLast
  /\ n.fifoCount = s.fifoCount - 1
  /\ n.dataReady = (n.fifoCount > 0)
  /\ SameIer(s, n) /\ SameModes(s, n)

Emptied(s, n) ==
  /\ s.dlab = FALSE /\ ~(s.fifoCount > 0)
  /\ n.rbr = Nul
  /\ SameRing(s, n) /\ SameData(s, n) /\ SameIer(s, n) /\ SameModes(s, n)

IerWritten(s, n) ==
  /\ s.dlab = FALSE
  /\ SameRing(s, n) /\ SameData(s, n) /\ SameModes(s, n) /\ SameRbr(s, n)

ThrWritten(s, n) ==
  /\ s.dlab = FALSE /\ s.loopback = FALSE
  /\ SameRing(s, n) /\ SameData(s, n) /\ SameIer(s, n) /\ SameModes(s, n)
  /\ SameRbr(s, n)

Effect(s, n) == \/ Received(s, n) \/ Fetched(s, n) \/ Emptied(s, n)
                \/ IerWritten(s, n) \/ ThrWritten(s, n)

Judged(n) == n.iir = IF n.dataReady /\ n.ierRdi THEN "rdi"
                     ELSE IF n.ierThri THEN "thri" ELSE "no_int"
Raised(n) == n.irq = (n.iir # "no_int")

\* The rest of the port, which a push or a get has not reached yet.
PushRest(s, n) == SameIer(s, n) /\ SameIrq(s, n) /\ SameModes(s, n)
                    /\ SameRbr(s, n)
GetRest(s, n) == /\ SameIer(s, n) /\ SameIrq(s, n) /\ SameModes(s, n)
                 /\ s.dlab = FALSE /\ s.fifoCount > 0
                 /\ n.rbr = s.fifo[s.fifoFirst]
                 /\ n.fifo = s.fifo /\ n.fifoLast = s.fifoLast

Midway(p, s, n, x) ==
  /\ p \in {"store", "fetch", "empty", "lsr", "ier", "lcr", "mcr", "thr",
            "clearLast"} => n = s
  /\ p = "store" => x \in Char
  /\ p = "fetch" => s.dlab = FALSE /\ s.fifoCount > 0
  /\ p = "empty" => s.dlab = FALSE /\ ~(s.fifoCount > 0)
  /\ p = "ier" => s.dlab = FALSE
  /\ p = "thr" => s.dlab = FALSE /\ s.loopback = FALSE
  /\ p \in {"last", "count", "cap", "ready"} =>
       /\ \E y \in Char : n.fifo = [s.fifo EXCEPT ![s.fifoLast] = y]
       /\ n.fifoFirst = s.fifoFirst
       /\ SameData(s, n) /\ PushRest(s, n)
  /\ p = "last" => n.fifoLast = s.fifoLast /\ n.fifoCount = s.fifoCount
  /\ p = "count" => n.fifoLast = After(s.fifoLast) /\ n.fifoCount = s.fifoCount
  /\ p = "cap" => /\ n.fifoLast = After(s.fifoLast)
                  /\ n.fifoCount = s.fifoCount + 1
  /\ p = "ready" => /\ n.fifoLast = After(s.fifoLast)
                    /\ n.fifoCount = Added(s.fifoCount)
  /\ p \in {"first", "take", "clear", "again"} => GetRest(s, n)
  /\ p = "first" => n.fifoFirst = s.fifoFirst /\ n.fifoCount = s.fifoCount
  /\ p = "take" => n.fifoFirst = After(s.fifoFirst) /\ n.fifoCount = s.fifoCount
  /\ p \in {"clear", "again"} => /\ n.fifoFirst = After(s.fifoFirst)
                                 /\ n.fifoCount = s.fifoCount - 1
  /\ p \in {"clearFirst", "clearCount"} =>
       /\ n.fifo = s.fifo /\ n.fifoLast = 0 /\ n.fifoCount = s.fifoCount
       /\ SameData(s, n) /\ PushRest(s, n)
  /\ p = "clearFirst" => n.fifoFirst = s.fifoFirst
  /\ p = "clearCount" => n.fifoFirst = 0
  /\ p \in {"judge", "raise", "sent"} => Effect(s, n)
  /\ p \in {"raise", "sent"} => Judged(n)
  /\ p = "sent" => Raised(n)

\* Every call under way has done to the port what it should have so far.
Calls ==
  /\ (\A t \in Thread : at[t] \notin Inside) => seen = serial
  /\ \A t \in Thread : at[t] \in Inside => Midway(at[t], seen, serial, c[t])

\* The count of the FIFO, where no call is changing it.
Counted == seen.fifoCount \in 0 .. FifoSize

\* The input thread waits for the mutex with a character in its hands.
Waiting == at["input"] = "lock" => c["input"] \in Char

Inv == Types /\ Mutex /\ Calls /\ Counted /\ Waiting

-----------------------------------------------------------------------------
(* The steps of the port.                                                  *)

\* A return from a call that has had its effect and updated the interrupt is
\* one step of Uart.
LEMMA ReturnStep ==
  ASSUME NEW n \in Serial, seen \in Serial, Counted,
         Effect(seen, n), Judged(n), Raised(n), seen' = n
  PROVE  Port!Next /\ n.fifoCount \in 0 .. FifoSize
<1> USE DEF SameRing, SameIer, SameIrq, SameModes, SameData, SameRbr
<1>1. CASE Received(seen, n)
  <2>1. PICK x \in Char : n.fifo = [seen.fifo EXCEPT ![seen.fifoLast] = x]
    BY <1>1 DEF Received
  <2>2. n.fifoCount = Added(seen.fifoCount) /\ n.fifoCount \in 0 .. FifoSize
    BY <1>1, MachineAssumption DEF Received, Added, Counted
  <2>3. Port!fifoPush(x)
    BY <1>1, <2>1, <2>2 DEF Received, Added, Port!fifoPush, Port!After, After
  <2>4. Port!UpdateIrq
    BY DEF Judged, Raised, Port!UpdateIrq
  <2>5. Port!Receive(x)
    BY <1>1, <2>3, <2>4 DEF Received, Port!Receive, Port!modes
  <2> QED BY <2>2, <2>5 DEF Port!Next, Port!ReceiveChar
<1>2. CASE Fetched(seen, n)
  <2>1. n.fifoCount \in 0 .. FifoSize
    BY <1>2, MachineAssumption DEF Fetched, Counted
  <2>2. Port!ReadData
    BY <1>2 DEF Fetched, Judged, Raised, Port!ReadData, Port!fifoHasData,
         Port!fifoGet, Port!UpdateIrq, Port!After, After, Port!modes
  <2> QED BY <2>1, <2>2 DEF Port!Next
<1>3. CASE Emptied(seen, n)
  <2>1. Port!ReadEmpty
    BY <1>3 DEF Emptied, Judged, Raised, Port!ReadEmpty, Port!fifoHasData,
         Port!UpdateIrq, Port!ring, Port!modes
  <2> QED BY <1>3, <2>1 DEF Port!Next, Emptied, Counted
<1>4. CASE IerWritten(seen, n)
  <2>1. Port!WriteIer
    BY <1>4 DEF Serial, IerWritten, Judged, Raised, Port!WriteIer,
         Port!UpdateIrq, Port!ring, Port!modes
  <2> QED BY <1>4, <2>1 DEF Port!Next, IerWritten, Counted
<1>5. CASE ThrWritten(seen, n)
  <2>1. Port!WriteData
    BY <1>5 DEF ThrWritten, Judged, Raised, Port!WriteData,
         Port!UpdateIrq, Port!ring, Port!modes
  <2> QED BY <1>5, <2>1 DEF Port!Next, ThrWritten, Counted
<1> QED BY <1>1, <1>2, <1>3, <1>4, <1>5 DEF Effect

\* One assignment of a UART function keeps the invariant when it leaves the
\* call as far as its next place says, or is a step of Uart if it returns.
LEMMA AssignKeeps ==
  ASSUME Inv, NEW t \in Thread, NEW from \in Inside, NEW to \in Critical,
         NEW new \in Serial, Assign(t, from, to, new),
         to \in Inside => Midway(to, seen, new, c[t]),
         (to \notin Inside /\ seen' = new) =>
            Port!Next /\ new.fifoCount \in 0 .. FifoSize
  PROVE  Inv' /\ [Port!Next]_Port!vars
<1> USE DEF Inv, Types
<1>1. /\ at[t] = from /\ at' = [at EXCEPT ![t] = to] /\ serial' = new
      /\ seen' = IF to \in Inside THEN seen ELSE new
      /\ emu_mutex' = emu_mutex /\ back' = back /\ c' = c
  BY DEF Assign
<1>2. at[t] \in Critical /\ at'[t] = to /\ at' \in [Thread -> Critical \cup Apart]
  BY <1>1 DEF Critical
<1>3. \A u \in Thread : u # t => at'[u] = at[u] /\ at[u] \notin Critical
  BY <1>1, <1>2 DEF Mutex
<1>4. Mutex'
  BY <1>1, <1>2, <1>3 DEF Mutex
<1>5. \A u \in Thread : u # t => at'[u] \notin Inside
  BY <1>3 DEF Critical
<1>6. Types'
  BY <1>1, <1>2
<1>9. Waiting'
  BY <1>1, <1>2 DEF Waiting, Critical, Inside, Thread
<1>7. CASE to \in Inside
  <2>1. seen' = seen
    BY <1>1, <1>7
  <2>2. Calls'
    BY <1>1, <1>2, <1>5, <1>7, <2>1 DEF Calls
  <2>3. Counted'
    BY <2>1 DEF Counted
  <2> QED BY <1>4, <1>6, <1>9, <2>1, <2>2, <2>3
           DEF Port!vars, Port!ring, Port!modes
<1>8. CASE to \notin Inside
  <2>1. seen' = new
    BY <1>1, <1>8
  <2>2. Calls'
    BY <1>1, <1>2, <1>5, <1>8, <2>1 DEF Calls
  <2>3. Port!Next /\ Counted'
    BY <1>8, <2>1 DEF Counted
  <2> QED BY <1>4, <1>6, <1>9, <2>2, <2>3
<1> QED BY <1>7, <1>8

LEMMA AfterInIndex ==
  ASSUME NEW n \in Index
  PROVE  After(n) \in Index
BY MachineAssumption DEF After, Index

LEMMA PushKeeps ==
  ASSUME Inv, NEW t \in Thread, Push(t)
  PROVE  Inv' /\ [Port!Next]_Port!vars
<1> USE DEF SameIer, SameIrq, SameModes, SameData, SameRbr, PushRest, Inside,
          Critical
<1>1. serial \in Serial /\ seen \in Serial /\ FifoSize \in Nat \ {0}
      /\ (at[t] \in Inside => Midway(at[t], seen, serial, c[t])) /\ Counted
  BY MachineAssumption DEF Inv, Types, Calls
<1>2. After(serial.fifoLast) \in Index
  BY <1>1, AfterInIndex DEF Serial
<1>3. CASE Assign(t, "store", "last",
                  [serial EXCEPT !.fifo[serial.fifoLast] = c[t]])
  <2> DEFINE new == [serial EXCEPT !.fifo[serial.fifoLast] = c[t]]
  <2>1. at[t] = "store" /\ seen = serial /\ c[t] \in Char
    BY <1>1, <1>3 DEF Assign, Midway
  <2>2. new \in Serial /\ Midway("last", seen, new, c[t])
    BY <1>1, <2>1 DEF Midway, Serial
  <2> QED BY <1>3, <2>2, AssignKeeps
<1>4. CASE Assign(t, "last", "count",
                  [serial EXCEPT !.fifoLast = After(serial.fifoLast)])
  <2> DEFINE new == [serial EXCEPT !.fifoLast = After(serial.fifoLast)]
  <2>1. at[t] = "last"
    BY <1>4 DEF Assign
  <2>2. new \in Serial /\ Midway("count", seen, new, c[t])
    BY <1>1, <1>2, <2>1 DEF Midway, Serial
  <2> QED BY <1>4, <2>2, AssignKeeps
<1>5. CASE Assign(t, "count", "cap", [serial EXCEPT !.fifoCount = @ + 1])
  <2> DEFINE new == [serial EXCEPT !.fifoCount = @ + 1]
  <2>1. at[t] = "count"
    BY <1>5 DEF Assign
  <2>2. new \in Serial /\ Midway("cap", seen, new, c[t])
    BY <1>1, <2>1 DEF Midway, Serial
  <2> QED BY <1>5, <2>2, AssignKeeps
<1>6. CASE Assign(t, "cap", "ready",
             [serial EXCEPT !.fifoCount = IF @ > FifoSize THEN FifoSize ELSE @])
  <2> DEFINE new ==
        [serial EXCEPT !.fifoCount = IF @ > FifoSize THEN FifoSize ELSE @]
  <2>1. at[t] = "cap"
    BY <1>6 DEF Assign
  <2>2. new.fifoCount = Added(seen.fifoCount)
    BY <1>1, <2>1 DEF Midway, Serial, Added, Counted
  <2>3. new \in Serial /\ Midway("ready", seen, new, c[t])
    BY <1>1, <2>1, <2>2 DEF Midway, Serial
  <2> QED BY <1>6, <2>3, AssignKeeps
<1>7. CASE Assign(t, "ready", "judge", [serial EXCEPT !.dataReady = TRUE])
  <2> DEFINE new == [serial EXCEPT !.dataReady = TRUE]
  <2>1. at[t] = "ready"
    BY <1>7 DEF Assign
  <2>2. new \in Serial /\ Received(seen, new)
    BY <1>1, <2>1 DEF Midway, Serial, Received
  <2>3. Midway("judge", seen, new, c[t])
    BY <2>2 DEF Midway, Effect
  <2> QED BY <1>7, <2>2, <2>3, AssignKeeps
<1> QED BY <1>3, <1>4, <1>5, <1>6, <1>7 DEF Push

LEMMA GetKeeps ==
  ASSUME Inv, NEW t \in Thread, Get(t)
  PROVE  Inv' /\ [Port!Next]_Port!vars
<1> USE DEF SameIer, SameIrq, SameModes, GetRest, Inside, Critical
<1>1. serial \in Serial /\ seen \in Serial /\ FifoSize \in Nat \ {0}
      /\ (at[t] \in Inside => Midway(at[t], seen, serial, c[t])) /\ Counted
  BY MachineAssumption DEF Inv, Types, Calls
<1>2. After(serial.fifoFirst) \in Index
  BY <1>1, AfterInIndex DEF Serial
<1>3. CASE Assign(t, "fetch", "first",
                  [serial EXCEPT !.rbr = serial.fifo[serial.fifoFirst]])
  <2> DEFINE new == [serial EXCEPT !.rbr = serial.fifo[serial.fifoFirst]]
  <2>1. at[t] = "fetch"
    BY <1>3 DEF Assign
  <2>2. new \in Serial /\ Midway("first", seen, new, c[t])
    BY <1>1, <2>1 DEF Midway, Serial
  <2> QED BY <1>3, <2>2, AssignKeeps
<1>4. CASE Assign(t, "first", "take",
                  [serial EXCEPT !.fifoFirst = After(serial.fifoFirst)])
  <2> DEFINE new == [serial EXCEPT !.fifoFirst = After(serial.fifoFirst)]
  <2>1. at[t] = "first"
    BY <1>4 DEF Assign
  <2>2. new \in Serial /\ Midway("take", seen, new, c[t])
    BY <1>1, <1>2, <2>1 DEF Midway, Serial
  <2> QED BY <1>4, <2>2, AssignKeeps
<1>5. CASE Assign(t, "take", "clear",
                  [serial EXCEPT !.fifoCount = IF @ > 0 THEN @ - 1 ELSE @])
  <2> DEFINE new == [serial EXCEPT !.fifoCount = IF @ > 0 THEN @ - 1 ELSE @]
  <2>1. at[t] = "take"
    BY <1>5 DEF Assign
  <2>2. new \in Serial /\ Midway("clear", seen, new, c[t])
    BY <1>1, <2>1 DEF Midway, Serial
  <2> QED BY <1>5, <2>2, AssignKeeps
<1>6. CASE Assign(t, "clear", "again", [serial EXCEPT !.dataReady = FALSE])
  <2> DEFINE new == [serial EXCEPT !.dataReady = FALSE]
  <2>1. at[t] = "clear"
    BY <1>6 DEF Assign
  <2>2. new \in Serial /\ Midway("again", seen, new, c[t])
    BY <1>1, <2>1 DEF Midway, Serial
  <2> QED BY <1>6, <2>2, AssignKeeps
<1>7. CASE Assign(t, "again", "judge",
                  [serial EXCEPT !.dataReady = serial.fifoCount > 0])
  <2> DEFINE new == [serial EXCEPT !.dataReady = serial.fifoCount > 0]
  <2>1. at[t] = "again"
    BY <1>7 DEF Assign
  <2>2. (serial.fifoCount > 0) \in BOOLEAN
    OBVIOUS
  <2>3. new \in Serial /\ Fetched(seen, new)
    BY <1>1, <2>1, <2>2 DEF Midway, Serial, Fetched
  <2>4. Midway("judge", seen, new, c[t])
    BY <2>3 DEF Midway, Effect
  <2> QED BY <1>7, <2>3, <2>4, AssignKeeps
<1> QED BY <1>3, <1>4, <1>5, <1>6, <1>7 DEF Get

LEMMA ClearKeeps ==
  ASSUME Inv, NEW t \in Thread, Clear(t)
  PROVE  Inv' /\ [Port!Next]_Port!vars
<1> USE DEF SameIer, SameIrq, SameModes, SameData, SameRbr, PushRest, Inside,
          Critical
<1>1. serial \in Serial /\ seen \in Serial /\ FifoSize \in Nat \ {0}
      /\ (at[t] \in Inside => Midway(at[t], seen, serial, c[t])) /\ Counted
  BY MachineAssumption DEF Inv, Types, Calls
<1>2. 0 \in Index
  BY <1>1 DEF Index
<1>3. CASE Assign(t, "clearLast", "clearFirst", [serial EXCEPT !.fifoLast = 0])
  <2> DEFINE new == [serial EXCEPT !.fifoLast = 0]
  <2>1. at[t] = "clearLast"
    BY <1>3 DEF Assign
  <2>2. new \in Serial /\ Midway("clearFirst", seen, new, c[t])
    BY <1>1, <1>2, <2>1 DEF Midway, Serial
  <2> QED BY <1>3, <2>2, AssignKeeps
<1>4. CASE Assign(t, "clearFirst", "clearCount",
                  [serial EXCEPT !.fifoFirst = 0])
  <2> DEFINE new == [serial EXCEPT !.fifoFirst = 0]
  <2>1. at[t] = "clearFirst"
    BY <1>4 DEF Assign
  <2>2. new \in Serial /\ Midway("clearCount", seen, new, c[t])
    BY <1>1, <1>2, <2>1 DEF Midway, Serial
  <2> QED BY <1>4, <2>2, AssignKeeps
<1>5. CASE Assign(t, "clearCount", "step", [serial EXCEPT !.fifoCount = 0])
  <2> DEFINE new == [serial EXCEPT !.fifoCount = 0]
  <2>1. at[t] = "clearCount"
    BY <1>5 DEF Assign
  <2>2. new \in Serial /\ new.fifoCount = 0
    BY <1>1 DEF Serial
  <2>3. seen' = new => Port!WriteFcr
    BY <1>1, <2>1 DEF Midway, Serial, Port!WriteFcr, Port!fifoClear,
                      Port!modes
  <2>4. (seen' = new) => Port!Next /\ new.fifoCount \in 0 .. FifoSize
    BY <1>1, <2>2, <2>3 DEF Port!Next
  <2> HIDE DEF new
  <2> QED BY <1>5, <2>2, <2>4, AssignKeeps DEF new
<1> QED BY <1>3, <1>4, <1>5 DEF Clear

LEMMA UpdateIrqKeeps ==
  ASSUME Inv, NEW t \in Thread, UpdateIrq(t)
  PROVE  Inv' /\ [Port!Next]_Port!vars
<1>1. serial \in Serial /\ seen \in Serial /\ Counted
      /\ back[t] \in {"step", "sent", "unlock"}
      /\ (at[t] \in Inside => Midway(at[t], seen, serial, c[t]))
  BY DEF Inv, Types, Calls
<1>2. ASSUME NEW v \in {"no_int", "rdi", "thri"},
             Assign(t, "judge", "raise", [serial EXCEPT !.iir = v]),
             v = IF serial.dataReady /\ serial.ierRdi THEN "rdi"
                 ELSE IF serial.ierThri THEN "thri" ELSE "no_int"
      PROVE  Inv' /\ [Port!Next]_Port!vars
  <2> DEFINE new == [serial EXCEPT !.iir = v]
  <2>1. at[t] = "judge" /\ Effect(seen, serial)
    BY <1>1, <1>2 DEF Assign, Inside, Midway
  <2>2. new \in Serial /\ Judged(new)
    BY <1>1, <1>2 DEF Serial, Judged
  <2>3. Effect(seen, new)
    BY <1>1, <2>1 DEF Serial, Effect, Received, Fetched, Emptied, IerWritten,
         ThrWritten, SameRing, SameIer, SameModes, SameData, SameRbr
  <2>4. Midway("raise", seen, new, c[t])
    BY <2>2, <2>3 DEF Midway
  <2> QED BY <1>2, <2>2, <2>4, AssignKeeps DEF Inside, Critical
<1>3. CASE Assign(t, "raise", back[t],
                  [serial EXCEPT !.irq = (serial.iir # "no_int")])
  <2> DEFINE new == [serial EXCEPT !.irq = (serial.iir # "no_int")]
  <2>1. at[t] = "raise" /\ Effect(seen, serial) /\ Judged(serial)
    BY <1>1, <1>3 DEF Assign, Inside, Midway
  <2>2. (serial.iir # "no_int") \in BOOLEAN
    OBVIOUS
  <2>3. new \in Serial /\ Judged(new) /\ Raised(new)
    BY <1>1, <2>1, <2>2 DEF Serial, Judged, Raised
  <2>4. Effect(seen, new)
    BY <1>1, <2>1 DEF Serial, Effect, Received, Fetched, Emptied, IerWritten,
         ThrWritten, SameRing, SameIer, SameModes, SameData, SameRbr
  <2>5. back[t] \in Inside => Midway(back[t], seen, new, c[t])
    BY <1>1, <2>3, <2>4 DEF Midway, Inside
  <2> HIDE DEF new
  <2>6. seen' = new => Port!Next /\ new.fifoCount \in 0 .. FifoSize
    BY <1>1, <2>3, <2>4, ReturnStep
  <2>7. back[t] \in Critical /\ "raise" \in Inside
    BY <1>1 DEF Critical, Inside
  <2> QED BY <1>3, <2>3, <2>5, <2>6, <2>7, AssignKeeps DEF new
<1> QED BY <1>2, <1>3 DEF UpdateIrq

LEMMA PlainKeeps ==
  ASSUME Inv, NEW t \in Thread, Plain(t)
  PROVE  Inv' /\ [Port!Next]_Port!vars
<1> USE DEF SameRing, SameIer, SameIrq, SameModes, SameData, SameRbr, Inside,
          Critical
<1>1. serial \in Serial /\ seen \in Serial /\ Counted
      /\ (at[t] \in Inside => Midway(at[t], seen, serial, c[t]))
  BY DEF Inv, Types, Calls
<1>2. CASE Assign(t, "empty", "judge", [serial EXCEPT !.rbr = Nul])
  <2> DEFINE new == [serial EXCEPT !.rbr = Nul]
  <2>1. at[t] = "empty"
    BY <1>2 DEF Assign
  <2>2. new \in Serial /\ Emptied(seen, new)
    BY <1>1, <2>1 DEF Midway, Serial, Emptied
  <2>3. Midway("judge", seen, new, c[t])
    BY <2>2 DEF Midway, Effect
  <2> QED BY <1>2, <2>2, <2>3, AssignKeeps
<1>3. CASE Assign(t, "lsr", "step",
                  [serial EXCEPT !.dataReady = serial.fifoCount > 0])
  <2> DEFINE new == [serial EXCEPT !.dataReady = serial.fifoCount > 0]
  <2>1. at[t] = "lsr"
    BY <1>3 DEF Assign
  <2>2. (serial.fifoCount > 0) \in BOOLEAN
    OBVIOUS
  <2>3. new \in Serial /\ new.fifoCount \in 0 .. FifoSize
    BY <1>1, <2>1, <2>2 DEF Midway, Serial, Counted
  <2>4. seen' = new => Port!ReadLsr
    BY <1>1, <2>1 DEF Midway, Serial, Port!ReadLsr, Port!fifoHasData,
         Port!ring, Port!modes
  <2> HIDE DEF new
  <2> QED BY <1>3, <2>3, <2>4, AssignKeeps DEF new, Port!Next
<1>4. ASSUME NEW rdi \in BOOLEAN, NEW thri \in BOOLEAN,
             Assign(t, "ier", "judge",
                    [serial EXCEPT !.ierRdi = rdi, !.ierThri = thri])
      PROVE  Inv' /\ [Port!Next]_Port!vars
  <2> DEFINE new == [serial EXCEPT !.ierRdi = rdi, !.ierThri = thri]
  <2>1. at[t] = "ier"
    BY <1>4 DEF Assign
  <2>2. new \in Serial /\ IerWritten(seen, new)
    BY <1>1, <2>1 DEF Midway, Serial, IerWritten
  <2>3. Midway("judge", seen, new, c[t])
    BY <2>2 DEF Midway, Effect
  <2> QED BY <1>4, <2>2, <2>3, AssignKeeps
<1>5. ASSUME NEW b \in BOOLEAN,
             Assign(t, "lcr", "step", [serial EXCEPT !.dlab = b])
      PROVE  Inv' /\ [Port!Next]_Port!vars
  <2> DEFINE new == [serial EXCEPT !.dlab = b]
  <2>1. at[t] = "lcr"
    BY <1>5 DEF Assign
  <2>2. new \in Serial /\ new.fifoCount \in 0 .. FifoSize
    BY <1>1, <2>1 DEF Midway, Serial, Counted
  <2>3. seen' = new => Port!WriteLcr
    BY <1>1, <2>1 DEF Midway, Serial, Port!WriteLcr, Port!ring
  <2> HIDE DEF new
  <2> QED BY <1>5, <2>2, <2>3, AssignKeeps DEF new, Port!Next
<1>6. ASSUME NEW b \in BOOLEAN,
             Assign(t, "mcr", "step", [serial EXCEPT !.loopback = b])
      PROVE  Inv' /\ [Port!Next]_Port!vars
  <2> DEFINE new == [serial EXCEPT !.loopback = b]
  <2>1. at[t] = "mcr"
    BY <1>6 DEF Assign
  <2>2. new \in Serial /\ new.fifoCount \in 0 .. FifoSize
    BY <1>1, <2>1 DEF Midway, Serial, Counted
  <2>3. seen' = new => Port!WriteMcr
    BY <1>1, <2>1 DEF Midway, Serial, Port!WriteMcr, Port!ring
  <2> HIDE DEF new
  <2> QED BY <1>6, <2>2, <2>3, AssignKeeps DEF new, Port!Next
<1>7. CASE Assign(t, "thr", "judge", serial)
  <2>1. at[t] = "thr"
    BY <1>7 DEF Assign
  <2>2. ThrWritten(seen, serial)
    BY <1>1, <2>1 DEF Midway, ThrWritten
  <2>3. Midway("judge", seen, serial, c[t])
    BY <2>2 DEF Midway, Effect
  <2> QED BY <1>1, <1>7, <2>3, AssignKeeps
<1> QED BY <1>2, <1>3, <1>4, <1>5, <1>6, <1>7 DEF Plain

\* The second interrupt update of a looped back character.
LEMMA SentKeeps ==
  ASSUME Inv, NEW t \in Thread, Sent(t)
  PROVE  Inv' /\ [Port!Next]_Port!vars
<1>1. /\ at[t] = "sent" /\ at' = [at EXCEPT ![t] = "judge"]
      /\ back' = [back EXCEPT ![t] = "step"]
      /\ UNCHANGED <<emu_mutex, c, serial, seen>>
  BY DEF Sent
<1>2. Effect(seen, serial)
  BY <1>1 DEF Inv, Calls, Inside, Midway
<1>3. Midway("judge", seen, serial, c[t])
  BY <1>2 DEF Midway
<1>4. at[t] \in Inside /\ at'[t] \in Inside /\ at'[t] = "judge"
      /\ (\A u \in Thread : u # t => at'[u] = at[u])
  BY <1>1 DEF Inv, Types, Inside, Critical
<1>5. Types'
  BY <1>1, <1>4 DEF Inv, Types, Critical
<1>6. Mutex'
  BY <1>1, <1>4 DEF Inv, Mutex, Critical
<1>7. Calls'
  BY <1>1, <1>3, <1>4 DEF Inv, Calls
<1>8. Waiting'
  BY <1>1, <1>4 DEF Inv, Waiting, Thread
<1> QED BY <1>1, <1>5, <1>6, <1>7, <1>8
         DEF Inv, Counted, Port!vars, Port!ring, Port!modes

-----------------------------------------------------------------------------
(* The threads.                                                            *)

\* A step that leaves the port alone and moves one thread from and to a place
\* outside the UART keeps the invariant when it treats the mutex well.
LEMMA MoveKeeps ==
  ASSUME Inv, NEW t \in Thread, NEW to \in (Critical \cup Apart) \ Inside,
         at[t] \notin Inside, at' = [at EXCEPT ![t] = to],
         back' = back, c' \in [Thread -> Char \cup {Nul}],
         \A u \in Thread : u # t => c'[u] = c[u],
         UNCHANGED <<serial, seen>>,
         to \in Critical <=> emu_mutex' = t,
         t = "input" /\ to = "lock" => c'[t] \in Char,
         \A u \in Thread : u # t => (emu_mutex' = u <=> emu_mutex = u)
  PROVE  Inv' /\ [Port!Next]_Port!vars
<1>1. at'[t] = to /\ (\A u \in Thread : u # t => at'[u] = at[u])
  BY DEF Inv, Types
<1>2. Types'
  BY DEF Inv, Types
<1>3. Mutex'
  BY <1>1 DEF Inv, Mutex
<1>4. Calls'
  BY <1>1 DEF Inv, Calls
<1>5. Waiting'
  BY <1>1 DEF Inv, Waiting, Thread
<1> QED BY <1>2, <1>3, <1>4, <1>5
         DEF Inv, Counted, Port!vars, Port!ring, Port!modes

LEMMA EmulatorKeeps ==
  ASSUME Inv, Emulator
  PROVE  Inv' /\ [Port!Next]_Port!vars
<1> DEFINE t == "emulator"
<1>0. t \in Thread /\ c \in [Thread -> Char \cup {Nul}] /\ Nul \in Char \cup {Nul}
  BY DEF Thread, Inv, Types
<1>1. CASE EmulatorCheck
  <2>1. at[t] = "check"
        /\ at' \in {[at EXCEPT ![t] = "free"], [at EXCEPT ![t] = "lock"]}
        /\ UNCHANGED <<emu_mutex, back, c, serial, seen>>
    BY <1>1 DEF EmulatorCheck
  <2>2. at[t] \notin Inside /\ emu_mutex # t
    BY <1>0, <2>1 DEF Inv, Mutex, Inside, Critical
  <2>3. {"free", "lock"} \subseteq (Critical \cup Apart) \ Inside
        /\ "free" \notin Critical /\ "lock" \notin Critical
    BY DEF Critical, Apart, Inside
  <2> QED BY <1>0, <2>1, <2>2, <2>3, MoveKeeps
<1>2. CASE EmulatorLock
  <2>1. at[t] = "lock" /\ at' = [at EXCEPT ![t] = "step"]
        /\ emu_mutex = "free" /\ emu_mutex' = t
        /\ UNCHANGED <<back, c, serial, seen>>
    BY <1>2 DEF EmulatorLock, Lock
  <2>2. at[t] \notin Inside /\ "step" \in (Critical \cup Apart) \ Inside
        /\ "step" \in Critical
    BY <2>1 DEF Critical, Apart, Inside
  <2>3. \A u \in Thread : u # "free"
    BY DEF Thread
  <2> QED BY <1>0, <2>1, <2>2, <2>3, MoveKeeps
<1>3. CASE StepPlain \/ StepShutdown \/ Exit
  BY <1>3 DEF StepPlain, StepShutdown, Exit, Inv, Types, Mutex, Calls, Counted, Waiting,
              Port!vars, Port!ring, Port!modes
<1>4. CASE StepDevice
  <2>1. PICK e \in Entry \cap GuestCalls, x \in Char :
          /\ at' = [at EXCEPT ![t] = e]
          /\ c' = [c EXCEPT ![t] = IF e = "store" THEN x ELSE Nul]
          /\ back' = [back EXCEPT ![t] = IF e = "store" THEN "sent" ELSE "step"]
    BY <1>4 DEF StepDevice
  <2>2. at[t] = "step" /\ UNCHANGED <<emu_mutex, serial, seen>>
    BY <1>4 DEF StepDevice
  <2>3. at[t] \in Critical /\ at[t] \notin Inside /\ emu_mutex = t
    BY <1>0, <2>2 DEF Inv, Mutex, Critical, Inside
  <2>4. \A u \in Thread : u # t => at[u] \notin Inside
    BY <2>3 DEF Inv, Mutex, Critical
  <2>5. seen = serial
    BY <2>3, <2>4 DEF Inv, Calls
  <2>6. e \in Inside /\ e \in Critical
    BY DEF Entry, Inside, Critical
  <2>7. c'[t] = (IF e = "store" THEN x ELSE Nul)
        /\ c' \in [Thread -> Char \cup {Nul}]
    BY <1>0, <2>1
  <2>8. Midway(e, seen, serial, c'[t])
    <3>1. serial.dlab \in BOOLEAN /\ serial.loopback \in BOOLEAN
      BY DEF Inv, Types, Serial
    <3> QED BY <2>5, <2>7, <3>1 DEF Midway, Entry
  <2>9. at'[t] = e /\ (\A u \in Thread : u # t => at'[u] = at[u])
    BY <1>0, <2>1 DEF Inv, Types
  <2>10. Types'
    BY <1>0, <2>1, <2>2, <2>6, <2>7 DEF Inv, Types
  <2>11. Mutex'
    BY <1>0, <2>2, <2>3, <2>6, <2>9 DEF Inv, Mutex
  <2>12. Calls'
    BY <1>0, <2>2, <2>4, <2>6, <2>8, <2>9 DEF Calls
  <2>13. Waiting'
    BY <1>0, <2>1, <2>9 DEF Inv, Waiting, Thread
  <2> QED BY <2>2, <2>10, <2>11, <2>12, <2>13
           DEF Inv, Counted, Port!vars, Port!ring, Port!modes
<1>5. CASE BatchDone
  <2>1. at[t] = "step" /\ at' = [at EXCEPT ![t] = "unlock"]
        /\ UNCHANGED <<emu_mutex, back, c, serial, seen>>
    BY <1>5 DEF BatchDone
  <2>2. at[t] \in Critical /\ at[t] \notin Inside
        /\ "unlock" \in (Critical \cup Apart) \ Inside /\ "unlock" \in Critical
    BY <2>1 DEF Critical, Inside
  <2>3. emu_mutex = t
    BY <1>0, <2>2 DEF Inv, Mutex
  <2> QED BY <1>0, <2>1, <2>2, <2>3, MoveKeeps
<1>6. CASE EmulatorUnlock
  <2>1. at[t] = "unlock" /\ at' = [at EXCEPT ![t] = "check"]
        /\ emu_mutex' = "free" /\ c' = [c EXCEPT ![t] = Nul]
        /\ UNCHANGED <<back, serial, seen>>
    BY <1>6 DEF EmulatorUnlock, Unlock
  <2>2. at[t] \in Critical /\ at[t] \notin Inside
        /\ "check" \in (Critical \cup Apart) \ Inside /\ "check" \notin Critical
    BY <2>1 DEF Critical, Apart, Inside
  <2>3. emu_mutex = t /\ (\A u \in Thread : u # "free")
    BY <1>0, <2>2 DEF Inv, Mutex, Thread
  <2>4. c' \in [Thread -> Char \cup {Nul}]
        /\ (\A u \in Thread : u # t => c'[u] = c[u])
    BY <1>0, <2>1
  <2> QED BY <1>0, <2>1, <2>2, <2>3, <2>4, MoveKeeps
<1>7. CASE FreeMips
  <2>1. at[t] = "free" /\ at' = [at EXCEPT ![t] = "exit"]
        /\ UNCHANGED <<emu_mutex, back, c, serial, seen>>
    BY <1>7 DEF FreeMips
  <2>2. at[t] \notin Inside /\ emu_mutex # t
    BY <1>0, <2>1 DEF Inv, Mutex, Inside, Critical
  <2>3. "exit" \in (Critical \cup Apart) \ Inside /\ "exit" \notin Critical
    BY DEF Critical, Apart, Inside
  <2> QED BY <1>0, <2>1, <2>2, <2>3, MoveKeeps
<1> QED BY <1>1, <1>2, <1>3, <1>4, <1>5, <1>6, <1>7 DEF Emulator

LEMMA InputKeeps ==
  ASSUME Inv, GetChar \/ EndOfInput \/ InputLock \/ InputUnlock
  PROVE  Inv' /\ [Port!Next]_Port!vars
<1> DEFINE t == "input"
<1>0. t \in Thread /\ c \in [Thread -> Char \cup {Nul}] /\ Nul \in Char \cup {Nul}
  BY DEF Thread, Inv, Types
<1>1. CASE GetChar
  <2>1. at[t] = "getchar" /\ at' = [at EXCEPT ![t] = "lock"]
        /\ UNCHANGED <<emu_mutex, back, serial, seen>>
        /\ (\E x \in Char : c' = [c EXCEPT ![t] = x])
    BY <1>1 DEF GetChar
  <2>2. at[t] \notin Inside /\ emu_mutex # t
    BY <1>0, <2>1 DEF Inv, Mutex, Inside, Critical
  <2>3. "lock" \in (Critical \cup Apart) \ Inside /\ "lock" \notin Critical
    BY DEF Critical, Apart, Inside
  <2>4. c' \in [Thread -> Char \cup {Nul}]
        /\ (\A u \in Thread : u # t => c'[u] = c[u])
    BY <1>0, <2>1
  <2> QED BY <1>0, <2>1, <2>2, <2>3, <2>4, MoveKeeps
<1>2. CASE EndOfInput
  BY <1>2 DEF EndOfInput, Inv, Types, Mutex, Calls, Counted, Waiting,
              Port!vars, Port!ring, Port!modes
<1>3. CASE InputLock
  <2>1. at[t] = "lock" /\ at' = [at EXCEPT ![t] = "store"]
        /\ emu_mutex = "free" /\ emu_mutex' = t
        /\ UNCHANGED <<back, c, serial, seen>>
    BY <1>3 DEF InputLock, Lock
  <2>2. \A u \in Thread : u # "free" /\ at[u] \notin Inside
    BY <2>1 DEF Thread, Inv, Mutex, Critical
  <2>3. seen = serial
    BY <2>2 DEF Inv, Calls
  <2>4. c[t] \in Char
    BY <1>0, <2>1 DEF Inv, Waiting
  <2>5. Midway("store", seen, serial, c[t])
    BY <2>3, <2>4 DEF Midway
  <2>6. "store" \in Inside /\ "store" \in Critical
    BY DEF Inside, Critical
  <2>7. at'[t] = "store" /\ (\A u \in Thread : u # t => at'[u] = at[u])
    BY <1>0, <2>1 DEF Inv, Types
  <2>8. Types'
    BY <2>1, <2>6 DEF Inv, Types
  <2>9. Mutex'
    BY <1>0, <2>1, <2>2, <2>6, <2>7 DEF Inv, Mutex
  <2>10. Calls'
    BY <1>0, <2>1, <2>2, <2>5, <2>6, <2>7 DEF Calls
  <2>11. Waiting'
    BY <2>7 DEF Waiting
  <2> QED BY <2>1, <2>7, <2>8, <2>9, <2>10, <2>11
           DEF Inv, Counted, Port!vars, Port!ring, Port!modes
<1>4. CASE InputUnlock
  <2>1. at[t] = "unlock" /\ at' = [at EXCEPT ![t] = "getchar"]
        /\ emu_mutex' = "free" /\ c' = [c EXCEPT ![t] = Nul]
        /\ UNCHANGED <<back, serial, seen>>
    BY <1>4 DEF InputUnlock, Unlock
  <2>2. at[t] \in Critical /\ at[t] \notin Inside
        /\ "getchar" \in (Critical \cup Apart) \ Inside
        /\ "getchar" \notin Critical
    BY <2>1 DEF Critical, Apart, Inside
  <2>3. emu_mutex = t /\ (\A u \in Thread : u # "free")
    BY <1>0, <2>2 DEF Inv, Mutex, Thread
  <2>4. c' \in [Thread -> Char \cup {Nul}]
        /\ (\A u \in Thread : u # t => c'[u] = c[u])
    BY <1>0, <2>1
  <2> QED BY <1>0, <2>1, <2>2, <2>3, <2>4, MoveKeeps
<1> QED BY <1>1, <1>2, <1>3, <1>4

LEMMA Initially == Init => Inv /\ Port!Init
<1> SUFFICES ASSUME Init
             PROVE  Inv /\ Port!Init
  OBVIOUS
<1>1. 0 \in Index /\ FifoSize \in Nat /\ 0 \in 0 .. FifoSize
  BY MachineAssumption DEF Index
<1>2. Reset \in Serial
  BY <1>1 DEF Reset, Serial
<1>3. Types
  BY <1>2 DEF Init, Types, Critical, Apart, Thread
<1>4. Mutex /\ Waiting
  BY DEF Init, Mutex, Waiting, Thread, Critical, Inside
<1>5. Calls
  BY DEF Init, Calls, Thread, Inside
<1>6. Counted
  BY <1>1 DEF Init, Counted, Reset
<1>7. Port!Init
  BY DEF Init, Port!Init, Reset, Index, Port!Index
<1> QED BY <1>3, <1>4, <1>5, <1>6, <1>7 DEF Inv

LEMMA Step == Inv /\ [Next]_vars => Inv' /\ [Port!Next]_Port!vars
<1> SUFFICES ASSUME Inv, [Next]_vars
             PROVE  Inv' /\ [Port!Next]_Port!vars
  OBVIOUS
<1>1. CASE Emulator
  BY <1>1, EmulatorKeeps
<1>2. CASE GetChar \/ EndOfInput \/ InputLock \/ InputUnlock
  BY <1>2, InputKeeps
<1>3. ASSUME NEW t \in Thread, Device(t)
      PROVE  Inv' /\ [Port!Next]_Port!vars
  BY <1>3, PushKeeps, GetKeeps, ClearKeeps, UpdateIrqKeeps, PlainKeeps,
     SentKeeps DEF Device
<1>4. CASE UNCHANGED vars
  BY <1>4 DEF vars, threads, Inv, Types, Mutex, Calls, Counted, Waiting,
     Port!vars, Port!ring, Port!modes
<1> QED BY <1>1, <1>2, <1>3, <1>4 DEF Next, Gone

\* emu_mutex and the places of the threads agree, so at most one thread is in
\* its critical section: no instruction runs and no UART function is entered
\* without the mutex (runEmulator, runCen64 and main of src/main.c).
THEOREM MutexKept == Spec => []Mutex
<1>1. Inv => Mutex
  BY DEF Inv
<1> QED BY <1>1, Initially, Step, PTL DEF Spec

\* Every call of either thread into the UART is atomic: the program, one
\* assignment at a time, implements the port of module Uart, for every FIFO
\* size, character set, batch length and amount of input.
THEOREM Refinement == Spec => ImplementsUart
BY Initially, Step, PTL DEF Spec, ImplementsUart, Port!Spec
=============================================================================
