------------------------------ MODULE Machine ------------------------------
(***************************************************************************)
(* The running program (src/main.c): the emulator thread, which runs one   *)
(* of the two cores in batches, and the main thread, which hands typed     *)
(* characters to the UART.  emu_mutex keeps them apart.  Here the calls    *)
(* into src/uart.c are not atomic: each assignment is a step of its own,   *)
(* so that what the mutex protects, and Uart takes for granted, is checked.*)
(***************************************************************************)
EXTENDS Integers

CONSTANTS
  FifoSize,    \* 32
  Char,        \* what can be typed
  Nul,         \* the 0 of an empty FIFO
  Batch,       \* instructions per lock: 1000 (cmips) or 10000 (cen64)
  GuestCalls   \* which registers the guest touches (labels below)

ASSUME MachineAssumption ==
  /\ FifoSize \in Nat \ {0}
  /\ Batch \in Nat \ {0}

VARIABLES
  core,        \* "cmips" or "cen64", argv[2]
  emu_mutex,   \* the thread that holds it, or "free"
  at,          \* where each thread is
  back,        \* where the UART function a thread is in returns to
  c,           \* the character in each thread's hands
  i,           \* instructions run in this batch
  shutdown,    \* emu->shutdown
  freed,       \* free_mips has run
  exited,      \* the process is gone
  serial,      \* emu->serial, the irq bit of Cause and the last byte read
  seen         \* history: serial when no call was in progress last

threads == <<emu_mutex, at, back, c, i, shutdown, freed, exited>>
vars == <<core, threads, serial, seen>>

Thread == {"emulator", "input"}
Index == 0 .. FifoSize - 1
After(n) == IF n = FifoSize - 1 THEN 0 ELSE n + 1

\* What uart_Reset leaves, called by new_mips and again by bus_init.
Reset == [ fifo |-> [n \in Index |-> Nul],
           fifoFirst |-> 0, fifoLast |-> 0, fifoCount |-> 0,
           dataReady |-> FALSE, ierRdi |-> FALSE, ierThri |-> FALSE,
           iir |-> "no_int", dlab |-> FALSE, loopback |-> FALSE,
           irq |-> FALSE, rbr |-> Nul ]

\* main() has loaded the image and is about to create the thread.
Init ==
  /\ core \in {"cmips", "cen64"}
  /\ emu_mutex = "free"
  /\ at = [emulator |-> "check", input |-> "getchar"]
  /\ back = [t \in Thread |-> "unlock"]
  /\ c = [t \in Thread |-> Nul]
  /\ i = 0
  /\ shutdown = FALSE /\ freed = FALSE /\ exited = FALSE
  /\ serial = Reset /\ seen = Reset

-----------------------------------------------------------------------------
(* The steps of src/uart.c, shared by both threads.                        *)

\* The places inside the functions of uart.c, each named for what is next.
Inside == {"store", "last", "count", "cap", "ready", "fetch", "first", "take",
           "clear", "again", "clearLast", "clearFirst", "clearCount", "judge",
           "raise", "empty", "lsr", "ier", "lcr", "mcr", "thr", "sent"}

\* Thread t does one assignment of a UART function and goes on at
\* place `to'; a call takes effect when it returns.
Assign(t, from, to, new) ==
  /\ at[t] = from
  /\ at' = [at EXCEPT ![t] = to]
  /\ serial' = new
  /\ seen' = IF to \in Inside THEN seen ELSE new
  /\ UNCHANGED <<core, emu_mutex, back, c, i, shutdown, freed, exited>>

\* uart_fifoPush, then uart_RecieveChar.
Push(t) ==
  \/ Assign(t, "store", "last", [serial EXCEPT !.fifo[serial.fifoLast] = c[t]])
  \/ Assign(t, "last", "count",
            [serial EXCEPT !.fifoLast = After(serial.fifoLast)])
  \/ Assign(t, "count", "cap", [serial EXCEPT !.fifoCount = @ + 1])
  \/ Assign(t, "cap", "ready",
            [serial EXCEPT !.fifoCount = IF @ > FifoSize THEN FifoSize ELSE @])
  \/ Assign(t, "ready", "judge", [serial EXCEPT !.dataReady = TRUE])

\* uart_fifoGet, then the rest of a read of the data register.
Get(t) ==
  \/ Assign(t, "fetch", "first",
            [serial EXCEPT !.rbr = serial.fifo[serial.fifoFirst]])
  \/ Assign(t, "first", "take",
            [serial EXCEPT !.fifoFirst = After(serial.fifoFirst)])
  \/ Assign(t, "take", "clear",
            [serial EXCEPT !.fifoCount = IF @ > 0 THEN @ - 1 ELSE @])
  \/ Assign(t, "clear", "again", [serial EXCEPT !.dataReady = FALSE])
  \/ Assign(t, "again", "judge",
            [serial EXCEPT !.dataReady = serial.fifoCount > 0])

\* uart_fifoClear.
Clear(t) ==
  \/ Assign(t, "clearLast", "clearFirst", [serial EXCEPT !.fifoLast = 0])
  \/ Assign(t, "clearFirst", "clearCount", [serial EXCEPT !.fifoFirst = 0])
  \/ Assign(t, "clearCount", "step", [serial EXCEPT !.fifoCount = 0])

\* uart_UpdateIrq: IIR, then the interrupt line.
UpdateIrq(t) ==
  \/ Assign(t, "judge", "raise",
            [serial EXCEPT !.iir = IF serial.dataReady /\ serial.ierRdi
                                     THEN "rdi"
                                   ELSE IF serial.ierThri THEN "thri"
                                   ELSE "no_int"])
  \/ Assign(t, "raise", back[t], [serial EXCEPT !.irq = (serial.iir # "no_int")])

\* The registers without further effect.
Plain(t) ==
  \/ Assign(t, "empty", "judge", [serial EXCEPT !.rbr = Nul])
  \/ Assign(t, "lsr", "step", [serial EXCEPT !.dataReady = serial.fifoCount > 0])
  \/ \E rdi, thri \in BOOLEAN :
       Assign(t, "ier", "judge",
              [serial EXCEPT !.ierRdi = rdi, !.ierThri = thri])
  \/ \E b \in BOOLEAN : Assign(t, "lcr", "step", [serial EXCEPT !.dlab = b])
  \/ \E b \in BOOLEAN : Assign(t, "mcr", "step", [serial EXCEPT !.loopback = b])
  \/ Assign(t, "thr", "judge", serial)

\* The end of a looped back character: UpdateIrq once more.
Sent(t) ==
  /\ at[t] = "sent"
  /\ at' = [at EXCEPT ![t] = "judge"]
  /\ back' = [back EXCEPT ![t] = "step"]
  /\ UNCHANGED <<core, emu_mutex, c, i, shutdown, freed, exited,
                 serial, seen>>

Device(t) == ~exited /\ (Push(t) \/ Get(t) \/ Clear(t) \/ UpdateIrq(t)
                           \/ Plain(t) \/ Sent(t))

-----------------------------------------------------------------------------
(* runEmulator and runCen64.                                               *)

\* Mutant of Lock: pthread_mutex_lock does not wait.
LockOpen(t, from, to) ==
  /\ ~exited /\ at[t] = from
  /\ emu_mutex' = t
  /\ at' = [at EXCEPT ![t] = to]
  /\ UNCHANGED <<core, back, c, shutdown, freed, exited, serial,
                 seen>>

Lock(t, from, to) ==
  /\ ~exited /\ at[t] = from
  /\ emu_mutex = "free" /\ emu_mutex' = t
  /\ at' = [at EXCEPT ![t] = to]
  /\ UNCHANGED <<core, back, c, shutdown, freed, exited, serial,
                 seen>>

\* Mutant of Unlock: the input thread keeps the mutex.
UnlockForgotten(t, to) ==
  /\ ~exited /\ at[t] = "unlock"
  /\ emu_mutex' = IF t = "input" THEN t ELSE "free"
  /\ at' = [at EXCEPT ![t] = to]
  /\ c' = [c EXCEPT ![t] = Nul]
  /\ UNCHANGED <<core, back, i, shutdown, freed, exited, serial,
                 seen>>

Unlock(t, to) ==
  /\ ~exited /\ at[t] = "unlock"
  /\ emu_mutex' = "free"
  /\ at' = [at EXCEPT ![t] = to]
  /\ c' = [c EXCEPT ![t] = Nul]
  /\ UNCHANGED <<core, back, i, shutdown, freed, exited, serial,
                 seen>>

\* Mutant of EmulatorCheck: the loop condition is forgotten.
EmulatorCheckNever ==
  /\ ~exited /\ at["emulator"] = "check"
  /\ at' = [at EXCEPT !["emulator"] = "lock"]
  /\ UNCHANGED <<core, emu_mutex, back, c, i, shutdown, freed, exited,
                 serial, seen>>

\* while(emu->shutdown != 1), read without the mutex; runCen64 never ends.
EmulatorCheck ==
  /\ ~exited /\ at["emulator"] = "check"
  /\ at' = [at EXCEPT !["emulator"] =
              IF core = "cmips" /\ shutdown THEN "free" ELSE "lock"]
  /\ UNCHANGED <<core, emu_mutex, back, c, i, shutdown, freed, exited,
                 serial, seen>>

EmulatorLock ==
  /\ Lock("emulator", "lock", "step")
  /\ i' = 0

\* An instruction that leaves the UART alone, or step_mips after shutdown.
StepPlain ==
  /\ ~exited /\ at["emulator"] = "step" /\ i < Batch
  /\ i' = i + 1
  /\ UNCHANGED <<core, emu_mutex, at, back, c, shutdown, freed, exited,
                 serial, seen>>

\* The store to POWERBASE; the bus of the other core does not map it.
StepShutdown ==
  /\ ~exited /\ at["emulator"] = "step" /\ i < Batch
  /\ core = "cmips"
  /\ i' = i + 1
  /\ shutdown' = TRUE
  /\ UNCHANGED <<core, emu_mutex, at, back, c, freed, exited, serial,
                 seen>>

\* The registers a guest can reach now, by where their code begins.
Entry == IF serial.dlab THEN {"lsr", "lcr", "mcr", "clearLast"}
         ELSE {"lsr", "ier", "lcr", "mcr", "clearLast"}
                \cup (IF serial.fifoCount > 0 THEN {"fetch"} ELSE {"empty"})
                \cup (IF serial.loopback THEN {"store"} ELSE {"thr"})

StepDevice ==
  /\ ~exited /\ at["emulator"] = "step" /\ i < Batch
  /\ ~(core = "cmips" /\ shutdown)
  /\ i' = i + 1
  /\ \E e \in Entry \cap GuestCalls, x \in Char :
       /\ at' = [at EXCEPT !["emulator"] = e]
       /\ c' = [c EXCEPT !["emulator"] = IF e = "store" THEN x ELSE Nul]
       /\ back' = [back EXCEPT !["emulator"] =
                     IF e = "store" THEN "sent" ELSE "step"]
  /\ UNCHANGED <<core, emu_mutex, shutdown, freed, exited, serial, seen>>

BatchDone ==
  /\ ~exited /\ at["emulator"] = "step" /\ i = Batch
  /\ at' = [at EXCEPT !["emulator"] = "unlock"]
  /\ UNCHANGED <<core, emu_mutex, back, c, i, shutdown, freed, exited,
                 serial, seen>>

EmulatorUnlock == Unlock("emulator", "check")

FreeMips ==
  /\ ~exited /\ at["emulator"] = "free"
  /\ freed' = TRUE
  /\ at' = [at EXCEPT !["emulator"] = "exit"]
  /\ UNCHANGED <<core, emu_mutex, back, c, i, shutdown, exited, serial,
                 seen>>

Exit ==
  /\ ~exited /\ at["emulator"] = "exit"
  /\ exited' = TRUE
  /\ UNCHANGED <<core, emu_mutex, at, back, c, i, shutdown, freed,
                 serial, seen>>

-----------------------------------------------------------------------------
(* The loop of main().                                                     *)

GetChar ==
  /\ ~exited /\ at["input"] = "getchar"
  /\ c' \in {[c EXCEPT !["input"] = x] : x \in Char}
  /\ at' = [at EXCEPT !["input"] = "lock"]
  /\ UNCHANGED <<core, emu_mutex, back, i, shutdown, freed, exited, serial,
                 seen>>

EndOfInput ==
  /\ ~exited /\ at["input"] = "getchar"
  /\ exited' = TRUE
  /\ UNCHANGED <<core, emu_mutex, at, back, c, i, shutdown, freed,
                 serial, seen>>

InputLock ==
  /\ Lock("input", "lock", "store")
  /\ UNCHANGED i

InputUnlock == Unlock("input", "getchar")

Emulator == EmulatorCheck \/ EmulatorLock \/ StepPlain \/ StepShutdown
              \/ StepDevice \/ BatchDone \/ EmulatorUnlock \/ FreeMips \/ Exit

\* The process is gone: nothing happens any more.
Gone == exited /\ UNCHANGED vars

Next == \/ Emulator \/ GetChar \/ EndOfInput \/ InputLock \/ InputUnlock
        \/ (\E t \in Thread : Device(t))
        \/ Gone

\* Both threads are scheduled; nobody promises that a key is pressed, and
\* the mutex is not fair to a thread that waits while the other relocks it.
Spec ==
  /\ Init /\ [][Next]_vars
  /\ WF_vars(Emulator \/ Device("emulator"))
  /\ WF_vars(InputLock \/ InputUnlock \/ Device("input"))

-----------------------------------------------------------------------------
(* Properties.                                                             *)

\* emu_mutex makes every call of either thread into uart.c one atomic step of
\* the serial port: assignment by assignment, in any interleaving of the two
\* threads, the port behaves as Uart says.  What holds of Uart holds of the
\* program because of this.
Port == INSTANCE Uart WITH
  GuestKeepsUp <- FALSE,
  fifo <- seen.fifo, fifoFirst <- seen.fifoFirst, fifoLast <- seen.fifoLast,
  fifoCount <- seen.fifoCount, dataReady <- seen.dataReady,
  ierRdi <- seen.ierRdi, ierThri <- seen.ierThri, iir <- seen.iir,
  dlab <- seen.dlab, loopback <- seen.loopback, irq <- seen.irq,
  rbr <- seen.rbr
ImplementsUart == Port!Spec

\* The emulator thread goes on finishing batches until the process ends: no
\* call into the UART by either thread keeps emu_mutex for good.  Only input
\* that never ends can stop it: a thread that relocks an unfair mutex may
\* overtake the one that waits every time, and main() has nothing against it.
GuestRuns ==
  []<><<BatchDone>>_vars \/ <>exited \/ []<><<GetChar>>_vars

\* When the guest switches the power off the process ends, also when the input
\* thread is inside the UART, waits for the mutex or waits for a key.
ShutdownEnds == shutdown ~> exited
=============================================================================
