# A verification of cmips-cen64

The program runs a MIPS Linux image on one of two cores. `cmips` is a plain
interpreter (`src/emu.c`); `cen64` is a cycle-accurate model of the VR4300
pipeline (`vr4300/`). Both share the serial port (`src/uart.c`), and the
interpreter's object also holds the UART state when the VR4300 runs. This
directory models the program in TLA+, checks the models with TLC and proves
theorems about them with TLAPS.

## Inventory

| part | state | operations | who it talks to |
|---|---|---|---|
| VR4300 pipeline (`vr4300/pipeline.c`) | four latches, `PIPELINE_CYCLE_TYPE`, `cycles_to_stall`, `exception_history`, `fault_present` | `vr4300_cycle`, one stage function per stage, a fast and a slow driver | calls the EX functions, the caches, the TLB, `fault.c` |
| interlocks and exceptions (`vr4300/fault.c`) | none of its own: writes latches and CP0 | one function per interlock or exception | called by the stages and EX functions; reads and writes the bus |
| CP0 (`vr4300/cp0.c`) | Status, Cause, EPC, TLB registers | ERET, MFC0, MTC0, TLBP, TLBR, TLBWI, TLBWR | called in EX; redirects the fetch |
| integer EX functions (`vr4300/functions.c`) | registers | about 50 functions | fill `exdc_latch`, may stall, redirect the fetch or trap |
| FPU (`vr4300/cp1.c`, `arch/`) | FPU registers | arithmetic on the host | called in EX |
| TLB and segments (`arch/tlb`, `vr4300/segment.c`) | 32 entries; a constant table | probe, read, write | used by IC, RF, DC and CP0 |
| caches (`vr4300/icache.c`, `dcache.c`) | lines with tag, valid, dirty | probe, fill, flush, cache operations | used by RF, DC, `fault.c` |
| bus (`bus/`) | memory, a red-black tree of mappings | read and write a word | used by `fault.c`, routes to memory or the UART |
| UART (`src/uart.c`) | FIFO, LSR, IER, IIR, LCR, MCR | byte reads and writes, `uart_RecieveChar` | raises and clears external interrupt 0 |
| interpreter (`src/emu.c`) | registers, pc/delaypc/inDelaySlot, CP0, a 16-entry TLB | `step_mips` | reads memory and the UART |
| threads (`src/main.c`) | `emu_mutex` | emulator thread, input thread | both call the above under the mutex |
| S-record loader (`src/srec.c`) | parser state | load a file | fills memory before the threads start |
| generators (`disgen/`) | none | build time only | |

What makes it hard: the pipeline's stages run in reverse order and may stop in
the middle of a pass, so five instructions are in flight in states left by
different cycles; exceptions, interrupts, ERET, likely branches and a
"busy-wait" shortcut all rewrite latches they do not own. The segment of an
address is latched in two stages and must follow every change of mode. Two
cores, and within one core two data paths, compute the same values with
different masks. The input thread changes the UART between any two
instructions of the guest.

What makes each part correct: the pipeline retires the program's instructions
once and in order and its exceptions are precise; the driver without fault
checks never meets a fault; interlocks end; interrupts are served. The
segments, TLB, caches and bus together are a memory. The two cores compute the
same results. The UART is a queue whose interrupt line never loses a
character, whichever thread calls it. The interpreter executes the program in
order around exceptions, wakes from WAIT and never installs a duplicate TLB
entry. The loader builds the memory the file describes. The threads neither
lock each other out nor outlive the power switch.

## Modules

Pipeline: `Vr4300Pipeline` has one action per way a stage can end; `stage`
says which stage the current cycle calls next. `MCVr4300Pipeline` holds the
programs TLC runs. `Vr4300PipelineOrder` holds the invariant that says what the
latches hold, `Vr4300PipelineProofs` the theorems: on faults and the two
drivers, and on order.

Values: `BitWords` are fixed-width words as sets of bit positions,
`Vr4300Execute` the execution functions of `functions.c` and the two data paths
of the memory stage, `CmipsExecute` the instruction functions of `emu.c`.
`Lockstep` composes the two cores; `MCLockstep` holds the guests,
`LockstepProofs` the theorems.

Memory: `Segments` (`segment.c`) and `Tlb` (`tlb.c`) are pure operators;
`MemorySystem` adds the caches, the latched segments, the bus and the system
instructions, and implements `PlainMemory`. `MCMemorySystem` holds the guests,
`MemorySystemProofs` the theorems.
`MemoryMap` is the tree of `bus/memorymap.c`, one action per iteration of a
loop; `MCMemoryMap` holds the ranges, `MemoryMapProofs` the theorems.

Interpreter: `MipsFlow` says what executing a program in order means on a MIPS
core: delayed branches, annulled slots, exceptions that can be returned from,
ERET. `CmipsCore` is `src/emu.c`, one action per path through `step_mips`;
`CmipsKernel` says what a guest's kernel must be for the TLB to hold one
translation of a page; `MCCmipsCore` is a guest with such a kernel,
`CmipsCoreProofs` the theorems.

Serial port and threads: `CharQueue` is the abstract queue a serial receiver
promises; `Uart` is `src/uart.c`, one action per register access with an effect
and one per character received; `UartProofs` the theorems. `Machine` is
`src/main.c`: both threads, the mutex, and the assignments inside the UART
calls; it implements `Uart`. `MCMachine` is its instance, `MachineProofs` its
theorems.

`SrecLoader` is `src/srec.c`, `SrecLoaderProofs` its theorem.

`A <- B` reads "A is composed of or implements B":
`Lockstep <- CmipsExecute <- Vr4300Execute <- BitWords`;
`MemorySystem <- Tlb <- Segments`, `MemorySystem <- PlainMemory`;
`Machine <- Uart <- CharQueue`; `CmipsCore <- MipsFlow`.

Operators called "Mutant of ..." are plausible mistakes in the code next to
which they stand: with the mistake in place of the definition the property
that goes with it is violated. They are no part of any specification.

### How Vr4300Pipeline corresponds to the code

| model | code |
|---|---|
| `stage = "cycle"` | between two calls of `vr4300_cycle` |
| `slow` | which driver `vr4300_cycle_` chose for this cycle |
| `StallCycle`, `RunCycle`, `Tick` | `vr4300_cycle`; the timer match is a choice |
| `Wb*`, `Dc*`, `Ex*`, `Rf*`, `IcStage` | the stage functions; `*Skip` is the slow driver passing a faulted latch on |
| `Interlock` | `vr4300_common_interlocks` and the stalls written in place |
| `Exception` | prolog and epilogue together |
| `DcmFill` | `VR4300_DCM` entered from the table for a cached miss |
| `flow`, `icVia`, `via`, `outcome` | history: what must retire next, how each fetch came about (the one behind, an exception, an ERET, the reset), what EX decided; no action's guard reads them |

Abstractions. Addresses are `0 .. Size-1` and wrap. An instruction is its
kind; branch conditions, TLB and cache outcomes and the LDI comparison are
choices. "ei"/"di" stand for MTC0 to Status, "ack" for MTC0 to Compare. A load
or store whose line was just filled is known to be resident and translated.
An address is fetched through the TLB when it is in `FetchMapped`. Latches
start zeroed (`vr4300` is a stack variable; the code relies on it). Branches in
delay slots, which the architecture leaves undefined, do not occur in the
programs. ErrorEPC is a constant. Address errors and invalid instructions call
`abort()` and are left out.

`VR4300_TNE` returns a value only when it traps. When it does not, the stage
tests an undefined value and the model chooses (`ExTrapUndefined`): a value
that is not 0 ends the cycle after EX, and the instruction stays to be executed
again. What holds whatever the outcome (`FaultsDrain`, `FastModeClean`,
`AccessOnce`, the type invariant) is stated for all programs. Order, precision
and the busy wait are stated for programs whose results are `Defined`, those
without TNE, and whose handlers do not begin by lowering EXL (`Handled`). IC
decodes the word RF fetched before an exception although it was killed
(`pipeline.c:55`), so the BD bit of the first instruction of a handler may be
stale: with EXL set no exception uses it, but a handler that begins by writing
Status could take one with EXL clear and the wrong EPC, and one that begins with
ERET retires no instruction to which the exception could be traced. The busy
wait needs in addition that no delay slot holds a branch (`PlainSlots`). The
liveness run uses programs without TNE only.

### How Lockstep corresponds to the code

An action executes one instruction in both cores. The code that compares them
in `runCen64` (`main.c:143`) is compiled only when its `#if 0` is enabled; the
comparison is what that code states about the two cores, and the functions it
compares run in either build. `VrResult`, `VrNext` and `VrRequest` are what the
decoder's table selects, `CmResult` and `CmNext` what `doop` does. `BusRead`
and `BusWrite` are the path of a miss or an uncached access, `LineRead` and
`LineWrite` that of a hit. When the cores disagree the guest stops
(`Agreed`).

A guest of 64-bit instructions runs on the VR4300 alone (`Interpreter`): the
interpreter has none of them.

Abstractions. The widths shrink together: a byte of `ByteBits` bits, four to a
word, eight to a doubleword, and shift counts, masks and offsets with them.
`BitWords` adds and compares by carry and borrow, not by value; a number occurs
only in a product, a quotient, a shift count and the constants of the pc. Memory
is a function of word addresses, which are bit patterns too, closed under the
exchange of bit 0 so that a doubleword is all there or not. `EncodingAssumption`
says of a guest what an assembler does: the fields that an instruction has no
use for are zero. The functions that `lui`, `sll` and `sllv` share with other
instructions add those fields in, so without it the cores would differ; a guest
that sets them is outside the model.
The pc is a constant; `next` is where execution goes on from there. The
registers compared are the general registers, HI and LO, and the comparison of
memory is of every word. Guests use addresses of the memory or the UART, aligned
as the instruction requires: on others one of the cores ends the process.
A device keeps the byte it is sent. `HostFaults` and `DivisionFaults` are the
divisions that kill the host process (the least number by -1).

### How MemorySystem corresponds to the code

| model | code |
|---|---|
| `IcStage`, `RfCrash`, `RfTlbMiss`, `RfFetch` | `vr4300_ic_stage`, `vr4300_rf_stage`, `VR4300_ITLB`, `VR4300_ICB` |
| `Issue`, `request` | an EX function that fills `exdc_latch.request` |
| `DcHit`, `DcFill`, `DcUncached`, `DcTlbFault`, `DcCrash`, `Interrupt` | `vr4300_dc_stage` with `VR4300_DCM`, `VR4300_DTLB`, `VR4300_INTR` |
| `Ic*`, `Dc*` operations | `vr4300_cacheop_*` in `functions.c`, `icache.c`, `dcache.c` |
| `MTC0_*`, `DMTC0_Status`, `ERET`, `TLB*` | `cp0.c` |
| `isegment`, `dsegment` | `icrf_latch.segment`, `exdc_latch.segment` |
| `stopped` | `abort()`, a failed assertion, a NULL or an index of -1 dereferenced, a division by zero |
| `careless` | history: the guest has broken a rule of the caches |

Abstractions. An address is a place, its position among the bounds of the
segment tables, and a page. A page has one line in each cache. Which
instruction executes is up to a guest, a record of the operations it may use;
the timing of fills, the stages an exception kills and the vectors are in
`Vr4300Pipeline`. `DcFill` fills the line and leaves the request, as the code
does; DC then runs again. `tlb_probe` keeps its lanes: `Scanned` is what the
loop bound `32 / 8` reaches, `ZeroLane` the upper half of the compare.
Assumptions about the guest: only the kernel executes system instructions, an
Index with its top bit set is not used, Wired is at most the number of entries,
and the frames it maps are inside the memory. `Guest` is the type of guests;
`MemoryAssumption` says that every frame that can be named is memory. Watch exceptions are left out.
An interrupt kills whatever is in DC; an instruction without a request is given
the pc of the last fetch, as the stages between are in `Vr4300Pipeline`.
`careless` counts an access through kseg0 to a frame that a line holds as a fault
of the guest: `segment.c:62` has kseg0 cached, but `pipeline.c:247` and `248`
overwrite that with "uncached" for data, and the model follows `pipeline.c`.

### How MemoryMap and SrecLoader correspond to the code

`map_address_range` is five kinds of steps, with `at` for the loop that runs:
`Begin` finds a free slot, each `Descend` is one iteration of the walk down,
`Link` inserts the entry, each `Recolour` and `Turn` is one iteration of the
loop of `fixup`, and `Finish` paints the root. Nobody reads the tree in between,
so the properties speak of `at = "idle"`. `map` has one function per field of
`struct memory_map_node`; `kid` is `left` and `right`, so that `Rotate` is
`rotate_left` or `rotate_right` and the two mirrored halves of `fixup` are one.
`bus_init` ignores the result of a refused call, so a device may simply be
missing (`MapRefused`). Addresses are natural numbers: a range that ends behind
2^32, which `end` could not hold, is not mapped (`bus_init` maps the UART only).

Each action of `SrecLoader` is one reader of `srec.c` consuming one symbol; the
file is chosen as it is read, so every file over the alphabet is covered. A
number stands for its hex digits. `WellFormed`, `DataFor` and `Starts` say what
a finished file means, independently of the loader. Two quirks are kept: a
place equal to the memory size is written (`Claimed` has one place more than
the memory), and a count below five wraps, which ends in an error at the end of
the line. `Wrap` stands for 2^32 in the data count: it lies beyond every count
and every file, so a count that has wrapped is never used up, as in the code
for any file below 4 GiB. The checksum is never verified, by the code or by `WellFormed`.

### How CmipsCore corresponds to the code

Each action is one call of `step_mips`: `StepOff`, `StepInterrupt`,
`StepWaiting` and `StepFetchFault` are its early returns, `StepDataFault` and
`StepSyscall` instructions that set `exceptionOccured`, `Exec*` the rest.
`Fired` and `NextCount` are the timer after the increment at the top of the
step; `Advance` is its end.

Abstractions. Addresses are `0 .. Size-1` and count words; an instruction is its
kind with a target and the page of its operand. Conditions of branches are
choices. A page of 0 is unmapped (kseg0 and kseg1); every other page is in
useg. The guest's work on its page tables is reduced to two kinds: "mtlo" loads
both EntryLo registers for the pair in EntryHi, "fixpte" makes the faulting
page present, and dirty after a store. "jrexc" is the jump through the table of
handlers. The counter of `randomInRange` is kept modulo the number of entries
it chooses from; Wired does not change. `broken` is history. Left out: bus
errors, which end the program or come from stores outside memory, the BEV and
IV bits, which change the vector only, and the interrupt of the UART, which
takes the path of the timer's. Programs have no branch in a delay slot
(`ProgramAssumption`); an ERET there is ignored, as in the code.

The interpreter writes to the TLB what the guest says, so whether a page is
there twice depends on the kernel. `CmipsKernel` describes one by its text, and
the kernel of the run is an instance: the handlers are unmapped, make no system
call and return by ERET; a refill loads the pair and executes TLBWR, a page
fault probes, loads and executes TLBWI, a line entered at its head only.
Linux's handlers are longer, and save and restore registers; the order of the
instructions that touch CP0 is theirs.

### How Uart and Machine correspond to the code

In `Uart` every access runs under `emu_mutex` and is one action. Only the tested
bits of a register are kept. `LSR.FIFO_EMPTY` is cleared and set again within
one write, so no other call sees it clear. DLL, DLH, SCR, FCR and MSR are
storage nothing tests. `ReceiveChar` is `main()` handing over a character.
`GuestKeepsUp` is the environment assumption that the FIFO never overflows;
`RingAgrees` is about hosts that keep it.

In `Machine` the same calls are sequences of assignments, one step each, by
either thread. `at` is where a thread is; `Lock` and `Unlock` are the mutex;
`EmulatorCheck` reads `emu->shutdown` without it, as the loop condition does.
`core` chooses `runEmulator` or `runCen64`, which never looks at `shutdown`.
`seen` is the state of the port when no call was in progress last; it is what
`Machine` shows of the port, and the refinement maps it to `Uart`. A batch is an
arbitrary sequence of instructions, some of which call the UART. `Gone` is the
process after it has ended.

## Runs

| run | shows | bound |
|---|---|---|
| `PipelineSafety` | order, precision, single access, fast-mode cleanliness, busy wait, traps; the invariant that relates latches and program | 12 words, 4 programs |
| `PipelineLive` | instructions keep retiring; interrupts are served | 3 programs, no mapped fetch |
| `PipelineOverlap` | **fails**: an exception raised before the handler of another has begun loses instructions | 3 programs |
| `Lockstep` | the cores agree but on known instructions; registers stay sign extended; unaligned pairs move their bytes; hits and misses agree | words of 4 bits, 3 registers, 2 words of memory, 14 guests |
| `MemorySystem` | refinement of a plain memory, protection, latched segments, refills that end the misses, wired entries, why the process can end | 4 pages, 4 frames, 4 TLB entries, 2 and 4 cache lines, 9 guests |
| `TlbProbe` | **fails**: a hit on another address space's page | 1 guest |
| `MemoryMap` | lookups find what was mapped; the tree is balanced | 8 ranges, tables of 3 and 10 |
| `SrecLoader` | the memory started with is the one in the file | files of 13 symbols, memory of 2 bytes |
| `CmipsCore` | order of execution, no duplicate TLB entries, SC atomicity, WAIT wakes, the user program goes on | 2 programs of 8 words and a kernel of 18, 4 entries of which 1 wired, 2 address spaces, Count of 26 values |
| `UartQueue` | ring, interrupts and refinement of the queue | FIFO of 3, two characters |
| `UartOverflow` | **fails**: characters are dropped when the FIFO is full | FIFO of 3 |
| `Machine` | refinement of `Uart` under interleaving, the guest goes on while typing pauses, power off ends the process | FIFO of 2, one character typed any number of times, batches of one instruction |

Why the bounds are enough. A pipeline holds five instructions; the programs
have seven words plus two handlers, so every pair of neighbours in the
pipeline that can disturb one another occurs, with every stall in between.
Delays of one exercise the same code as longer ones because a stalled cycle
changes nothing but the counter.

In `Lockstep` every byte offset, both signs, carries and borrows across each
width, every shift count of a word, and the extreme divisions occur with bytes of
one bit; each guest executes its instructions in any order, so
results feed one another. The widths appear in the operators only through
`ByteBits`.

`MemorySystem` has four TLB entries compared two at a time and the loop bound of
the code, `Entries \div Group`, so some entries are never scanned, as in the
code; two of the page sizes; two frames that share a line and one frame in two
lines; and every region of the segment tables is a place. No guest uses all
operations: each is aimed at one group (modes, paging, indexed entries, random
replacement, long addresses, data, tags, aliases, code), and together they fire
every action.

`MemoryMap` has room for the five and more insertions in every order that make
`fixup` recolour and rotate in all its cases, and the table of 3 that
`bus_init` creates. In `SrecLoader` a file has room for two records, and the
addresses make a record begin before the memory, at its start, one behind its
end and in its alias in the other segment.

The guest of `CmipsCore` has a branch whose slot is on another page and whose
operand is on a third: the three pairs that one instruction can need at once,
for the three entries that are replaced. In the reachable states the timer falls
on nearly every instruction of both programs, on LL to SC, on the sleep and on
delay slots, one of them across the page boundary; Count wraps many times.
One of the two pairs of text pages is global, the other is not.

A FIFO of three wraps, fills and holds two different characters in both orders;
the theorems about it hold for every size. In `Machine` typing is
unbounded and overflows a FIFO of two, and a batch of one makes the threads change places
after every instruction; the refinement is proved for every size and batch.

Deadlock is checked except in `Lockstep` and `MemorySystem`, where the guest
stops when the co-simulation or the process has ended.

Fairness. `FairSpec` is weak fairness of the whole next-state relation:
`runCen64` calls `vr4300_cycle` in an endless loop and only the input thread
competes for the mutex; `runEmulator` does the same with `step_mips` until it is
switched off. Nothing is assumed about which outcome a choice takes:
`PipelineLive` has no mapped fetch addresses because a fetch that misses in the
TLB for ever, with no handler that could repair it, would rightly stop progress.
`Machine` assumes weak fairness of each thread: the host schedules both. It
assumes neither that a key is pressed nor that the mutex is fair, which
`pthread_mutex_lock` does not promise. So the input thread may wait for ever
while the emulator thread relocks, and input that never ends (a pipe) may starve
the emulator: `GuestRuns` says that batches go on being finished unless the
process ends or characters never stop coming, and TLC refutes it without that
last case. `ShutdownEnds` needs no such case, as the emulator does not take the
mutex again after the batch in which the guest switches the power off.

## Findings

`PipelineOverlap`: RF raises ITLB for a younger instruction and sets EXL; when
an older one faults in DC before the pipeline drained, its exception keeps the
EPC of the younger. `UartOverflow`: `uart_fifoPush` overwrites the oldest
character. `TlbProbe`: `tlb_probe` tests sixteen lanes for eight entries; with
ASID 0 an entry of another address space counts as a hit, with the index of no
entry.

Seen but not run: `uart.c:187` says the two top bits of IIR are always set, the
code never sets them. `functions.c:215` asks that the busy-wait shortcut be taken
only before a NOP; the code does not look. `VR4300_LL_SC` has the masks of load
and store exchanged, which is why `OnlyKnownDivergence` lists LL and SC.
`srec.c:77` lets an address equal to the memory size through, and `LoadsImage`
counts that place as part of the memory rather than catching it. Data in kseg0
is never cached (`pipeline.c:248`), against the table of `segment.c:62`.
Switching KX on without UX makes long addresses of xuseg miss for ever
(`fault.c:142`), and so does an entry for a large page that is not written at a
multiple of its size (`tlb.c:43`). `VR4300_TNE` does
not return a value when it does not trap. `runEmulator` frees the emulator
before `exit()` while the input thread may still use it.

## Proofs

Every theorem is for all values of the constants that satisfy the named
assumptions of the modules (`ProgramAssumption`, `TlbAssumption`,
`MemoryAssumption` and so on), which TLC evaluates on every run. A theorem with
a hypothesis about the guest says so in its statement.

| theorem | property | needs |
|---|---|---|
| `Vr4300PipelineProofs!TypeCorrect`, `FaultsAlwaysDrain`, `FastModeSafe` | `TypeOK`, `FaultsDrain`, `FastModeClean` | |
| `...!AccessesMadeOnce` | `AccessOnce` | |
| `...!LatchesSpellProgram`, `RetiresInOrder`, `ExceptionsArePrecise` | `OrderInv`, `InOrderRetirement`, `PreciseException` | `Defined`, `Handled` |
| `...!BusyWaitIsSound` | `BusyWaitSound` | also `PlainSlots` |
| `MemorySystemProofs!TypeCorrect`, `WiredEntriesKept`, `RefillSucceeds`, `LatchesStayCurrent`, `AccessIsGranted`, `EndIsKnown` | `TypeOK`, `WiredKept`, `RefillEndsMisses`, `StaleOnlyByDMTC0`, `OnlyGranted`, `StopsOnlyAsKnown` | |
| `MemorySystemProofs!CachesAreMemory` | `ImplementsMemory` | the property itself ends when the guest breaks a rule of the caches (`careless`) |
| `MemoryMapProofs!LookupsFind`, `TreeIsBalanced` | `Resolves`, `Balanced` | |
| `LockstepProofs!TypesHold`, `PathsAlwaysAgree`, `PairsMoveWords`, `PairsMoveDoublewords` | `TypeOK`, `PathsAgree`, `UnalignedWord`, `UnalignedDouble` | |
| `LockstepProofs!RegistersStayNarrow`, `CoresAgree` | `NarrowRegisters`, `OnlyKnownDivergence` | the properties are about guests of 32-bit instructions |
| `CmipsCoreProofs!TypeCorrect`, `Refinement` | `TypeOK`, `ImplementsFlow` | |
| `CmipsCoreProofs!TlbHasNoDuplicates` | `NoDuplicate` | `KernelAssumption` |
| `CmipsCoreProofs!LinksDoNotSurvive` | `ScAtomic` | `KernelAssumption` |
| `CmipsCoreProofs!StoreConditionalAtomic` | `ScAtomic` | `HandlersEndWithEret` alone |
| `UartProofs!TypeCorrect`, `InterruptsKept`, `StaleFromReset` | `TypeOK`, `NoLostInterrupt`, `StaleOnlyByReset` | |
| `UartProofs!RingKept`, `Refinement` | `RingAgrees`, `ImplementsQueue` | `GuestKeepsUp` |
| `MachineProofs!MutexKept`, `Refinement` | `ImplementsUart` | |
| `SrecLoaderProofs!FilesAreLoaded` | `LoadsImage` | |

Pipeline, faults. `Vr4300PipelineProofs` proves that
`IInv == TypeOK /\ FaultsDrain /\ FastModeClean` is inductive. `FastModeClean`
alone is not: nothing in it says why the fifth slow pass is enough.
`FaultsDrain` adds that `exception_history` and the point reached in the pass
bound how far up the pipeline a fault can still be. The proof has one lemma per
group of actions.

Pipeline, order. `OrderInv` is what makes order and precision inductive. Followed
from the oldest instruction in flight to the fetch address, the latches spell
out the program from `flow` on: each pending latch holds the instruction that
comes next after those ahead of it (`InOrder`). Which latches are pending depends on where
the pass is, so `Position` names the stage that runs next, also while a stall
splits the pass. A latch fetched after an exception, an ERET or a reset carries
a tag that says so, and what was fetched behind a latch was redirected exactly
when that latch was faulted (`Linked`): this is why ERET must fault the two
latches it faults and no other. The rest is what the step of each stage needs:
IC masks exactly the annulled slots (`Masking`, `Decoded`), a stale word in RFEX
never turns a redirected fetch into a slot (`NoStaleBranch`), EXL stays set until
the first instruction of a handler is through DC (`LevelHeld`), and the
busy-wait mode is entered in the slot of a jump to itself (`Pausing`).
`AccessInv`, the part that needs no hypothesis on the program, says when the
access of a pending latch has been made. `PipelineSafety` checks `OrderInv` on
its instance.

Memory. `Types` adds to `TypeOK` that the guest is one of `Guests`. The
refinement of `PlainMemory` rests on `Coherent`: while the
guest keeps the rules, a dirty line is the only line of its frame, and a clean
line says what memory says; two lemmas say what a frame is worth under it, and
one per cache operation that it survives. `LatchesStayCurrent` and
`AccessIsGranted` leave out the addresses of `XksegTail`, the last 2 GiB that
XKSEG's entry covers: `get_segment` does not look for them there
(`segment.c:279`), while a latched XKSEG accepts them. `EndIsKnown` shows that
the list of reasons for which the process ends is complete, and that a conflict
in the TLB ends it only when it is about a page in flight.
`RefillSucceeds` joins three parts of the code: the miss, after which no scanned
entry matches; `vr4300_tlb_exception_prolog`, which with the extension bits in
step keeps the whole of any address that `get_segment` let through
(`WholeAddress`); and the probe after TLBWI or TLBWR, which then has one lane
(`OnlyMatch`). With KX on and UX off, or a large page that does not begin at a
multiple of its size, the refill fails for ever; the guest of the run that does
the first (`LongGuest`) violates the property when `BitsTogether` is taken out.

Values. `LockstepProofs` follows bits, not numbers. For each function of
`functions.c` a lemma says what the bits of its result are from the sign of the
low word up; `Holds`, types and `NarrowRegisters`, is inductive from these. For
`CoresAgree` it is not enough that the cores agreed before the instruction: the
VR4300 compares, branches and addresses with 64 bits, and only because the
registers are narrow is the answer that of 32 bits. The invariant `Sound` is
`Holds` with the interpreter's types and register 0 clear in both cores. The
lemmas then take the instructions by kind. Sums: the carry into a bit depends on
the bits below it only, so the low word of a 64-bit sum is the 32-bit sum
(`Carry` satisfies the recurrence of an adder, from which the sum is
associative and 0 neutral: a branch target is `pc + (offset + 4)` in one core
and `(pc + 4) + offset` in the other). Comparisons: the highest bit where two words differ
decides, and in narrow registers it is in the low word. Products and quotients:
both cores compute them from the low words, and no more about them is needed.
Memory: a request of the VR4300 is a mask, a shift and a size, an access of the
interpreter a case per byte; one lemma each says which bit of the word a bit of
the register comes from, or goes to. `PathsAlwaysAgree` compares in the same way the
doubleword of a cache line with the word of the bus. `PairsMoveWords` and
`PairsMoveDoublewords` follow a bit through both instructions of a pair: `Spans`
and `Spread` say where the bytes of a register lie in the two words, or
doublewords, that an address may touch, and the small adder of `At` decides in which.

Interpreter. `CmipsCoreProofs` proves type correctness and that `CmipsCore`
refines `MipsFlow`, with no assumption on the kernel beyond the range of its
addresses. The refinement maps the two addresses that come next to `pc` and, by
`inDelaySlot`, `delaypc` or the next word. Type correctness is not enough for
it: EPC of a trap in a slot is `pc - 4`, and a second branch would overwrite
`delaypc`, so the invariant adds `SlotFollowsBranch`, an instruction in a slot
comes right after a branch, from which the assumption on programs gives that it
is none. `ScAtomic` is false for a kernel that leaves exception level by MTC0:
only `op_eret` clears `llbit`. `StoreConditionalAtomic` therefore assumes
`HandlersEndWithEret`, that at exception level Status is not written by MTC0 and
no SC is executed, which the kernel of the run obeys; the invariant
`LinkFollowsLevel` says that a broken link lasts no longer than the level.
`LinksDoNotSurvive` derives the hypothesis from the kernel's text.

`TlbHasNoDuplicates` cannot follow from one step: between the lookup that fails
and the TLBWR that repairs it lie an exception, a vector, and instructions
during which nothing may enter the pair by another way. The invariant
`KernelInv` ties the three together: EXL is set exactly while the pc is in the
handlers' text, so no handler is interrupted; while the refill line runs, no
entry matches the pair in EntryHi, and while the page fault's line runs one
does, the one that Index names after the probe; and an entry is as global as
the page table says its pair is, so that a match in one address space is one in
every other where it should be. `handleException` establishes the first two by
the vector it chooses from `exceptionWasNoMatch`; with the mutant that forgets
to reset it, the refill line could run for a pair that is there.

Serial port. `UartProofs` proves the type invariant, `NoLostInterrupt` and
`StaleOnlyByReset` with no assumption on the host, and `RingAgrees` and the
refinement of `CharQueue` under `GuestKeepsUp`, whose failure `UartOverflow`
exhibits. The refinement maps the ring to the sequence of its occupied slots;
the step lemmas show that push appends, get takes the head, clear flushes, and
everything else leaves the sequence alone.

Threads. `MachineProofs` proves that `Machine` implements `Uart`, so the
theorems of `UartProofs` that make no assumption on the host hold of the two
threads. Mutual exclusion (`Mutex`: a thread inside a call or between lock and
unlock holds the mutex) is not enough: the invariant `Inv` adds to it and to the
types `Calls`, which says for each place inside a call how far `serial` has come
from `seen`, as a function of the place and the character in hand, and that they
are equal when nobody is inside; `Counted`, that between calls the count is at
most the size of the FIFO; and `Waiting`, that the input thread waits with a
typed character. One lemma per function of `uart.c` shows that each assignment
leads from one such state to the next, and that the last makes a step of `Uart`.

Loader. `SrecLoaderProofs` proves `LoadsImage` for every memory size and files of
any length. The invariant `Parsing` says what each state of the loader means:
between two lines all lines so far are complete (`Closed`), within a line all
others are (`Open`) and the loader has come as far as `InDigit`, `InCount`,
`InAddress`, `InData` or `InSkip` say, and memory and pc are what the symbols
read so far give (`Image`). In a record whose count has wrapped the image is
wrong and only the count is known, which is enough: the line cannot be finished.

Memory map. `MemoryMapProofs` follows the tree by the set of nodes below each
node. `Shape` says that these sets are disjoint, add up to the table and are
sorted by `start`, `Linked` that every node names its parent; a rotation changes
the sets of two nodes only, which is `RotateTree`. While the search goes down,
`Path` says of every node above or beside it on which side the new range
belongs, so the free link it ends at is the right one (`HangTree`). Balance is
one number for each node, the count of black nodes below it (`Even`); while
`fixup` runs the tree is red-black but for one node (`RedBlack(map, node)`),
which `Recolour` moves up and `Turn` settles (`RecolourKeeps`, `InnerTurn`,
`OuterTurn`). `Balanced` alone is not inductive: the rotations keep it only in a
sorted tree whose parent links are right. The lookup and the heights are
recursive functions; that each has one value at every node follows by induction
over the size of the subtree (`TreeInduction`).

Only model-checked: liveness (with it what is ENABLED), which is out of reach of
the prover.

## Plan

Operand forwarding in the pipeline, with values, and an in-order machine that
it refines.

## Not modelled

Floating point arithmetic (`cp1.c` hands every operation to host instructions
through inline assembly), the generators, logging, the opcode tables (data),
`MFC0` and the registers only it reads, watchpoints beyond their exception,
the loader of strings, which nothing calls, and the command line. Around a
looped back character `LSR.FIFO_EMPTY` is cleared and set again
(`uart.c:223-231`); no model has the bit. `runCen64` calls `vr4300_cycle` without
the mutex until the first instruction has retired (`main.c:115`); `Machine`
begins after that. In `Vr4300Pipeline` no instruction sets EXL by MTC0 to Status
and there are no BC1 branches; `AccessOnce` looks at an access when it enters DC
and when its instruction retires. In `CmipsCore` the programs never execute WAIT
with interrupts disabled and never write Count. That the VR4300 never sees the
UART's interrupt, which `bus/controller.c` raises in the interpreter's Cause, is
not shown by any model.
