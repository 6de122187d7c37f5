---------------------------- MODULE MemorySystem ----------------------------
(***************************************************************************)
(* The path between the VR4300 pipeline and memory: the segment latches,   *)
(* the joint TLB, the two caches and the bus, and the system instructions  *)
(* that change them (vr4300/pipeline.c, fault.c, cp0.c, segment.c,         *)
(* dcache.c, icache.c, the CACHE operations of functions.c, tlb.c).        *)
(*                                                                         *)
(* Vr4300Pipeline has the stages and their interlocks.  Here one action    *)
(* is what one stage does to this state in one pass: EX issues a request   *)
(* or writes CP0, DC serves the request, IC latches an address and RF      *)
(* fetches from it.  Which instruction is executed is up to a guest.       *)
(***************************************************************************)
EXTENDS Tlb

CONSTANTS Value,            \* what a frame holds
          InitialMemory,
          DLines, ILines,   \* lines of a cache; a page has one line
          Guests            \* what the program may do: see MCMemorySystem

VARIABLES guest,
          status, epc, entryHi, entryLo, pageMask, index, wired, tagLo, tlb,
          pc, target, phase, isegment,          \* icrf_latch
          request, dsegment,                    \* exdc_latch
          memory, dcache, icache,
          seen,             \* the last value delivered and its frame
          stopped,          \* the emulator process is gone
          careless          \* history: the guest broke a rule of the caches

cp0   == <<status, epc, entryHi, entryLo, pageMask, index, wired, tagLo>>
fetch == <<pc, target, phase, isegment>>
data  == <<request, dsegment>>
store == <<memory, dcache, icache, seen, careless>>
vars  == <<guest, cp0, tlb, fetch, data, store, stopped>>

CacheOps == {"ic_invalidate", "ic_set_taglo", "ic_invalidate_hit",
             "dc_wb_invalidate", "dc_get_taglo", "dc_set_taglo",
             "dc_create_dirty_ex", "dc_hit_invalidate",
             "dc_hit_wb_invalidate", "dc_hit_wb"}
None == [type |-> "none"]
Request == [type : {"read", "write"} \cup CacheOps, va : Address, data : Value,
            pc : Address]
Anywhere == [place |-> -1, page |-> 0]
KSEG0(page) == [place |-> KSEGs[0].start, page |-> page]

DLine == [tag : Frame, valid : BOOLEAN, dirty : BOOLEAN, data : Value]
ILine == [tag : Frame, valid : BOOLEAN, data : Value]
TagLo == [tag : Frame, valid : BOOLEAN, dirty : BOOLEAN]

\* What a guest may do: the addresses it fetches from and accesses, what it
\* writes to the registers of CP0, and the instructions it has.
Guest == [fetches : SUBSET Address,
          accesses : SUBSET [type : {"read", "write"} \cup CacheOps,
                             va : Address, data : Value],
          statuses : SUBSET StatusSet, longStatuses : SUBSET StatusSet,
          epcs : SUBSET Address, entryHis : SUBSET EntryHi,
          entryLos : SUBSET [mask : 0 .. 1, lo : [0 .. 1 -> EntryLo]],
          indexes : SUBSET Index, wireds : SUBSET (0 .. Entries),
          tagLos : SUBSET TagLo,
          interrupts : BOOLEAN, erets : BOOLEAN, probes : BOOLEAN,
          reads : BOOLEAN, writes : BOOLEAN, refills : BOOLEAN]

\* Every frame that can be named is memory: a page of an unmapped segment, and
\* both frames of a large page.
ASSUME MemoryAssumption ==
  /\ DLines \in Nat \ {0} /\ ILines \in Nat \ {0}
  /\ InitialMemory \in [Frame -> Value]
  /\ 0 \in Page /\ Page \subseteq Frame
  /\ \A pfn \in Frame : pfn % 2 = 0 => pfn + 1 \in Frame
  /\ Guests \subseteq Guest

\* After VR4300_RST: Status is ERL alone and the core fetches from kseg0.
ResetStatus == [ksu |-> "kernel", exl |-> FALSE, erl |-> TRUE,
                kx |-> FALSE, sx |-> FALSE, ux |-> FALSE]

Init ==
  /\ guest \in Guests
  /\ status = ResetStatus
  /\ epc = KSEG0(0)
  /\ entryHi = [vpn2 |-> Vpn2([place |-> 0, page |-> 0]), asid |-> 0]
  /\ entryLo = [h \in 0 .. 1 |-> EmptyLo] /\ pageMask = 0
  /\ index = [probeFailed |-> FALSE, i |-> 0] /\ wired = 0
  /\ tagLo = [tag |-> 0, valid |-> FALSE, dirty |-> FALSE]
  /\ tlb = [i \in Index |-> ResetEntry]
  /\ pc = KSEG0(0) /\ target = KSEG0(0) /\ phase = "ic"
  /\ isegment = DefaultSegment /\ dsegment = DefaultSegment
  /\ request = None
  /\ memory = InitialMemory
  /\ dcache = [k \in 0 .. (DLines - 1) |->
                 [tag |-> 0, valid |-> FALSE, dirty |-> FALSE,
                  data |-> InitialMemory[0]]]
  /\ icache = [k \in 0 .. (ILines - 1) |->
                 [tag |-> 0, valid |-> FALSE, data |-> InitialMemory[0]]]
  /\ seen = [frame |-> 0, value |-> InitialMemory[0]]
  /\ stopped = FALSE /\ careless = FALSE

-----------------------------------------------------------------------------
(* Exceptions and the end of the process.                                  *)

Stop == /\ stopped' = TRUE
        /\ UNCHANGED <<guest, cp0, tlb, fetch, data, store>>

\* vr4300_exception_prolog and _epilogue; at is the pc of the instruction.
Exception(at) ==
  /\ status' = [status EXCEPT !.exl = TRUE]
  /\ epc' = IF status.exl THEN epc ELSE at
  /\ target' = KSEG0(0) /\ phase' = "ic"
  /\ isegment' = DefaultSegment /\ dsegment' = DefaultSegment

XMode(seg) == CASE seg.xmode = "ux" -> status.ux
                [] seg.xmode = "sx" -> status.sx
                [] seg.xmode = "kx" -> status.kx

\* Mutant: EntryHi always as for a 32-bit address.
TlbExceptionShort(at, seg, va) ==
  /\ Exception(at)
  /\ entryHi' = [entryHi EXCEPT !.vpn2 =
       Vpn2([va EXCEPT !.place = SignExtended32(va.place)])]

\* vr4300_tlb_exception_prolog: EntryHi names the page, in 64 or 32 bits.
TlbException(at, seg, va) ==
  /\ Exception(at)
  /\ entryHi' = [entryHi EXCEPT !.vpn2 =
       IF XMode(seg) THEN Vpn2(va)
       ELSE Vpn2([va EXCEPT !.place = SignExtended32(va.place)])]

\* How the segment of an address is found in IC and DC; NULL ends in abort(),
\* and so does the assertion of get_segment.
Lookup(va, latched) ==
  IF Within(va.place, latched) THEN latched
  ELSE IF ValidAddress(va.place, status) THEN get_segment(va.place, status)
  ELSE NULL

Probe(va) == tlb_probe(tlb, Vpn2(va), entryHi.asid)
Half(i, va) == tlb[i].lo[Select(tlb[i], va.page)]

-----------------------------------------------------------------------------
(* IC and RF.                                                              *)

IcStage(va) ==
  /\ ~stopped /\ phase = "ic"
  /\ va \in IF target = Anywhere THEN guest.fetches ELSE {target}
  /\ IF isegment = NULL \/ Lookup(va, isegment) = NULL THEN Stop
     ELSE /\ pc' = va /\ target' = Anywhere /\ phase' = "rf"
          /\ isegment' = Lookup(va, isegment)
          /\ UNCHANGED <<guest, cp0, tlb, data, store, stopped>>

FetchFrame == IF isegment.mapped THEN FrameOf(tlb[Probe(pc).index], pc.page)
              ELSE pc.page
FetchCached == IF isegment.mapped THEN Half(Probe(pc).index, pc).cached
               ELSE isegment.cached
ILineOf(va) == va.page % ILines

\* A segment latched as NULL, or an index of -1, is dereferenced.
RfCrash ==
  /\ ~stopped /\ phase = "rf"
  /\ isegment = NULL \/ (isegment.mapped /\ Probe(pc).index = -1)
  /\ Stop

RfSound == /\ ~stopped /\ phase = "rf" /\ isegment # NULL
           /\ isegment.mapped => Probe(pc).index # -1
RfTlbFault == isegment.mapped /\ (\/ Probe(pc).miss
                                  \/ ~Half(Probe(pc).index, pc).valid)

\* A request that EX has issued stays in exdc_latch: DC still serves it.
RfTlbMiss ==
  /\ RfSound /\ RfTlbFault
  /\ TlbException(pc, isegment, pc)
  /\ UNCHANGED <<guest, entryLo, pageMask, index, wired, tagLo, tlb, pc,
                 request, store, stopped>>

\* A hit, or VR4300_ICB: an uncached word, or a line filled from memory.
RfFetch ==
  /\ RfSound /\ ~RfTlbFault
  /\ LET f == FetchFrame
         k == ILineOf(pc)
         hit == icache[k].valid /\ icache[k].tag = f
         word == IF FetchCached /\ hit THEN icache[k].data ELSE memory[f]
     IN /\ seen' = [frame |-> f, value |-> word]
        /\ icache' = IF FetchCached /\ ~hit
                     THEN [icache EXCEPT ![k] =
                             [tag |-> f, valid |-> TRUE, data |-> word]]
                     ELSE icache
  /\ phase' = "ic"
  /\ UNCHANGED <<guest, cp0, tlb, pc, target, isegment, data, memory, dcache,
                 careless, stopped>>

-----------------------------------------------------------------------------
(* DC: loads and stores.                                                   *)

\* Whatever instruction is in DC, with or without a request, is the one killed.
Interrupt ==
  /\ ~stopped /\ guest.interrupts
  /\ ~status.exl /\ ~status.erl
  /\ Exception(IF request = None THEN pc ELSE request.pc)
  /\ request' = None
  /\ UNCHANGED <<guest, entryHi, entryLo, pageMask, index, wired, tagLo, tlb,
                 pc, store, stopped>>

DataSegment == Lookup(request.va, dsegment)
DataProbe == Probe(request.va)
DataHalf == Half(DataProbe.index, request.va)
\* Mutant: the dirty bit of the entry is not looked at.
DataFaultsUnlessValid ==
  DataSegment.mapped /\ (DataProbe.miss \/ ~DataHalf.valid)
DataFaults == DataSegment.mapped /\ (\/ DataProbe.miss \/ ~DataHalf.valid
                                     \/ (request.type = "write" /\ ~DataHalf.dirty))
\* The segment's own attribute is overwritten: unmapped data is uncached.
DataCached == DataSegment.mapped /\ DataHalf.cached
DataFrame == IF DataSegment.mapped
             THEN FrameOf(tlb[DataProbe.index], request.va.page)
             ELSE request.va.page
LineOf(va) == va.page % DLines
DataLine == LineOf(request.va)
Hit(k, f) == dcache[k].valid /\ dcache[k].tag = f

DcCrash ==
  /\ ~stopped /\ request # None
  /\ DataSegment = NULL \/ (DataSegment.mapped /\ DataProbe.index = -1)
  /\ Stop

DcSound == /\ ~stopped /\ request # None /\ DataSegment # NULL
           /\ DataSegment.mapped => DataProbe.index # -1
DcAccess == DcSound /\ request.type \notin CacheOps /\ ~DataFaults

DcTlbFault ==
  /\ DcSound /\ request.type \notin CacheOps /\ DataFaults
  /\ TlbException(request.pc, DataSegment, request.va)
  /\ request' = None
  /\ UNCHANGED <<guest, entryLo, pageMask, index, wired, tagLo, tlb, pc, store,
                 stopped>>

Delivered(f, v) == IF request.type = "read" THEN [frame |-> f, value |-> v]
                   ELSE seen
OtherLines(f) == {k \in DOMAIN dcache : k # DataLine /\ Hit(k, f)}

DcHit ==
  /\ DcAccess /\ DataCached /\ Hit(DataLine, DataFrame)
  /\ seen' = Delivered(DataFrame, dcache[DataLine].data)
  /\ dcache' = IF request.type = "read" THEN dcache
               ELSE [dcache EXCEPT ![DataLine].data = request.data,
                                   ![DataLine].dirty = TRUE]
  /\ careless' = (careless \/ (request.type = "write" /\ OtherLines(DataFrame) # {}))
  /\ request' = None /\ dsegment' = DataSegment
  /\ UNCHANGED <<guest, cp0, tlb, fetch, memory, icache, stopped>>

\* VR4300_DCM for a line: write a dirty one back, fill it, and run DC again.
WrittenBack(k) == [memory EXCEPT ![dcache[k].tag] = dcache[k].data]
ShouldFlush(k) == dcache[k].valid /\ dcache[k].dirty
\* Mutant: the line is filled without a write-back.
DcFillOver ==
  /\ DcAccess /\ DataCached /\ ~Hit(DataLine, DataFrame)
  /\ memory' = memory
  /\ dcache' = [dcache EXCEPT ![DataLine] =
                  [tag |-> DataFrame, valid |-> TRUE, dirty |-> FALSE,
                   data |-> memory'[DataFrame]]]
  /\ careless' = (careless \/ \E k \in OtherLines(DataFrame) : dcache[k].dirty)
  /\ dsegment' = DataSegment
  /\ UNCHANGED <<guest, cp0, tlb, fetch, request, icache, seen, stopped>>
DcFill ==
  /\ DcAccess /\ DataCached /\ ~Hit(DataLine, DataFrame)
  /\ memory' = IF ShouldFlush(DataLine) THEN WrittenBack(DataLine) ELSE memory
  /\ dcache' = [dcache EXCEPT ![DataLine] =
                  [tag |-> DataFrame, valid |-> TRUE, dirty |-> FALSE,
                   data |-> memory'[DataFrame]]]
  /\ careless' = (careless \/ \E k \in OtherLines(DataFrame) : dcache[k].dirty)
  /\ dsegment' = DataSegment
  /\ UNCHANGED <<guest, cp0, tlb, fetch, request, icache, seen, stopped>>

\* VR4300_DCM for a word: the caches are not looked at.
DcUncached ==
  /\ DcAccess /\ ~DataCached
  /\ seen' = Delivered(DataFrame, memory[DataFrame])
  /\ memory' = IF request.type = "read" THEN memory
               ELSE [memory EXCEPT ![DataFrame] = request.data]
  /\ careless' = (careless \/ \E k \in DOMAIN dcache :
                    Hit(k, DataFrame) /\ (request.type = "write" \/ dcache[k].dirty))
  /\ request' = None /\ dsegment' = DataSegment
  /\ UNCHANGED <<guest, cp0, tlb, fetch, dcache, icache, stopped>>

-----------------------------------------------------------------------------
(* DC: the CACHE operations.  A fault of the TLB does not stop them: on a  *)
(* miss they use the frame of entry 0.                                     *)

CacheOp(op) == DcSound /\ request.type = op
               /\ request' = None /\ dsegment' = DataSegment
               /\ UNCHANGED <<guest, status, epc, entryHi, entryLo, pageMask,
                              index, wired, tlb, fetch, seen, stopped>>
ILineHit == icache[ILineOf(request.va)].valid
              /\ icache[ILineOf(request.va)].tag = DataFrame

IcInvalidate ==
  /\ \/ CacheOp("ic_invalidate")
     \/ CacheOp("ic_invalidate_hit") /\ ILineHit
  /\ icache' = [icache EXCEPT ![ILineOf(request.va)].valid = FALSE]
  /\ UNCHANGED <<memory, dcache, tagLo, careless>>

IcSetTagLo ==
  /\ CacheOp("ic_set_taglo")
  /\ icache' = [icache EXCEPT ![ILineOf(request.va)].valid = tagLo.valid,
                              ![ILineOf(request.va)].tag = tagLo.tag]
  /\ careless' = (careless \/ tagLo.valid)
  /\ UNCHANGED <<memory, dcache, tagLo>>

DcGetTagLo ==                   \* the state bits land where none is defined
  /\ CacheOp("dc_get_taglo")
  /\ tagLo' = [tag |-> dcache[DataLine].tag, valid |-> FALSE, dirty |-> FALSE]
  /\ UNCHANGED <<memory, dcache, icache, careless>>

DcSetTagLo ==
  /\ CacheOp("dc_set_taglo")
  /\ dcache' = [dcache EXCEPT ![DataLine].tag = tagLo.tag,
                              ![DataLine].valid = tagLo.valid,
                              ![DataLine].dirty = tagLo.dirty]
  /\ careless' = (careless \/ tagLo.valid \/ ShouldFlush(DataLine))
  /\ UNCHANGED <<memory, icache, tagLo>>

DcWbInvalidate ==               \* by index: a clean line is written back, too
  /\ CacheOp("dc_wb_invalidate")
  /\ dcache' = [dcache EXCEPT ![DataLine].valid = FALSE]
  /\ memory' = IF dcache[DataLine].valid THEN WrittenBack(DataLine) ELSE memory
  /\ UNCHANGED <<icache, tagLo, careless>>

DcCreateDirtyEx ==              \* the line is not filled, and stays invalid if it was
  /\ CacheOp("dc_create_dirty_ex")
  /\ memory' = IF ShouldFlush(DataLine) THEN WrittenBack(DataLine) ELSE memory
  /\ dcache' = [dcache EXCEPT ![DataLine].tag = DataFrame,
                              ![DataLine].dirty = TRUE]
  /\ careless' = (careless \/ dcache[DataLine].valid)
  /\ UNCHANGED <<icache, tagLo>>

DcHitInvalidate ==
  /\ CacheOp("dc_hit_invalidate") /\ Hit(DataLine, DataFrame)
  /\ dcache' = [dcache EXCEPT ![DataLine].valid = FALSE]
  /\ careless' = (careless \/ dcache[DataLine].dirty)
  /\ UNCHANGED <<memory, icache, tagLo>>

DcHitWb ==
  /\ \/ CacheOp("dc_hit_wb")
        /\ dcache' = [dcache EXCEPT ![DataLine].dirty = FALSE]
     \/ CacheOp("dc_hit_wb_invalidate")
        /\ dcache' = [dcache EXCEPT ![DataLine].valid = FALSE]
  /\ Hit(DataLine, DataFrame)
  /\ memory' = IF dcache[DataLine].dirty THEN WrittenBack(DataLine) ELSE memory
  /\ UNCHANGED <<icache, tagLo, careless>>

HitOpMisses ==
  /\ \/ CacheOp("ic_invalidate_hit") /\ ~ILineHit
     \/ /\ \E op \in {"dc_hit_invalidate", "dc_hit_wb", "dc_hit_wb_invalidate"} :
             CacheOp(op)
        /\ ~Hit(DataLine, DataFrame)
  /\ UNCHANGED <<memory, dcache, icache, tagLo, careless>>

DcStage == \/ Interrupt \/ DcCrash \/ DcTlbFault
           \/ DcHit \/ DcFill \/ DcUncached
           \/ IcInvalidate \/ IcSetTagLo \/ DcGetTagLo \/ DcSetTagLo
           \/ DcWbInvalidate \/ DcCreateDirtyEx \/ DcHitInvalidate \/ DcHitWb
           \/ HitOpMisses

-----------------------------------------------------------------------------
(* EX.  The request of the instruction before has left DC.  Only the       *)
(* kernel executes system instructions: an assumption about the guest.     *)

Ex == ~stopped /\ request = None
System == Ex /\ Mode(status) = "kernel"

Issue ==
  /\ Ex
  /\ \E a \in guest.accesses :
       /\ a.type \in CacheOps => Mode(status) = "kernel"
       /\ request' = [type |-> a.type, va |-> a.va, data |-> a.data, pc |-> pc]
  /\ UNCHANGED <<guest, cp0, tlb, fetch, dsegment, store, stopped>>

MTC0_Status ==
  /\ System
  /\ \E s \in guest.statuses :
       IF ~ValidAddress(pc.place, s) THEN Stop
       ELSE /\ status' = s
            /\ isegment' = get_segment(pc.place, s)
            /\ dsegment' = DefaultSegment
            /\ UNCHANGED <<guest, epc, entryHi, entryLo, pageMask, index,
                           wired, tagLo, tlb, pc, target, phase, request,
                           store, stopped>>

\* The 64-bit move writes the register and leaves the latches as they are.
DMTC0_Status ==
  /\ System
  /\ status' \in guest.longStatuses
  /\ UNCHANGED <<guest, epc, entryHi, entryLo, pageMask, index, wired, tagLo,
                 tlb, fetch, data, store, stopped>>

\* MTC0 and DMTC0 to the other registers.  The three registers that hold the
\* rest of an entry are written together.
MTC0_Register ==
  /\ System
  /\ \/ entryHi' \in guest.entryHis
        /\ UNCHANGED <<epc, entryLo, pageMask, index, wired, tagLo>>
     \/ \E e \in guest.entryLos : entryLo' = e.lo /\ pageMask' = e.mask
        /\ UNCHANGED <<epc, entryHi, index, wired, tagLo>>
     \/ \E i \in guest.indexes : index' = [probeFailed |-> FALSE, i |-> i]
        /\ UNCHANGED <<epc, entryHi, entryLo, pageMask, wired, tagLo>>
     \/ wired' \in guest.wireds
        /\ UNCHANGED <<epc, entryHi, entryLo, pageMask, index, tagLo>>
     \/ tagLo' \in guest.tagLos
        /\ UNCHANGED <<epc, entryHi, entryLo, pageMask, index, wired>>
     \/ epc' \in guest.epcs
        /\ UNCHANGED <<entryHi, entryLo, pageMask, index, wired, tagLo>>
  /\ UNCHANGED <<guest, status, tlb, fetch, data, store, stopped>>

\* Mutant: DC keeps the segment it latched before the return.
ERETKeepsLatch ==
  /\ System /\ guest.erets
  /\ LET to == IF status.erl THEN KSEG0(0) ELSE epc
         s == IF status.erl THEN [status EXCEPT !.erl = FALSE]
              ELSE [status EXCEPT !.exl = FALSE]
     IN IF ~ValidAddress(to.place, s) THEN Stop
        ELSE /\ status' = s
             /\ target' = to /\ phase' = "ic"
             /\ isegment' = get_segment(to.place, s)
             /\ UNCHANGED <<guest, epc, entryHi, entryLo, pageMask, index, wired,
                            tagLo, tlb, pc, data, store, stopped>>

\* ERET; ErrorEPC is the start of the kernel.
ERET ==
  /\ System /\ guest.erets
  /\ LET to == IF status.erl THEN KSEG0(0) ELSE epc
         s == IF status.erl THEN [status EXCEPT !.erl = FALSE]
              ELSE [status EXCEPT !.exl = FALSE]
     IN IF ~ValidAddress(to.place, s) THEN Stop
        ELSE /\ status' = s
             /\ target' = to /\ phase' = "ic"
             /\ isegment' = get_segment(to.place, s)
             /\ dsegment' = DefaultSegment
             /\ UNCHANGED <<guest, epc, entryHi, entryLo, pageMask, index,
                            wired, tagLo, tlb, pc, request, store, stopped>>

\* Mutant: the answer of the probe is an index.
TLBPUnchecked ==
  /\ System /\ guest.probes
  /\ LET probe == tlb_probe(tlb, entryHi.vpn2, entryHi.asid)
     IN index' = [probeFailed |-> probe.miss, i |-> probe.index]
  /\ UNCHANGED <<guest, status, epc, entryHi, entryLo, pageMask, wired, tagLo,
                 tlb, fetch, data, store, stopped>>

TLBP ==
  /\ System /\ guest.probes
  /\ LET probe == tlb_probe(tlb, entryHi.vpn2, entryHi.asid)
     IN index' = IF probe.miss THEN [index EXCEPT !.probeFailed = TRUE]
                 ELSE [probeFailed |-> probe.index = -1,
                       i |-> IF probe.index = -1 THEN index.i ELSE probe.index]
  /\ UNCHANGED <<guest, status, epc, entryHi, entryLo, pageMask, wired, tagLo,
                 tlb, fetch, data, store, stopped>>

\* An Index whose top bit is set names no entry: the guest does not use it.
TLBR ==
  /\ System /\ guest.reads /\ ~index.probeFailed
  /\ entryHi' = ReadHi(tlb[index.i])
  /\ entryLo' = tlb[index.i].lo /\ pageMask' = tlb[index.i].mask
  /\ UNCHANGED <<guest, status, epc, index, wired, tagLo, tlb, fetch, data,
                 store, stopped>>

TLBWI ==
  /\ System /\ guest.writes /\ ~index.probeFailed
  /\ tlb' = [tlb EXCEPT ![index.i] = WrittenEntry(entryHi, pageMask, entryLo)]
  /\ UNCHANGED <<guest, cp0, fetch, data, store, stopped>>

\* Mutant: Wired is forgotten.
RandomIndexOfAll(random) == random % Entries

\* rand() % (32 - Wired) + Wired: a division by zero when all are wired.
RandomIndex(random) == (random % (Entries - wired)) + wired
TLBWR ==
  /\ System /\ guest.refills
  /\ IF wired = Entries THEN Stop
     ELSE /\ \E random \in Index :
               tlb' = [tlb EXCEPT ![RandomIndex(random)] =
                         WrittenEntry(entryHi, pageMask, entryLo)]
          /\ UNCHANGED <<guest, cp0, fetch, data, store, stopped>>

ExStage == \/ Issue \/ MTC0_Status \/ DMTC0_Status \/ MTC0_Register \/ ERET
           \/ TLBP \/ TLBR \/ TLBWI \/ TLBWR

Next == \/ \E va \in (guest.fetches \cup {target}) \ {Anywhere} : IcStage(va)
        \/ RfCrash \/ RfTlbMiss \/ RfFetch
        \/ DcStage
        \/ ExStage

Spec == Init /\ [][Next]_vars

-----------------------------------------------------------------------------
(* Properties.                                                             *)

\* Every variable is in range; a probe that answers -1 never selects a slot.
TypeOK ==
  /\ status \in StatusSet /\ epc \in Address
  /\ entryHi \in EntryHi /\ entryLo \in [0 .. 1 -> EntryLo]
  /\ pageMask \in 0 .. 1
  /\ index \in [probeFailed : BOOLEAN, i : Index] /\ wired \in 0 .. Entries
  /\ tagLo \in TagLo
  /\ tlb \in [Index -> Entry]
  /\ pc \in Address /\ target \in Address \cup {Anywhere}
  /\ phase \in {"ic", "rf"}
  /\ isegment \in SegmentTable \cup {DefaultSegment, NULL}
  /\ dsegment \in SegmentTable \cup {DefaultSegment}
  /\ request \in Request \cup {None}
  /\ memory \in [Frame -> Value]
  /\ dcache \in [0 .. (DLines - 1) -> DLine]
  /\ icache \in [0 .. (ILines - 1) -> ILine]
  /\ seen \in [frame : Frame, value : Value]
  /\ stopped \in BOOLEAN /\ careless \in BOOLEAN

\* The value of a frame: what a line that holds it says, a dirty one first.
Effective == [f \in Frame |->
  LET holds == {k \in DOMAIN dcache : Hit(k, f)}
      dirty == {k \in holds : dcache[k].dirty}
  IN IF holds = {} THEN memory[f]
     ELSE dcache[CHOOSE k \in holds : dirty # {} => k \in dirty].data]
Stale == {f \in Frame :
            \/ \E k \in DOMAIN icache : /\ icache[k].valid /\ icache[k].tag = f
                                        /\ icache[k].data # Effective[f]
            \/ \E k \in DOMAIN dcache : Hit(k, f) /\ dcache[k].data # memory[f]}

\* The caches, the line fills and write-backs of VR4300_DCM and the CACHE
\* operations are invisible: loads, stores and fetches do what they do to a
\* memory without caches, and once each, until the guest breaks a rule of the caches: it
\* accesses a frame past the line that holds it, discards a dirty line, makes
\* up a tag, or takes a valid line for another frame without filling it.
Asked == CASE request.type = "read" -> [type |-> "read"]
           [] request.type = "write" -> [type |-> "write", data |-> request.data]
           [] OTHER -> [type |-> "none"]
Plain == INSTANCE PlainMemory WITH mem <- Effective, ask <- Asked, stale <- Stale
ImplementsMemory ==
  /\ Plain!Init
  /\ [][careless' \/ Plain!Next]_<<Effective, Asked, seen, Stale>>

\* The latched segment of a stage is the one that get_segment returns for the
\* addresses in it, but for the end of xkseg, where it returns none
\* (segment.c:279).  Every writer of Status sees to that, but for DMTC0, which
\* leaves the latches of the old mode in force (cp0.c:79).
PlacesUsed == {va.place : va \in guest.fetches \cup guest.epcs \cup {KSEG0(0)}}
                \cup {a.va.place : a \in guest.accesses}
LatchCurrent(seg) == \A p \in PlacesUsed :
  Within(p, seg) /\ ~XksegTail(p) => get_segment(p, status) = seg
LatchesCurrent == LatchCurrent(isegment) /\ LatchCurrent(dsegment)
StaleOnlyByDMTC0 == [][LatchesCurrent => LatchesCurrent' \/ DMTC0_Status]_vars

\* A load or store reaches a frame only if the mode it runs in has the segment
\* and, in a mapped one, an entry of the TLB for the page, of this address
\* space or global, valid, and dirty for a store, says so: whatever the latched
\* segment, the lines of the caches and the lanes of the probe hold.
Granted(r, f) ==
  LET seg == get_segment(r.va.place, status)
  IN /\ seg # NULL
     /\ IF seg.mapped
        THEN \E i \in Index :
               /\ Matches(tlb[i], Vpn2(r.va), entryHi.asid)
               /\ FrameOf(tlb[i], r.va.page) = f
               /\ Half(i, r.va).valid
               /\ r.type = "write" => Half(i, r.va).dirty
        ELSE f = r.va.page
OnlyGranted ==
  [][ (request # None /\ <<memory, dcache, seen>>' # <<memory, dcache, seen>>
         /\ LatchesCurrent /\ ~XksegTail(request.va.place)) =>
        /\ request.type = "write" =>
             LET before == Effective IN LET after == Effective' IN
             \A f \in Frame : after[f] # before[f] =>
                                Granted(request, f) \/ careless'
        /\ (request.type = "read" /\ request' = None) =>
             Granted(request, seen'.frame) ]_vars

\* A refill ends the misses.  After a TLB miss the handler loads EntryLo and
\* PageMask and writes the entry that EntryHi names, over any entry the probe
\* scans: the access is then found there and nowhere else, so that its retry
\* neither misses again nor ends the process.  This asks that the guest switches
\* the extension bits together and has an address of its mode (the segment's bit
\* decides how much of the address EntryHi keeps, the mode's bit whether it may
\* have 64), and that a large page begins at a multiple of its size, as the mask
\* is put on the address alone (fault.c:131, tlb.c:43).
BitsTogether == status.kx = status.sx /\ status.sx = status.ux
FoundAt(i, entries, va, asid) ==
  tlb_probe(entries, Vpn2(va), asid) = [miss |-> FALSE, index |-> i]
RefillEnds(va) ==
  \A e \in guest.entryLos, i \in Scanned :
    MaskedVpn2(Vpn2(va), e.mask) = Vpn2(va) =>
      FoundAt(i, [tlb EXCEPT ![i] = WrittenEntry(entryHi', e.mask, e.lo)],
              va, entryHi'.asid)
Missed(va) == Probe(va).miss /\ BitsTogether /\ ValidAddress(va.place, status)
RefillEndsMisses ==
  [][ /\ RfTlbMiss /\ Missed(pc) => RefillEnds(pc)
      /\ DcTlbFault /\ Missed(request.va) => RefillEnds(request.va) ]_vars

\* Entries below Wired are replaced only where the guest names them: TLBWR,
\* whose index is a remainder by 32 - Wired, stays above.
WiredKept ==
  [][ \A i \in Index : tlb'[i] # tlb[i] => i >= wired \/ i = index.i ]_vars

\* The process of the emulator ends only for one of these: the NULL that MTC0 of
\* Status or ERET have latched without looking, an address in flight or to
\* return to that the mode does not have, a page in flight that two scanned
\* entries match in this address space, one that only entries of other address
\* spaces match while ASID is 0, and TLBWR with all entries wired.
NoSegment(p, s) == ~ValidAddress(p, s) \/ get_segment(p, s) = NULL
InFlight == {va.place : va \in IF target = Anywhere THEN guest.fetches ELSE {target}}
              \cup (IF request = None THEN {} ELSE {request.va.place})
Matching(va) == {i \in Scanned : Matches(tlb[i], Vpn2(va), entryHi.asid)}
Conflict(va) ==
  \/ \E i, j \in Matching(va) : i # j
  \/ /\ entryHi.asid = 0 /\ Matching(va) = {}
     /\ \E i \in Scanned : MatchesVpn2(tlb[i], Vpn2(va))
StopsOnlyAsKnown ==
  [][ stopped' /\ ~stopped =>
        \/ isegment = NULL
        \/ \E p \in InFlight : NoSegment(p, status)
        \/ MTC0_Status /\ \E s \in guest.statuses : ~ValidAddress(pc.place, s)
        \/ ERET /\ ~ValidAddress(epc.place, [status EXCEPT !.exl = FALSE])
        \/ phase = "rf" /\ Conflict(pc)
        \/ request # None /\ Conflict(request.va)
        \/ TLBWR /\ wired = Entries ]_vars

\* "Match only on VPN match && (asid match || global)" (tlb.c:62).
ProbeMatches ==
  \A va \in {a.va : a \in guest.accesses} :
    ~Probe(va).miss =>
      \E i \in Index : Matches(tlb[i], Vpn2(va), entryHi.asid)
=============================================================================
