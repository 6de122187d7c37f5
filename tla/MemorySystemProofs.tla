------------------------- MODULE MemorySystemProofs -------------------------
(***************************************************************************)
(* Proofs about the path between the pipeline and memory, for every size   *)
(* of the TLB and of the caches, every memory and every guest.             *)
(***************************************************************************)
EXTENDS MemorySystem, FiniteSetTheorems, TLAPS

-----------------------------------------------------------------------------
(* Segments.                                                               *)

Segments == SegmentTable \cup {DefaultSegment, NULL}
Latchable == SegmentTable \cup {DefaultSegment}

\* The fields of an address are in range.
LEMMA PlaceFields ==
  ASSUME NEW p \in Places
  PROVE  /\ Bits63To59(p) \in 0 .. 31 /\ Bits63To59(p) \div 8 \in 0 .. 3
         /\ Bits39To32(p) \in 0 .. 2 /\ Bits31To29(p) \in 0 .. 7
<1>1. p \in 0 .. 2303
  BY DEF Places, Place, Zeros
<1>2. p \div 72 \in 0 .. 31 /\ (p \div 72) \div 8 \in 0 .. 3
  BY <1>1
<1>3. (p \div 8) % 3 \in 0 .. 2 /\ p % 8 \in 0 .. 7
  BY <1>1
<1> QED BY <1>2, <1>3 DEF Bits63To59, Bits39To32, Bits31To29

\* The sign extension of an address is an address.
LEMMA SignExtendedPlace ==
  ASSUME NEW p \in Places PROVE SignExtended32(p) \in Places
BY DEF Places, SignExtended32, Place, Bits31To29, Zeros, Ones

\* get_segment answers an entry of its tables or NULL.
LEMMA SegmentType ==
  ASSUME NEW p \in Places, NEW s \in StatusSet
  PROVE  get_segment(p, s) \in SegmentTable \cup {NULL}
<1>1. KSEGs[2] \in SegmentTable
  BY DEF SegmentTable
<1>2. KernelSegment(p) \in SegmentTable
  <2>1. CASE p >= KSEGs[0].start
    <3>1. Bits31To29(p) % 4 \in 0 .. 3
      BY DEF Bits31To29, Places, Place
    <3> QED BY <2>1, <3>1 DEF KernelSegment, SegmentTable
  <2>2. CASE ~(p >= KSEGs[0].start)
    <3>1. CASE Place(16, 0, 0, 0) <= p /\ p < Place(24, 0, Ones, 4) /\ Bits63To59(p) < 24
      <4>1. Bits63To59(p) - 16 \in 0 .. 7
        BY <3>1 DEF Bits63To59, Places, Place, Ones
      <4> QED BY <2>2, <3>1, <4>1 DEF KernelSegment, SegmentTable
    <3>2. CASE ~(Place(16, 0, 0, 0) <= p /\ p < Place(24, 0, Ones, 4) /\ Bits63To59(p) < 24)
      <4>1. KernelSegment(p) \in {XKSEG, KSEGs[2]}
        BY <2>2, <3>2 DEF KernelSegment
      <4> QED BY <1>1, <4>1 DEF SegmentTable
    <3> QED BY <3>1, <3>2
  <2> QED BY <2>1, <2>2
<1> QED BY <1>1, <1>2 DEF get_segment, SegmentTable

\* The segments a latch holds are told apart from NULL and contain no address
\* when they are the default.
LEMMA DefaultIsEmpty ==
  ASSUME NEW p \in Places
  PROVE  ~Within(p, DefaultSegment) /\ ~Within(p, NULL)
BY DEF Places, Place, Within, DefaultSegment, NULL, Segment

LEMMA NullIsNoSegment == NULL \notin SegmentTable \cup {DefaultSegment}
<1>1. NULL.xmode = "null" /\ DefaultSegment.xmode = "none"
  BY DEF NULL, DefaultSegment, Segment
<1>2. \A seg \in SegmentTable : seg.xmode \in {"ux", "sx", "kx"}
  BY DEF SegmentTable, USEG, XUSEG, XSSEG, XKSEG, KSEGs, XKPHYS, Segment
<1> QED BY <1>1, <1>2

\* What a stage finds for an address, given what it has latched.
LEMMA LookupType ==
  ASSUME NEW va \in Address, NEW seg \in Segments, status \in StatusSet
  PROVE  Lookup(va, seg) \in SegmentTable \cup {NULL}
<1>1. va.place \in Places
  BY DEF Address
<1>2. Within(va.place, seg) => seg \in SegmentTable
  BY <1>1, DefaultIsEmpty DEF Segments
<1> QED BY <1>1, <1>2, SegmentType DEF Lookup

-----------------------------------------------------------------------------
(* The TLB.                                                                *)

\* The pair of pages of an address.
LEMMA Vpn2Type ==
  ASSUME NEW va \in Address PROVE Vpn2(va) \in Vpn2Set
<1>1. va.place \in Places /\ va.page \in Page
  BY DEF Address
<1>2. /\ Bits63To59(va.place) \div 8 \in 0 .. 3
      /\ Bits39To32(va.place) \in 0 .. 2 /\ Bits31To29(va.place) \in 0 .. 7
  BY <1>1, PlaceFields
<1>3. Region(va.place) \in (0 .. 3) \X (0 .. 2) \X (0 .. 7)
  BY <1>2 DEF Region
<1> QED BY <1>1, <1>3 DEF Vpn2, Vpn2Set

LEMMA ExtendedAddress ==
  ASSUME NEW va \in Address
  PROVE  [va EXCEPT !.place = SignExtended32(va.place)] \in Address
BY SignExtendedPlace DEF Address

\* A probe that does not answer -1 answers an index.
LEMMA ProbeIndex ==
  ASSUME NEW entries, NEW vpn2, NEW asid, tlb_probe(entries, vpn2, asid).index # -1
  PROVE  tlb_probe(entries, vpn2, asid).index \in Index
<1> DEFINE hits == {i \in Scanned : Matches(entries[i], vpn2, asid)}
<1>1. hits \subseteq Index
  BY DEF Scanned
<1>2. Cardinality(hits) = 1 => hits # {}
  BY FS_EmptySet
<1>3. Cardinality(hits) = 1 => (CHOOSE i \in hits : TRUE) \in Index
  BY <1>1, <1>2
<1>4. 0 \in Index
  BY TlbAssumption DEF Index
<1> QED BY <1>3, <1>4 DEF tlb_probe

LEMMA ProbeType ==
  ASSUME NEW va, Probe(va).index # -1
  PROVE  Probe(va).index \in Index
BY ProbeIndex DEF Probe

\* The half and the frame that an address selects in an entry.
LEMMA SelectType ==
  ASSUME NEW entry \in Entry, NEW page \in Page
  PROVE  Select(entry, page) \in 0 .. 1
BY TlbAssumption DEF Select

LEMMA FrameType ==
  ASSUME NEW entry \in Entry, NEW page \in Page
  PROVE  FrameOf(entry, page) \in Frame
<1> DEFINE pfn == entry.lo[Select(entry, page)].pfn
<1>1. pfn \in Frame
  BY SelectType DEF Entry, EntryLo
<1>2. page % 2 \in 0 .. 1
  BY TlbAssumption
<1> HIDE DEF pfn
<1>3. pfn % 2 = 0 => pfn + (page % 2) \in Frame
  <2>1. page % 2 = 0 \/ page % 2 = 1
    BY <1>2
  <2>2. CASE page % 2 = 0
    BY <1>1, <2>2, TlbAssumption
  <2>3. CASE page % 2 = 1
    BY <1>1, <2>3, MemoryAssumption
  <2> QED BY <2>1, <2>2, <2>3
<1> QED BY <1>1, <1>3 DEF FrameOf, pfn

\* The lines of the caches that an address selects.
LEMMA LineType ==
  ASSUME NEW va \in Address
  PROVE  LineOf(va) \in 0 .. (DLines - 1) /\ ILineOf(va) \in 0 .. (ILines - 1)
<1>1. va.page \in Nat
  BY TlbAssumption DEF Address
<1>2. \A n \in Nat, d \in Nat \ {0} : n % d \in 0 .. (d - 1)
  OBVIOUS
<1> QED BY <1>1, <1>2, MemoryAssumption DEF LineOf, ILineOf
-----------------------------------------------------------------------------
(* Type correctness.                                                       *)

Types == TypeOK /\ guest \in Guests

LEMMA KernelStart == KSEG0(0) \in Address
<1>1. KSEGs[0].start \in Places
  BY DEF KSEGs, Segment, Places, Place, Zeros
<1> QED BY <1>1, MemoryAssumption DEF KSEG0, Address

LEMMA InitTypes == Init => Types
<1> SUFFICES ASSUME Init PROVE Types
  OBVIOUS
<1>2. KSEG0(0) \in Address
  BY KernelStart
<1>3. [place |-> 0, page |-> 0] \in Address
  BY MemoryAssumption DEF Address, Places, Place, Zeros
<1>4. LastVpn2 \in Vpn2Set
  <2>1. 0 = 0 \div 2
    OBVIOUS
  <2> QED BY <2>1, MemoryAssumption DEF LastVpn2, Vpn2Set, Ones
<1>5. EmptyLo \in EntryLo
  BY TlbAssumption DEF EmptyLo, EntryLo
<1>6. ResetEntry \in Entry
  BY <1>4, <1>5, TlbAssumption DEF ResetEntry, Entry
<1>7. InitialMemory[0] \in Value
  BY MemoryAssumption, TlbAssumption
<1>8. status \in StatusSet
  BY DEF Init, ResetStatus, StatusSet
<1>9. entryHi \in EntryHi /\ entryLo \in [0 .. 1 -> EntryLo] /\ pageMask \in 0 .. 1
  BY <1>3, <1>5, Vpn2Type, TlbAssumption DEF Init, EntryHi
<1>10. index \in [probeFailed : BOOLEAN, i : Index] /\ wired \in 0 .. Entries
  BY TlbAssumption DEF Init, Index
<1>11. tagLo \in TagLo /\ tlb \in [Index -> Entry]
  BY <1>6, TlbAssumption DEF Init, TagLo
<1>12. /\ dcache \in [0 .. (DLines - 1) -> DLine]
       /\ icache \in [0 .. (ILines - 1) -> ILine]
       /\ seen \in [frame : Frame, value : Value]
  BY <1>7, TlbAssumption DEF Init, DLine, ILine
<1> QED BY <1>2, <1>8, <1>9, <1>10, <1>11, <1>12, MemoryAssumption
        DEF Init, Types, TypeOK

\* An instruction in execution, and the parts of the state it meets.
LEMMA RequestType ==
  ASSUME Types, request # None
  PROVE  /\ request \in Request /\ request.va \in Address /\ request.pc \in Address
         /\ request.data \in Value /\ DataLine \in 0 .. (DLines - 1)
         /\ ILineOf(request.va) \in 0 .. (ILines - 1)
         /\ DataSegment \in SegmentTable \cup {NULL}
<1>1. request \in Request
  BY DEF Types, TypeOK
<1>2. request.va \in Address /\ request.pc \in Address /\ request.data \in Value
  BY <1>1 DEF Request
<1>3. DataSegment \in SegmentTable \cup {NULL}
  BY <1>2, LookupType DEF DataSegment, Types, TypeOK, Segments
<1> QED BY <1>1, <1>2, <1>3, LineType DEF DataLine

LEMMA DataFrameType ==
  ASSUME Types, DcSound
  PROVE  DataFrame \in Frame
<1>1. request.va \in Address
  BY RequestType DEF DcSound
<1>2. request.va.page \in Page /\ request.va.page \in Frame
  BY <1>1, MemoryAssumption DEF Address
<1>3. DataSegment.mapped => DataProbe.index \in Index
  BY ProbeType DEF DcSound, DataProbe, Types
<1> QED BY <1>2, <1>3, FrameType DEF DataFrame, Types, TypeOK

LEMMA FetchFrameType ==
  ASSUME Types, RfSound
  PROVE  FetchFrame \in Frame
<1>1. pc.page \in Page /\ pc.page \in Frame
  BY MemoryAssumption DEF Address, Types, TypeOK
<1>2. isegment.mapped => Probe(pc).index \in Index
  BY ProbeType DEF RfSound, Types
<1> QED BY <1>1, <1>2, FrameType DEF FetchFrame, Types, TypeOK

\* What an exception writes.
LEMMA ExceptionTypes ==
  ASSUME Types, NEW at \in Address, Exception(at)
  PROVE  /\ status' \in StatusSet /\ epc' \in Address /\ target' \in Address
         /\ phase' = "ic" /\ isegment' = DefaultSegment /\ dsegment' = DefaultSegment
BY KernelStart DEF Exception, Types, TypeOK, StatusSet

LEMMA RefillTypes ==
  ASSUME Types, NEW va \in Address, NEW seg, NEW at, TlbException(at, seg, va)
  PROVE  entryHi' \in EntryHi
BY Vpn2Type, ExtendedAddress DEF TlbException, Types, TypeOK, EntryHi

\* What every CACHE operation leaves behind.
LEMMA CacheOpTypes ==
  ASSUME Types, NEW op, CacheOp(op)
  PROVE  /\ DcSound /\ request \in Request /\ request' = None
         /\ DataFrame \in Frame /\ DataLine \in 0 .. (DLines - 1)
         /\ ILineOf(request.va) \in 0 .. (ILines - 1)
         /\ dsegment' \in SegmentTable
         /\ UNCHANGED <<guest, status, epc, entryHi, entryLo, pageMask, index,
                        wired, tlb, pc, target, phase, isegment, seen, stopped>>
<1>1. DcSound /\ request # None
  BY DEF CacheOp, DcSound
<1> QED BY <1>1, RequestType, DataFrameType DEF CacheOp, DcSound, fetch

LEMMA WrittenEntryType ==
  ASSUME Types PROVE WrittenEntry(entryHi, pageMask, entryLo) \in Entry
BY DEF Types, TypeOK, WrittenEntry, Entry, EntryHi, EntryLo

LEMMA TypesStep == Types /\ [Next]_vars => Types'
<1> SUFFICES ASSUME Types, [Next]_vars PROVE Types'
  OBVIOUS
<1> USE DEF Types, TypeOK
<1> USE DEF cp0, fetch, data, store
<1>0. guest \in Guest
  BY MemoryAssumption
<1>1. ASSUME NEW va \in (guest.fetches \cup {target}) \ {Anywhere}, IcStage(va)
      PROVE  Types'
  <2>1. va \in Address
    BY <1>0 DEF Guest
  <2>2. Lookup(va, isegment) \in Segments
    BY <2>1, LookupType DEF Segments
  <2>3. CASE Stop
    BY <2>3 DEF Stop
  <2>4. CASE ~Stop
    BY <1>1, <2>1, <2>2, <2>4 DEF IcStage, Segments
  <2> QED BY <2>3, <2>4
<1>2. CASE RfCrash
  BY <1>2 DEF RfCrash, Stop
<1>3. CASE RfTlbMiss
  BY <1>3, ExceptionTypes, RefillTypes DEF RfTlbMiss, TlbException
<1>4. CASE RfFetch
  <2>1. FetchFrame \in Frame
    BY <1>4, FetchFrameType DEF RfFetch
  <2>2. ILineOf(pc) \in 0 .. (ILines - 1)
    BY LineType
  <2>3. icache[ILineOf(pc)].data \in Value /\ memory[FetchFrame] \in Value
    BY <2>1, <2>2 DEF ILine
  <2> DEFINE word == IF FetchCached /\ icache[ILineOf(pc)].valid
                             /\ icache[ILineOf(pc)].tag = FetchFrame
                     THEN icache[ILineOf(pc)].data ELSE memory[FetchFrame]
  <2>4. word \in Value
    BY <2>3
  <2>5. seen' = [frame |-> FetchFrame, value |-> word]
    BY <1>4 DEF RfFetch
  <2>6. \/ icache' = icache
        \/ icache' = [icache EXCEPT ![ILineOf(pc)] =
                        [tag |-> FetchFrame, valid |-> TRUE, data |-> word]]
    BY <1>4 DEF RfFetch
  <2> HIDE DEF word
  <2>7. seen' \in [frame : Frame, value : Value]
    BY <2>1, <2>4, <2>5
  <2> DEFINE line == [tag |-> FetchFrame, valid |-> TRUE, data |-> word]
  <2>10. line \in ILine
    BY <2>1, <2>4 DEF ILine
  <2> HIDE DEF line
  <2>8. icache' \in [0 .. (ILines - 1) -> ILine]
    BY <2>2, <2>6, <2>10 DEF line
  <2>9. /\ phase' = "ic"
        /\ UNCHANGED <<guest, cp0, tlb, pc, target, isegment, data, memory,
                       dcache, careless, stopped>>
    BY <1>4 DEF RfFetch
  <2> QED BY <2>7, <2>8, <2>9
<1>5. CASE Interrupt
  BY <1>5, ExceptionTypes, RequestType DEF Interrupt
<1>6. CASE DcCrash
  BY <1>6 DEF DcCrash, Stop
<1>7. CASE DcTlbFault
  BY <1>7, ExceptionTypes, RefillTypes, RequestType DEF DcTlbFault, DcSound, TlbException
<1>8. CASE DcHit
  <2>1. DcSound
    BY <1>8 DEF DcHit, DcAccess
  <2>2. dcache' \in [0 .. (DLines - 1) -> DLine]
    BY <1>8, <2>1, RequestType DEF DcHit, DcSound, DLine
  <2>3. seen' \in [frame : Frame, value : Value]
    BY <1>8, <2>1, RequestType, DataFrameType DEF DcHit, DcSound, DLine, Delivered
  <2>4. dsegment' \in SegmentTable
    BY <1>8, <2>1, RequestType DEF DcHit, DcSound
  <2>5. request' = None /\ careless' \in BOOLEAN
        /\ UNCHANGED <<guest, cp0, tlb, fetch, memory, icache, stopped>>
    BY <1>8 DEF DcHit
  <2> QED BY <2>2, <2>3, <2>4, <2>5
<1>9. CASE DcFill
  <2>1. DcSound
    BY <1>9 DEF DcFill, DcAccess
  <2>2. memory' \in [Frame -> Value]
    BY <1>9, <2>1, RequestType DEF DcFill, DcSound, DLine, WrittenBack
  <2>3. dcache' \in [0 .. (DLines - 1) -> DLine]
    BY <1>9, <2>1, <2>2, RequestType, DataFrameType DEF DcFill, DcSound, DLine
  <2>4. dsegment' \in SegmentTable
    BY <1>9, <2>1, RequestType DEF DcFill, DcSound
  <2>5. careless' \in BOOLEAN
        /\ UNCHANGED <<guest, cp0, tlb, fetch, request, icache, seen, stopped>>
    BY <1>9 DEF DcFill
  <2> QED BY <2>2, <2>3, <2>4, <2>5
<1>10. CASE DcUncached
  <2>1. DcSound
    BY <1>10 DEF DcUncached, DcAccess
  <2>2. memory' \in [Frame -> Value]
    BY <1>10, <2>1, RequestType, DataFrameType DEF DcUncached, DcSound
  <2>3. seen' \in [frame : Frame, value : Value]
    BY <1>10, <2>1, RequestType, DataFrameType DEF DcUncached, DcSound, Delivered
  <2>4. dsegment' \in SegmentTable
    BY <1>10, <2>1, RequestType DEF DcUncached, DcSound
  <2>5. request' = None /\ careless' \in BOOLEAN
        /\ UNCHANGED <<guest, cp0, tlb, fetch, dcache, icache, stopped>>
    BY <1>10 DEF DcUncached
  <2> QED BY <2>2, <2>3, <2>4, <2>5
<1>11. CASE IcInvalidate
  BY <1>11, CacheOpTypes DEF IcInvalidate, ILine
<1>12. CASE IcSetTagLo
  BY <1>12, CacheOpTypes DEF IcSetTagLo, ILine, TagLo
<1>13. CASE DcGetTagLo
  BY <1>13, CacheOpTypes DEF DcGetTagLo, DLine, TagLo
<1>14. CASE DcSetTagLo
  BY <1>14, CacheOpTypes DEF DcSetTagLo, DLine, TagLo
<1>15. CASE DcWbInvalidate
  BY <1>15, CacheOpTypes DEF DcWbInvalidate, DLine, WrittenBack
<1>16. CASE DcCreateDirtyEx
  BY <1>16, CacheOpTypes DEF DcCreateDirtyEx, DLine, WrittenBack
<1>17. CASE DcHitInvalidate
  BY <1>17, CacheOpTypes DEF DcHitInvalidate, DLine
<1>18. CASE DcHitWb
  <2>1. /\ DataLine \in 0 .. (DLines - 1) /\ dsegment' \in SegmentTable
        /\ request' = None
        /\ UNCHANGED <<guest, status, epc, entryHi, entryLo, pageMask, index,
                       wired, tlb, pc, target, phase, isegment, seen, stopped>>
    BY <1>18, CacheOpTypes DEF DcHitWb
  <2>2. dcache' \in [0 .. (DLines - 1) -> DLine]
    <3>1. \/ dcache' = [dcache EXCEPT ![DataLine].dirty = FALSE]
          \/ dcache' = [dcache EXCEPT ![DataLine].valid = FALSE]
      BY <1>18 DEF DcHitWb
    <3>2. dcache \in [0 .. (DLines - 1) -> DLine]
      OBVIOUS
    <3> HIDE DEF Types, TypeOK
    <3> QED BY <2>1, <3>1, <3>2 DEF DLine
  <2>3. memory' \in [Frame -> Value]
    <3>1. dcache[DataLine].tag \in Frame /\ dcache[DataLine].data \in Value
      BY <2>1 DEF DLine
    <3>2. memory' = IF dcache[DataLine].dirty THEN WrittenBack(DataLine) ELSE memory
      BY <1>18 DEF DcHitWb
    <3> QED BY <3>1, <3>2 DEF WrittenBack
  <2>4. UNCHANGED <<icache, tagLo, careless>>
    BY <1>18 DEF DcHitWb
  <2> QED BY <2>1, <2>2, <2>3, <2>4
<1>19. CASE HitOpMisses
  BY <1>19, CacheOpTypes DEF HitOpMisses
<1>20. CASE Issue
  BY <1>0, <1>20 DEF Issue, Guest, Request
<1>21. CASE MTC0_Status
  <2>1. PICK s \in guest.statuses :
          IF ~ValidAddress(pc.place, s) THEN Stop
          ELSE /\ status' = s
               /\ isegment' = get_segment(pc.place, s)
               /\ dsegment' = DefaultSegment
               /\ UNCHANGED <<guest, epc, entryHi, entryLo, pageMask, index,
                              wired, tagLo, tlb, pc, target, phase, request,
                              store, stopped>>
    BY <1>21 DEF MTC0_Status
  <2>2. s \in StatusSet
    BY <1>0 DEF Guest
  <2>3. get_segment(pc.place, s) \in SegmentTable \cup {NULL}
    BY <2>2, SegmentType DEF Address
  <2>4. CASE Stop
    BY <2>4 DEF Stop
  <2>5. CASE ~Stop
    BY <2>1, <2>2, <2>3, <2>5
  <2> QED BY <2>4, <2>5
<1>22. CASE DMTC0_Status
  BY <1>0, <1>22 DEF DMTC0_Status, Guest
<1>23. CASE MTC0_Register
  <2>1. UNCHANGED <<guest, status, tlb, fetch, data, store, stopped>>
    BY <1>23 DEF MTC0_Register
  <2>2. entryHi' \in EntryHi
    BY <1>0, <1>23 DEF MTC0_Register, Guest
  <2>5. entryLo' \in [0 .. 1 -> EntryLo] /\ pageMask' \in 0 .. 1
    BY <1>0, <1>23 DEF MTC0_Register, Guest
  <2>3. index' \in [probeFailed : BOOLEAN, i : Index]
    <3>1. CASE index' = index
      BY <3>1
    <3>2. CASE index' # index
      <4>1. PICK n \in Index : index' = [probeFailed |-> FALSE, i |-> n]
        BY <1>0, <1>23, <3>2 DEF MTC0_Register, Guest
      <4> QED BY <4>1
    <3> QED BY <3>1, <3>2
  <2>6. wired' \in 0 .. Entries
    BY <1>0, <1>23 DEF MTC0_Register, Guest
  <2>4. tagLo' \in TagLo /\ epc' \in Address
    BY <1>0, <1>23 DEF MTC0_Register, Guest
  <2> QED BY <2>1, <2>2, <2>3, <2>4, <2>5, <2>6
<1>24. CASE ERET
  <2> DEFINE to == IF status.erl THEN KSEG0(0) ELSE epc
             s == IF status.erl THEN [status EXCEPT !.erl = FALSE]
                  ELSE [status EXCEPT !.exl = FALSE]
  <2>1. to \in Address /\ s \in StatusSet
    BY KernelStart DEF StatusSet
  <2>2. get_segment(to.place, s) \in SegmentTable \cup {NULL}
    BY <2>1, SegmentType DEF Address
  <2>3. \/ Stop
        \/ /\ status' = s /\ target' = to /\ phase' = "ic"
           /\ isegment' = get_segment(to.place, s)
           /\ dsegment' = DefaultSegment
           /\ UNCHANGED <<guest, epc, entryHi, entryLo, pageMask, index,
                          wired, tagLo, tlb, pc, request, store, stopped>>
    BY <1>24 DEF ERET
  <2> HIDE DEF to, s
  <2>4. CASE Stop
    BY <2>4 DEF Stop
  <2> QED BY <2>1, <2>2, <2>3, <2>4
<1>25. CASE TLBP
  <2> DEFINE probe == tlb_probe(tlb, entryHi.vpn2, entryHi.asid)
  <2>1. probe.index # -1 => probe.index \in Index
    BY ProbeIndex
  <2>2. index' \in [probeFailed : BOOLEAN, i : Index]
    <3>1. index' = IF probe.miss THEN [index EXCEPT !.probeFailed = TRUE]
                   ELSE [probeFailed |-> probe.index = -1,
                         i |-> IF probe.index = -1 THEN index.i ELSE probe.index]
      BY <1>25 DEF TLBP
    <3> HIDE DEF probe
    <3> QED BY <2>1, <3>1
  <2> QED BY <1>25, <2>2 DEF TLBP
<1>26. CASE TLBR
  <2>1. tlb[index.i] \in Entry
    OBVIOUS
  <2> QED BY <1>26, <2>1 DEF TLBR, ReadHi, Entry, EntryHi
<1>27. CASE TLBWI
  BY <1>27, WrittenEntryType DEF TLBWI
<1>28. CASE TLBWR
  <2>1. CASE Stop
    BY <2>1 DEF Stop
  <2>2. CASE ~Stop
    <3>1. PICK random \in Index :
            tlb' = [tlb EXCEPT ![RandomIndex(random)] =
                      WrittenEntry(entryHi, pageMask, entryLo)]
      BY <1>28, <2>2 DEF TLBWR
    <3>2. UNCHANGED <<guest, cp0, fetch, data, store, stopped>>
      BY <1>28, <2>2 DEF TLBWR
    <3>3. tlb' \in [Index -> Entry]
      BY <3>1, WrittenEntryType
    <3> QED BY <3>2, <3>3
  <2> QED BY <2>1, <2>2
<1>29. CASE UNCHANGED vars
  BY <1>29 DEF vars
<1> QED BY <1>1, <1>2, <1>3, <1>4, <1>5, <1>6, <1>7, <1>8, <1>9, <1>10, <1>11,
           <1>12, <1>13, <1>14, <1>15, <1>16, <1>17, <1>18, <1>19, <1>20, <1>21,
           <1>22, <1>23, <1>24, <1>25, <1>26, <1>27, <1>28, <1>29
        DEF Next, DcStage, ExStage

LEMMA TypesInvariant == Spec => []Types
<1>1. Init => Types
  BY InitTypes
<1>2. Types /\ [Next]_vars => Types'
  BY TypesStep
<1> QED BY <1>1, <1>2, PTL DEF Spec

\* Every register, latch, line and frame stays in range for every guest: a
\* probe that answers -1 (two entries, or an entry of another address space in
\* the upper lanes) selects no entry, and no index leaves the TLB.
THEOREM TypeCorrect == Spec => []TypeOK
<1>1. Types => TypeOK
  BY DEF Types
<1> QED BY <1>1, TypesInvariant, PTL

-----------------------------------------------------------------------------
(* The TLB and its handlers.                                               *)

\* TLBWR's index is a remainder by the number of entries that are not wired.
LEMMA RandomIndexRange ==
  ASSUME Types, wired # Entries, NEW random \in Index
  PROVE  RandomIndex(random) \in wired .. (Entries - 1)
<1>1. wired \in Nat /\ Entries - wired \in Nat \ {0} /\ random \in Nat
  BY TlbAssumption DEF Types, TypeOK, Index
<1>2. random % (Entries - wired) \in 0 .. (Entries - wired - 1)
  <2>1. \A n \in Nat, d \in Nat \ {0} : n % d \in 0 .. (d - 1)
    OBVIOUS
  <2> QED BY <1>1, <2>1
<1> QED BY <1>1, <1>2, TlbAssumption DEF RandomIndex

LEMMA OnlyTlbWrites ==
  ASSUME [Next]_vars
  PROVE  tlb' = tlb \/ TLBWI \/ TLBWR
<1> USE DEF Stop, CacheOp
<1>1. ASSUME NEW va, IcStage(va) PROVE tlb' = tlb
  BY <1>1 DEF IcStage
<1>2. RfCrash \/ RfTlbMiss \/ RfFetch => tlb' = tlb
  BY DEF RfCrash, RfTlbMiss, RfFetch
<1>3. Interrupt \/ DcCrash \/ DcTlbFault \/ DcHit \/ DcFill \/ DcUncached => tlb' = tlb
  BY DEF Interrupt, DcCrash, DcTlbFault, DcHit, DcFill, DcUncached
<1>4. IcInvalidate \/ IcSetTagLo \/ DcGetTagLo \/ DcSetTagLo \/ DcWbInvalidate => tlb' = tlb
  BY DEF IcInvalidate, IcSetTagLo, DcGetTagLo, DcSetTagLo, DcWbInvalidate
<1>5. DcCreateDirtyEx \/ DcHitInvalidate \/ DcHitWb \/ HitOpMisses => tlb' = tlb
  BY DEF DcCreateDirtyEx, DcHitInvalidate, DcHitWb, HitOpMisses
<1>6. Issue \/ MTC0_Status \/ DMTC0_Status \/ MTC0_Register \/ ERET => tlb' = tlb
  BY DEF Issue, MTC0_Status, DMTC0_Status, MTC0_Register, ERET
<1>7. TLBP \/ TLBR => tlb' = tlb
  BY DEF TLBP, TLBR
<1>8. UNCHANGED vars => tlb' = tlb
  BY DEF vars
<1> QED BY <1>1, <1>2, <1>3, <1>4, <1>5, <1>6, <1>7, <1>8 DEF Next, DcStage, ExStage

\* Only the instruction that names a wired entry replaces it.
THEOREM WiredEntriesKept == Spec => WiredKept
<1> DEFINE Kept == \A i \in Index : tlb'[i] # tlb[i] => i >= wired \/ i = index.i
<1>1. ASSUME Types, [Next]_vars PROVE Kept
  <2>1. CASE tlb' = tlb
    BY <2>1
  <2>2. CASE TLBWI
    BY <1>1, <2>2 DEF TLBWI, Types, TypeOK
  <2>3. CASE TLBWR
    <3>1. CASE Stop
      BY <3>1 DEF Stop
    <3>2. CASE ~Stop
      <4>1. wired # Entries
        BY <2>3, <3>2 DEF TLBWR
      <4>2. PICK random \in Index :
              tlb' = [tlb EXCEPT ![RandomIndex(random)] =
                        WrittenEntry(entryHi, pageMask, entryLo)]
        BY <2>3, <3>2 DEF TLBWR
      <4>3. RandomIndex(random) >= wired
        BY <1>1, <4>1, RandomIndexRange DEF Types, TypeOK
      <4> QED BY <1>1, <4>2, <4>3 DEF Types, TypeOK
    <3> QED BY <3>1, <3>2
  <2> QED BY <1>1, <2>1, <2>2, <2>3, OnlyTlbWrites
<1>2. Types /\ [Next]_vars => [Kept]_vars
  BY <1>1
<1> QED BY <1>2, TypesInvariant, PTL DEF Spec, WiredKept

\* The page that an exception leaves in EntryHi.
LEMMA ExceptionNamesPage ==
  ASSUME NEW at, NEW seg, NEW va \in Address, TlbException(at, seg, va),
         XMode(seg) \/ va.place = SignExtended32(va.place),
         Types
  PROVE  entryHi'.vpn2 = Vpn2(va) /\ entryHi'.asid = entryHi.asid
<1>1. va.place = SignExtended32(va.place)
        => [va EXCEPT !.place = SignExtended32(va.place)] = va
  BY DEF Address
<1> QED BY <1>1 DEF TlbException, Types, TypeOK, EntryHi

\* With the extension bits in step an address that its mode allows is kept whole.
LEMMA WholeAddress ==
  ASSUME NEW p \in Places, NEW seg \in SegmentTable, status \in StatusSet,
         BitsTogether, ValidAddress(p, status)
  PROVE  XMode(seg) \/ p = SignExtended32(p)
<1>1. seg.xmode \in {"ux", "sx", "kx"}
  BY DEF SegmentTable, USEG, XUSEG, XSSEG, XKSEG, KSEGs, XKPHYS, Segment
<1>2. Mode(status) \in {"kernel", "supervisor", "user"}
  BY DEF Mode, StatusSet
<1>3. Use64(status) => status.kx /\ status.sx /\ status.ux
  BY <1>2 DEF Use64, BitsTogether, StatusSet
<1>4. status.kx /\ status.sx /\ status.ux => XMode(seg)
  BY <1>1 DEF XMode
<1> QED BY <1>3, <1>4 DEF ValidAddress

\* The only entry that matches is the one a probe finds.
LEMMA OnlyMatch ==
  ASSUME NEW entries, NEW vpn2, NEW asid, NEW i \in Scanned,
         \A j \in Scanned : Matches(entries[j], vpn2, asid) <=> (j = i)
  PROVE  tlb_probe(entries, vpn2, asid) = [miss |-> FALSE, index |-> i]
<1> DEFINE hits == {j \in Scanned : Matches(entries[j], vpn2, asid)}
<1>1. hits = {i}
  OBVIOUS
<1>2. Cardinality(hits) = 1
  BY <1>1, FS_Singleton
<1>3. hits # {} /\ (CHOOSE j \in hits : TRUE) = i
  BY <1>1
<1> HIDE DEF hits
<1>4. tlb_probe(entries, vpn2, asid) =
        [miss  |-> hits = {} /\ ~ZeroLane(entries, vpn2, asid),
         index |-> IF hits = {} /\ ~ZeroLane(entries, vpn2, asid) THEN 0
                   ELSE IF Cardinality(hits) = 1 THEN CHOOSE j \in hits : TRUE
                   ELSE -1]
  BY DEF tlb_probe, hits
<1> QED BY <1>2, <1>3, <1>4

\* What the entry written after a miss does for the retry.
LEMMA WrittenIsFound ==
  ASSUME Types, NEW va \in Address, Probe(va).miss,
         entryHi'.vpn2 = Vpn2(va), entryHi'.asid = entryHi.asid
  PROVE  RefillEnds(va)
<1> SUFFICES ASSUME NEW e \in guest.entryLos, NEW i \in Scanned,
                    MaskedVpn2(Vpn2(va), e.mask) = Vpn2(va)
             PROVE  FoundAt(i, [tlb EXCEPT ![i] = WrittenEntry(entryHi', e.mask, e.lo)],
                            va, entryHi'.asid)
  BY DEF RefillEnds
<1> DEFINE written == WrittenEntry(entryHi', e.mask, e.lo)
           after == [tlb EXCEPT ![i] = written]
<1>1. \A j \in Scanned : ~Matches(tlb[j], Vpn2(va), entryHi.asid)
  BY DEF Probe, tlb_probe
<1>2. Matches(written, Vpn2(va), entryHi.asid)
  BY DEF Matches, MatchesVpn2, WrittenEntry
<1>3. \A j \in Scanned : after[j] = IF j = i THEN written ELSE tlb[j]
  BY DEF Types, TypeOK, Scanned
<1> HIDE DEF written, after
<1>4. \A j \in Scanned : Matches(after[j], Vpn2(va), entryHi.asid) <=> (j = i)
  BY <1>1, <1>2, <1>3
<1>5. tlb_probe(after, Vpn2(va), entryHi.asid) = [miss |-> FALSE, index |-> i]
  BY ONLY <1>4, OnlyMatch, i \in Scanned
<1> QED BY <1>5 DEF FoundAt, written, after

\* A refill of the entry that EntryHi names ends the misses.
THEOREM RefillSucceeds == Spec => RefillEndsMisses
<1> DEFINE Ends == /\ RfTlbMiss /\ Missed(pc) => RefillEnds(pc)
                   /\ DcTlbFault /\ Missed(request.va) => RefillEnds(request.va)
<1>1. ASSUME Types PROVE Ends
  <2>1. ASSUME NEW at, NEW seg \in Segments, seg # NULL, seg.mapped, NEW va \in Address,
               TlbException(at, seg, va), Missed(va)
        PROVE  RefillEnds(va)
    <3>1. seg \in SegmentTable
      BY <2>1 DEF Segments, DefaultSegment, Segment
    <3>2. XMode(seg) \/ va.place = SignExtended32(va.place)
      BY <1>1, <2>1, <3>1, WholeAddress DEF Missed, Address, Types, TypeOK
    <3>3. entryHi'.vpn2 = Vpn2(va) /\ entryHi'.asid = entryHi.asid
      BY <1>1, <2>1, <3>2, ExceptionNamesPage
    <3> QED BY <1>1, <2>1, <3>3, WrittenIsFound DEF Missed
  <2>2. ASSUME RfTlbMiss, Missed(pc) PROVE RefillEnds(pc)
    <3>1. /\ pc \in Address /\ isegment \in Segments
          /\ isegment # NULL /\ isegment.mapped /\ TlbException(pc, isegment, pc)
      BY <1>1, <2>2 DEF RfTlbMiss, RfSound, RfTlbFault, Types, TypeOK, Segments
    <3> QED BY <2>1, <2>2, <3>1
  <2>3. ASSUME DcTlbFault, Missed(request.va) PROVE RefillEnds(request.va)
    <3>1. request.va \in Address
      BY <1>1, <2>3, RequestType DEF DcTlbFault, DcSound
    <3>2. /\ DataSegment \in Segments /\ DataSegment # NULL /\ DataSegment.mapped
          /\ TlbException(request.pc, DataSegment, request.va)
      <4>1. dsegment \in Segments
        BY <1>1 DEF Types, TypeOK, Segments
      <4> QED BY <1>1, <2>3, <3>1, <4>1, LookupType
              DEF DcTlbFault, DcSound, DataFaults, DataSegment, Types, TypeOK, Segments
    <3> QED BY <2>1, <2>3, <3>1, <3>2
  <2> QED BY <2>2, <2>3
<1>2. Types => [Ends]_vars
  BY <1>1
<1> QED BY <1>2, TypesInvariant, PTL DEF RefillEndsMisses

-----------------------------------------------------------------------------
(* The latched segments.                                                   *)

LEMMA KernelSegmentSame ==
  ASSUME NEW p \in Places, NEW q \in Places,
         Within(q, KernelSegment(q)), Within(p, KernelSegment(q)), ~XksegTail(p)
  PROVE  KernelSegment(p) = KernelSegment(q) /\ p >= 1152 /\ q >= 1152
<1>1. /\ p \in 0 .. 2303 /\ q \in 0 .. 2303
      /\ Place(16, 0, 0, 0) = 1152 /\ Place(24, 0, Ones, 4) = 1748
  BY DEF Places, Place, Zeros, Ones
<1>2. \A i \in 0 .. 3 : KSEGs[i].start = 2300 + i /\ KSEGs[i].limit = 2301 + i
  BY DEF KSEGs, Segment, Place
<1>3. CASE q >= 2300
  <2>1. Bits31To29(q) % 4 \in 0 .. 3 /\ KernelSegment(q) = KSEGs[Bits31To29(q) % 4]
    BY <1>1, <1>2, <1>3 DEF KernelSegment, Bits31To29
  <2>2. p = q
    <3> DEFINE i == Bits31To29(q) % 4
    <3>1. KSEGs[i].start = 2300 + i /\ KSEGs[i].limit = 2301 + i
      BY <1>2, <2>1
    <3>2. 2300 + i <= p /\ p < 2301 + i /\ 2300 + i <= q /\ q < 2301 + i
      BY <2>1, <3>1 DEF Within
    <3>3. i \in Int
      BY <2>1
    <3> QED BY <1>1, <3>2, <3>3
  <2> QED BY <1>1, <1>3, <2>2
<1>4. CASE ~(q >= 2300)
  <2>1. KernelSegment(q) # KSEGs[2]
    BY <1>1, <1>2, <1>4 DEF Within
  <2>2. 1152 <= q /\ q < 1748
    BY <1>1, <1>2, <1>4, <2>1 DEF KernelSegment
  <2>3. CASE Bits63To59(q) < 24
    <3> DEFINE i == Bits63To59(q) - 16
    <3>1. KernelSegment(q) = XKPHYS(i)
      BY <1>1, <1>2, <1>4, <2>2, <2>3 DEF KernelSegment
    <3>2. i \in 0 .. 7
      BY <1>1, <2>2, <2>3 DEF Bits63To59
    <3>3. XKPHYS(i).start = 72 * (16 + i) /\ XKPHYS(i).limit = 72 * (16 + i) + 8
      BY <3>2 DEF XKPHYS, Segment, Place
    <3>4. 72 * (16 + i) <= p /\ p < 72 * (16 + i) + 8
      BY <3>1, <3>3 DEF Within
    <3>5. p \div 72 = 16 + i
      <4> HIDE DEF i
      <4> QED BY <1>1, <3>2, <3>4
    <3>6. 1152 <= p /\ p < 1748 /\ Bits63To59(p) = Bits63To59(q)
      BY <1>1, <3>2, <3>4, <3>5 DEF Bits63To59
    <3> QED BY <1>1, <1>2, <2>2, <2>3, <3>1, <3>6 DEF KernelSegment
  <2>4. CASE ~(Bits63To59(q) < 24)
    <3>1. KernelSegment(q) = XKSEG
      BY <1>1, <1>2, <1>4, <2>2, <2>4 DEF KernelSegment
    <3>2. XKSEG.start = 1728 /\ XKSEG.limit = 1752
      BY DEF XKSEG, Segment, Place
    <3>3. 1728 <= p /\ p < 1748
      BY <1>1, <3>1, <3>2 DEF Within, XksegTail
    <3>4. ~(Bits63To59(p) < 24)
      BY <1>1, <3>3 DEF Bits63To59
    <3> QED BY <1>1, <1>2, <2>2, <3>1, <3>3, <3>4 DEF KernelSegment
  <2> QED BY <2>3, <2>4
<1> QED BY <1>3, <1>4

\* Any two addresses of a segment lead to it: the segments of one mode do not
\* overlap.
LEMMA SameSegment ==
  ASSUME NEW p \in Places, NEW q \in Places, NEW s \in StatusSet,
         Within(p, get_segment(q, s)), ~XksegTail(p)
  PROVE  get_segment(p, s) = get_segment(q, s)
<1> DEFINE low == IF Use64(s) THEN XUSEG ELSE USEG
           other(r) == IF Mode(s) = "kernel" THEN KernelSegment(r) ELSE KSEGs[2]
<1>1. /\ p \in Int /\ q \in Int
      /\ low.start = 0 /\ low.limit \in 0 .. 24
  BY DEF Places, Place, XUSEG, USEG, Segment
<1>2. XSSEG.start = 576 /\ XSSEG.limit = 600
  BY DEF XSSEG, Segment, Place
<1>3. \A i \in 0 .. 3 : KSEGs[i].start = 2300 + i /\ KSEGs[i].limit = 2301 + i
  BY DEF KSEGs, Segment, Place
<1>6. CASE q < low.limit
  <2>1. get_segment(q, s) = low
    BY <1>6 DEF get_segment
  <2>2. p < low.limit
    BY <2>1 DEF Within
  <2> QED BY <2>1, <2>2 DEF get_segment
<1>7. CASE ~(q < low.limit)
  <2>1. get_segment(q, s) # NULL
    BY DefaultIsEmpty
  <2>2. Mode(s) # "user"
    BY <1>7, <2>1 DEF get_segment
  <2>3. CASE Within(q, XSSEG)
    <3>1. get_segment(q, s) = XSSEG
      BY <1>7, <2>2, <2>3 DEF get_segment
    <3>2. Within(p, XSSEG) /\ ~(p < low.limit)
      BY <3>1, <1>1, <1>2 DEF Within
    <3> QED BY <2>2, <3>1, <3>2 DEF get_segment
  <2>4. CASE ~Within(q, XSSEG)
    <3>1. get_segment(q, s) = other(q) /\ Within(q, other(q)) /\ Within(p, other(q))
      BY <1>7, <2>1, <2>2, <2>4 DEF get_segment
    <3>2. SUFFICES other(p) = other(q) /\ ~(p < low.limit) /\ ~Within(p, XSSEG)
      BY <2>2, <3>1 DEF get_segment
    <3>3. CASE Mode(s) # "kernel"
      <4>1. other(p) = other(q) /\ p >= 2302
        BY <3>1, <3>3, <1>3 DEF Within
      <4> QED BY <1>1, <1>2, <4>1 DEF Within
    <3>4. CASE Mode(s) = "kernel"
      <4>1. other(p) = other(q) /\ p >= 1152
        BY <3>1, <3>4, KernelSegmentSame
      <4> QED BY <1>1, <1>2, <4>1 DEF Within
    <3> QED BY <3>3, <3>4
  <2> QED BY <2>3, <2>4
<1> QED BY <1>6, <1>7

CurrentIn(seg, s, places) == \A p \in places :
  Within(p, seg) /\ ~XksegTail(p) => get_segment(p, s) = seg

\* A segment found under a status is current under it, and so is the default.
LEMMA FoundCurrent ==
  ASSUME NEW q \in Places, NEW s \in StatusSet, NEW places \in SUBSET Places
  PROVE  /\ CurrentIn(get_segment(q, s), s, places)
         /\ CurrentIn(DefaultSegment, s, places)
<1>1. CurrentIn(get_segment(q, s), s, places)
  BY SameSegment DEF CurrentIn
<1>2. CurrentIn(DefaultSegment, s, places)
  BY DefaultIsEmpty DEF CurrentIn
<1> QED BY <1>1, <1>2

\* What a step does to a latch: it keeps it or looks an address up under the
\* status that the step leaves, and a step that changes the status keeps none.
Found(seg, s) == \E q \in Places : seg = get_segment(q, s)
LatchMoves ==
  \/ /\ status' = status
     /\ isegment' = isegment \/ isegment' = DefaultSegment \/ Found(isegment', status)
     /\ dsegment' = dsegment \/ dsegment' = DefaultSegment \/ Found(dsegment', status)
  \/ /\ isegment' = DefaultSegment \/ Found(isegment', status')
     /\ dsegment' = DefaultSegment

LEMMA LookupFound ==
  ASSUME NEW va \in Address, NEW seg, Lookup(va, seg) # NULL
  PROVE  Lookup(va, seg) = seg \/ Found(Lookup(va, seg), status)
BY DEF Lookup, Found, Address

LEMMA LatchStep ==
  ASSUME Types, [Next]_vars
  PROVE  guest' = guest /\ (LatchMoves \/ DMTC0_Status)
<1> USE DEF LatchMoves, cp0, fetch, data, store
<1>0. guest \in Guest
  BY MemoryAssumption DEF Types
<1>1. ASSUME NEW va \in (guest.fetches \cup {target}) \ {Anywhere}, IcStage(va)
      PROVE  guest' = guest /\ LatchMoves
  <2>1. va \in Address
    BY <1>0 DEF Guest, Types, TypeOK
  <2> QED BY <1>1, <2>1, LookupFound DEF IcStage, Stop
<1>2. RfCrash \/ RfTlbMiss \/ RfFetch => guest' = guest /\ LatchMoves
  BY DEF RfCrash, RfTlbMiss, RfFetch, Stop, TlbException, Exception
<1>3. Interrupt \/ DcCrash \/ DcTlbFault => guest' = guest /\ LatchMoves
  BY DEF Interrupt, DcCrash, DcTlbFault, Stop, TlbException, Exception
<1>4. DcSound => DataSegment = dsegment \/ Found(DataSegment, status)
  BY RequestType, LookupFound DEF DcSound, DataSegment
<1>5. DcHit \/ DcFill \/ DcUncached => guest' = guest /\ LatchMoves
  BY <1>4 DEF DcHit, DcFill, DcUncached, DcAccess
<1>6. ASSUME NEW op, CacheOp(op) PROVE guest' = guest /\ LatchMoves
  BY <1>4, <1>6 DEF CacheOp
<1>7. /\ IcInvalidate \/ IcSetTagLo \/ DcGetTagLo \/ DcSetTagLo => guest' = guest /\ LatchMoves
      /\ DcWbInvalidate \/ DcCreateDirtyEx => guest' = guest /\ LatchMoves
      /\ DcHitInvalidate \/ DcHitWb \/ HitOpMisses => guest' = guest /\ LatchMoves
  <2> HIDE DEF LatchMoves
  <2> QED BY <1>6 DEF IcInvalidate, IcSetTagLo, DcGetTagLo, DcSetTagLo, DcWbInvalidate,
                      DcCreateDirtyEx, DcHitInvalidate, DcHitWb, HitOpMisses
<1>8. MTC0_Status => guest' = guest /\ LatchMoves
  BY DEF MTC0_Status, Found, Stop, Types, TypeOK, Address
<1>9. ERET => guest' = guest /\ LatchMoves
  <2> DEFINE to == IF status.erl THEN KSEG0(0) ELSE epc
             s == IF status.erl THEN [status EXCEPT !.erl = FALSE]
                  ELSE [status EXCEPT !.exl = FALSE]
  <2>1. to.place \in Places
    BY KernelStart DEF Types, TypeOK, Address
  <2>2. ERET => \/ Stop
                \/ /\ status' = s /\ isegment' = get_segment(to.place, s)
                   /\ dsegment' = DefaultSegment /\ guest' = guest
    BY DEF ERET
  <2> HIDE DEF to, s
  <2> QED BY <2>1, <2>2 DEF Found, Stop
<1>10. Issue \/ MTC0_Register \/ TLBP \/ TLBR \/ TLBWI \/ TLBWR => guest' = guest /\ LatchMoves
  BY DEF Issue, MTC0_Register, TLBP, TLBR, TLBWI, TLBWR, Stop
<1>11. DMTC0_Status => guest' = guest
  BY DEF DMTC0_Status
<1>12. UNCHANGED vars => guest' = guest /\ LatchMoves
  BY DEF vars
<1> QED BY <1>1, <1>2, <1>3, <1>5, <1>7, <1>8, <1>9, <1>10, <1>11, <1>12
        DEF Next, DcStage, ExStage

\* The latched segments go stale only by DMTC0: every other writer of Status
\* replaces them, and what a stage latches is what get_segment returns for
\* every address of the segment.
THEOREM LatchesStayCurrent == Spec => StaleOnlyByDMTC0
<1> DEFINE Kept == LatchesCurrent => LatchesCurrent' \/ DMTC0_Status
<1>1. ASSUME Types, Types', [Next]_vars, LatchesCurrent, ~DMTC0_Status
      PROVE  LatchesCurrent'
  <2>1. guest' = guest /\ PlacesUsed' = PlacesUsed /\ LatchMoves
    BY <1>1, LatchStep DEF PlacesUsed
  <2>2. PlacesUsed \in SUBSET Places
    <3>1. guest \in Guest
      BY <1>1, MemoryAssumption DEF Types
    <3> QED BY <3>1, KernelStart DEF PlacesUsed, Guest, Address
  <2>3. status \in StatusSet /\ status' \in StatusSet
    BY <1>1 DEF Types, TypeOK
  <2>4. CurrentIn(isegment, status, PlacesUsed) /\ CurrentIn(dsegment, status, PlacesUsed)
    BY <1>1 DEF LatchesCurrent, LatchCurrent, CurrentIn
  <2>5. /\ CurrentIn(isegment', status', PlacesUsed)
        /\ CurrentIn(dsegment', status', PlacesUsed)
    <3>1. \A seg : seg = DefaultSegment \/ Found(seg, status')
                     => CurrentIn(seg, status', PlacesUsed)
      <4>1. 0 \in Places
        BY DEF Places, Place, Zeros
      <4> QED BY <2>2, <2>3, <4>1, FoundCurrent DEF Found
    <3> QED BY <2>1, <2>4, <3>1 DEF LatchMoves
  <2> QED BY <2>1, <2>5 DEF LatchesCurrent, LatchCurrent, CurrentIn
<1>2. Types /\ Types' /\ [Next]_vars => [Kept]_vars
  BY <1>1
<1> QED BY <1>2, TypesInvariant, PTL DEF Spec, StaleOnlyByDMTC0

-----------------------------------------------------------------------------
(* The refinement: the caches are invisible.  The operators below are those *)
(* of MemorySystem with the data cache and memory as parameters.            *)

DIndex == 0 .. (DLines - 1)
IIndex == 0 .. (ILines - 1)
DCaches == [DIndex -> DLine]
ICaches == [IIndex -> ILine]
Memories == [Frame -> Value]

HoldsIn(dc, k, f) == dc[k].valid /\ dc[k].tag = f

\* While the guest keeps the rules of the caches a dirty line is the only one
\* of its frame, and a clean one says what memory says.
CoherentIn(dc, mem) == \A k \in DIndex : dc[k].valid =>
  IF dc[k].dirty THEN \A j \in DIndex : HoldsIn(dc, j, dc[k].tag) => j = k
  ELSE dc[k].data = mem[dc[k].tag]

ValueIn(dc, mem, f) ==
  LET holds == {k \in DOMAIN dc : HoldsIn(dc, k, f)}
      dirty == {k \in holds : dc[k].dirty}
  IN IF holds = {} THEN mem[f]
     ELSE dc[CHOOSE k \in holds : dirty # {} => k \in dirty].data

StaleIn(dc, mem, ic) ==
  {f \in Frame : \/ \E k \in DOMAIN ic : /\ ic[k].valid /\ ic[k].tag = f
                                         /\ ic[k].data # ValueIn(dc, mem, f)
                 \/ \E k \in DOMAIN dc : HoldsIn(dc, k, f) /\ dc[k].data # mem[f]}

Coherent == ~careless => CoherentIn(dcache, memory)

LEMMA EffectiveIs == /\ Effective = [f \in Frame |-> ValueIn(dcache, memory, f)]
                     /\ Effective' = [f \in Frame |-> ValueIn(dcache', memory', f)]
BY DEF Effective, ValueIn, HoldsIn, Hit

LEMMA StaleIs == /\ Stale = StaleIn(dcache, memory, icache)
                 /\ Stale' = StaleIn(dcache', memory', icache')
BY EffectiveIs DEF Stale, StaleIn, HoldsIn, Hit

\* In a coherent cache every line that holds a frame has its value, and memory
\* has it when no line does.
LEMMA ValueOfLine ==
  ASSUME NEW dc \in DCaches, NEW mem, CoherentIn(dc, mem),
         NEW k \in DIndex, NEW f, HoldsIn(dc, k, f)
  PROVE  ValueIn(dc, mem, f) = dc[k].data
<1> DEFINE holds == {j \in DOMAIN dc : HoldsIn(dc, j, f)}
           dirty == {j \in holds : dc[j].dirty}
           Best(j) == dirty # {} => j \in dirty
           c == CHOOSE j \in holds : Best(j)
<1>1. k \in holds /\ DOMAIN dc = DIndex
  BY DEF DCaches
<1>2. \E j \in holds : Best(j)
  BY <1>1
<1>3. c \in holds /\ Best(c)
  BY <1>2
<1>4. ValueIn(dc, mem, f) = dc[c].data
  BY <1>1 DEF ValueIn
<1> HIDE DEF c
<1>5. CASE dc[k].dirty
  <2>1. c = k
    BY <1>1, <1>3, <1>5 DEF CoherentIn, HoldsIn
  <2> QED BY <1>4, <2>1
<1>6. CASE ~dc[k].dirty
  <2>1. ~dc[c].dirty
    BY <1>1, <1>3, <1>6 DEF CoherentIn, HoldsIn
  <2> QED BY <1>1, <1>3, <1>4, <1>6, <2>1 DEF CoherentIn, HoldsIn
<1> QED BY <1>5, <1>6

LEMMA ValueOfMemory ==
  ASSUME NEW dc \in DCaches, NEW mem, NEW f,
         \A k \in DIndex : ~HoldsIn(dc, k, f)
  PROVE  ValueIn(dc, mem, f) = mem[f]
BY DEF ValueIn, DCaches

\* A line may be replaced, once a dirty one has been written back, by a clean
\* line that says what memory says or by an invalid one.
LEMMA Replacement ==
  ASSUME NEW dc \in DCaches, NEW mem \in Memories, CoherentIn(dc, mem),
         NEW l \in DIndex, NEW n \in DLine, NEW mem2,
         \/ mem2 = mem /\ ~(dc[l].valid /\ dc[l].dirty)
         \/ mem2 = [mem EXCEPT ![dc[l].tag] = dc[l].data] /\ dc[l].valid,
         n.valid => /\ ~n.dirty /\ n.data = mem2[n.tag]
                    /\ \A k \in DIndex : k # l /\ HoldsIn(dc, k, n.tag) => ~dc[k].dirty,
         NEW dc2 \in DCaches, dc2[l] = n,
         \A k \in DIndex : k # l => dc2[k] = dc[k], NEW ic
  PROVE  /\ CoherentIn(dc2, mem2)
         /\ \A f \in Frame : ValueIn(dc2, mem2, f) = ValueIn(dc, mem, f)
         /\ StaleIn(dc2, mem2, ic) \subseteq StaleIn(dc, mem, ic)
<1>1. DOMAIN dc = DIndex /\ DOMAIN dc2 = DIndex
  BY DEF DCaches
<1>2. \A k \in DIndex : dc[k] \in DLine /\ dc[k].tag \in Frame
  BY DEF DCaches, DLine
<1>3. \A f \in Frame : ~HoldsIn(dc, l, f) => mem2[f] = mem[f]
  BY <1>2 DEF HoldsIn, Memories
<1>4. \A f \in Frame : HoldsIn(dc, l, f) => mem2[f] = dc[l].data
  BY <1>2 DEF HoldsIn, Memories, CoherentIn
<1>5. CoherentIn(dc2, mem2)
  <2> SUFFICES ASSUME NEW k \in DIndex, dc2[k].valid
               PROVE  IF dc2[k].dirty
                      THEN \A j \in DIndex : HoldsIn(dc2, j, dc2[k].tag) => j = k
                      ELSE dc2[k].data = mem2[dc2[k].tag]
    BY DEF CoherentIn
  <2>1. CASE k = l
    BY <1>1, <2>1
  <2>2. CASE k # l /\ dc[k].dirty
    BY <1>1, <2>2 DEF CoherentIn, HoldsIn
  <2>3. CASE k # l /\ ~dc[k].dirty
    <3>1. dc[k].data = mem[dc[k].tag]
      BY <1>1, <2>3 DEF CoherentIn
    <3>2. HoldsIn(dc, l, dc[k].tag) => dc[l].data = mem[dc[k].tag]
      BY <1>1, <2>3 DEF CoherentIn, HoldsIn
    <3> QED BY <1>1, <1>2, <1>3, <1>4, <2>3, <3>1, <3>2
  <2> QED BY <2>1, <2>2, <2>3
<1>6. ASSUME NEW f \in Frame PROVE ValueIn(dc2, mem2, f) = ValueIn(dc, mem, f)
  <2>1. CASE \E k \in DIndex : k # l /\ HoldsIn(dc, k, f)
    <3>1. PICK k \in DIndex : k # l /\ HoldsIn(dc, k, f)
      BY <2>1
    <3>2. HoldsIn(dc2, k, f) /\ dc2[k].data = dc[k].data
      BY <1>1, <3>1 DEF HoldsIn
    <3>3. ValueIn(dc, mem, f) = dc[k].data
      BY <3>1, ValueOfLine
    <3>4. ValueIn(dc2, mem2, f) = dc2[k].data
      BY <1>1, <1>5, <3>2, ValueOfLine
    <3> QED BY <3>2, <3>3, <3>4
  <2>2. CASE ~\E k \in DIndex : k # l /\ HoldsIn(dc, k, f)
    <3>1. ValueIn(dc, mem, f) = mem2[f]
      <4>1. CASE HoldsIn(dc, l, f)
        BY <1>4, <4>1, ValueOfLine
      <4>2. CASE ~HoldsIn(dc, l, f)
        BY <1>3, <2>2, <4>2, ValueOfMemory
      <4> QED BY <4>1, <4>2
    <3>2. ValueIn(dc2, mem2, f) = mem2[f]
      <4>1. \A k \in DIndex : k # l => ~HoldsIn(dc2, k, f)
        BY <1>1, <2>2 DEF HoldsIn
      <4>2. CASE HoldsIn(dc2, l, f)
        <5>1. dc2[l].data = mem2[f]
          BY <1>1, <4>2 DEF HoldsIn
        <5>2. ValueIn(dc2, mem2, f) = dc2[l].data
          BY <1>1, <1>5, <4>2, ValueOfLine
        <5> QED BY <5>1, <5>2
      <4>3. CASE ~HoldsIn(dc2, l, f)
        <5>1. \A k \in DIndex : ~HoldsIn(dc2, k, f)
          BY <4>1, <4>3
        <5> QED BY <5>1, ValueOfMemory
      <4> QED BY <4>2, <4>3
    <3> QED BY <3>1, <3>2
  <2> QED BY <2>1, <2>2
<1>7. ASSUME NEW f \in StaleIn(dc2, mem2, ic) PROVE f \in StaleIn(dc, mem, ic)
  <2>1. f \in Frame
    BY DEF StaleIn
  <2>2. CASE \E k \in DOMAIN ic : /\ ic[k].valid /\ ic[k].tag = f
                                  /\ ic[k].data # ValueIn(dc2, mem2, f)
    BY <1>6, <2>1, <2>2 DEF StaleIn
  <2>3. CASE \E k \in DIndex : HoldsIn(dc2, k, f) /\ dc2[k].data # mem2[f]
    <3>1. PICK k \in DIndex : HoldsIn(dc2, k, f) /\ dc2[k].data # mem2[f]
      BY <2>3
    <3>2. k # l
      BY <1>1, <3>1 DEF HoldsIn
    <3>3. HoldsIn(dc, k, f) /\ dc[k].data # mem2[f]
      BY <1>1, <3>1, <3>2 DEF HoldsIn
    <3>4. ~HoldsIn(dc, l, f)
      BY <1>4, <2>1, <3>3, ValueOfLine
    <3>5. dc[k].data # mem[f]
      BY <1>3, <2>1, <3>3, <3>4
    <3> QED BY <1>1, <2>1, <3>3, <3>5 DEF StaleIn
  <2> QED BY <1>1, <2>2, <2>3 DEF StaleIn
<1> QED BY <1>5, <1>6, <1>7

\* A store into the only line that holds a frame changes this frame alone.
LEMMA StoreHit ==
  ASSUME NEW dc \in DCaches, NEW mem \in Memories, CoherentIn(dc, mem),
         NEW l \in DIndex, NEW f \in Frame, HoldsIn(dc, l, f), NEW v \in Value,
         \A k \in DIndex : k # l => ~HoldsIn(dc, k, f),
         NEW dc2 \in DCaches,
         dc2[l] = [tag |-> f, valid |-> TRUE, dirty |-> TRUE, data |-> v],
         \A k \in DIndex : k # l => dc2[k] = dc[k], NEW ic
  PROVE  /\ CoherentIn(dc2, mem)
         /\ \A g \in Frame : ValueIn(dc2, mem, g) = IF g = f THEN v ELSE ValueIn(dc, mem, g)
         /\ StaleIn(dc2, mem, ic) \subseteq StaleIn(dc, mem, ic) \cup {f}
<1>1. DOMAIN dc = DIndex /\ DOMAIN dc2 = DIndex
  BY DEF DCaches
<1>2. CoherentIn(dc2, mem)
  BY DEF CoherentIn, HoldsIn
<1>3. \A k \in DIndex, g \in Frame \ {f} :
        HoldsIn(dc2, k, g) => HoldsIn(dc, k, g) /\ dc2[k] = dc[k]
  BY DEF HoldsIn
<1>4. ASSUME NEW g \in Frame
      PROVE  ValueIn(dc2, mem, g) = IF g = f THEN v ELSE ValueIn(dc, mem, g)
  <2>1. CASE g = f
    <3>1. HoldsIn(dc2, l, f)
      BY DEF HoldsIn
    <3> QED BY <1>2, <2>1, <3>1, ValueOfLine
  <2>2. CASE g # f /\ \E k \in DIndex : HoldsIn(dc, k, g)
    <3>1. PICK k \in DIndex : HoldsIn(dc, k, g)
      BY <2>2
    <3>2. k # l
      BY <2>2, <3>1 DEF HoldsIn
    <3>3. HoldsIn(dc2, k, g) /\ dc2[k].data = dc[k].data
      BY <3>1, <3>2 DEF HoldsIn
    <3>4. ValueIn(dc, mem, g) = dc[k].data
      BY <3>1, ValueOfLine
    <3>5. ValueIn(dc2, mem, g) = dc2[k].data
      BY <1>2, <3>3, ValueOfLine
    <3> QED BY <2>2, <3>3, <3>4, <3>5
  <2>3. CASE g # f /\ ~\E k \in DIndex : HoldsIn(dc, k, g)
    <3>1. \A k \in DIndex : ~HoldsIn(dc2, k, g)
      BY <1>3, <2>3
    <3>2. ValueIn(dc, mem, g) = mem[g]
      BY <2>3, ValueOfMemory
    <3>3. ValueIn(dc2, mem, g) = mem[g]
      BY <3>1, ValueOfMemory
    <3> QED BY <2>3, <3>2, <3>3
  <2> QED BY <2>1, <2>2, <2>3
<1>5. ASSUME NEW g \in StaleIn(dc2, mem, ic), g # f PROVE g \in StaleIn(dc, mem, ic)
  BY <1>1, <1>3, <1>4, <1>5 DEF StaleIn
<1> QED BY <1>2, <1>4, <1>5

\* So does a store past the caches to a frame that no line holds.
LEMMA StoreUncached ==
  ASSUME NEW dc \in DCaches, NEW mem \in Memories, CoherentIn(dc, mem),
         NEW f \in Frame, NEW v \in Value,
         \A k \in DIndex : ~HoldsIn(dc, k, f),
         NEW mem2 \in Memories, mem2[f] = v,
         \A g \in Frame : g # f => mem2[g] = mem[g], NEW ic
  PROVE  /\ CoherentIn(dc, mem2)
         /\ \A g \in Frame : ValueIn(dc, mem2, g) = IF g = f THEN v ELSE ValueIn(dc, mem, g)
         /\ StaleIn(dc, mem2, ic) \subseteq StaleIn(dc, mem, ic) \cup {f}
<1>1. DOMAIN dc = DIndex /\ \A k \in DIndex : dc[k].tag \in Frame
  BY DEF DCaches, DLine
<1>2. CoherentIn(dc, mem2)
  BY <1>1 DEF CoherentIn, HoldsIn
<1>3. ASSUME NEW g \in Frame
      PROVE  ValueIn(dc, mem2, g) = IF g = f THEN v ELSE ValueIn(dc, mem, g)
  <2>1. CASE \E k \in DIndex : HoldsIn(dc, k, g)
    <3>1. PICK k \in DIndex : HoldsIn(dc, k, g)
      BY <2>1
    <3>2. ValueIn(dc, mem, g) = dc[k].data
      BY <3>1, ValueOfLine
    <3>3. ValueIn(dc, mem2, g) = dc[k].data
      BY <1>2, <3>1, ValueOfLine
    <3> QED BY <3>1, <3>2, <3>3
  <2>2. CASE ~\E k \in DIndex : HoldsIn(dc, k, g)
    <3>1. ValueIn(dc, mem, g) = mem[g]
      BY <2>2, ValueOfMemory
    <3>2. ValueIn(dc, mem2, g) = mem2[g]
      BY <2>2, ValueOfMemory
    <3> QED BY <3>1, <3>2
  <2> QED BY <2>1, <2>2
<1>4. ASSUME NEW g \in StaleIn(dc, mem2, ic), g # f PROVE g \in StaleIn(dc, mem, ic)
  BY <1>1, <1>3, <1>4 DEF StaleIn
<1> QED BY <1>2, <1>3, <1>4

\* A line of the instruction cache that goes, or is filled from memory, makes
\* no frame stale that was not.
LEMMA Refetched ==
  ASSUME NEW dc \in DCaches, NEW mem \in Memories, CoherentIn(dc, mem),
         NEW ic \in ICaches, NEW ic2 \in ICaches,
         \A k \in IIndex : ic2[k].valid => \/ ic2[k] = ic[k]
                                           \/ ic2[k].data = mem[ic2[k].tag]
  PROVE  StaleIn(dc, mem, ic2) \subseteq StaleIn(dc, mem, ic)
<1>1. DOMAIN dc = DIndex /\ DOMAIN ic = IIndex /\ DOMAIN ic2 = IIndex
  BY DEF DCaches, ICaches
<1> SUFFICES ASSUME NEW f \in Frame, NEW k \in IIndex, ic2[k].valid, ic2[k].tag = f,
                    ic2[k].data # ValueIn(dc, mem, f)
             PROVE  f \in StaleIn(dc, mem, ic)
  BY <1>1 DEF StaleIn
<1>2. CASE ic2[k] = ic[k]
  BY <1>1, <1>2 DEF StaleIn
<1>3. CASE ic2[k].data = mem[f]
  <2>1. PICK j \in DIndex : HoldsIn(dc, j, f)
    BY <1>3, ValueOfMemory
  <2>2. dc[j].data # mem[f]
    BY <1>3, <2>1, ValueOfLine
  <2> QED BY <1>1, <2>1, <2>2 DEF StaleIn
<1> QED BY <1>2, <1>3

AskOf(r) == CASE r.type = "read" -> [type |-> "read"]
              [] r.type = "write" -> [type |-> "write", data |-> r.data]
              [] OTHER -> [type |-> "none"]

LEMMA AskType ==
  /\ \A r \in Request \cup {None} : AskOf(r) \in Plain!Ask
  /\ AskOf(None) = Plain!Nothing
  /\ \A r \in Request : r.type \in CacheOps => AskOf(r) = Plain!Nothing
BY DEF AskOf, Request, None, Plain!Ask, Plain!Nothing, CacheOps

LEMMA AskedIs == Asked = AskOf(request) /\ Asked' = AskOf(request')
BY DEF Asked, AskOf

\* The shape of the state, for the lemmas above.
LEMMA Shapes ==
  ASSUME Types
  PROVE  dcache \in DCaches /\ icache \in ICaches /\ memory \in Memories
BY DEF Types, TypeOK, DCaches, ICaches, Memories, DIndex, IIndex

Refines == Coherent' /\ (careless' \/ Plain!Next)
SameValues == \A f \in Frame : ValueIn(dcache', memory', f) = ValueIn(dcache, memory, f)

\* Whatever keeps the values and what was delivered is maintenance.
LEMMA Maintenance ==
  ASSUME Types', SameValues, seen' = seen,
         StaleIn(dcache', memory', icache') \subseteq StaleIn(dcache, memory, icache)
  PROVE  Plain!Next
<1>1. Effective' = Effective
  BY EffectiveIs DEF SameValues
<1>2. Asked' \in Plain!Ask
  BY AskType, AskedIs DEF Types, TypeOK
<1> QED BY <1>1, <1>2, StaleIs DEF Plain!Next, Plain!Maintain

LEMMA StoreKept ==
  ASSUME Types', Coherent, UNCHANGED store
  PROVE  Refines
<1>1. Coherent'
  BY DEF Coherent, store
<1>2. SameValues
  BY DEF SameValues, store
<1>3. Plain!Next
  BY <1>2, Maintenance DEF store
<1> QED BY <1>1, <1>3 DEF Refines

\* A fetch that hits an older line is one from a stale frame.
LEMMA FetchRefines ==
  ASSUME Types, Types', Coherent, RfFetch
  PROVE  Refines
<1> DEFINE f == FetchFrame
           k == ILineOf(pc)
           hit == icache[k].valid /\ icache[k].tag = f
           word == IF FetchCached /\ hit THEN icache[k].data ELSE memory[f]
<1>1. f \in Frame /\ k \in IIndex
  BY FetchFrameType, LineType DEF RfFetch, Types, TypeOK, IIndex
<1>2. /\ seen' = [frame |-> f, value |-> word]
      /\ \/ icache' = icache
         \/ icache' = [icache EXCEPT ![k] = [tag |-> f, valid |-> TRUE, data |-> word]]
            /\ word = memory[f]
      /\ UNCHANGED <<data, memory, dcache, careless>>
  BY DEF RfFetch
<1>3. /\ dcache \in DCaches /\ memory \in Memories /\ icache \in ICaches
      /\ icache' \in ICaches
  BY Shapes DEF Types, TypeOK, ICaches, IIndex
<1>4. word \in Value
  BY <1>1, <1>3 DEF ICaches, ILine, Memories
<1>5. (FetchCached /\ hit) \/ word = memory[f]
  OBVIOUS
<1>6. FetchCached /\ hit => word = icache[k].data
  OBVIOUS
<1> HIDE DEF f, k, word
<1>7. CASE careless
  BY <1>2, <1>7 DEF Refines, Coherent
<1>8. CASE ~careless
  <2>1. CoherentIn(dcache, memory)
    BY <1>8 DEF Coherent
  <2>2. Coherent'
    BY <1>2, <2>1 DEF Coherent
  <2>3. Effective' = Effective
    BY <1>2, EffectiveIs
  <2>4. Stale' \subseteq Stale
    <3>1. \A j \in IIndex : icache'[j].valid => \/ icache'[j] = icache[j]
                                                \/ icache'[j].data = memory[icache'[j].tag]
      BY <1>1, <1>2, <1>3 DEF ICaches
    <3>2. StaleIn(dcache, memory, icache') \subseteq StaleIn(dcache, memory, icache)
      BY <1>3, <2>1, <3>1, Refetched
    <3> QED BY <1>2, <3>2, StaleIs
  <2>5. f \in Stale \/ word = Effective[f]
    <3>1. CASE hit /\ word = icache[k].data
      BY <1>1, <1>3, <3>1, StaleIs, EffectiveIs DEF StaleIn, ICaches
    <3>2. CASE word = memory[f]
      <4>1. CASE \A j \in DIndex : ~HoldsIn(dcache, j, f)
        BY <1>1, <1>3, <3>2, <4>1, EffectiveIs, ValueOfMemory
      <4>2. CASE \E j \in DIndex : HoldsIn(dcache, j, f)
        <5>1. PICK j \in DIndex : HoldsIn(dcache, j, f)
          BY <4>2
        <5>2. Effective[f] = dcache[j].data
          BY <1>1, <1>3, <2>1, <5>1, EffectiveIs, ValueOfLine
        <5> QED BY <1>1, <1>3, <3>2, <5>1, <5>2, StaleIs DEF StaleIn, DCaches
      <4> QED BY <4>1, <4>2
    <3> QED BY <1>5, <1>6, <3>1, <3>2
  <2>6. Asked' = Asked
    BY <1>2, AskedIs DEF data
  <2>7. Plain!Fetch(f)
    BY <1>2, <1>4, <2>3, <2>4, <2>5, <2>6 DEF Plain!Fetch
  <2> QED BY <1>1, <2>2, <2>7 DEF Refines, Plain!Next
<1> QED BY <1>7, <1>8

\* What an access to memory works on.
LEMMA AccessShapes ==
  ASSUME Types, DcSound
  PROVE  /\ DataFrame \in Frame /\ DataLine \in DIndex /\ request \in Request
         /\ request.data \in Value
         /\ dcache \in DCaches /\ icache \in ICaches /\ memory \in Memories
         /\ DOMAIN dcache = DIndex
BY Shapes, DataFrameType, RequestType DEF DcSound, DIndex, DCaches

LEMMA AccessAsks ==
  ASSUME Types, DcAccess
  PROVE  \/ request.type = "read" /\ Asked = [type |-> "read"]
         \/ request.type = "write" /\ Asked = [type |-> "write", data |-> request.data]
BY AccessShapes DEF DcAccess, Asked, Request

\* An access changes the value of no other frame than its own.
OnlyFrame == careless' \/ \A f \in Frame : Effective'[f] # Effective[f] => f = DataFrame

LEMMA HitRefines ==
  ASSUME Types, Types', Coherent, DcHit
  PROVE  Refines /\ OnlyFrame
<1>1. /\ DcSound /\ DcAccess /\ HoldsIn(dcache, DataLine, DataFrame)
      /\ seen' = Delivered(DataFrame, dcache[DataLine].data)
      /\ dcache' = IF request.type = "read" THEN dcache
                   ELSE [dcache EXCEPT ![DataLine].data = request.data,
                                       ![DataLine].dirty = TRUE]
      /\ careless' = (careless \/ (request.type = "write" /\ OtherLines(DataFrame) # {}))
      /\ request' = None
      /\ UNCHANGED <<memory, icache>>
  BY DEF DcHit, DcAccess, HoldsIn, Hit
<1>2. Asked' = Plain!Nothing
  BY <1>1, AskType, AskedIs
<1>3. CASE careless'
  BY <1>3 DEF Refines, OnlyFrame, Coherent
<1>4. CASE ~careless' /\ request.type = "read"
  <2>1. CoherentIn(dcache, memory) /\ Coherent'
    BY <1>1, <1>4 DEF Coherent
  <2>2. Effective' = Effective /\ Stale' = Stale
    BY <1>1, <1>4, EffectiveIs, StaleIs
  <2>3. Effective[DataFrame] = dcache[DataLine].data
    BY <1>1, <2>1, AccessShapes, EffectiveIs, ValueOfLine
  <2>4. Plain!Load(DataFrame)
    BY <1>1, <1>2, <1>4, <2>2, <2>3, AccessAsks DEF Plain!Load, Delivered
  <2> QED BY <1>1, <2>1, <2>2, <2>4, AccessShapes DEF Refines, OnlyFrame, Plain!Next
<1>5. CASE ~careless' /\ request.type = "write"
  <2>1. CoherentIn(dcache, memory) /\ OtherLines(DataFrame) = {} /\ ~careless
    BY <1>1, <1>5 DEF Coherent
  <2>2. \A k \in DIndex : k # DataLine => ~HoldsIn(dcache, k, DataFrame)
    BY <1>1, <2>1, AccessShapes DEF OtherLines, Hit, HoldsIn
  <2>3. /\ dcache' \in DCaches
        /\ dcache'[DataLine] = [tag |-> DataFrame, valid |-> TRUE, dirty |-> TRUE,
                                data |-> request.data]
        /\ \A k \in DIndex : k # DataLine => dcache'[k] = dcache[k]
    <3>1. dcache' = [dcache EXCEPT ![DataLine].data = request.data,
                                   ![DataLine].dirty = TRUE]
      BY <1>1, <1>5
    <3>2. dcache' \in DCaches
      BY DEF Types, TypeOK, DCaches, DIndex
    <3> QED BY <1>1, <3>1, <3>2, AccessShapes DEF DCaches, DLine, HoldsIn
  <2>4. /\ CoherentIn(dcache', memory)
        /\ \A g \in Frame : ValueIn(dcache', memory, g) =
              IF g = DataFrame THEN request.data ELSE ValueIn(dcache, memory, g)
        /\ StaleIn(dcache', memory, icache)
             \subseteq StaleIn(dcache, memory, icache) \cup {DataFrame}
    <3>1. /\ dcache \in DCaches /\ memory \in Memories /\ DataLine \in DIndex
          /\ DataFrame \in Frame /\ request.data \in Value
      BY <1>1, AccessShapes
    <3>2. \A dc2 \in DCaches :
            /\ dc2[DataLine] = [tag |-> DataFrame, valid |-> TRUE, dirty |-> TRUE,
                                data |-> request.data]
            /\ \A k \in DIndex : k # DataLine => dc2[k] = dcache[k]
            => /\ CoherentIn(dc2, memory)
               /\ \A g \in Frame : ValueIn(dc2, memory, g) =
                     IF g = DataFrame THEN request.data ELSE ValueIn(dcache, memory, g)
               /\ StaleIn(dc2, memory, icache)
                    \subseteq StaleIn(dcache, memory, icache) \cup {DataFrame}
      BY <1>1, <2>1, <2>2, <3>1, StoreHit
    <3> QED BY <2>3, <3>2
  <2>5. Coherent'
    BY <1>1, <2>4 DEF Coherent
  <2>6. Effective' = [Effective EXCEPT ![DataFrame] = request.data]
    BY <1>1, <2>4, EffectiveIs
  <2>7. Stale' \subseteq Stale \cup {DataFrame}
    BY <1>1, <2>4, StaleIs
  <2>8. Plain!Store(DataFrame)
    <3>1. seen' = seen
      BY <1>1, <1>5 DEF Delivered
    <3>2. Asked = [type |-> "write", data |-> request.data]
      BY <1>1, <1>5, AccessAsks
    <3> QED BY <1>2, <2>6, <2>7, <3>1, <3>2 DEF Plain!Store
  <2>9. OnlyFrame
    BY <2>6, EffectiveIs DEF OnlyFrame
  <2> QED BY <1>1, <2>5, <2>8, <2>9, AccessShapes DEF Refines, Plain!Next
<1> QED BY <1>1, <1>3, <1>4, <1>5, AccessAsks

LEMMA UncachedRefines ==
  ASSUME Types, Types', Coherent, DcUncached
  PROVE  Refines /\ OnlyFrame
<1>1. /\ DcSound /\ DcAccess
      /\ seen' = Delivered(DataFrame, memory[DataFrame])
      /\ memory' = IF request.type = "read" THEN memory
                   ELSE [memory EXCEPT ![DataFrame] = request.data]
      /\ careless' = (careless \/ \E k \in DOMAIN dcache :
            HoldsIn(dcache, k, DataFrame) /\ (request.type = "write" \/ dcache[k].dirty))
      /\ request' = None
      /\ UNCHANGED <<dcache, icache>>
  BY DEF DcUncached, DcAccess, HoldsIn, Hit
<1>2. Asked' = Plain!Nothing
  BY <1>1, AskType, AskedIs
<1>3. CASE careless'
  BY <1>3 DEF Refines, OnlyFrame, Coherent
<1>4. CASE ~careless' /\ request.type = "read"
  <2>1. CoherentIn(dcache, memory) /\ Coherent'
    BY <1>1, <1>4 DEF Coherent
  <2>2. Effective' = Effective /\ Stale' = Stale
    BY <1>1, <1>4, EffectiveIs, StaleIs
  <2>3. Effective[DataFrame] = memory[DataFrame]
    <3>1. CASE \A k \in DIndex : ~HoldsIn(dcache, k, DataFrame)
      BY <1>1, <3>1, AccessShapes, EffectiveIs, ValueOfMemory
    <3>2. CASE \E k \in DIndex : HoldsIn(dcache, k, DataFrame)
      <4>1. PICK k \in DIndex : HoldsIn(dcache, k, DataFrame)
        BY <3>2
      <4>2. dcache[k].data = memory[DataFrame]
        BY <1>1, <1>4, <2>1, <4>1, AccessShapes DEF CoherentIn, HoldsIn
      <4> QED BY <1>1, <2>1, <4>1, <4>2, AccessShapes, EffectiveIs, ValueOfLine
    <3> QED BY <3>1, <3>2
  <2>4. Plain!Load(DataFrame)
    BY <1>1, <1>2, <1>4, <2>2, <2>3, AccessAsks DEF Plain!Load, Delivered
  <2> QED BY <1>1, <2>1, <2>2, <2>4, AccessShapes DEF Refines, OnlyFrame, Plain!Next
<1>5. CASE ~careless' /\ request.type = "write"
  <2>1. CoherentIn(dcache, memory) /\ \A k \in DIndex : ~HoldsIn(dcache, k, DataFrame)
    BY <1>1, <1>5, AccessShapes DEF Coherent
  <2>2. /\ memory' \in Memories /\ memory'[DataFrame] = request.data
        /\ \A g \in Frame : g # DataFrame => memory'[g] = memory[g]
    BY <1>1, <1>5, AccessShapes DEF Memories
  <2>3. /\ CoherentIn(dcache, memory')
        /\ \A g \in Frame : ValueIn(dcache, memory', g) =
              IF g = DataFrame THEN request.data ELSE ValueIn(dcache, memory, g)
        /\ StaleIn(dcache, memory', icache)
             \subseteq StaleIn(dcache, memory, icache) \cup {DataFrame}
    <3>1. /\ dcache \in DCaches /\ memory \in Memories /\ DataLine \in DIndex
          /\ DataFrame \in Frame /\ request.data \in Value
      BY <1>1, AccessShapes
    <3>2. \A mem2 \in Memories :
            /\ mem2[DataFrame] = request.data
            /\ \A g \in Frame : g # DataFrame => mem2[g] = memory[g]
            => /\ CoherentIn(dcache, mem2)
               /\ \A g \in Frame : ValueIn(dcache, mem2, g) =
                     IF g = DataFrame THEN request.data ELSE ValueIn(dcache, memory, g)
               /\ StaleIn(dcache, mem2, icache)
                    \subseteq StaleIn(dcache, memory, icache) \cup {DataFrame}
      BY <1>1, <2>1, <3>1, StoreUncached
    <3> QED BY <2>2, <3>2
  <2>4. Coherent'
    BY <1>1, <2>3 DEF Coherent
  <2>5. Effective' = [Effective EXCEPT ![DataFrame] = request.data]
    BY <1>1, <2>3, EffectiveIs
  <2>6. Stale' \subseteq Stale \cup {DataFrame}
    BY <1>1, <2>3, StaleIs
  <2>7. Plain!Store(DataFrame)
    <3>1. seen' = seen
      BY <1>1, <1>5 DEF Delivered
    <3>2. Asked = [type |-> "write", data |-> request.data]
      BY <1>1, <1>5, AccessAsks
    <3> QED BY <1>2, <2>5, <2>6, <3>1, <3>2 DEF Plain!Store
  <2>8. OnlyFrame
    BY <2>5, EffectiveIs DEF OnlyFrame
  <2> QED BY <1>1, <2>4, <2>7, <2>8, AccessShapes DEF Refines, Plain!Next
<1> QED BY <1>1, <1>3, <1>4, <1>5, AccessAsks

\* The cases in which a line of the data cache is replaced.
LEMMA ReplacedRefines ==
  ASSUME Types, Types', Coherent, ~careless, NEW n \in DLine, DataLine \in DIndex,
         \/ memory' = memory /\ ~ShouldFlush(DataLine)
         \/ memory' = WrittenBack(DataLine) /\ dcache[DataLine].valid,
         n.valid => /\ ~n.dirty /\ n.data = memory'[n.tag]
                    /\ \A k \in DIndex : k # DataLine /\ HoldsIn(dcache, k, n.tag)
                                           => ~dcache[k].dirty,
         dcache' = [dcache EXCEPT ![DataLine] = n], icache' = icache, seen' = seen
  PROVE  Refines
<1>1. dcache \in DCaches /\ memory \in Memories /\ CoherentIn(dcache, memory)
  BY Shapes DEF Coherent
<1>2. /\ dcache' \in DCaches /\ dcache'[DataLine] = n
      /\ \A k \in DIndex : k # DataLine => dcache'[k] = dcache[k]
  BY <1>1 DEF DCaches
<1>3. /\ CoherentIn(dcache', memory') /\ SameValues
      /\ StaleIn(dcache', memory', icache') \subseteq StaleIn(dcache, memory, icache)
  <2>1. \/ memory' = memory /\ ~(dcache[DataLine].valid /\ dcache[DataLine].dirty)
        \/ memory' = [memory EXCEPT ![dcache[DataLine].tag] = dcache[DataLine].data]
           /\ dcache[DataLine].valid
    BY DEF ShouldFlush, WrittenBack
  <2> DEFINE
        Legal(mem2, dc2) ==
          /\ \/ mem2 = memory /\ ~(dcache[DataLine].valid /\ dcache[DataLine].dirty)
             \/ mem2 = [memory EXCEPT ![dcache[DataLine].tag] = dcache[DataLine].data]
                /\ dcache[DataLine].valid
          /\ n.valid => /\ ~n.dirty /\ n.data = mem2[n.tag]
                        /\ \A k \in DIndex : k # DataLine /\ HoldsIn(dcache, k, n.tag)
                                               => ~dcache[k].dirty
          /\ dc2 \in DCaches /\ dc2[DataLine] = n
          /\ \A k \in DIndex : k # DataLine => dc2[k] = dcache[k]
        Same(mem2, dc2) ==
          /\ CoherentIn(dc2, mem2)
          /\ \A f \in Frame : ValueIn(dc2, mem2, f) = ValueIn(dcache, memory, f)
          /\ StaleIn(dc2, mem2, icache) \subseteq StaleIn(dcache, memory, icache)
  <2>2. \A mem2, dc2 : Legal(mem2, dc2) => Same(mem2, dc2)
    <3> SUFFICES ASSUME NEW mem2, NEW dc2, Legal(mem2, dc2) PROVE Same(mem2, dc2)
      OBVIOUS
    <3>1. dc2 \in DCaches
      OBVIOUS
    <3> QED BY <1>1, <3>1, Replacement
  <2>3. Legal(memory', dcache')
    BY <1>2, <2>1
  <2>4. Same(memory', dcache')
    <3> HIDE DEF Legal, Same
    <3> QED BY <2>2, <2>3
  <2> QED BY <2>4 DEF SameValues
<1>4. Coherent'
  BY <1>3 DEF Coherent
<1>5. Plain!Next
  BY <1>3, Maintenance
<1> QED BY <1>4, <1>5 DEF Refines

LEMMA FillRefines ==
  ASSUME Types, Types', Coherent, DcFill
  PROVE  Refines
<1> DEFINE n == [tag |-> DataFrame, valid |-> TRUE, dirty |-> FALSE,
                 data |-> memory'[DataFrame]]
<1>1. /\ DcSound
      /\ memory' = IF ShouldFlush(DataLine) THEN WrittenBack(DataLine) ELSE memory
      /\ dcache' = [dcache EXCEPT ![DataLine] = n]
      /\ careless' = (careless \/ \E k \in OtherLines(DataFrame) : dcache[k].dirty)
      /\ UNCHANGED <<icache, seen>>
  BY DEF DcFill, DcAccess
<1>2. n \in DLine
  BY <1>1, AccessShapes DEF DLine, Types, TypeOK
<1>3. n.tag = DataFrame /\ n.valid /\ ~n.dirty /\ n.data = memory'[DataFrame]
  OBVIOUS
<1> HIDE DEF n
<1>4. CASE careless'
  BY <1>4 DEF Refines, Coherent
<1>5. CASE ~careless'
  <2>1. \A k \in DIndex : k # DataLine /\ HoldsIn(dcache, k, DataFrame) => ~dcache[k].dirty
    BY <1>1, <1>5, AccessShapes DEF OtherLines, Hit, HoldsIn
  <2> QED BY <1>1, <1>2, <1>3, <1>5, <2>1, AccessShapes, ReplacedRefines
           DEF ShouldFlush
<1> QED BY <1>4, <1>5

\* The CACHE operations: what they leave in a line.
LEMMA CacheOpRefines ==
  ASSUME Types, Types', Coherent, NEW op, CacheOp(op),
         IcInvalidate \/ IcSetTagLo \/ DcGetTagLo \/ DcSetTagLo \/ DcWbInvalidate
         \/ DcCreateDirtyEx \/ DcHitInvalidate \/ DcHitWb \/ HitOpMisses
  PROVE  Refines
<1>1. /\ DcSound /\ seen' = seen /\ DataLine \in DIndex /\ DataFrame \in Frame
      /\ ILineOf(request.va) \in IIndex
  BY CacheOpTypes DEF CacheOp, DIndex, IIndex
<1>2. dcache \in DCaches /\ icache \in ICaches /\ memory \in Memories /\ icache' \in ICaches
  BY Shapes DEF Types, TypeOK, ICaches, IIndex
<1>3. dcache[DataLine] \in DLine
  BY <1>1, <1>2 DEF DCaches
<1>4. CASE careless'
  BY <1>4 DEF Refines, Coherent
<1>5. CASE ~careless' /\ dcache' = dcache /\ memory' = memory /\ ~careless
      /\ \A k \in IIndex : icache'[k].valid => icache'[k] = icache[k]
  <2>1. CoherentIn(dcache, memory)
    BY <1>5 DEF Coherent
  <2>2. StaleIn(dcache, memory, icache') \subseteq StaleIn(dcache, memory, icache)
    BY <1>2, <1>5, <2>1, Refetched
  <2>3. SameValues
    BY <1>5 DEF SameValues
  <2> QED BY <1>1, <1>5, <2>1, <2>2, <2>3, Maintenance DEF Refines, Coherent
<1>6. CASE IcInvalidate \/ IcSetTagLo
  <2> DEFINE k == ILineOf(request.va)
  <2>1. IcInvalidate => icache' = [icache EXCEPT ![k].valid = FALSE]
                        /\ UNCHANGED <<memory, dcache, careless>>
    BY DEF IcInvalidate
  <2>2. IcSetTagLo => /\ icache' = [icache EXCEPT ![k].valid = tagLo.valid,
                                                  ![k].tag = tagLo.tag]
                      /\ careless' = (careless \/ tagLo.valid)
                      /\ UNCHANGED <<memory, dcache>>
    BY DEF IcSetTagLo
  <2>3. CASE ~careless'
    <3>1. \A j \in IIndex : j # k => icache'[j] = icache[j]
      BY <1>1, <1>2, <1>6, <2>1, <2>2 DEF ICaches
    <3>2. ~icache'[k].valid
      <4>1. tagLo.valid \in BOOLEAN /\ (IcSetTagLo => ~tagLo.valid)
        BY <2>2, <2>3 DEF Types, TypeOK, TagLo
      <4> QED BY <1>1, <1>2, <1>6, <2>1, <2>2, <4>1 DEF ICaches, ILine
    <3> QED BY <1>5, <1>6, <2>1, <2>2, <2>3, <3>1, <3>2
  <2> QED BY <1>4, <2>3
<1>7. CASE DcGetTagLo \/ HitOpMisses
  BY <1>4, <1>5, <1>7 DEF DcGetTagLo, HitOpMisses
<1>8. CASE DcSetTagLo /\ ~careless'
  <2> DEFINE n == [dcache[DataLine] EXCEPT !.tag = tagLo.tag, !.valid = tagLo.valid,
                                           !.dirty = tagLo.dirty]
  <2>1. n \in DLine /\ ~n.valid
    BY <1>3, <1>8 DEF DcSetTagLo, DLine, Types, TypeOK, TagLo
  <2>2. /\ dcache' = [dcache EXCEPT ![DataLine] = n] /\ ~careless
        /\ UNCHANGED <<memory, icache>> /\ ~ShouldFlush(DataLine)
    BY <1>1, <1>2, <1>8 DEF DcSetTagLo, DCaches
  <2> HIDE DEF n
  <2> QED BY <1>1, <2>1, <2>2, ReplacedRefines
<1>9. CASE DcWbInvalidate /\ ~careless'
  <2> DEFINE n == [dcache[DataLine] EXCEPT !.valid = FALSE]
  <2>1. n \in DLine /\ ~n.valid
    BY <1>3 DEF DLine
  <2>2. /\ dcache' = [dcache EXCEPT ![DataLine] = n] /\ ~careless
        /\ icache' = icache
        /\ memory' = IF dcache[DataLine].valid THEN WrittenBack(DataLine) ELSE memory
    BY <1>1, <1>2, <1>9 DEF DcWbInvalidate, DCaches
  <2> HIDE DEF n
  <2> QED BY <1>1, <2>1, <2>2, ReplacedRefines DEF ShouldFlush
<1>10. CASE DcCreateDirtyEx /\ ~careless'
  <2> DEFINE n == [dcache[DataLine] EXCEPT !.tag = DataFrame, !.dirty = TRUE]
  <2>1. n \in DLine /\ ~n.valid
    BY <1>1, <1>3, <1>10 DEF DcCreateDirtyEx, DLine
  <2>2. /\ dcache' = [dcache EXCEPT ![DataLine] = n] /\ ~careless
        /\ UNCHANGED <<memory, icache>> /\ ~ShouldFlush(DataLine)
    BY <1>1, <1>2, <1>10 DEF DcCreateDirtyEx, DCaches, ShouldFlush
  <2> HIDE DEF n
  <2> QED BY <1>1, <2>1, <2>2, ReplacedRefines
<1>11. CASE DcHitInvalidate /\ ~careless'
  <2> DEFINE n == [dcache[DataLine] EXCEPT !.valid = FALSE]
  <2>1. n \in DLine /\ ~n.valid
    BY <1>3 DEF DLine
  <2>2. /\ dcache' = [dcache EXCEPT ![DataLine] = n] /\ ~careless
        /\ UNCHANGED <<memory, icache>> /\ ~ShouldFlush(DataLine)
    BY <1>1, <1>2, <1>11 DEF DcHitInvalidate, DCaches, ShouldFlush
  <2> HIDE DEF n
  <2> QED BY <1>1, <2>1, <2>2, ReplacedRefines
<1>12. CASE DcHitWb /\ ~careless'
  <2> DEFINE line == dcache[DataLine]
  <2>1. /\ line.valid /\ line.tag = DataFrame /\ ~careless /\ icache' = icache
        /\ memory' = IF line.dirty THEN WrittenBack(DataLine) ELSE memory
        /\ \/ dcache' = [dcache EXCEPT ![DataLine].dirty = FALSE]
           \/ dcache' = [dcache EXCEPT ![DataLine].valid = FALSE]
    BY <1>12 DEF DcHitWb, Hit
  <2>2. CASE dcache' = [dcache EXCEPT ![DataLine].valid = FALSE]
    <3> DEFINE n == [line EXCEPT !.valid = FALSE]
    <3>1. n \in DLine /\ ~n.valid /\ dcache' = [dcache EXCEPT ![DataLine] = n]
      BY <1>1, <1>2, <1>3, <2>2 DEF DLine, DCaches
    <3> HIDE DEF n
    <3> QED BY <1>1, <2>1, <3>1, ReplacedRefines DEF ShouldFlush
  <2>3. CASE dcache' = [dcache EXCEPT ![DataLine].dirty = FALSE]
    <3> DEFINE n == [line EXCEPT !.dirty = FALSE]
    <3>1. /\ n \in DLine /\ ~n.dirty /\ n.tag = DataFrame /\ n.data = line.data
          /\ dcache' = [dcache EXCEPT ![DataLine] = n]
      BY <1>1, <1>2, <1>3, <2>1, <2>3 DEF DLine, DCaches
    <3>2. CoherentIn(dcache, memory)
      BY <2>1 DEF Coherent
    <3>3. line.data = memory'[DataFrame]
      BY <1>1, <1>2, <2>1, <3>2 DEF CoherentIn, WrittenBack, Memories
    <3>4. \A k \in DIndex : k # DataLine /\ HoldsIn(dcache, k, DataFrame) => ~dcache[k].dirty
      BY <1>1, <2>1, <3>2 DEF CoherentIn, HoldsIn
    <3> HIDE DEF n
    <3> QED BY <1>1, <2>1, <3>1, <3>3, <3>4, ReplacedRefines DEF ShouldFlush
  <2> QED BY <2>1, <2>2, <2>3
<1> QED BY <1>4, <1>6, <1>7, <1>8, <1>9, <1>10, <1>11, <1>12

Invariant == Types /\ Coherent

\* One step of the caches is one step of memory, until the guest is careless.
LEMMA StepRefines ==
  ASSUME Invariant, Types', [Next]_vars
  PROVE  Refines \/ UNCHANGED <<vars, Effective, Asked, seen, Stale>>
<1> USE DEF Invariant
<1>1. ASSUME NEW va, IcStage(va) PROVE Refines
  BY <1>1, StoreKept DEF IcStage, Stop
<1>2. RfCrash \/ RfTlbMiss => Refines
  BY StoreKept DEF RfCrash, RfTlbMiss, Stop
<1>3. RfFetch => Refines
  BY FetchRefines
<1>4. Interrupt \/ DcCrash \/ DcTlbFault => Refines
  BY StoreKept DEF Interrupt, DcCrash, DcTlbFault, Stop
<1>5. DcHit \/ DcFill \/ DcUncached => Refines
  BY HitRefines, FillRefines, UncachedRefines
<1>6. IcInvalidate \/ IcSetTagLo \/ DcGetTagLo \/ DcSetTagLo \/ DcWbInvalidate
        \/ DcCreateDirtyEx \/ DcHitInvalidate \/ DcHitWb \/ HitOpMisses => Refines
  <2> SUFFICES ASSUME IcInvalidate \/ IcSetTagLo \/ DcGetTagLo \/ DcSetTagLo
                        \/ DcWbInvalidate \/ DcCreateDirtyEx \/ DcHitInvalidate
                        \/ DcHitWb \/ HitOpMisses
               PROVE  Refines
    OBVIOUS
  <2>1. \E op \in CacheOps : CacheOp(op)
    BY DEF IcInvalidate, IcSetTagLo, DcGetTagLo, DcSetTagLo, DcWbInvalidate,
           DcCreateDirtyEx, DcHitInvalidate, DcHitWb, HitOpMisses, CacheOps
  <2>2. PICK op \in CacheOps : CacheOp(op)
    BY <2>1
  <2> QED BY <2>2, CacheOpRefines
<1>7. Issue \/ MTC0_Status \/ DMTC0_Status \/ MTC0_Register \/ ERET => Refines
  BY StoreKept DEF Issue, MTC0_Status, DMTC0_Status, MTC0_Register, ERET, Stop
<1>8. TLBP \/ TLBR \/ TLBWI \/ TLBWR => Refines
  BY StoreKept DEF TLBP, TLBR, TLBWI, TLBWR, Stop
<1>9. UNCHANGED vars => UNCHANGED <<vars, Effective, Asked, seen, Stale>>
  BY EffectiveIs, StaleIs, AskedIs DEF vars, data, store
<1> QED BY <1>1, <1>2, <1>3, <1>4, <1>5, <1>6, <1>7, <1>8, <1>9
        DEF Next, DcStage, ExStage

LEMMA Invariance == Spec => []Invariant
<1>1. Init => Coherent
  BY DEF Init, Coherent, CoherentIn, DIndex
<1>2. Invariant /\ Types' /\ [Next]_vars => Coherent'
  <2> SUFFICES ASSUME Invariant, Types', [Next]_vars PROVE Coherent'
    OBVIOUS
  <2>1. CASE Refines
    BY <2>1 DEF Refines
  <2>2. CASE UNCHANGED vars
    BY <2>2 DEF Invariant, Coherent, vars, store
  <2> QED BY <2>1, <2>2, StepRefines
<1> QED BY <1>1, <1>2, TypesInvariant, PTL DEF Spec, Invariant

\* Loads, stores and fetches go through the data cache, the instruction cache,
\* the fills and write-backs of VR4300_DCM and VR4300_ICB and the CACHE
\* operations as they would through one memory without caches, until the guest
\* breaks a rule of the caches.
THEOREM CachesAreMemory == Spec => ImplementsMemory
<1>1. Init => Plain!Init
  <2> SUFFICES ASSUME Init PROVE Plain!Init
    OBVIOUS
  <2>1. \A k \in DIndex : \A f : ~HoldsIn(dcache, k, f)
    BY DEF Init, HoldsIn, DIndex
  <2>2. Types
    BY InitTypes
  <2>3. \A f \in Frame : ValueIn(dcache, memory, f) = memory[f]
    BY <2>1, <2>2, Shapes, ValueOfMemory
  <2>4. Effective \in [Frame -> Value]
    BY <2>2, <2>3, Shapes, EffectiveIs DEF Memories
  <2>5. Asked = Plain!Nothing
    BY AskType, AskedIs DEF Init
  <2>6. Stale = {}
    <3>1. \A k \in DOMAIN icache : ~icache[k].valid
      BY DEF Init
    <3>2. DOMAIN dcache = DIndex
      BY DEF Init, DIndex
    <3> QED BY <2>1, <3>1, <3>2, StaleIs DEF StaleIn
  <2> QED BY <2>4, <2>5, <2>6 DEF Plain!Init
<1>2. Invariant /\ Types' /\ [Next]_vars
        => [careless' \/ Plain!Next]_<<Effective, Asked, seen, Stale>>
  BY StepRefines DEF Refines
<1> QED BY <1>1, <1>2, Invariance, TypesInvariant, PTL DEF Spec, ImplementsMemory

-----------------------------------------------------------------------------
(* Protection.                                                             *)

RequestUsed == request # None => request.va.place \in PlacesUsed

LEMMA RequestStep ==
  ASSUME Types, RequestUsed, [Next]_vars
  PROVE  RequestUsed'
<1>1. PlacesUsed' = PlacesUsed
  BY LatchStep DEF PlacesUsed
<1>2. request' = request \/ request' = None \/ Issue
  <2> USE DEF Stop, data
  <2>1. ASSUME NEW va, IcStage(va) PROVE request' = request
    BY <2>1 DEF IcStage
  <2>2. RfCrash \/ RfTlbMiss \/ RfFetch \/ DcCrash \/ DcFill => request' = request
    BY DEF RfCrash, RfTlbMiss, RfFetch, DcCrash, DcFill
  <2>3. Interrupt \/ DcTlbFault \/ DcHit \/ DcUncached => request' = None
    BY DEF Interrupt, DcTlbFault, DcHit, DcUncached
  <2>4. IcInvalidate \/ IcSetTagLo \/ DcGetTagLo \/ DcSetTagLo \/ DcWbInvalidate
          \/ DcCreateDirtyEx \/ DcHitInvalidate \/ DcHitWb \/ HitOpMisses => request' = None
    BY DEF IcInvalidate, IcSetTagLo, DcGetTagLo, DcSetTagLo, DcWbInvalidate,
           DcCreateDirtyEx, DcHitInvalidate, DcHitWb, HitOpMisses, CacheOp
  <2>5. MTC0_Status \/ DMTC0_Status \/ MTC0_Register \/ ERET => request' = request
    BY DEF MTC0_Status, DMTC0_Status, MTC0_Register, ERET
  <2>6. TLBP \/ TLBR \/ TLBWI \/ TLBWR => request' = request
    BY DEF TLBP, TLBR, TLBWI, TLBWR
  <2>7. UNCHANGED vars => request' = request
    BY DEF vars
  <2> QED BY <2>1, <2>2, <2>3, <2>4, <2>5, <2>6, <2>7 DEF Next, DcStage, ExStage
<1>3. Issue => request'.va.place \in PlacesUsed
  BY DEF Issue, PlacesUsed
<1> QED BY <1>1, <1>2, <1>3 DEF RequestUsed

LEMMA RequestInvariant == Spec => []RequestUsed
<1>1. Init => RequestUsed
  BY DEF Init, RequestUsed
<1>2. Types /\ RequestUsed /\ [Next]_vars => RequestUsed'
  BY RequestStep
<1> QED BY <1>1, <1>2, TypesInvariant, PTL DEF Spec

\* A probe that answers an index has compared the address space, too.
LEMMA ProbeFinds ==
  ASSUME NEW va, ~Probe(va).miss, Probe(va).index # -1
  PROVE  /\ Probe(va).index \in Index
         /\ Matches(tlb[Probe(va).index], Vpn2(va), entryHi.asid)
<1> DEFINE hits == {i \in Scanned : Matches(tlb[i], Vpn2(va), entryHi.asid)}
<1>1. Probe(va).index = IF Cardinality(hits) = 1 THEN CHOOSE i \in hits : TRUE ELSE -1
  BY DEF Probe, tlb_probe
<1>2. Cardinality(hits) = 1
  BY <1>1
<1>3. hits # {}
  BY <1>2, FS_EmptySet
<1>4. Probe(va).index \in hits
  BY <1>1, <1>2, <1>3
<1> QED BY <1>4 DEF Scanned

\* While the latches are current, what DC serves is granted.
LEMMA ServedIsGranted ==
  ASSUME Types, RequestUsed, DcAccess, LatchesCurrent, ~XksegTail(request.va.place)
  PROVE  Granted(request, DataFrame)
<1>1. request # None /\ request.va.place \in PlacesUsed /\ DataSegment # NULL
  BY DEF RequestUsed, DcAccess, DcSound
<1>2. DataSegment = get_segment(request.va.place, status)
  BY <1>1 DEF DataSegment, Lookup, LatchesCurrent, LatchCurrent
<1>3. CASE DataSegment.mapped
  <2>1. /\ ~DataProbe.miss /\ DataProbe.index # -1 /\ DataHalf.valid
        /\ request.type = "write" => DataHalf.dirty
    BY <1>3 DEF DcAccess, DcSound, DataFaults
  <2>2. /\ DataProbe.index \in Index
        /\ Matches(tlb[DataProbe.index], Vpn2(request.va), entryHi.asid)
    BY <2>1, ProbeFinds DEF DataProbe
  <2> QED BY <1>1, <1>2, <1>3, <2>1, <2>2 DEF Granted, DataFrame, DataHalf
<1>4. CASE ~DataSegment.mapped
  BY <1>1, <1>2, <1>4 DEF Granted, DataFrame
<1> QED BY <1>3, <1>4

\* A load or store reaches no frame that the segment of its mode or the entry
\* of the TLB for its page and address space does not give it, for a store with
\* write permission: the latched segment, the lines of the caches and the lanes
\* of the probe do not widen it.
THEOREM AccessIsGranted == Spec => OnlyGranted
<1> DEFINE Checked ==
      (request # None /\ <<memory, dcache, seen>>' # <<memory, dcache, seen>>
         /\ LatchesCurrent /\ ~XksegTail(request.va.place)) =>
        /\ request.type = "write" =>
             LET before == Effective IN LET after == Effective' IN
             \A f \in Frame : after[f] # before[f] =>
                                Granted(request, f) \/ careless'
        /\ (request.type = "read" /\ request' = None) =>
             Granted(request, seen'.frame)
<1>1. ASSUME Invariant, Types', RequestUsed, [Next]_vars, request # None,
             LatchesCurrent, ~XksegTail(request.va.place),
             <<memory, dcache, seen>>' # <<memory, dcache, seen>>,
             request.type \in {"read", "write"}
      PROVE  /\ request.type = "write" =>
                  \A f \in Frame : Effective'[f] # Effective[f] =>
                                     Granted(request, f) \/ careless'
             /\ (request.type = "read" /\ request' = None) =>
                  Granted(request, seen'.frame)
  <2> USE <1>1 DEF Invariant
  <2>1. RfFetch \/ DcHit \/ DcFill \/ DcUncached
    <3> USE DEF store, Stop
    <3>1. ASSUME NEW va, IcStage(va) PROVE FALSE
      BY <3>1 DEF IcStage
    <3>2. ~RfCrash /\ ~RfTlbMiss /\ ~Interrupt /\ ~DcCrash /\ ~DcTlbFault
      BY DEF RfCrash, RfTlbMiss, Interrupt, DcCrash, DcTlbFault
    <3>3. ~IcInvalidate /\ ~IcSetTagLo /\ ~DcGetTagLo /\ ~DcSetTagLo /\ ~DcWbInvalidate
          /\ ~DcCreateDirtyEx /\ ~DcHitInvalidate /\ ~DcHitWb /\ ~HitOpMisses
      BY DEF IcInvalidate, IcSetTagLo, DcGetTagLo, DcSetTagLo, DcWbInvalidate,
             DcCreateDirtyEx, DcHitInvalidate, DcHitWb, HitOpMisses, CacheOp
    <3>4. ~ExStage
      BY DEF ExStage, Ex, System, Issue, MTC0_Status, DMTC0_Status, MTC0_Register,
             ERET, TLBP, TLBR, TLBWI, TLBWR
    <3>5. ~UNCHANGED vars
      BY DEF vars
    <3> QED BY <3>1, <3>2, <3>3, <3>4, <3>5 DEF Next, DcStage
  <2>2. CASE RfFetch
    <3>1. memory' = memory /\ dcache' = dcache /\ request' = request
      BY <2>2 DEF RfFetch, data
    <3> QED BY <3>1, EffectiveIs
  <2>3. CASE DcFill
    <3>1. request' = request /\ Asked' = Asked
      BY <2>3, AskedIs DEF DcFill
    <3>2. Asked = [type |-> "write", data |-> request.data] => Asked # Plain!Nothing
      BY DEF Plain!Nothing
    <3>3. request.type = "write" => Asked = [type |-> "write", data |-> request.data]
      BY DEF Asked
    <3>4. careless' \/ Plain!Next
      BY <2>3, FillRefines DEF Refines
    <3>5. Plain!Next /\ request.type = "write" => Effective' = Effective
      BY <3>1, <3>2, <3>3 DEF Plain!Next, Plain!Maintain, Plain!Load, Plain!Store,
                              Plain!Fetch
    <3> QED BY <3>1, <3>4, <3>5
  <2>4. CASE DcHit \/ DcUncached
    <3>1. OnlyFrame
      BY <2>4, HitRefines, UncachedRefines
    <3>2. Granted(request, DataFrame)
      BY <2>4, ServedIsGranted DEF DcHit, DcUncached
    <3>3. request.type = "read" => seen'.frame = DataFrame
      BY <2>4 DEF DcHit, DcUncached, Delivered
    <3> QED BY <3>1, <3>2, <3>3 DEF OnlyFrame
  <2> QED BY <2>1, <2>2, <2>3, <2>4
<1>2. Invariant /\ Types' /\ RequestUsed /\ [Next]_vars => [Checked]_vars
  BY <1>1
<1> QED BY <1>2, Invariance, TypesInvariant, RequestInvariant, PTL DEF Spec, OnlyGranted

-----------------------------------------------------------------------------
(* The end of the process.                                                 *)

\* A probe that answers -1 has found two entries for the page, or only ones of
\* other address spaces while ASID is 0.
LEMMA BadProbe ==
  ASSUME NEW va, Probe(va).index = -1
  PROVE  Conflict(va)
<1> DEFINE hits == {i \in Scanned : Matches(tlb[i], Vpn2(va), entryHi.asid)}
           missed == hits = {} /\ ~ZeroLane(tlb, Vpn2(va), entryHi.asid)
<1>1. Cardinality(hits) # 1 /\ ~missed
  <2>1. Probe(va).index = IF missed THEN 0
                          ELSE IF Cardinality(hits) = 1 THEN CHOOSE i \in hits : TRUE
                          ELSE -1
    BY DEF Probe, tlb_probe
  <2>2. Cardinality(hits) = 1 => (CHOOSE i \in hits : TRUE) \in Index
    <3>1. Cardinality(hits) = 1 => hits # {}
      BY FS_EmptySet
    <3>2. hits \subseteq Index
      BY DEF Scanned
    <3> QED BY <3>1, <3>2
  <2>3. \A i \in Index : i # -1
    BY DEF Index
  <2> HIDE DEF hits
  <2> QED BY <2>1, <2>2, <2>3
<1>2. CASE hits = {}
  BY <1>1, <1>2 DEF ZeroLane, Conflict, Matching
<1>3. CASE hits # {}
  <2>1. PICK i \in hits : TRUE
    BY <1>3
  <2>2. hits # {i}
    BY <1>1, FS_Singleton
  <2>3. PICK j \in hits : j # i
    BY <2>1, <2>2
  <2> QED BY <2>1, <2>3 DEF Conflict, Matching
<1> QED BY <1>2, <1>3

\* The process ends only for an address that the mode does not have, a NULL
\* segment that was latched, a conflict in the TLB and a division by zero.
THEOREM EndIsKnown == Spec => StopsOnlyAsKnown
<1> DEFINE Known == stopped' /\ ~stopped =>
        \/ isegment = NULL
        \/ \E p \in InFlight : NoSegment(p, status)
        \/ MTC0_Status /\ \E s \in guest.statuses : ~ValidAddress(pc.place, s)
        \/ ERET /\ ~ValidAddress(epc.place, [status EXCEPT !.exl = FALSE])
        \/ phase = "rf" /\ Conflict(pc)
        \/ request # None /\ Conflict(request.va)
        \/ TLBWR /\ wired = Entries
<1>1. ASSUME Types, [Next]_vars, stopped', ~stopped PROVE Known
  <2> USE <1>1
  <2>1. (\E va \in (guest.fetches \cup {target}) \ {Anywhere} : IcStage(va))
          \/ RfCrash \/ DcCrash \/ MTC0_Status \/ ERET \/ TLBWR
    <3>1. ~RfTlbMiss /\ ~RfFetch /\ ~Interrupt /\ ~DcTlbFault /\ ~DcHit /\ ~DcFill
          /\ ~DcUncached
      BY DEF RfTlbMiss, RfFetch, Interrupt, DcTlbFault, DcHit, DcFill, DcUncached
    <3>2. ~IcInvalidate /\ ~IcSetTagLo /\ ~DcGetTagLo /\ ~DcSetTagLo /\ ~DcWbInvalidate
          /\ ~DcCreateDirtyEx /\ ~DcHitInvalidate /\ ~DcHitWb /\ ~HitOpMisses
      BY DEF IcInvalidate, IcSetTagLo, DcGetTagLo, DcSetTagLo, DcWbInvalidate,
             DcCreateDirtyEx, DcHitInvalidate, DcHitWb, HitOpMisses, CacheOp
    <3>3. ~Issue /\ ~DMTC0_Status /\ ~MTC0_Register /\ ~TLBP /\ ~TLBR /\ ~TLBWI
      BY DEF Issue, DMTC0_Status, MTC0_Register, TLBP, TLBR, TLBWI
    <3>4. ~UNCHANGED vars
      BY DEF vars
    <3> QED BY <3>1, <3>2, <3>3, <3>4 DEF Next, DcStage, ExStage
  <2>2. ASSUME NEW va, IcStage(va) PROVE Known
    <3>1. va.place \in InFlight /\ (isegment = NULL \/ Lookup(va, isegment) = NULL)
      BY <2>2 DEF IcStage, InFlight
    <3>2. isegment # NULL /\ Lookup(va, isegment) = NULL => NoSegment(va.place, status)
      BY DEF Lookup, NoSegment
    <3> QED BY <3>1, <3>2
  <2>3. CASE RfCrash
    BY <2>3, BadProbe DEF RfCrash
  <2>4. CASE DcCrash
    <3>1. request # None /\ request.va \in Address
      BY <2>4, RequestType DEF DcCrash
    <3>2. CASE DataSegment = NULL
      <4>1. dsegment # NULL
        BY NullIsNoSegment DEF Types, TypeOK
      <4>2. NoSegment(request.va.place, status)
        BY <3>2, <4>1 DEF DataSegment, Lookup, NoSegment
      <4> QED BY <3>1, <4>2 DEF InFlight
    <3>3. CASE DataSegment # NULL
      BY <2>4, <3>1, <3>3, BadProbe DEF DcCrash, DataProbe
    <3> QED BY <3>2, <3>3
  <2>5. CASE MTC0_Status
    BY <2>5 DEF MTC0_Status
  <2>6. CASE ERET
    <3>1. \A s : ValidAddress(KSEG0(0).place, s)
      BY DEF ValidAddress, KSEG0, KSEGs, Segment, Place, SignExtended32, Bits31To29, Ones
    <3>2. CASE status.erl
      BY <2>6, <3>1, <3>2 DEF ERET
    <3>3. CASE ~status.erl
      BY <2>6, <3>3 DEF ERET
    <3> QED BY <3>2, <3>3
  <2>7. CASE TLBWR
    BY <2>7 DEF TLBWR
  <2> QED BY <2>1, <2>2, <2>3, <2>4, <2>5, <2>6, <2>7
<1>2. Types /\ [Next]_vars => [Known]_vars
  BY <1>1
<1> QED BY <1>2, TypesInvariant, PTL DEF Spec, StopsOnlyAsKnown
=============================================================================
