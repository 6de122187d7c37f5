--------------------------- MODULE MCMemorySystem ---------------------------
(***************************************************************************)
(* The guests that TLC lets loose on MemorySystem: four pages, four        *)
(* frames, four TLB entries probed two at a time, two cache lines.  Each   *)
(* guest uses some of the operations on some addresses; together they use  *)
(* all of them.                                                            *)
(***************************************************************************)
EXTENDS MemorySystem

At(p, page) == [place |-> p, page |-> page]
Useg(page) == At(0, page)
Xuseg(page) == At(Place(0, 0, 1, 0), page)
Sseg(page) == At(KSEGs[2].start, page)
Kseg1(page) == At(KSEGs[1].start, page)
Xkphys(page) == At(XKPHYS(1).start, page)
Xkseg(page) == At(XKSEG.start, page)
XksegEnd(page) == At(XKSEG.limit - 1, page)

Accesses(types, vas, values) == [type : types, va : vas, data : values]

StatusOf(ksu, x, exl) == [ksu |-> ksu, exl |-> exl, erl |-> FALSE,
                          kx |-> x, sx |-> x, ux |-> x]
Hi(va, asid) == [vpn2 |-> Vpn2(va), asid |-> asid]
Lo(pfn, dirty, cached, global) ==
  [pfn |-> pfn, valid |-> TRUE, dirty |-> dirty, cached |-> cached, global |-> global]
Halves(even, odd) == [h \in 0 .. 1 |-> IF h = 0 THEN even ELSE odd]

Idle == [fetches |-> {KSEG0(0)}, accesses |-> {}, interrupts |-> FALSE,
         statuses |-> {}, longStatuses |-> {}, epcs |-> {}, erets |-> FALSE,
         entryHis |-> {}, entryLos |-> {}, indexes |-> {}, wireds |-> {},
         tagLos |-> {}, probes |-> FALSE, reads |-> FALSE, writes |-> FALSE,
         refills |-> FALSE]

\* Modes and segments: a kernel and its users change Status in every way.
ModeGuest == [Idle EXCEPT
  !.fetches = {KSEG0(0), Useg(0), Xkphys(0)},
  !.accesses = Accesses({"read"}, {Useg(0), Xuseg(0), Kseg1(1), Sseg(0)}, {0}),
  !.interrupts = TRUE,
  !.statuses = {StatusOf("kernel", TRUE, FALSE), StatusOf("user", FALSE, TRUE),
                StatusOf("user", FALSE, FALSE),
                StatusOf("supervisor", TRUE, TRUE)},
  !.longStatuses = {StatusOf("user", FALSE, FALSE)},
  !.epcs = {Useg(0), KSEG0(0)},
  !.erets = TRUE]

\* Paging: two address spaces, two page sizes, global entries, a page that may
\* not be written.
PageGuest == [Idle EXCEPT
  !.fetches = {},
  !.accesses = Accesses({"read", "write"}, {Useg(1)}, {1}),
  !.entryHis = {Hi(Useg(0), 0), Hi(Useg(0), 1)},
  !.entryLos = {[mask |-> 1, lo |-> Halves(Lo(2, TRUE, FALSE, TRUE), Lo(0, FALSE, FALSE, TRUE))],
                [mask |-> 0, lo |-> Halves(Lo(1, TRUE, FALSE, FALSE), Lo(1, FALSE, FALSE, FALSE))]},
  !.indexes = {1}, !.writes = TRUE]

\* The instructions that find, read and write an entry by its index.
EntryGuest == [Idle EXCEPT
  !.fetches = {},
  !.accesses = Accesses({"dc_hit_wb"}, {Useg(0)}, {0}),
  !.entryHis = {Hi(Useg(0), 0), Hi(Useg(0), 1)},
  !.entryLos = {[mask |-> 0, lo |-> Halves(Lo(1, TRUE, FALSE, FALSE), Lo(3, TRUE, FALSE, FALSE))]},
  !.indexes = {0, 2}, !.probes = TRUE, !.reads = TRUE, !.writes = TRUE]

\* A refill handler that writes a random entry, some of them wired.
RefillGuest == [Idle EXCEPT
  !.fetches = {},
  !.accesses = Accesses({"read"}, {Useg(2)}, {0}),
  !.entryLos = {[mask |-> 0, lo |-> Halves(Lo(1, TRUE, FALSE, FALSE), Lo(3, TRUE, FALSE, FALSE))]},
  !.wireds = {2, 4}, !.refills = TRUE]

\* Addresses of 64 bits that miss in the TLB.
LongGuest == [Idle EXCEPT
  !.fetches = {KSEG0(0), Xkseg(1)},
  !.accesses = Accesses({"read"}, {Xuseg(2), Xkseg(1), XksegEnd(1), Sseg(0)}, {0}),
  !.statuses = {StatusOf("kernel", TRUE, FALSE),
                [StatusOf("kernel", TRUE, FALSE) EXCEPT !.ux = FALSE]},
  !.entryLos = {[mask |-> 0, lo |-> Halves(Lo(0, TRUE, TRUE, TRUE), Lo(1, TRUE, TRUE, TRUE))]},
  !.writes = TRUE]

\* The data cache: frames 0 and 2 share a line; frame 0 is reached past it.
IdentityLo == [mask |-> 1, lo |-> Halves(Lo(0, TRUE, TRUE, TRUE), Lo(2, TRUE, TRUE, TRUE))]
DataGuest == [Idle EXCEPT
  !.fetches = {},
  !.accesses = Accesses({"read", "dc_wb_invalidate", "dc_get_taglo", "dc_set_taglo"},
                        {Useg(0)}, {0})
                 \cup Accesses({"dc_create_dirty_ex", "dc_hit_invalidate",
                                "dc_hit_wb_invalidate", "dc_hit_wb"},
                               {Useg(2)}, {0})
                 \cup Accesses({"write"}, {Useg(0), Useg(2)}, {1})
                 \cup Accesses({"read"}, {Kseg1(0)}, {0})
                 \cup Accesses({"write"}, {Kseg1(0)}, {1}),
  !.entryLos = {IdentityLo},
  !.writes = TRUE]

\* Tags made up by the guest.
TagGuest == [Idle EXCEPT
  !.fetches = {},
  !.accesses = Accesses({"read", "dc_get_taglo", "dc_set_taglo"}, {Useg(0)}, {0})
                 \cup Accesses({"write"}, {Useg(0), Useg(2)}, {1}),
  !.entryLos = {IdentityLo},
  !.tagLos = {[tag |-> 2, valid |-> TRUE, dirty |-> TRUE]},
  !.writes = TRUE]

\* Frame 1 in two lines: pages 0 and 1 map to it.
AliasGuest == [Idle EXCEPT
  !.fetches = {},
  !.accesses = Accesses({"read"}, {Useg(0), Useg(1)}, {0})
                 \cup Accesses({"write"}, {Useg(0), Useg(1)}, {0, 1})
                 \cup Accesses({"dc_wb_invalidate"}, {Useg(0), Useg(1)}, {0}),
  !.entryLos = {[mask |-> 0, lo |-> Halves(Lo(1, TRUE, TRUE, TRUE), Lo(1, TRUE, TRUE, TRUE))]},
  !.writes = TRUE]

\* Code that changes: stores to frame 2 and fetches from it.
CodeGuest == [Idle EXCEPT
  !.fetches = {Useg(2)},
  !.accesses = Accesses({"write"}, {Useg(2)}, {0, 1})
                 \cup Accesses({"dc_hit_wb", "dc_hit_wb_invalidate", "ic_invalidate",
                                "ic_invalidate_hit", "ic_set_taglo"}, {Useg(2)}, {0}),
  !.entryLos = {IdentityLo},
  !.tagLos = {[tag |-> 2, valid |-> TRUE, dirty |-> FALSE]},
  !.writes = TRUE]

MCGuests == {ModeGuest, PageGuest, EntryGuest, RefillGuest, LongGuest, DataGuest,
             TagGuest, AliasGuest, CodeGuest}
ProbeGuests == {[PageGuest EXCEPT !.indexes = {}]}
MCInitialMemory == [f \in Frame |-> 0]
MCPage == 0 .. 3
=============================================================================
