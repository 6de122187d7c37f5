-------------------------------- MODULE Tlb --------------------------------
(***************************************************************************)
(* The joint TLB of the VR4300: what an entry matches, what a probe        *)
(* answers and how an entry is written and read (arch/tlb/tlb.c and the    *)
(* entry halves kept in vr4300/cp0.c).                                     *)
(*                                                                         *)
(* A virtual address is [place, page]: see Segments.  Two pages make one   *)
(* entry; an entry with mask 1 has pages of twice the size, which scales   *)
(* the seven page sizes down to two.                                       *)
(***************************************************************************)
EXTENDS Segments, FiniteSets

CONSTANTS Entries,          \* 32
          Group,            \* 8: entries compared by one step of the probe
          Page,             \* pages of a segment
          Asid,             \* address space identifiers
          Frame             \* page frames

ASSUME TlbAssumption ==
  /\ Entries \in Nat \ {0} /\ Group \in 1 .. Entries
  /\ Page \subseteq Nat /\ Frame \subseteq Nat
  /\ Asid \subseteq Nat /\ 0 \in Asid /\ 0 \in Frame

Index == 0 .. (Entries - 1)
Address == [place : Places, page : Page]

\* Bits 63..62 and 39..13 of an address; the rest takes no part.
Region(p) == <<Bits63To59(p) \div 8, Bits39To32(p), Bits31To29(p)>>
Vpn2(va) == <<Region(va.place), va.page \div 2>>
Vpn2Set == ((0 .. 3) \X (0 .. 2) \X (0 .. 7)) \X {p \div 2 : p \in Page}

EntryLo == [pfn : Frame, valid : BOOLEAN, dirty : BOOLEAN, cached : BOOLEAN,
            global : BOOLEAN]
EntryHi == [vpn2 : Vpn2Set, asid : Asid]
Entry == [written : BOOLEAN, mask : 0 .. 1, vpn2 : Vpn2Set, asid : Asid,
          global : BOOLEAN, lo : [0 .. 1 -> EntryLo]]

\* What tlb_init and a zeroed cp0 leave: a page mask under which every
\* address compares as 0, and a vpn2 of all ones.
EmptyLo == [pfn |-> 0, valid |-> FALSE, dirty |-> FALSE, cached |-> TRUE,
            global |-> FALSE]
LastVpn2 == <<<<3, Ones, 7>>, 0>>
ResetEntry == [written |-> FALSE, mask |-> 0, vpn2 |-> LastVpn2, asid |-> 0,
               global |-> FALSE, lo |-> [h \in 0 .. 1 |-> EmptyLo]]

-----------------------------------------------------------------------------
(* tlb_probe.                                                              *)

MaskedVpn2(vpn2, mask) ==
  <<vpn2[1], IF mask = 1 THEN vpn2[2] - (vpn2[2] % 2) ELSE vpn2[2]>>

\* The mask is applied to the address only.
MatchesVpn2(entry, vpn2) ==
  entry.written /\ MaskedVpn2(vpn2, entry.mask) = entry.vpn2
Matches(entry, vpn2, asid) ==
  MatchesVpn2(entry, vpn2) /\ (entry.asid = asid \/ entry.global)

\* for (i = 0; i < 32 / 8; i += 8)
Scanned == {i \in Index : (i \div Group) * Group < Entries \div Group}

\* Mutant: the upper lanes count for every ASID.
AnyLane(tlb, vpn2, asid) ==
  \E i \in Scanned : MatchesVpn2(tlb[i], vpn2)

\* The sixteen lanes of a compare hold the eight entries twice.  In the upper
\* eight the entries' ASIDs are zero, whatever the entries say.
ZeroLane(tlb, vpn2, asid) ==
  asid = 0 /\ \E i \in Scanned : MatchesVpn2(tlb[i], vpn2)

\* "Returns the index": -1 when the lower lanes are not one-hot.
tlb_probe(tlb, vpn2, asid) ==
  LET hits == {i \in Scanned : Matches(tlb[i], vpn2, asid)}
      miss == hits = {} /\ ~ZeroLane(tlb, vpn2, asid)
  IN [miss  |-> miss,
      index |-> IF miss THEN 0
                ELSE IF Cardinality(hits) = 1 THEN CHOOSE i \in hits : TRUE
                ELSE -1]

-----------------------------------------------------------------------------
(* tlb_write, tlb_read and the halves of an entry.                         *)

WrittenEntry(hi, pagemask, lo) ==
  [written |-> TRUE, mask |-> pagemask, vpn2 |-> hi.vpn2, asid |-> hi.asid,
   global |-> lo[0].global /\ lo[1].global, lo |-> lo]

ReadHi(entry) == [vpn2 |-> entry.vpn2, asid |-> entry.asid]

\* The half of an entry and the frame that an address selects.
Select(entry, page) ==
  IF ~entry.written THEN 0
  ELSE IF entry.mask = 1 THEN (page \div 2) % 2 ELSE page % 2
FrameOf(entry, page) ==
  LET pfn == entry.lo[Select(entry, page)].pfn
  IN IF entry.mask = 1 /\ pfn % 2 = 0 THEN pfn + (page % 2) ELSE pfn
=============================================================================
