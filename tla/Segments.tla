------------------------------ MODULE Segments ------------------------------
(***************************************************************************)
(* The address map of the VR4300 (vr4300/segment.c).                       *)
(*                                                                         *)
(* get_segment compares addresses with the bounds of a few segments; all   *)
(* of these bounds lie on four fields of an address.  An address is        *)
(* modelled by its place in their lexicographic order: bits 63..59 as a    *)
(* number, bits 58..40 and 39..32 as all zeros, mixed or all ones, and     *)
(* bits 31..29 as a number.  Comparisons of places are comparisons of      *)
(* addresses; what lies inside 2^29 bytes is the page of the address.      *)
(***************************************************************************)
EXTENDS Integers

Zeros == 0
Mixed == 1
Ones == 2
Place(top, middle, low, half) == ((top * 3 + middle) * 3 + low) * 8 + half

Bits31To29(p) == p % 8
Bits39To32(p) == (p \div 8) % 3
Bits63To59(p) == p \div 72

Places == 0 .. (Place(32, Zeros, Zeros, 0) - 1)

\* The sign extension of the low 32 bits.
SignExtended32(p) ==
  IF Bits31To29(p) < 4 THEN Place(0, Zeros, Zeros, Bits31To29(p))
                       ELSE Place(31, Ones, Ones, Bits31To29(p))

-----------------------------------------------------------------------------
(* The tables: start <= address < limit.                                   *)

Segment(start, limit, xmode, mapped, cached) ==
  [start |-> start, limit |-> limit, xmode |-> xmode,
   mapped |-> mapped, cached |-> cached]

USEG   == Segment(0, Place(0, 0, 0, 4), "ux", TRUE, FALSE)
XUSEG  == Segment(0, Place(0, 1, 0, 0), "ux", TRUE, TRUE)
XSSEG  == Segment(Place(8, 0, 0, 0), Place(8, 1, 0, 0), "sx", TRUE, TRUE)
KSEGs  == [i \in 0 .. 3 |->
            Segment(Place(31, 2, 2, 4 + i), Place(31, 2, 2, 5 + i), "kx",
                    i >= 2, i # 1)]
XKSEG  == Segment(Place(24, 0, 0, 0), Place(24, 1, 0, 0), "kx", TRUE, TRUE)
XKPHYS(i) == Segment(Place(16 + i, 0, 0, 0), Place(16 + i, 0, 1, 0), "kx",
                     FALSE, i # 2)

NULL == Segment(0, 0, "null", FALSE, FALSE)
DefaultSegment == Segment(1, 1, "none", FALSE, FALSE)

SegmentTable == {USEG, XUSEG, XSSEG, XKSEG} \cup {KSEGs[i] : i \in 0 .. 3}
                  \cup {XKPHYS(i) : i \in 0 .. 7}

Within(p, seg) == seg.start <= p /\ p < seg.limit

\* The last 2 GiB of XKSEG's entry, which get_segment does not look for.
XksegTail(p) == Place(24, 0, Ones, 4) <= p /\ p < XKSEG.limit

-----------------------------------------------------------------------------
(* get_segment.                                                            *)

StatusSet == [ksu : {"kernel", "supervisor", "user"}, exl : BOOLEAN,
              erl : BOOLEAN, kx : BOOLEAN, sx : BOOLEAN, ux : BOOLEAN]

Mode(status) == IF status.exl \/ status.erl THEN "kernel" ELSE status.ksu
Use64(status) == CASE Mode(status) = "kernel"     -> status.kx
                   [] Mode(status) = "supervisor" -> status.sx
                   [] Mode(status) = "user"       -> status.ux

\* The second assertion of get_segment, which the build keeps.
ValidAddress(p, status) == Use64(status) \/ p = SignExtended32(p)

KernelSegment(p) ==
  IF p >= KSEGs[0].start THEN KSEGs[Bits31To29(p) % 4]
  ELSE IF Place(16, 0, 0, 0) <= p /\ p < Place(24, 0, Ones, 4)
  THEN IF Bits63To59(p) < 24 THEN XKPHYS(Bits63To59(p) - 16) ELSE XKSEG
  ELSE KSEGs[2]

get_segment(p, status) ==
  LET low == IF Use64(status) THEN XUSEG ELSE USEG
      other == IF Mode(status) = "kernel" THEN KernelSegment(p) ELSE KSEGs[2]
  IN IF p < low.limit THEN low
     ELSE IF Mode(status) = "user" THEN NULL
     ELSE IF Within(p, XSSEG) THEN XSSEG
     ELSE IF Within(p, other) THEN other ELSE NULL
=============================================================================
