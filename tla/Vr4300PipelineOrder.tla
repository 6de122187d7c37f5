------------------------ MODULE Vr4300PipelineOrder -------------------------
(***************************************************************************)
(* Why instructions retire in order: what the latches of the pipeline hold *)
(* between any two stage functions.  Followed from the oldest instruction  *)
(* in flight to the fetch address, the latches spell out the execution of  *)
(* the program that continues at `flow'.                                   *)
(***************************************************************************)
EXTENDS Vr4300Pipeline

(* A latch is pending between the stage that fills it and the stage that    *)
(* reads it; what it holds is in flight when it is pending and not faulted. *)
WbHere == Position \in {"wb", "busywait", "ex", "rf", "ic"}
            /\ ~dcwb.common.fault
DcHere == Position \in {"wb", "busywait", "dc", "dcm", "rf", "ic"}
            /\ ~exdc.common.fault
ExHere == Position \in {"wb", "busywait", "dc", "dcm", "ex", "ic"}
            /\ ~rfex.common.fault
RfHere == Position # "ic" /\ ~icrf.fault

-----------------------------------------------------------------------------
(* Points of the program, p being the program.                             *)

IsBranch(p, f) == p.op[f.pc] \in Branch /\ ~f.annulled
IsEret(p, f)   == p.op[f.pc] = "eret" /\ ~f.annulled

\* Where an exception with tag v finds execution, f being where it was to go.
Reached(f, v) == IF v.to = NoJump THEN f ELSE At(v.to)

\* The point of the instruction at a that was fetched with tag v.
Point(f, v, a) == IF Trapping(v) THEN At(a) ELSE Reached(f, v)

\* The point behind the instruction of latch l, if it is in flight.
Behind(p, here, f, l, o) ==
  IF here THEN After(Point(f, l.via, l.pc), o, IsBranch(p, Point(f, l.via, l.pc)))
          ELSE f

BehindWb == Behind(program, WbHere, flow, dcwb.common, dcwb.outcome)
BehindDc == Behind(program, DcHere, BehindWb, exdc.common, exdc.outcome)
BehindEx == Behind(program, ExHere, BehindDc, rfex.common, NoOutcome)
BehindRf == Behind(program, RfHere, BehindEx, icrf, NoOutcome)

-----------------------------------------------------------------------------
(* The invariant.                                                          *)

\* The fetch of address a with tag v is right when f is to execute next.
FetchFits(p, f, v, a) ==
  /\ a = Point(f, v, a).pc
  /\ v.kind = "next" <=> (~Trapping(v) /\ v.to = NoJump)
  /\ v.kind = "eret" => IsEret(p, f)
  /\ v.kind = "reset" => f = At(v.to)
  /\ Trapping(v) => a \in {RefillVec, GeneralVec}
  /\ v.kind = "precise" =>
       /\ v.bd = Reached(f, v).slot
       /\ Reached(f, v).pc = IF v.bd THEN Succ(v.epc) ELSE v.epc

Fits(p, f, l) ==
  /\ FetchFits(p, f, l.via, l.pc)
  /\ ~Trapping(l.via) => l.bd = Reached(f, l.via).slot

\* Latch l, with outcome o and destination d, has been through EX.
Executed(p, f, l, o, d) ==
  LET q == Point(f, l.via, l.pc)
  IN /\ Fits(p, f, l)
     /\ ~IsEret(p, q)
     /\ l.killed = q.annulled
     /\ o.jump # NoJump => IsBranch(p, q)
     /\ d = "cycle_type" =>
          p.op[l.pc] = "j" /\ p.target[l.pc] = l.pc /\ ~l.killed

InOrder ==
  /\ WbHere => Executed(program, flow, dcwb.common, dcwb.outcome, dcwb.dest)
  /\ DcHere => Executed(program, BehindWb, exdc.common, exdc.outcome, exdc.dest)
  /\ ExHere => Fits(program, BehindDc, rfex.common)
  /\ RfHere => Fits(program, BehindEx, icrf)
  /\ FetchFits(program, BehindRf, icVia, icPc)

\* What was fetched behind a latch was redirected iff the latch was faulted.
Follows(l, v) == l.fault = (v.kind # "next")

Linked ==
  /\ Position \in {"wb", "busywait", "rf", "ic"} /\ DcHere =>
       Follows(dcwb.common, exdc.common.via)
  /\ Position \in {"wb", "busywait", "dc", "dcm", "ic"} /\ ExHere =>
       Follows(exdc.common, rfex.common.via)
  /\ Position = "ex" /\ ExHere => Follows(dcwb.common, rfex.common.via)
  /\ Position \notin {"rf", "ic"} /\ RfHere => Follows(rfex.common, icrf.via)
  /\ Position = "rf" /\ RfHere => Follows(exdc.common, icrf.via)
  /\ Position = "ic" => Follows(rfex.common, icVia)
  /\ Position # "ic" => Follows(icrf, icVia)

\* IC masks exactly the slots that were annulled.
Masking ==
  /\ Position \notin {"rf", "ic"} /\ RfHere => ~rfex.annul
  /\ Position = "rf" /\ RfHere =>
       rfex.annul = Point(BehindEx, icrf.via, icrf.pc).annulled
  /\ Position = "ic" /\ ExHere =>
       rfex.annul = Point(BehindDc, rfex.common.via, rfex.common.pc).annulled
  /\ Position \notin {"rf", "ic"} /\ ExHere =>
       rfex.common.killed =
         Point(BehindDc, rfex.common.via, rfex.common.pc).annulled

\* The word that decides whether the next fetch is a delay slot is no branch
\* when that fetch was redirected by a reset or an ERET.
NoStaleBranch ==
  icVia.kind \in {"reset", "eret"} => rfex.annul \/ rfex.iw \notin Branch

\* EXL is set until the first instruction of a handler is through DC.
LevelHeld ==
  /\ Trapping(icVia) => status.exl
  /\ RfHere /\ Trapping(icrf.via) => status.exl
  /\ ExHere /\ Trapping(rfex.common.via) => status.exl
  /\ DcHere /\ Trapping(exdc.common.via) => status.exl

\* In RFEX is the instruction its address names.
Decoded ==
  /\ Position \notin {"rf", "ic"} /\ ExHere =>
       /\ rfex.op = rfex.iw
       /\ rfex.op = IF rfex.common.killed THEN "nop"
                    ELSE program.op[rfex.common.pc]
  /\ Position = "ic" /\ ExHere => rfex.iw = program.op[rfex.common.pc]

Accesses(l) == program.op[l.pc] \in {"lw", "sw", "cache"} /\ ~l.killed

\* An access is made between EX and WB.
AccessPending ==
  /\ DcHere => ~exdc.outcome.accessed
  /\ DcHere /\ Accesses(exdc.common) => exdc.request # "none"
  /\ WbHere /\ Accesses(dcwb.common) => dcwb.outcome.accessed

\* The cycle type within a pass is one that could have started it.
TypesOfPass ==
  /\ stage = "wb" => cycleType = 0
  /\ stage = "dc" => cycleType \in {0, 1, 5}
  /\ stage = "ex" => cycleType \in {0, 1, 2, 5}
  /\ stage \in {"rf", "ic"} /\ ~slow => cycleType \in {0, 5}
  /\ stage \in {"dc", "ex"} /\ ~slow => cycleType \in {0, 5}
  /\ stage = "busywait" => cycleType = 5

\* The busy-wait mode is on, or will be at the end of this pass.
Waiting == cycleType = 5 /\ (Position = "busywait" \/ ~slow)

Oldest == IF Position \in {"dc", "dcm"} THEN exdc.common ELSE dcwb.common

\* The jump to itself has retired, its slot is the next to retire.
WaitingInSlot ==
  Waiting => ~faultPresent /\ flow.slot /\ Oldest.via.kind = "next"

SlotsFollow ==
  IF flow.slot THEN program.op[Pred(flow.pc)] \in Branch
               ELSE flow.npc = Succ(flow.pc)

WaitingAfterJump ==
  Waiting => /\ program.op[Pred(flow.pc)] = "j"
             /\ program.target[Pred(flow.pc)] = Pred(flow.pc)

\* Until the reset is taken the core is as it was built.
Cold ==
  /\ stage \in {"cycle", "wb", "dc"} /\ cycleType = 0
  /\ ~slow /\ ~faultPresent
  /\ exdc.common = Zero /\ dcwb.common = Zero
  /\ ~exdc.outcome.accessed
  /\ exdc.dest = "gpr" /\ dcwb.dest = "gpr"
  /\ rfex.annul

AccessInv ==
  /\ TypesOfPass
  /\ coldReset => Cold
  /\ ~coldReset => Decoded /\ AccessPending

InFlight == InOrder /\ Linked /\ Masking /\ NoStaleBranch /\ LevelHeld

Pausing == /\ WaitingInSlot
           /\ PlainSlots => SlotsFollow /\ WaitingAfterJump

FlowInv == InFlight /\ Pausing

\* The latches spell out the program from `flow' on, in every program that
\* respects the hypotheses of InOrderRetirement.
OrderInv ==
  /\ AccessInv
  /\ ~coldReset /\ Defined /\ Handled => FlowInv
=============================================================================
