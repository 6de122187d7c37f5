------------------------ MODULE Vr4300PipelineProofs ------------------------
(***************************************************************************)
(* For every program, address space and delay: first the types, and the    *)
(* reason the fast driver may ignore the fault fields (IInv); then, with   *)
(* OrderInv, that instructions retire in program order, exceptions are     *)
(* precise, accesses are made once and the busy wait is sound.             *)
(***************************************************************************)
EXTENDS Vr4300PipelineOrder, TLAPS

\* FastModeClean alone is not inductive: when WB switches back to the fast
\* driver, only FaultsDrain tells that the latches are clean by then.
IInv == TypeOK /\ FaultsDrain /\ FastModeClean

LEMMA AddrClosed == \A a \in Addr : Succ(a) \in Addr /\ Pred(a) \in Addr
  BY SizeAssumption DEF Addr, Succ, Pred

LEMMA InitInv == Init => IInv
<1> SUFFICES ASSUME Init PROVE IInv
  OBVIOUS
<1>1. TypeOK
  <2>1. 0 \in Addr /\ Succ(0) \in Addr
    BY SizeAssumption, AddrClosed DEF Addr
  <2>2. Onward \in Via /\ Zero \in Common /\ NoOutcome \in Outcome
    <3>1. Onward \in Via
      BY <2>1 DEF Onward, Via
    <3>2. QED
      BY <2>1, <3>1 DEF Zero, Common, NoOutcome, Outcome
  <2>3. rfex \in RfexLatch /\ exdc \in ExdcLatch /\ dcwb \in DcwbLatch
    BY <2>2 DEF Init, RfexLatch, ExdcLatch, DcwbLatch, Op, Dest, Request
  <2>4. flow \in Flow /\ status \in Status
    BY <2>1 DEF Init, At, Flow, Status
  <2>5. BootPc \in Addr
    BY AddrAssumption
  <2>6. cycleType \in 0 .. 6 /\ stall \in Nat /\ hist \in 0 .. 5
    BY DEF Init
  <2>7. /\ slow \in BOOLEAN /\ faultPresent \in BOOLEAN /\ bd \in BOOLEAN
        /\ irq \in BOOLEAN /\ coldReset \in BOOLEAN
    BY Zenon DEF Init
  <2>8. icPc \in Addr /\ icVia \in Via /\ icrf \in Common /\ epc \in Addr
    BY <2>1, <2>2, <2>5 DEF Init
  <2>9. program \in Programs /\ stage = "cycle"
    BY DEF Init
  <2>10. QED
    BY <2>3, <2>4, <2>6, <2>7, <2>8, <2>9, Zenon DEF TypeOK
<1>2. FaultsDrain
  BY DEF Init, FaultsDrain, Zero
<1>3. FastModeClean
  BY DEF Init, FastModeClean, Zero
<1>4. QED
  BY <1>1, <1>2, <1>3 DEF IInv

LEMMA ViaTypes ==
  /\ Onward \in Via
  /\ By("reset", BootPc) \in Via
  /\ \A a \in Addr : By("eret", a) \in Via
<1>1. 0 \in Addr /\ BootPc \in Addr
  BY SizeAssumption, AddrAssumption DEF Addr
<1>2. Onward \in Via
  BY <1>1 DEF Onward, Via
<1>3. QED
  BY <1>1, <1>2 DEF By, Via

\* An exception leaves a well-typed state when the latches do.
LEMMA ExceptionType ==
  ASSUME TypeOK, NEW l \in Common, NEW vector \in Addr, Exception(l, vector),
         icrf' \in Common,
         rfex' \in RfexLatch, exdc' \in ExdcLatch, dcwb' \in DcwbLatch
  PROVE  TypeOK'
<1>1. Pred(l.pc) \in Addr /\ l.pc \in Addr /\ l.bd \in BOOLEAN
  BY AddrClosed DEF Common
<1>2. status' \in Status
  BY DEF Exception, TypeOK, Status
<1>3. icVia' \in Via
  <2>1. l.via.to \in Addr \cup {NoJump}
    BY DEF Common, Via
  <2>2. epc' \in Addr /\ bd' \in BOOLEAN
    BY <1>1 DEF Exception, TypeOK
  <2>3. TrapKind \in {"precise", "nested", "overlap"}
    BY DEF TrapKind
  <2>4. QED
    BY <2>1, <2>2, <2>3 DEF Exception, Via
<1>4. stall' \in Nat /\ cycleType' \in 0 .. 6
  BY DelayAssumption DEF Exception, Interlock
<1>5. epc' \in Addr /\ bd' \in BOOLEAN
  BY <1>1 DEF Exception, TypeOK
<1>6. QED
  BY <1>1, <1>2, <1>3, <1>4, <1>5 DEF Exception, TypeOK, EndCycle

\* An exception restarts the count, which asks nothing of the latches but
\* that IC did not fault alone.
LEMMA ExceptionDrain ==
  ASSUME NEW l, NEW vector, Exception(l, vector),
         icrf'.fault => rfex'.common.fault
  PROVE  FaultsDrain'
<1>1. stage' = "cycle" /\ cycleType' = 0 /\ hist' = 0
  BY DEF Exception, EndCycle, Interlock
<1>2. Position' = "wb"
  BY <1>1 DEF Position, Lut
<1>3. QED
  BY <1>1, <1>2 DEF FaultsDrain

-----------------------------------------------------------------------------
(* Types of the latches the stages build.                                  *)

LEMMA LatchTypes ==
  ASSUME TypeOK
  PROVE  /\ \A l \in Common : Faulted(l) \in Common
         /\ DcLatched \in DcwbLatch
         /\ ExLatched \in ExdcLatch
         /\ Expected \in Flow
         /\ At(dcwb.common.pc) \in Flow
         /\ \A f \in Flow, o \in Outcome, b \in BOOLEAN :
              After(f, o, b) \in Flow
<1>1. \A l \in Common : Faulted(l) \in Common
  BY DEF Common, Faulted
<1>2. DcLatched \in DcwbLatch
  BY DEF TypeOK, DcLatched, DcwbLatch, ExdcLatch
<1>3. ExLatched \in ExdcLatch
  BY DEF TypeOK, ExLatched, ExdcLatch, RfexLatch, NoOutcome, Outcome, NoJump,
         Dest, Request
<1>4. \A a \in Addr : At(a) \in Flow
  BY AddrClosed DEF At, Flow
<1>5. Expected \in Flow /\ At(dcwb.common.pc) \in Flow
  BY <1>4 DEF TypeOK, Expected, DcwbLatch, Common, Via
<1>6. \A f \in Flow, o \in Outcome, b \in BOOLEAN : After(f, o, b) \in Flow
  BY AddrClosed DEF After, Flow, Outcome, NoJump
<1>7. QED
  BY <1>1, <1>2, <1>3, <1>5, <1>6

-----------------------------------------------------------------------------
(* Every stage preserves the types.                                        *)

LEMMA CycleType ==
  ASSUME TypeOK, StallCycle \/ RunCycle
  PROVE  TypeOK'
<1>1. irq' \in BOOLEAN
  BY DEF TypeOK, StallCycle, RunCycle, Tick
<1>2. CASE StallCycle
  BY <1>1, <1>2 DEF TypeOK, StallCycle, latches, fetch
<1>3. CASE RunCycle
  <2>1. stage' \in {"cycle", "wb", "dc", "ex", "rf", "ic", "busywait", "dcm"}
    BY <1>3 DEF RunCycle, Lut, TypeOK
  <2>2. slow' \in BOOLEAN
    BY <1>3 DEF RunCycle, TypeOK
  <2>3. QED
    BY <1>1, <1>3, <2>1, <2>2 DEF TypeOK, RunCycle, latches, control, fetch
<1>4. QED
  BY <1>2, <1>3

LEMMA WbType ==
  ASSUME TypeOK, FaultsDrain, WbStage
  PROVE  TypeOK'
<1>1. hist' \in 0 .. 5 /\ faultPresent' \in BOOLEAN
  <2>1. CASE slow
    <3>1. hist' = hist + 1 /\ faultPresent' = (faultPresent /\ hist <= 3)
      BY <2>1 DEF WbStage, WbRetire, WbSkip, SlowPass
    <3>2. faultPresent
      BY <2>1 DEF FaultsDrain, WbStage, WbRetire, WbSkip
    <3>3. hist \in 0 .. 4
      BY <3>2 DEF TypeOK, FaultsDrain
    <3>4. hist' \in 0 .. 5
      BY <3>1, <3>3
    <3>5. faultPresent' \in BOOLEAN
      BY <3>1, Zenon
    <3>6. QED
      BY <3>4, <3>5
  <2>2. CASE ~slow
    BY <2>2 DEF TypeOK, WbStage, WbRetire, WbSkip, SlowPass
  <2>3. QED
    BY <2>1, <2>2
<1>2. CASE WbRetire
  <2>1. cycleType' \in 0 .. 6
    BY <1>2 DEF WbRetire, TypeOK
  <2>2. flow' \in Flow
    <3>1. dcwb.outcome \in Outcome
      BY DEF TypeOK, DcwbLatch
    <3>2. QED
      BY <1>2, <3>1, LatchTypes DEF WbRetire
  <2>3. QED
    BY <1>1, <1>2, <2>1, <2>2 DEF TypeOK, WbRetire, latches, fetch, cp0
<1>3. CASE WbSkip
  BY <1>1, <1>3 DEF TypeOK, WbSkip, latches, cp0, fetch
<1>4. QED
  BY <1>2, <1>3 DEF WbStage


\* Faulting the latches keeps their types.
LEMMA FaultTypes ==
  ASSUME TypeOK
  PROVE  /\ \A l \in Common : DcFault(l) =>
              dcwb' \in DcwbLatch /\ exdc' \in ExdcLatch
                /\ rfex' \in RfexLatch /\ icrf' \in Common
         /\ \A e \in ExdcLatch : ExFault(e) =>
              dcwb' \in DcwbLatch /\ exdc' \in ExdcLatch
                /\ rfex' \in RfexLatch /\ icrf' \in Common
         /\ RfFault =>
              dcwb' \in DcwbLatch /\ exdc' \in ExdcLatch
                /\ rfex' \in RfexLatch /\ icrf' \in Common
<1>1. Faulted(icrf) \in Common
  BY LatchTypes DEF TypeOK
<1>2. [rfex EXCEPT !.common.fault = TRUE] \in RfexLatch
  BY DEF TypeOK, RfexLatch, Common
<1>3. \A e \in ExdcLatch : [e EXCEPT !.common.fault = TRUE] \in ExdcLatch
  BY DEF ExdcLatch, Common
<1>4. ASSUME NEW l \in Common, DcFault(l)
      PROVE  /\ dcwb' \in DcwbLatch /\ exdc' \in ExdcLatch
             /\ rfex' \in RfexLatch /\ icrf' \in Common
  <2>1. Faulted(l) \in Common
    BY LatchTypes
  <2>2. dcwb' \in DcwbLatch
    BY <1>4, <2>1 DEF DcFault, TypeOK, DcwbLatch, ExdcLatch
  <2>3. exdc' \in ExdcLatch
    BY <1>3, <1>4 DEF DcFault, TypeOK
  <2>4. QED
    BY <1>1, <1>2, <1>4, <2>2, <2>3 DEF DcFault
<1>5. ASSUME NEW e \in ExdcLatch, ExFault(e)
      PROVE  /\ dcwb' \in DcwbLatch /\ exdc' \in ExdcLatch
             /\ rfex' \in RfexLatch /\ icrf' \in Common
  BY <1>1, <1>2, <1>3, <1>5 DEF ExFault, TypeOK
<1>6. ASSUME RfFault
      PROVE  /\ dcwb' \in DcwbLatch /\ exdc' \in ExdcLatch
             /\ rfex' \in RfexLatch /\ icrf' \in Common
  <2>1. rfex' \in RfexLatch
    BY <1>1, <1>6 DEF RfFault, TypeOK, RfexLatch
  <2>2. QED
    BY <1>1, <1>6, <2>1 DEF RfFault, TypeOK
<1>7. QED
  BY <1>4, <1>5, <1>6

LEMMA VectorType == TypeOK => \A miss \in BOOLEAN : TlbVector(miss) \in Addr
  BY AddrAssumption DEF TlbVector

\* The types after a DC step that changes no more than these variables.
LEMMA DcType ==
  ASSUME TypeOK, DcStage \/ DcmFill
  PROVE  TypeOK'
<1>0. /\ exdc.common \in Common /\ exdc.outcome \in Outcome
      /\ GeneralVec \in Addr /\ BootPc \in Addr
      /\ 0 \in Nat /\ MemoryDelay \in Nat /\ DcacheDelay \in Nat
      /\ EpilogueStall \in Nat
  BY AddrAssumption, DelayAssumption DEF TypeOK, ExdcLatch
<1>1. CASE DcSkip
  <2>1. dcwb' \in DcwbLatch
    BY <1>1 DEF DcSkip, TypeOK, DcwbLatch, ExdcLatch, Dest, NoOutcome,
                Outcome, NoJump
  <2>2. QED
    BY <1>1, <2>1 DEF DcSkip, TypeOK, control, cp0, fetch
<1>2. CASE DcReset
  <2>1. /\ dcwb' \in DcwbLatch /\ exdc' \in ExdcLatch
        /\ rfex' \in RfexLatch /\ icrf' \in Common
    BY <1>0, <1>2, FaultTypes DEF DcReset
  <2>2. By("reset", BootPc) \in Via
    BY <1>0, ViaTypes
  <2>3. At(BootPc) \in Flow
    BY <1>0, AddrClosed DEF At, Flow
  <2>4. status' \in Status
    BY <1>2 DEF DcReset, Status
  <2>5. /\ cycleType' \in 0 .. 6 /\ stall' \in Nat /\ hist' \in 0 .. 5
        /\ icPc' \in Addr /\ icVia' \in Via /\ stage' = "cycle"
        /\ flow' \in Flow
    BY <1>0, <1>2, <2>2, <2>3 DEF DcReset, Interlock, EndCycle
  <2>6. faultPresent' \in BOOLEAN /\ coldReset' \in BOOLEAN
    BY <1>2, Zenon DEF DcReset
  <2>7. /\ UNCHANGED <<program, slow, epc, bd, irq>>
    BY <1>2 DEF DcReset
  <2>8. QED
    BY <2>1, <2>4, <2>5, <2>6, <2>7 DEF TypeOK
<1>3. CASE DcInterrupt
  BY <1>0, <1>3, FaultTypes, ExceptionType DEF DcInterrupt
<1>4. CASE DcTlbFault
  <2>1. PICK miss \in BOOLEAN : Exception(exdc.common, TlbVector(miss))
    BY <1>4 DEF DcTlbFault
  <2>2. TlbVector(miss) \in Addr
    BY VectorType
  <2>3. QED
    BY <1>0, <1>4, <2>1, <2>2, FaultTypes, ExceptionType DEF DcTlbFault
<1>5. CASE DcWatch
  BY <1>0, <1>5, FaultTypes, ExceptionType DEF DcWatch
<1>6. CASE DcNoRequest
  BY <1>6, LatchTypes DEF DcNoRequest, TypeOK, control, cp0, fetch
<1>7. DEFINE accessed == [exdc EXCEPT !.outcome.accessed = TRUE]
             present == [exdc EXCEPT !.resident = TRUE]
<1>8. accessed \in ExdcLatch /\ present \in ExdcLatch
  BY DEF TypeOK, ExdcLatch, Outcome
<1>9. \A b \in BOOLEAN :
        /\ [DcLatched EXCEPT !.lastStore = b] \in DcwbLatch
        /\ [DcLatched EXCEPT !.lastStore = b, !.outcome.accessed = TRUE]
             \in DcwbLatch
        /\ [DcLatched EXCEPT !.outcome.accessed = TRUE] \in DcwbLatch
  BY LatchTypes DEF DcwbLatch, Outcome
<1>10. CASE DcUncached
  <2>1. dcwb' \in DcwbLatch /\ exdc' \in ExdcLatch
    BY <1>8, <1>9, <1>10 DEF DcUncached
  <2>2. QED
    BY <1>0, <1>10, <2>1 DEF DcUncached, TypeOK, Interlock, EndCycle, cp0, fetch
<1>11. CASE DcMiss
  <2>1. (exdc.request = "write") \in BOOLEAN
    OBVIOUS
  <2>2. dcwb' \in DcwbLatch
    BY <1>9, <1>11, <2>1 DEF DcMiss
  <2>3. QED
    BY <1>0, <1>11, <2>2 DEF DcMiss, TypeOK, Interlock, EndCycle, cp0, fetch
<1>12. CASE DcBusy
  <2>1. dcwb' \in DcwbLatch /\ exdc' \in ExdcLatch
    BY <1>8, <1>9, <1>12 DEF DcBusy
  <2>2. QED
    BY <1>0, <1>12, <2>1 DEF DcBusy, TypeOK, Interlock, EndCycle, cp0, fetch
<1>13. CASE DcHit
  <2>1. (exdc.request = "write") \in BOOLEAN
    OBVIOUS
  <2>2. dcwb' \in DcwbLatch /\ exdc' \in ExdcLatch
    BY <1>8, <1>9, <1>13, <2>1 DEF DcHit
  <2>3. QED
    BY <1>13, <2>2 DEF DcHit, TypeOK, control, cp0, fetch
<1>14. CASE DcCacheOp
  <2>1. dcwb' \in DcwbLatch /\ exdc' \in ExdcLatch
    BY <1>8, <1>9, <1>14 DEF DcCacheOp
  <2>2. QED
    BY <1>0, <1>14, <2>1 DEF DcCacheOp, TypeOK, Interlock, EndCycle, control,
                             cp0, fetch
<1>15. CASE DcmFill
  <2>1. exdc' \in ExdcLatch
    BY <1>8, <1>15 DEF DcmFill
  <2>2. QED
    BY <1>0, <1>15, <2>1 DEF DcmFill, TypeOK, Interlock, EndCycle, cp0, fetch
<1>16. QED
  BY <1>1, <1>2, <1>3, <1>4, <1>5, <1>6, <1>10, <1>11, <1>12, <1>13, <1>14,
     <1>15 DEF DcStage

LEMMA ExType ==
  ASSUME TypeOK, ExStage
  PROVE  TypeOK'
<1>0. /\ rfex.common \in Common /\ rfex.common.pc \in Addr
      /\ GeneralVec \in Addr /\ ErrorEpc \in Addr
      /\ 0 \in Nat /\ MciDelay \in Nat
  BY AddrAssumption, DelayAssumption DEF TypeOK, RfexLatch, Common
<1>1. ExLatched \in ExdcLatch
  BY LatchTypes
<1>2. CASE ExSkip
  <2>1. exdc' \in ExdcLatch
    BY <1>0, <1>2 DEF ExSkip, TypeOK, ExdcLatch, Dest
  <2>2. QED
    BY <1>2, <2>1 DEF ExSkip, TypeOK, control, cp0, fetch
<1>3. CASE ExUnusable
  <2>1. [exdc EXCEPT !.common = rfex.common] \in ExdcLatch
    BY <1>0 DEF TypeOK, ExdcLatch
  <2>2. QED
    BY <1>0, <1>3, <2>1, FaultTypes, ExceptionType DEF ExUnusable
<1>4. CASE ExLoadDelay
  <2>1. exdc' \in ExdcLatch
    BY <1>0, <1>4 DEF ExLoadDelay, TypeOK, ExdcLatch, Request
  <2>2. QED
    BY <1>0, <1>4, <2>1 DEF ExLoadDelay, TypeOK, Interlock, EndCycle, cp0, fetch
<1>5. CASE ExCompute
  BY <1>1, <1>5 DEF ExCompute, ExDone, TypeOK, control, cp0, fetch
<1>6. CASE ExAccess
  <2>1. exdc' \in ExdcLatch
    BY <1>1, <1>6 DEF ExAccess, ExdcLatch, Request
  <2>2. QED
    BY <1>6, <2>1 DEF ExAccess, ExDone, TypeOK, control, cp0, fetch
<1>7. CASE ExMultiCycle
  BY <1>0, <1>1, <1>7 DEF ExMultiCycle, TypeOK, Interlock, EndCycle, cp0, fetch
<1>8. CASE ExBranchTaken
  <2>1. program.target[rfex.common.pc] \in Addr
    BY <1>0, ProgramAssumption DEF TypeOK
  <2>2. exdc' \in ExdcLatch
    BY <1>1, <1>8, <2>1 DEF ExBranchTaken, ExdcLatch, Dest, Outcome
  <2>3. QED
    BY <1>8, <2>1, <2>2 DEF ExBranchTaken, ExDone, TypeOK, control, cp0, fetch
<1>9. CASE ExBranchNotTaken
  <2>1. (rfex.op = "beql") \in BOOLEAN
    OBVIOUS
  <2>2. rfex' \in RfexLatch
    BY <1>9, <2>1 DEF ExBranchNotTaken, TypeOK, RfexLatch
  <2>3. exdc' \in ExdcLatch
    BY <1>1, <1>9, <2>1 DEF ExBranchNotTaken, ExdcLatch, Outcome
  <2>4. QED
    BY <1>9, <2>2, <2>3 DEF ExBranchNotTaken, ExDone, TypeOK, control, cp0,
                            fetch
<1>10. CASE ExMoveToStatus
  <2>1. status' \in Status
    BY <1>10 DEF ExMoveToStatus, Status
  <2>2. QED
    BY <1>1, <1>10, <2>1 DEF ExMoveToStatus, ExDone, TypeOK, control, fetch
<1>11. CASE ExMoveToCompare
  <2>1. irq' \in BOOLEAN
    BY <1>11, Zenon DEF ExMoveToCompare
  <2>2. QED
    BY <1>1, <1>11, <2>1 DEF ExMoveToCompare, ExDone, TypeOK, control, fetch
<1>12. CASE ExEret
  <2>1. icPc' \in Addr /\ icVia' \in Via
    BY <1>0, <1>12, ViaTypes DEF ExEret, TypeOK
  <2>2. status' \in Status
    BY <1>12 DEF ExEret, TypeOK, Status
  <2>3. [ExLatched EXCEPT !.common.fault = TRUE] \in ExdcLatch
    BY <1>1 DEF ExdcLatch, Common
  <2>4. [rfex EXCEPT !.common.fault = TRUE] \in RfexLatch
    BY DEF TypeOK, RfexLatch, Common
  <2>5. exdc' \in ExdcLatch /\ rfex' \in RfexLatch
    BY <1>12, <2>3, <2>4 DEF ExEret
  <2>6. cycleType' \in 0 .. 6 /\ hist' \in 0 .. 5 /\ stage' = "cycle"
    BY <1>12 DEF ExEret, EndCycle
  <2>7. faultPresent' \in BOOLEAN
    BY <1>12, Zenon DEF ExEret
  <2>8. UNCHANGED <<program, slow, icrf, dcwb, stall, epc, bd, irq, coldReset,
                    flow>>
    BY <1>12 DEF ExEret
  <2>9. QED
    BY <2>1, <2>2, <2>5, <2>6, <2>7, <2>8 DEF TypeOK
<1>13. CASE ExTrap
  BY <1>0, <1>1, <1>13, FaultTypes, ExceptionType DEF ExTrap
<1>14. CASE ExTrapUndefined
  BY <1>1, <1>14 DEF ExTrapUndefined, TypeOK, control, cp0, fetch
<1>15. QED
  BY <1>2, <1>3, <1>4, <1>5, <1>6, <1>7, <1>8, <1>9, <1>10, <1>11, <1>12,
     <1>13, <1>14 DEF ExStage

LEMMA RfType ==
  ASSUME TypeOK, RfStage
  PROVE  TypeOK'
<1>0. icrf.pc \in Addr /\ MemoryDelay \in Nat /\ IcacheDelay \in Nat
  BY DelayAssumption DEF TypeOK, Common
<1>1. CASE RfSkip
  <2>1. rfex' \in RfexLatch
    BY <1>1 DEF RfSkip, TypeOK, RfexLatch
  <2>2. QED
    BY <1>1, <2>1 DEF RfSkip, TypeOK, control, cp0, fetch
<1>2. CASE RfTlbFault
  <2>1. PICK miss \in BOOLEAN : Exception(icrf, TlbVector(miss))
    BY <1>2 DEF RfTlbFault
  <2>2. TlbVector(miss) \in Addr /\ icrf \in Common
    BY VectorType DEF TypeOK
  <2>3. QED
    BY <1>2, <2>1, <2>2, FaultTypes, ExceptionType DEF RfTlbFault
<1>3. ASSUME RfBusy \/ RfFetch
      PROVE  rfex' \in RfexLatch
  <2>1. program.op[icrf.pc] \in Op
    BY <1>0, ProgramAssumption DEF TypeOK
  <2>2. QED
    BY <1>3, <2>1 DEF RfBusy, RfFetch, TypeOK, RfexLatch
<1>4. CASE RfBusy
  BY <1>0, <1>3, <1>4 DEF RfBusy, TypeOK, Interlock, EndCycle, cp0, fetch
<1>5. CASE RfFetch
  BY <1>3, <1>5 DEF RfFetch, TypeOK, control, cp0, fetch
<1>6. QED
  BY <1>1, <1>2, <1>4, <1>5 DEF RfStage

LEMMA IcType ==
  ASSUME TypeOK, IcStage
  PROVE  TypeOK'
<1> DEFINE word == IF rfex.annul THEN "nop" ELSE rfex.iw
<1>1. word \in Op /\ rfex.annul \in BOOLEAN
  BY DEF TypeOK, RfexLatch, Op
<1>2. rfex' \in RfexLatch
  BY <1>1 DEF IcStage, TypeOK, RfexLatch, Common
<1>3. (word \in Branch) \in BOOLEAN
  OBVIOUS
<1>4. icrf' \in Common
  BY <1>3 DEF IcStage, TypeOK, Common
<1>5. icPc' \in Addr /\ icVia' \in Via
  BY AddrClosed, ViaTypes DEF IcStage, TypeOK
<1>6. cycleType' \in 0 .. 6
  BY DEF IcStage, TypeOK
<1>7. QED
  BY <1>2, <1>4, <1>5, <1>6 DEF IcStage, TypeOK, EndCycle, cp0, fetch

LEMMA BusyWaitType ==
  ASSUME TypeOK, BusyWait
  PROVE  TypeOK'
<1>1. CASE BusyWaitOver
  <2>1. /\ dcwb' \in DcwbLatch /\ exdc' \in ExdcLatch
        /\ rfex' \in RfexLatch
    BY <1>1 DEF BusyWaitOver, TypeOK, DcwbLatch, ExdcLatch, RfexLatch, Common
  <2>2. icrf' \in Common
    BY <1>1, LatchTypes DEF BusyWaitOver, TypeOK
  <2>3. dcwb.common \in Common /\ GeneralVec \in Addr
    BY AddrAssumption DEF TypeOK, DcwbLatch
  <2>4. QED
    BY <1>1, <2>1, <2>2, <2>3, ExceptionType DEF BusyWaitOver
<1>2. CASE BusyWaitOn
  BY <1>2 DEF BusyWaitOn, TypeOK, EndCycle, latches, control, cp0, fetch
<1>3. QED
  BY <1>1, <1>2 DEF BusyWait

LEMMA StepType ==
  ASSUME IInv, [Next]_vars
  PROVE  TypeOK'
<1> USE DEF IInv
<1>1. CASE StallCycle \/ RunCycle
  BY <1>1, CycleType
<1>2. CASE WbStage
  BY <1>2, WbType
<1>3. CASE DcStage \/ DcmFill
  BY <1>3, DcType
<1>4. CASE ExStage
  BY <1>4, ExType
<1>5. CASE RfStage
  BY <1>5, RfType
<1>6. CASE IcStage
  BY <1>6, IcType
<1>7. CASE BusyWait
  BY <1>7, BusyWaitType
<1>8. CASE UNCHANGED vars
  BY <1>8 DEF vars, latches, control, cp0, fetch, TypeOK
<1>9. QED
  BY <1>1, <1>2, <1>3, <1>4, <1>5, <1>6, <1>7, <1>8 DEF Next

-----------------------------------------------------------------------------
(* Every stage lets the faults drain.                                      *)

LEMMA CycleDrain ==
  ASSUME TypeOK, FaultsDrain, StallCycle \/ RunCycle
  PROVE  FaultsDrain'
<1>1. CASE StallCycle
  BY <1>1 DEF StallCycle, FaultsDrain, Position, latches
<1>2. CASE RunCycle
  <2>1. Position' = Position
    BY <1>2 DEF RunCycle, Position, Lut, TypeOK
  <2>2. stage' = "wb" /\ slow' => faultPresent'
    BY <1>2 DEF RunCycle, Lut, TypeOK, control
  <2>3. ~slow' => ~faultPresent'
    BY <1>2 DEF RunCycle, control
  <2>4. UNCHANGED <<latches, hist, faultPresent>>
    BY <1>2 DEF RunCycle, latches, control
  <2>5. QED
    BY <2>1, <2>2, <2>3, <2>4 DEF FaultsDrain, latches
<1>3. QED
  BY <1>1, <1>2

\* WB counts the pass: every threshold moves up with the count, and the pass
\* that switches back is the fifth, with nothing left to drain.
LEMMA WbDrain ==
  ASSUME TypeOK, FaultsDrain, WbStage
  PROVE  FaultsDrain'
<1>1. stage = "wb" /\ stage' = "dc" /\ slow' = slow /\ UNCHANGED latches
  BY DEF WbStage, WbRetire, WbSkip
<1>2. Position = "wb" /\ Position' = "dc"
  BY <1>1 DEF Position
<1>3. CASE slow
  <2>1. hist' = hist + 1 /\ faultPresent' = (faultPresent /\ hist <= 3)
    BY <1>3 DEF WbStage, WbRetire, WbSkip, SlowPass
  <2>2. faultPresent /\ hist \in Nat
    BY <1>1, <1>3 DEF FaultsDrain, TypeOK
  <2>3. hist' = hist + 1 /\ (faultPresent' => hist <= 3)
    <3>1. faultPresent' => hist <= 3
      BY <2>1, Zenon
    <3>2. QED
      BY <2>1, <3>1
  <2>4. QED
    BY <1>1, <1>2, <1>3, <2>2, <2>3 DEF FaultsDrain, latches
<1>4. CASE ~slow
  <2>1. ~faultPresent'
    BY <1>1, <1>4 DEF FaultsDrain, WbStage, WbRetire, WbSkip, SlowPass
  <2>2. QED
    BY <1>1, <1>4, <2>1 DEF FaultsDrain, latches
<1>5. QED
  BY <1>3, <1>4

LEMMA DcDrain ==
  ASSUME TypeOK, FaultsDrain, DcStage \/ DcmFill
  PROVE  FaultsDrain'
<1>0. hist \in Nat /\ dcwb \in DcwbLatch /\ exdc \in ExdcLatch
  BY DEF TypeOK
<1>1. CASE DcSkip
  <2>1. Position = "dc" /\ Position' = "ex"
    BY <1>1 DEF DcSkip, Position
  <2>2. dcwb'.common = exdc.common
    BY <1>0, <1>1 DEF DcSkip, DcwbLatch
  <2>3. QED
    BY <1>0, <1>1, <2>1, <2>2 DEF DcSkip, FaultsDrain, control
<1>2. ASSUME NEW l \in Common, DcFault(l)
      PROVE  icrf'.fault /\ rfex'.common.fault
  BY <1>2 DEF DcFault, Faulted, TypeOK, Common, RfexLatch
<1>3. exdc.common \in Common
  BY <1>0 DEF ExdcLatch
<1>4. CASE DcReset
  <2>1. stage' = "cycle" /\ cycleType' = 0 /\ hist' = 0
    BY <1>4 DEF DcReset, EndCycle, Interlock
  <2>2. Position' = "wb"
    BY <2>1 DEF Position, Lut
  <2>3. icrf'.fault => rfex'.common.fault
    BY <1>2, <1>3, <1>4 DEF DcReset
  <2>4. QED
    BY <2>1, <2>2, <2>3 DEF FaultsDrain
<1>5. CASE DcInterrupt
  BY <1>2, <1>3, <1>5, ExceptionDrain DEF DcInterrupt
<1>6. CASE DcTlbFault
  BY <1>2, <1>3, <1>6, ExceptionDrain DEF DcTlbFault
<1>7. CASE DcWatch
  BY <1>2, <1>3, <1>7, ExceptionDrain DEF DcWatch
<1>8. ASSUME DcNoRequest \/ DcUncached \/ DcMiss \/ DcBusy \/ DcHit \/ DcCacheOp
      PROVE  FaultsDrain'
  <2>1. stage = "dc" /\ Live(exdc.common)
    BY <1>8 DEF DcNoRequest, DcUncached, DcMiss, DcBusy, DcHit, DcCacheOp,
                DcReady
  <2>2. faultPresent => ~exdc.common.fault
    BY <2>1 DEF FaultsDrain, Live
  <2>3. Position = "dc" /\ Position' \in {"ex", "dc", "dcm"}
    BY <1>8, <2>1 DEF DcNoRequest, DcUncached, DcMiss, DcBusy, DcHit,
       DcCacheOp, Position, Lut, Interlock, EndCycle
  <2>4. dcwb'.common = exdc.common /\ exdc'.common = exdc.common
    BY <1>0, <1>8 DEF DcNoRequest, DcUncached, DcMiss, DcBusy, DcHit,
       DcCacheOp, DcLatched, DcwbLatch, ExdcLatch
  <2>5. UNCHANGED <<slow, icrf, rfex, hist, faultPresent>>
    BY <1>8 DEF DcNoRequest, DcUncached, DcMiss, DcBusy, DcHit, DcCacheOp,
       control
  <2>6. stage' \in {"ex", "cycle"}
    BY <1>8 DEF DcNoRequest, DcUncached, DcMiss, DcBusy, DcHit, DcCacheOp,
       EndCycle
  <2>7. QED
    BY <1>0, <2>1, <2>2, <2>3, <2>4, <2>5, <2>6 DEF FaultsDrain
<1>9. CASE DcmFill
  <2>1. Position = "dcm" /\ Position' = "dc"
    BY <1>9 DEF DcmFill, Position, Lut, Interlock, EndCycle
  <2>2. exdc'.common = exdc.common
    BY <1>0, <1>9 DEF DcmFill, ExdcLatch
  <2>3. QED
    BY <1>0, <1>9, <2>1, <2>2 DEF DcmFill, FaultsDrain, EndCycle
<1>10. QED
  BY <1>1, <1>4, <1>5, <1>6, <1>7, <1>8, <1>9 DEF DcStage

LEMMA ExDrain ==
  ASSUME TypeOK, FaultsDrain, ExStage
  PROVE  FaultsDrain'
<1>0. /\ hist \in Nat /\ exdc \in ExdcLatch /\ rfex \in RfexLatch
      /\ rfex.common \in Common /\ icrf \in Common /\ ExLatched \in ExdcLatch
  BY LatchTypes DEF TypeOK, RfexLatch
<1>1. stage = "ex" /\ Position = "ex"
  BY DEF ExStage, ExSkip, ExUnusable, ExLoadDelay, ExCompute, ExAccess,
     ExMultiCycle, ExBranchTaken, ExBranchNotTaken, ExMoveToStatus,
     ExMoveToCompare, ExEret, ExTrap, ExTrapUndefined, ExReady, Position
<1>2. CASE ExSkip
  <2>1. Position' = "rf" /\ exdc'.common = rfex.common
    BY <1>0, <1>2 DEF ExSkip, Position, ExdcLatch
  <2>2. QED
    BY <1>0, <1>1, <1>2, <2>1 DEF ExSkip, FaultsDrain, control
<1>3. ASSUME NEW e \in ExdcLatch, ExFault(e)
      PROVE  icrf'.fault /\ rfex'.common.fault
  BY <1>0, <1>3 DEF ExFault, Faulted, Common, RfexLatch
<1>4. CASE ExUnusable
  <2>1. [exdc EXCEPT !.common = rfex.common] \in ExdcLatch
    BY <1>0 DEF ExdcLatch
  <2>2. QED
    BY <1>3, <1>4, <2>1, ExceptionDrain DEF ExUnusable
<1>5. CASE ExTrap
  BY <1>0, <1>3, <1>5, ExceptionDrain DEF ExTrap
<1>6. CASE ExEret
  <2>1. stage' = "cycle" /\ cycleType' = 4 /\ hist' = 0
    BY <1>6 DEF ExEret, EndCycle
  <2>2. Position' = "ic"
    BY <2>1 DEF Position, Lut
  <2>3. rfex'.common.fault
    BY <1>0, <1>6 DEF ExEret, RfexLatch, Common
  <2>4. QED
    BY <2>1, <2>2, <2>3 DEF FaultsDrain
<1>7. ASSUME \/ ExLoadDelay \/ ExCompute \/ ExAccess \/ ExMultiCycle
             \/ ExBranchTaken \/ ExBranchNotTaken \/ ExMoveToStatus
             \/ ExMoveToCompare \/ ExTrapUndefined
      PROVE  FaultsDrain'
  <2>1. faultPresent => ~rfex.common.fault /\ ~icrf.fault
    BY <1>1, <1>7 DEF ExLoadDelay, ExCompute, ExAccess, ExMultiCycle,
       ExBranchTaken, ExBranchNotTaken, ExMoveToStatus, ExMoveToCompare,
       ExTrapUndefined, ExReady, Live, FaultsDrain
  <2>2. exdc'.common = rfex.common
    BY <1>0, <1>7 DEF ExLoadDelay, ExCompute, ExAccess, ExMultiCycle,
       ExBranchTaken, ExBranchNotTaken, ExMoveToStatus, ExMoveToCompare,
       ExTrapUndefined, ExLatched, ExdcLatch
  <2>3. rfex'.common = rfex.common
    BY <1>0, <1>7 DEF ExLoadDelay, ExCompute, ExAccess, ExMultiCycle,
       ExBranchTaken, ExBranchNotTaken, ExMoveToStatus, ExMoveToCompare,
       ExTrapUndefined, RfexLatch
  <2>4. UNCHANGED <<slow, icrf, dcwb, hist, faultPresent>>
    BY <1>7 DEF ExLoadDelay, ExCompute, ExAccess, ExMultiCycle,
       ExBranchTaken, ExBranchNotTaken, ExMoveToStatus, ExMoveToCompare,
       ExTrapUndefined, ExDone, control
  <2>5. \/ stage' = "rf"
        \/ stage' = "cycle"
    BY <1>7 DEF ExLoadDelay, ExCompute, ExAccess, ExMultiCycle,
       ExBranchTaken, ExBranchNotTaken, ExMoveToStatus, ExMoveToCompare,
       ExTrapUndefined, ExDone, EndCycle
  <2>6. QED
    BY <1>0, <1>1, <2>1, <2>2, <2>3, <2>4, <2>5 DEF FaultsDrain
<1>8. QED
  BY <1>2, <1>4, <1>5, <1>6, <1>7 DEF ExStage

LEMMA RfDrain ==
  ASSUME TypeOK, FaultsDrain, RfStage
  PROVE  FaultsDrain'
<1>0. hist \in Nat /\ icrf \in Common /\ rfex \in RfexLatch
  BY DEF TypeOK
<1>1. stage = "rf" /\ Position = "rf"
  BY DEF RfStage, RfSkip, RfTlbFault, RfBusy, RfFetch, Position
<1>2. CASE RfTlbFault
  <2>1. icrf'.fault /\ rfex'.common.fault
    BY <1>0, <1>2 DEF RfTlbFault, RfFault, Faulted, Common, RfexLatch
  <2>2. QED
    BY <1>2, <2>1, ExceptionDrain DEF RfTlbFault
<1>3. ASSUME RfSkip \/ RfBusy \/ RfFetch
      PROVE  FaultsDrain'
  <2>1. Position' = "ic" /\ stage' \in {"ic", "cycle"}
    BY <1>3 DEF RfSkip, RfBusy, RfFetch, Position, Lut, Interlock, EndCycle
  <2>2. rfex'.common = icrf
    BY <1>0, <1>3 DEF RfSkip, RfBusy, RfFetch, RfexLatch
  <2>3. UNCHANGED <<slow, icrf, exdc, dcwb, hist, faultPresent>>
    BY <1>3 DEF RfSkip, RfBusy, RfFetch, control
  <2>4. QED
    BY <1>0, <1>1, <2>1, <2>2, <2>3 DEF FaultsDrain
<1>4. QED
  BY <1>2, <1>3 DEF RfStage

LEMMA IcDrain ==
  ASSUME TypeOK, FaultsDrain, IcStage
  PROVE  FaultsDrain'
<1>0. /\ hist \in Nat /\ icrf \in Common /\ rfex \in RfexLatch
      /\ rfex.common \in Common
  BY DEF TypeOK, RfexLatch
<1>1. stage = "ic" /\ Position = "ic" /\ stage' = "cycle"
  BY DEF IcStage, Position, EndCycle
<1>2. UNCHANGED <<slow, exdc, dcwb, hist, faultPresent>>
  BY DEF IcStage
<1>3. rfex'.common.fault = rfex.common.fault
  BY <1>0 DEF IcStage, RfexLatch, Common
<1>4. icrf'.fault = IF slow THEN FALSE ELSE icrf.fault
  BY <1>0 DEF IcStage, Common
<1>5. CASE slow
  <2>1. Position' = "wb"
    BY <1>1, <1>5 DEF IcStage, Position, Lut
  <2>2. QED
    BY <1>0, <1>1, <1>2, <1>3, <1>4, <1>5, <2>1 DEF FaultsDrain
<1>6. CASE ~slow
  <2>1. ~faultPresent
    BY <1>1, <1>6 DEF FaultsDrain
  <2>2. QED
    BY <1>1, <1>2, <1>3, <1>4, <1>6, <2>1 DEF FaultsDrain
<1>7. QED
  BY <1>5, <1>6

LEMMA BusyWaitDrain ==
  ASSUME TypeOK, FaultsDrain, BusyWait
  PROVE  FaultsDrain'
<1>1. CASE BusyWaitOver
  <2>1. icrf'.fault => rfex'.common.fault
    BY <1>1 DEF BusyWaitOver, TypeOK, RfexLatch, Common
  <2>2. QED
    BY <1>1, <2>1, ExceptionDrain DEF BusyWaitOver
<1>2. CASE BusyWaitOn
  BY <1>2 DEF BusyWaitOn, FaultsDrain, EndCycle, latches, control, Position,
              Lut, TypeOK
<1>3. QED
  BY <1>1, <1>2 DEF BusyWait

LEMMA StepDrain ==
  ASSUME IInv, [Next]_vars
  PROVE  FaultsDrain'
<1> USE DEF IInv
<1>1. CASE StallCycle \/ RunCycle
  BY <1>1, CycleDrain
<1>2. CASE WbStage
  BY <1>2, WbDrain
<1>3. CASE DcStage \/ DcmFill
  BY <1>3, DcDrain
<1>4. CASE ExStage
  BY <1>4, ExDrain
<1>5. CASE RfStage
  BY <1>5, RfDrain
<1>6. CASE IcStage
  BY <1>6, IcDrain
<1>7. CASE BusyWait
  BY <1>7, BusyWaitDrain
<1>8. CASE UNCHANGED vars
  BY <1>8 DEF vars, latches, control, FaultsDrain, Position
<1>9. QED
  BY <1>1, <1>2, <1>3, <1>4, <1>5, <1>6, <1>7, <1>8 DEF Next

-----------------------------------------------------------------------------
(* The fast driver only ever runs with clean latches.                      *)

\* The pass that switches back finds every latch clean.
LEMMA WbClean ==
  ASSUME IInv, WbStage
  PROVE  FastModeClean'
<1> SUFFICES ASSUME ~faultPresent' PROVE FastModeClean'
  BY DEF FastModeClean
<1>1. stage = "wb" /\ UNCHANGED latches
  BY DEF WbStage, WbRetire, WbSkip
<1>2. CASE ~faultPresent
  BY <1>1, <1>2 DEF IInv, FastModeClean, latches
<1>3. CASE faultPresent
  <2>1. slow
    BY <1>1, <1>3 DEF IInv, FaultsDrain
  <2>2. faultPresent' = (faultPresent /\ hist <= 3)
    BY <2>1 DEF WbStage, WbRetire, WbSkip, SlowPass
  <2>3. ~(hist <= 3)
    BY <1>3, <2>2, Zenon
  <2>4. hist = 4 /\ Position = "wb"
    BY <1>1, <1>3, <2>3 DEF IInv, TypeOK, FaultsDrain, Position
  <2>5. /\ ~icrf.fault /\ ~rfex.common.fault
        /\ ~exdc.common.fault /\ ~dcwb.common.fault
    BY <1>3, <2>4 DEF IInv, FaultsDrain
  <2>6. QED
    BY <1>1, <2>5 DEF FastModeClean, latches
<1>4. QED
  BY <1>2, <1>3

\* A step that names a fault also sets fault_present; every other step moves
\* latches that were clean.
LEMMA StepClean ==
  ASSUME IInv, [Next]_vars
  PROVE  FastModeClean'
<1> SUFFICES ASSUME ~faultPresent' PROVE FastModeClean'
  BY DEF FastModeClean
<1>0. /\ icrf \in Common /\ rfex \in RfexLatch /\ exdc \in ExdcLatch
      /\ dcwb \in DcwbLatch /\ rfex.common \in Common /\ ExLatched \in ExdcLatch
  BY LatchTypes DEF IInv, TypeOK, RfexLatch
<1> DEFINE Clean == /\ ~icrf.fault /\ ~rfex.common.fault
                    /\ ~exdc.common.fault /\ ~dcwb.common.fault
<1>1. ASSUME NEW l, NEW vector, Exception(l, vector)
      PROVE  FALSE
  BY <1>1, Zenon DEF Exception
<1>2. ASSUME UNCHANGED faultPresent
      PROVE  Clean
  BY <1>2 DEF IInv, FastModeClean
<1>3. CASE StallCycle \/ RunCycle
  <2>1. UNCHANGED faultPresent /\ UNCHANGED latches
    BY <1>3 DEF StallCycle, RunCycle, control
  <2>2. QED
    BY <1>2, <2>1 DEF FastModeClean, latches
<1>4. CASE WbStage
  BY <1>4, WbClean
<1>5. CASE DcStage \/ DcmFill
  <2>1. ASSUME \/ DcSkip \/ DcNoRequest \/ DcUncached \/ DcMiss \/ DcBusy
               \/ DcHit \/ DcCacheOp \/ DcmFill
        PROVE  Clean'
    <3>1. UNCHANGED <<icrf, rfex, faultPresent>>
      BY <2>1 DEF DcSkip, DcNoRequest, DcUncached, DcMiss, DcBusy, DcHit,
         DcCacheOp, DcmFill, control
    <3>2. Clean
      BY <1>2, <3>1
    <3>3. exdc'.common = exdc.common
      BY <1>0, <2>1 DEF DcSkip, DcNoRequest, DcUncached, DcMiss, DcBusy,
         DcHit, DcCacheOp, DcmFill, ExdcLatch
    <3>4. dcwb'.common \in {exdc.common, dcwb.common}
      BY <1>0, <2>1 DEF DcSkip, DcNoRequest, DcUncached, DcMiss, DcBusy,
         DcHit, DcCacheOp, DcmFill, DcLatched, DcwbLatch
    <3>5. QED
      BY <3>1, <3>2, <3>3, <3>4
  <2>2. ~DcReset
    BY Zenon DEF DcReset
  <2>3. ~DcInterrupt /\ ~DcTlbFault /\ ~DcWatch
    BY <1>1, Zenon DEF DcInterrupt, DcTlbFault, DcWatch
  <2>4. QED
    BY <1>5, <2>1, <2>2, <2>3 DEF DcStage, FastModeClean
<1>6. CASE ExStage
  <2>1. ASSUME \/ ExSkip \/ ExLoadDelay \/ ExCompute \/ ExAccess
               \/ ExMultiCycle \/ ExBranchTaken \/ ExBranchNotTaken
               \/ ExMoveToStatus \/ ExMoveToCompare \/ ExTrapUndefined
        PROVE  Clean'
    <3>1. UNCHANGED <<icrf, dcwb, faultPresent>>
      BY <2>1 DEF ExSkip, ExLoadDelay, ExCompute, ExAccess, ExMultiCycle,
         ExBranchTaken, ExBranchNotTaken, ExMoveToStatus, ExMoveToCompare,
         ExTrapUndefined, ExDone, control
    <3>2. Clean
      BY <1>2, <3>1
    <3>3. rfex'.common = rfex.common
      BY <1>0, <2>1 DEF ExSkip, ExLoadDelay, ExCompute, ExAccess,
         ExMultiCycle, ExBranchTaken, ExBranchNotTaken, ExMoveToStatus,
         ExMoveToCompare, ExTrapUndefined, RfexLatch
    <3>4. exdc'.common = rfex.common
      BY <1>0, <2>1 DEF ExSkip, ExLoadDelay, ExCompute, ExAccess,
         ExMultiCycle, ExBranchTaken, ExBranchNotTaken, ExMoveToStatus,
         ExMoveToCompare, ExTrapUndefined, ExLatched, ExdcLatch
    <3>5. QED
      BY <3>1, <3>2, <3>3, <3>4
  <2>2. ~ExEret
    BY Zenon DEF ExEret
  <2>3. ~ExUnusable /\ ~ExTrap
    BY <1>1, Zenon DEF ExUnusable, ExTrap
  <2>4. QED
    BY <1>6, <2>1, <2>2, <2>3 DEF ExStage, FastModeClean
<1>7. CASE RfStage
  <2>1. ASSUME RfSkip \/ RfBusy \/ RfFetch
        PROVE  Clean'
    <3>1. UNCHANGED <<icrf, exdc, dcwb, faultPresent>>
      BY <2>1 DEF RfSkip, RfBusy, RfFetch, control
    <3>2. rfex'.common = icrf
      BY <1>0, <2>1 DEF RfSkip, RfBusy, RfFetch, RfexLatch
    <3>3. QED
      BY <1>2, <3>1, <3>2
  <2>2. ~RfTlbFault
    BY <1>1, Zenon DEF RfTlbFault
  <2>3. QED
    BY <1>7, <2>1, <2>2 DEF RfStage, FastModeClean
<1>8. CASE IcStage
  <2>1. UNCHANGED <<exdc, dcwb, faultPresent>>
    BY <1>8 DEF IcStage
  <2>2. /\ rfex'.common.fault = rfex.common.fault
        /\ icrf'.fault = IF slow THEN FALSE ELSE icrf.fault
    BY <1>0, <1>8 DEF IcStage, RfexLatch, Common
  <2>3. QED
    BY <1>2, <2>1, <2>2 DEF FastModeClean
<1>9. CASE BusyWait
  <2>1. ~BusyWaitOver
    BY <1>1, Zenon DEF BusyWaitOver
  <2>2. UNCHANGED <<icrf, rfex, exdc, dcwb, faultPresent>>
    BY <1>9, <2>1 DEF BusyWait, BusyWaitOn, latches, control
  <2>3. QED
    BY <1>2, <2>2 DEF FastModeClean
<1>10. CASE UNCHANGED vars
  BY <1>2, <1>10 DEF vars, latches, control, FastModeClean
<1>11. QED
  BY <1>3, <1>4, <1>5, <1>6, <1>7, <1>8, <1>9, <1>10 DEF Next

-----------------------------------------------------------------------------
\* Every reachable state is well typed, its faults are draining, and the fast
\* driver has nothing to see: the inductive invariant of the pipeline (TypeOK
\* and FaultsDrain need each other, exception_history is bounded only because
\* the faults drain).
THEOREM Invariance == Spec => []IInv
<1>1. Init => IInv
  BY InitInv
<1>2. IInv /\ [Next]_vars => IInv'
  BY StepType, StepDrain, StepClean DEF IInv
<1>3. QED
  BY <1>1, <1>2, PTL DEF Spec

\* The variables keep their types: PIPELINE_CYCLE_TYPE never indexes outside
\* pipeline_function_lut (pipeline.c:492) and exception_history stays within 5.
THEOREM TypeCorrect == Spec => []TypeOK
<1>1. IInv => TypeOK
  BY DEF IInv
<1>2. QED
  BY <1>1, Invariance, PTL

\* Each slow pass (vr4300_cycle_slow_wb, pipeline.c:382) pushes the faults one
\* latch further, also when interlocks split the pass over several cycles.
THEOREM FaultsAlwaysDrain == Spec => []FaultsDrain
<1>1. IInv => FaultsDrain
  BY DEF IInv
<1>2. QED
  BY <1>1, Invariance, PTL

\* Whenever vr4300_cycle_ (pipeline.c:505) may pick the fast driver, which
\* ignores the fault fields, no latch holds a fault.
THEOREM FastModeSafe == Spec => []FastModeClean
<1>1. IInv => FastModeClean
  BY DEF IInv
<1>2. QED
  BY <1>1, Invariance, PTL

-----------------------------------------------------------------------------
(* Program order.                                                          *)

LEMMA Steps == IInv /\ [Next]_vars => IInv'
  BY StepType, StepDrain, StepClean DEF IInv

\* While a cycle runs, the drivers differ in nothing: without faults to skip
\* there is no faulted latch.
LEMMA LiveIsUnfaulted ==
  ASSUME IInv, stage # "cycle"
  PROVE  /\ Live(dcwb.common) <=> ~dcwb.common.fault
         /\ Live(exdc.common) <=> ~exdc.common.fault
         /\ Live(rfex.common) <=> ~rfex.common.fault
         /\ Live(icrf) <=> ~icrf.fault
  BY DEF IInv, FaultsDrain, FastModeClean, Live

LEMMA Positions ==
  /\ stage # "cycle" => Position = stage
  /\ stage = "cycle" /\ cycleType = 0 => Position = "wb"
  /\ stage = "cycle" /\ cycleType = 1 => Position = "dc"
  /\ stage = "cycle" /\ cycleType = 2 => Position = "ex"
  /\ stage = "cycle" /\ cycleType = 3 => Position = "rf"
  /\ stage = "cycle" /\ cycleType = 4 => Position = "ic"
  /\ stage = "cycle" /\ cycleType = 5 => Position = "busywait"
  /\ stage = "cycle" /\ cycleType = 6 => Position = "dcm"
  BY DEF Position, Lut

-----------------------------------------------------------------------------
(* What the stages do to the latches.                                      *)

\* The passing of time.
LEMMA IdleViews ==
  ASSUME TypeOK, TypesOfPass,
         StallCycle \/ RunCycle \/ BusyWaitOn \/ UNCHANGED vars
  PROVE  /\ Position' = Position
         /\ UNCHANGED <<program, icPc, icVia, icrf, rfex, exdc, dcwb, flow>>
         /\ UNCHANGED <<cycleType, faultPresent, status, coldReset>>
<1>1. CASE StallCycle
  BY <1>1 DEF StallCycle, Position, latches, fetch
<1>2. CASE RunCycle
  <2>1. cycleType \in 0 .. 6
    BY DEF TypeOK
  <2>2. UNCHANGED <<program, icPc, icVia, icrf, rfex, exdc, dcwb, flow,
                    cycleType, faultPresent, status, coldReset>>
    BY <1>2 DEF RunCycle, latches, fetch, control
  <2>3. Lut[cycleType + 1] # "cycle"
    BY <2>1 DEF Lut
  <2>4. Position' = Position
    BY <1>2, <2>2, <2>3 DEF RunCycle, Position
  <2>5. QED
    BY <2>2, <2>4
<1>3. CASE BusyWaitOn
  <2>1. UNCHANGED <<program, icPc, icVia, icrf, rfex, exdc, dcwb, flow,
                    cycleType, faultPresent, status, coldReset>>
    BY <1>3 DEF BusyWaitOn, latches, fetch, control, cp0
  <2>2. stage = "busywait" /\ stage' = "cycle" /\ cycleType = 5
    BY <1>3 DEF BusyWaitOn, EndCycle, TypesOfPass
  <2>3. Position' = Position
    BY <2>1, <2>2, Positions DEF Position, Lut
  <2>4. QED
    BY <2>1, <2>3
<1>4. CASE UNCHANGED vars
  BY <1>4 DEF vars, latches, fetch, control, cp0, Position
<1>5. QED
  BY <1>1, <1>2, <1>3, <1>4

LEMMA WbViews ==
  ASSUME TypeOK, WbStage
  PROVE  /\ stage = "wb" /\ stage' = "dc"
         /\ Position = "wb" /\ Position' = "dc"
         /\ UNCHANGED <<program, icPc, icVia, icrf, rfex, exdc, dcwb>>
         /\ UNCHANGED <<slow, status, coldReset>>
<1>1. stage = "wb" /\ stage' = "dc"
  BY DEF WbStage, WbRetire, WbSkip
<1>2. UNCHANGED <<program, icPc, icVia, icrf, rfex, exdc, dcwb, slow, status,
                  coldReset>>
  BY DEF WbStage, WbRetire, WbSkip, latches, fetch, cp0
<1>3. Position = "wb" /\ Position' = "dc"
  BY <1>1 DEF Position
<1>4. QED
  BY <1>1, <1>2, <1>3

\* DC hands its instruction on to WB ...
DcPasses == DcSkip \/ DcNoRequest \/ DcUncached \/ DcHit \/ DcCacheOp

LEMMA DcPassViews ==
  ASSUME TypeOK, DcPasses
  PROVE  /\ stage = "dc" /\ Position = "dc" /\ Position' = "ex"
         /\ \/ stage' = "ex" /\ cycleType' = cycleType
            \/ stage' = "cycle" /\ cycleType' = 2
         /\ dcwb'.common = exdc.common /\ exdc'.common = exdc.common
         /\ dcwb'.dest \in {exdc.dest, "gpr"}
         /\ Live(exdc.common) =>
              /\ dcwb'.outcome.jump = exdc.outcome.jump
              /\ dcwb'.outcome.annuls = exdc.outcome.annuls
              /\ exdc.request # "none" => dcwb'.outcome.accessed
         /\ UNCHANGED <<program, icPc, icVia, icrf, rfex, flow>>
         /\ UNCHANGED <<slow, faultPresent, status, coldReset>>
<1>1. stage = "dc" /\ Position = "dc"
  BY DEF DcPasses, DcSkip, DcNoRequest, DcUncached, DcHit, DcCacheOp, DcReady,
         Position
<1>2. \/ stage' = "ex" /\ cycleType' = cycleType
      \/ stage' = "cycle" /\ cycleType' = 2
  BY DEF DcPasses, DcSkip, DcNoRequest, DcUncached, DcHit, DcCacheOp,
         EndCycle, Interlock, control
<1>3. Position' = "ex"
  BY <1>2 DEF Position, Lut
<1>4. exdc \in ExdcLatch /\ dcwb \in DcwbLatch /\ exdc.outcome \in Outcome
  BY DEF TypeOK, ExdcLatch
<1>5. /\ DcLatched.common = exdc.common /\ DcLatched.dest = exdc.dest
      /\ DcLatched.outcome = exdc.outcome
      /\ DcLatched \in DcwbLatch
  BY <1>4, LatchTypes DEF DcLatched, DcwbLatch
<1>6. dcwb'.common = exdc.common /\ exdc'.common = exdc.common
  BY <1>4, <1>5 DEF DcPasses, DcSkip, DcNoRequest, DcUncached, DcHit,
         DcCacheOp, DcwbLatch, ExdcLatch
<1>7. dcwb'.dest \in {exdc.dest, "gpr"}
  BY <1>4, <1>5 DEF DcPasses, DcSkip, DcNoRequest, DcUncached, DcHit,
         DcCacheOp, DcwbLatch, ExdcLatch
<1>8. ASSUME Live(exdc.common)
      PROVE  /\ dcwb'.outcome.jump = exdc.outcome.jump
             /\ dcwb'.outcome.annuls = exdc.outcome.annuls
             /\ exdc.request # "none" => dcwb'.outcome.accessed
  <2>1. ~DcSkip
    BY <1>8 DEF DcSkip
  <2>2. CASE DcNoRequest
    BY <1>5, <2>2 DEF DcNoRequest
  <2>3. CASE DcUncached \/ DcHit \/ DcCacheOp
    <3>1. dcwb'.outcome = [exdc.outcome EXCEPT !.accessed = TRUE]
      BY <1>5, <2>3 DEF DcUncached, DcHit, DcCacheOp, DcwbLatch
    <3>2. QED
      BY <1>4, <3>1 DEF Outcome
  <2>4. QED
    BY <2>1, <2>2, <2>3 DEF DcPasses
<1>9. UNCHANGED <<program, icPc, icVia, icrf, rfex, flow, slow, faultPresent,
                  status, coldReset>>
  BY DEF DcPasses, DcSkip, DcNoRequest, DcUncached, DcHit, DcCacheOp,
         control, cp0, fetch, EndCycle, Interlock
<1>10. QED
  BY <1>1, <1>2, <1>3, <1>6, <1>7, <1>8, <1>9

\* ... or keeps it.
DcKeeps == DcMiss \/ DcBusy \/ DcmFill

LEMMA DcKeepViews ==
  ASSUME TypeOK, DcKeeps
  PROVE  /\ stage' = "cycle" /\ cycleType' \in {1, 6}
         /\ stage \in {"dc", "dcm"}
         /\ Position \in {"dc", "dcm"} /\ Position' \in {"dc", "dcm"}
         /\ exdc'.common = exdc.common /\ exdc'.dest = exdc.dest
         /\ exdc'.outcome = exdc.outcome /\ exdc'.request = exdc.request
         /\ UNCHANGED <<program, icPc, icVia, icrf, rfex, flow>>
         /\ UNCHANGED <<slow, faultPresent, status, coldReset>>
<1>1. /\ stage \in {"dc", "dcm"} /\ stage' = "cycle" /\ cycleType' \in {1, 6}
  BY DEF DcKeeps, DcMiss, DcBusy, DcmFill, DcReady, EndCycle, Interlock
<1>2. Position \in {"dc", "dcm"} /\ Position' \in {"dc", "dcm"}
  <2>1. Position = stage
    BY <1>1 DEF Position
  <2>2. cycleType' = 1 => Position' = "dc"
    BY <1>1 DEF Position, Lut
  <2>3. cycleType' = 6 => Position' = "dcm"
    BY <1>1 DEF Position, Lut
  <2>4. QED
    BY <1>1, <2>1, <2>2, <2>3
<1>3. /\ exdc'.common = exdc.common /\ exdc'.dest = exdc.dest
      /\ exdc'.outcome = exdc.outcome /\ exdc'.request = exdc.request
  BY DEF DcKeeps, DcMiss, DcBusy, DcmFill, TypeOK, ExdcLatch
<1>4. UNCHANGED <<program, icPc, icVia, icrf, rfex, flow, slow, faultPresent,
                  status, coldReset>>
  BY DEF DcKeeps, DcMiss, DcBusy, DcmFill, cp0, fetch
<1>5. QED
  BY <1>1, <1>2, <1>3, <1>4

\* EX hands its instruction on to DC.  The instruction in its delay slot is in
\* ICRF: a taken branch has redirected the fetch behind it, a likely branch
\* that is not taken annuls it.
ExPasses == \/ ExSkip \/ ExCompute \/ ExAccess \/ ExMultiCycle
            \/ ExBranchTaken \/ ExBranchNotTaken
            \/ ExMoveToStatus \/ ExMoveToCompare

LEMMA ExPassViews ==
  ASSUME TypeOK, ExPasses
  PROVE  /\ stage = "ex" /\ Position = "ex" /\ Position' = "rf"
         /\ \/ stage' = "rf" /\ cycleType' = cycleType
            \/ stage' = "cycle" /\ cycleType' = 3
         /\ exdc'.common = rfex.common
         /\ rfex'.common = rfex.common /\ rfex'.iw = rfex.iw
         /\ UNCHANGED <<program, icVia, icrf, dcwb, flow>>
         /\ UNCHANGED <<slow, faultPresent, coldReset>>
<1>1. stage = "ex" /\ Position = "ex"
  BY DEF ExPasses, ExSkip, ExCompute, ExAccess, ExMultiCycle, ExBranchTaken,
         ExBranchNotTaken, ExMoveToStatus, ExMoveToCompare, ExReady, Position
<1>2. \/ stage' = "rf" /\ cycleType' = cycleType
      \/ stage' = "cycle" /\ cycleType' = 3
  BY DEF ExPasses, ExSkip, ExCompute, ExAccess, ExMultiCycle, ExBranchTaken,
         ExBranchNotTaken, ExMoveToStatus, ExMoveToCompare, ExDone, EndCycle,
         Interlock, control
<1>3. Position' = "rf"
  BY <1>2 DEF Position, Lut
<1>4. exdc \in ExdcLatch /\ rfex \in RfexLatch /\ ExLatched \in ExdcLatch
  BY LatchTypes DEF TypeOK
<1>5. ExLatched.common = rfex.common
  BY <1>4 DEF ExLatched, ExdcLatch
<1>6. exdc'.common = rfex.common
  BY <1>4, <1>5 DEF ExPasses, ExSkip, ExCompute, ExAccess, ExMultiCycle,
     ExBranchTaken, ExBranchNotTaken, ExMoveToStatus, ExMoveToCompare,
     ExdcLatch
<1>7. rfex'.common = rfex.common /\ rfex'.iw = rfex.iw
  BY <1>4 DEF ExPasses, ExSkip, ExCompute, ExAccess, ExMultiCycle,
     ExBranchTaken, ExBranchNotTaken, ExMoveToStatus, ExMoveToCompare,
     RfexLatch
<1>8. UNCHANGED <<program, icVia, icrf, dcwb, flow, slow, faultPresent,
                  coldReset>>
  BY DEF ExPasses, ExSkip, ExCompute, ExAccess, ExMultiCycle, ExBranchTaken,
         ExBranchNotTaken, ExMoveToStatus, ExMoveToCompare, ExDone, control,
         cp0, fetch
<1>9. QED
  BY <1>1, <1>2, <1>3, <1>6, <1>7, <1>8

\* What EX decided about a live instruction.
LEMMA ExDecides ==
  ASSUME TypeOK, ExPasses, Live(rfex.common)
  PROVE  /\ ~exdc'.outcome.accessed
         /\ rfex.op \in {"lw", "sw", "cache"} => exdc'.request # "none"
         /\ exdc'.outcome.jump # NoJump =>
              rfex.op \in Branch /\ icPc' = exdc'.outcome.jump
         /\ exdc'.outcome.jump = NoJump => icPc' = icPc
         /\ exdc'.outcome.annuls \in BOOLEAN
         /\ exdc'.outcome.annuls => rfex.op \in Branch /\ rfex'.annul
         /\ ~exdc'.outcome.annuls => rfex'.annul \in {FALSE, rfex.annul}
         /\ exdc'.dest = "cycle_type" =>
              /\ rfex.op = "j"
              /\ program.target[rfex.common.pc] = rfex.common.pc
         /\ rfex.op # "eret"
         /\ rfex.op \notin {"ei", "di"} => status' = status
<1>1. /\ exdc \in ExdcLatch /\ rfex \in RfexLatch /\ ExLatched \in ExdcLatch
      /\ rfex.common.pc \in Addr
  BY LatchTypes DEF TypeOK, RfexLatch, Common
<1>2. /\ ExLatched.outcome = NoOutcome /\ ExLatched.dest = "gpr"
      /\ ExLatched.request = "none"
      /\ NoOutcome.jump = NoJump /\ ~NoOutcome.annuls /\ ~NoOutcome.accessed
      /\ NoOutcome \in Outcome
  BY <1>1 DEF ExLatched, ExdcLatch, NoOutcome, Outcome
<1>3. ~ExSkip
  BY DEF ExSkip
<1>4. ASSUME exdc'.outcome = NoOutcome, exdc'.dest = "gpr", rfex' = rfex,
             icPc' = icPc
      PROVE  /\ ~exdc'.outcome.accessed
             /\ exdc'.outcome.jump = NoJump /\ icPc' = icPc
             /\ exdc'.outcome.annuls \in BOOLEAN /\ ~exdc'.outcome.annuls
             /\ rfex'.annul = rfex.annul
             /\ exdc'.dest # "cycle_type"
  <2>1. /\ NoOutcome.jump = NoJump /\ NoOutcome.annuls = FALSE
        /\ NoOutcome.accessed = FALSE
    BY DEF NoOutcome
  <2>2. QED
    BY <1>4, <2>1
<1>5. CASE ExCompute \/ ExMultiCycle \/ ExMoveToCompare \/ ExMoveToStatus
  <2>1. /\ exdc'.outcome = NoOutcome /\ exdc'.dest = "gpr" /\ rfex' = rfex
        /\ icPc' = icPc
    BY <1>2, <1>5 DEF ExCompute, ExMultiCycle, ExMoveToCompare,
                      ExMoveToStatus, fetch
  <2>2. rfex.op \in {"nop", "fpu", "mul", "ack", "ei", "di"}
    BY <1>5 DEF ExCompute, ExMultiCycle, ExMoveToCompare, ExMoveToStatus
  <2>3. rfex.op \notin {"ei", "di"} => status' = status
    BY <1>5 DEF ExCompute, ExMultiCycle, ExMoveToCompare, ExMoveToStatus, cp0
  <2>4. QED
    BY <1>4, <2>1, <2>2, <2>3
<1>6. CASE ExAccess
  <2>1. exdc'.outcome = NoOutcome /\ exdc'.dest = "gpr"
        /\ exdc'.request # "none"
    BY <1>1, <1>2, <1>6 DEF ExAccess, ExdcLatch
  <2>2. rfex' = rfex /\ icPc' = icPc /\ status' = status
    BY <1>6 DEF ExAccess, fetch, cp0
  <2>3. rfex.op \in {"lw", "sw", "cache"}
    BY <1>6 DEF ExAccess
  <2>4. QED
    BY <1>4, <2>1, <2>2, <2>3
<1>7. CASE ExBranchTaken
  <2> DEFINE target == program.target[rfex.common.pc]
             waits == rfex.op = "j" /\ target = rfex.common.pc
  <2>1. /\ exdc' = [ExLatched EXCEPT !.dest = IF waits THEN "cycle_type" ELSE @,
                                     !.outcome.jump = target]
        /\ icPc' = target /\ rfex' = rfex /\ status' = status
        /\ rfex.op \in Branch
    BY <1>7 DEF ExBranchTaken, cp0
  <2>2. target \in Addr
    BY <1>1, ProgramAssumption DEF TypeOK
  <2> HIDE DEF target
  <2>3. target # NoJump
    BY <2>2, SizeAssumption DEF Addr, NoJump
  <2>4. /\ exdc'.outcome = [NoOutcome EXCEPT !.jump = target]
        /\ exdc'.dest = IF waits THEN "cycle_type" ELSE "gpr"
    BY <1>1, <1>2, <2>1 DEF ExdcLatch
  <2>5. /\ exdc'.outcome.jump = target /\ ~exdc'.outcome.annuls
        /\ exdc'.outcome.annuls \in BOOLEAN /\ ~exdc'.outcome.accessed
    BY <2>4 DEF NoOutcome
  <2>6. rfex.op \notin {"ei", "di", "eret", "lw", "sw", "cache"}
    BY <2>1 DEF Branch
  <2>7. exdc'.dest = "cycle_type" => waits
    BY <2>4
  <2>8. QED
    BY <2>1, <2>3, <2>5, <2>6, <2>7 DEF target
<1>8. CASE ExBranchNotTaken
  <2>1. /\ rfex' = [rfex EXCEPT !.annul = (rfex.op = "beql")]
        /\ exdc' = [ExLatched EXCEPT !.outcome.annuls = (rfex.op = "beql")]
        /\ rfex.op \in {"beq", "beql"}
        /\ icPc' = icPc /\ status' = status
    BY <1>8 DEF ExBranchNotTaken, cp0, fetch
  <2>2. /\ exdc'.outcome = [NoOutcome EXCEPT !.annuls = (rfex.op = "beql")]
        /\ exdc'.dest = "gpr"
    BY <1>1, <1>2, <2>1 DEF ExdcLatch
  <2>3. /\ exdc'.outcome.jump = NoJump /\ ~exdc'.outcome.accessed
        /\ exdc'.outcome.annuls = (rfex.op = "beql")
    BY <2>2 DEF NoOutcome
  <2>4. rfex'.annul = (rfex.op = "beql")
    BY <1>1, <2>1 DEF RfexLatch
  <2>5. QED
    BY <2>1, <2>2, <2>3, <2>4 DEF Branch
<1>9. QED
  BY <1>3, <1>4, <1>5, <1>6, <1>7, <1>8 DEF ExPasses

\* RF hands its instruction on to IC, with the word at its address.
RfPasses == RfSkip \/ RfBusy \/ RfFetch

LEMMA RfPassViews ==
  ASSUME TypeOK, RfPasses
  PROVE  /\ stage = "rf" /\ Position = "rf" /\ Position' = "ic"
         /\ \/ stage' = "ic" /\ cycleType' = cycleType
            \/ stage' = "cycle" /\ cycleType' = 4
         /\ rfex'.common = icrf /\ rfex'.annul = rfex.annul
         /\ rfex'.iw = IF Live(icrf) THEN program.op[icrf.pc] ELSE rfex.iw
         /\ UNCHANGED <<program, icPc, icVia, icrf, exdc, dcwb, flow>>
         /\ UNCHANGED <<slow, faultPresent, status, coldReset>>
<1>1. stage = "rf" /\ Position = "rf"
  BY DEF RfPasses, RfSkip, RfBusy, RfFetch, Position
<1>2. \/ stage' = "ic" /\ cycleType' = cycleType
      \/ stage' = "cycle" /\ cycleType' = 4
  BY DEF RfPasses, RfSkip, RfBusy, RfFetch, EndCycle, Interlock, control
<1>3. Position' = "ic"
  BY <1>2 DEF Position, Lut
<1>4. rfex'.common = icrf /\ rfex'.annul = rfex.annul
  BY DEF RfPasses, RfSkip, RfBusy, RfFetch, TypeOK, RfexLatch
<1>5. rfex'.iw = IF Live(icrf) THEN program.op[icrf.pc] ELSE rfex.iw
  BY DEF RfPasses, RfSkip, RfBusy, RfFetch, TypeOK, RfexLatch
<1>6. UNCHANGED <<program, icPc, icVia, icrf, exdc, dcwb, flow, slow,
                  faultPresent, status, coldReset>>
  BY DEF RfPasses, RfSkip, RfBusy, RfFetch, control, cp0, fetch
<1>7. QED
  BY <1>1, <1>2, <1>3, <1>4, <1>5, <1>6

\* IC decodes that word and latches the next fetch.
LEMMA IcViews ==
  ASSUME IInv, TypesOfPass, IcStage
  PROVE  LET word == IF rfex.annul THEN "nop" ELSE rfex.iw
         IN /\ stage = "ic" /\ Position = "ic" /\ stage' = "cycle"
            /\ cycleType' \in {0, 5}
            /\ cycleType' = 5 => ~slow /\ cycleType = 5
            /\ Position' = IF cycleType' = 5 THEN "busywait" ELSE "wb"
            /\ rfex'.common.pc = rfex.common.pc
            /\ rfex'.common.fault = rfex.common.fault
            /\ rfex'.common.bd = rfex.common.bd
            /\ rfex'.common.via = rfex.common.via
            /\ rfex'.common.killed = rfex.annul /\ ~rfex'.annul
            /\ rfex'.iw = word /\ rfex'.op = word
            /\ icrf'.pc = icPc /\ icrf'.via = icVia /\ ~icrf'.fault
            /\ icrf'.bd = (word \in Branch)
            /\ icPc' = Succ(icPc) /\ icVia' = Onward
            /\ UNCHANGED <<program, exdc, dcwb, flow>>
            /\ UNCHANGED <<slow, faultPresent, status, coldReset>>
<1> DEFINE word == IF rfex.annul THEN "nop" ELSE rfex.iw
<1>1. stage = "ic" /\ Position = "ic" /\ stage' = "cycle"
  BY DEF IcStage, EndCycle, Position
<1>2. /\ cycleType' \in {0, 5}
      /\ cycleType' = 5 => ~slow /\ cycleType = 5
  BY <1>1 DEF IcStage, TypesOfPass
<1>3. Position' = IF cycleType' = 5 THEN "busywait" ELSE "wb"
  <2>1. cycleType' = 0 \/ cycleType' = 5
    BY <1>1 DEF IcStage, TypesOfPass
  <2>2. QED
    BY <1>1, <2>1 DEF Position, Lut
<1>4. rfex \in RfexLatch /\ rfex.common \in Common /\ icrf \in Common
  BY DEF IInv, TypeOK, RfexLatch
<1>5. /\ rfex' = [rfex EXCEPT !.iw = word, !.op = word, !.annul = FALSE,
                              !.common.killed = rfex.annul]
      /\ icrf' = [icrf EXCEPT !.pc = icPc, !.bd = (word \in Branch),
                              !.fault = IF slow THEN FALSE ELSE @,
                              !.via = icVia]
  BY DEF IcStage
<1>6. /\ rfex'.common = [rfex.common EXCEPT !.killed = rfex.annul]
      /\ rfex'.annul = FALSE /\ rfex'.iw = word /\ rfex'.op = word
  BY <1>4, <1>5 DEF RfexLatch
<1>7. /\ rfex'.common.pc = rfex.common.pc
      /\ rfex'.common.fault = rfex.common.fault
      /\ rfex'.common.bd = rfex.common.bd
      /\ rfex'.common.via = rfex.common.via
      /\ rfex'.common.killed = rfex.annul
  BY <1>4, <1>6 DEF Common
<1>8. icrf.fault => slow
  BY <1>1 DEF IInv, FaultsDrain, FastModeClean
<1>9. /\ icrf'.pc = icPc /\ icrf'.via = icVia
      /\ icrf'.bd = (word \in Branch)
      /\ icrf'.fault = IF slow THEN FALSE ELSE icrf.fault
  BY <1>4, <1>5 DEF Common
<1>10. ~icrf'.fault
  BY <1>8, <1>9
<1>11. /\ icPc' = Succ(icPc) /\ icVia' = Onward
       /\ UNCHANGED <<program, exdc, dcwb, flow>>
       /\ UNCHANGED <<slow, faultPresent, status, coldReset>>
  BY DEF IcStage, cp0
<1>12. QED
  BY <1>1, <1>2, <1>3, <1>6, <1>7, <1>9, <1>10, <1>11

\* A load delay keeps the instruction in RFEX.
LEMMA ExKeepViews ==
  ASSUME TypeOK, ExLoadDelay
  PROVE  /\ stage = "ex" /\ Position = "ex" /\ Position' = "ex"
         /\ stage' = "cycle" /\ cycleType' = 2
         /\ UNCHANGED <<program, icPc, icVia, icrf, rfex, dcwb, flow>>
         /\ UNCHANGED <<slow, faultPresent, status, coldReset>>
<1>1. stage = "ex" /\ stage' = "cycle" /\ cycleType' = 2
  BY DEF ExLoadDelay, ExReady, EndCycle, Interlock
<1>2. Position = "ex" /\ Position' = "ex"
  BY <1>1 DEF Position, Lut
<1>3. UNCHANGED <<program, icPc, icVia, icrf, rfex, dcwb, flow, slow,
                  faultPresent, status, coldReset>>
  BY DEF ExLoadDelay, cp0, fetch
<1>4. QED
  BY <1>1, <1>2, <1>3

-----------------------------------------------------------------------------
(* What a redirection does to the latches.                                 *)

\* Every exception restarts the pass and leaves a tag behind.
LEMMA ExceptionViews ==
  ASSUME NEW l, NEW vector, Exception(l, vector)
  PROVE  /\ stage' = "cycle" /\ cycleType' = 0 /\ Position' = "wb"
         /\ icPc' = vector /\ icVia'.to = l.via.to
         /\ icVia'.epc = epc' /\ icVia'.bd = bd'
         /\ Trapping(icVia') /\ icVia'.kind # "next"
         /\ icVia'.kind = "precise" => ~status.exl
         /\ ~status.exl => epc' = (IF l.bd THEN Pred(l.pc) ELSE l.pc)
                           /\ bd' = l.bd
         /\ status' = [status EXCEPT !.exl = TRUE]
         /\ UNCHANGED <<program, slow, coldReset, flow>>
<1>1. stage' = "cycle" /\ cycleType' = 0
  BY DEF Exception, EndCycle, Interlock
<1>2. Position' = "wb"
  BY <1>1 DEF Position, Lut
<1>3. icVia' = [kind |-> TrapKind, to |-> l.via.to, epc |-> epc', bd |-> bd']
  BY DEF Exception
<1>4. /\ TrapKind \in {"precise", "nested", "overlap"}
      /\ TrapKind = "precise" => ~status.exl
  BY DEF TrapKind
<1>5. /\ icVia'.to = l.via.to /\ icVia'.epc = epc' /\ icVia'.bd = bd'
      /\ icVia'.kind = TrapKind
  BY <1>3
<1>6. Trapping(icVia')
  BY <1>4, <1>5 DEF Trapping
<1>7. /\ icPc' = vector /\ status' = [status EXCEPT !.exl = TRUE]
      /\ ~status.exl => epc' = (IF l.bd THEN Pred(l.pc) ELSE l.pc)
                        /\ bd' = l.bd
      /\ UNCHANGED <<program, slow, coldReset, flow>>
  BY DEF Exception
<1>8. QED
  BY <1>1, <1>2, <1>4, <1>5, <1>6, <1>7

\* The faulting stage kills its instruction and the younger ones; those in the
\* stages before it stay in flight.
LEMMA DcFaultViews ==
  ASSUME TypeOK, NEW l \in Common, DcFault(l)
  PROVE  dcwb'.common.fault /\ exdc'.common.fault /\ rfex'.common.fault
           /\ icrf'.fault
<1>1. exdc.common \in Common /\ rfex.common \in Common /\ icrf \in Common
  BY DEF TypeOK, ExdcLatch, RfexLatch
<1>2. dcwb'.common = [l EXCEPT !.fault = TRUE]
  BY DEF DcFault, TypeOK, DcwbLatch, Faulted
<1>3. /\ exdc'.common = [exdc.common EXCEPT !.fault = TRUE]
      /\ rfex'.common = [rfex.common EXCEPT !.fault = TRUE]
      /\ icrf' = [icrf EXCEPT !.fault = TRUE]
  BY DEF DcFault, TypeOK, ExdcLatch, RfexLatch, Faulted
<1>4. QED
  BY <1>1, <1>2, <1>3 DEF Common

LEMMA ExFaultViews ==
  ASSUME TypeOK, NEW e \in ExdcLatch, ExFault(e)
  PROVE  /\ exdc'.common.fault /\ rfex'.common.fault /\ icrf'.fault
         /\ dcwb' = dcwb
<1>1. e.common \in Common /\ rfex.common \in Common /\ icrf \in Common
  BY DEF TypeOK, ExdcLatch, RfexLatch
<1>2. /\ exdc'.common = [e.common EXCEPT !.fault = TRUE]
      /\ rfex'.common = [rfex.common EXCEPT !.fault = TRUE]
      /\ icrf' = [icrf EXCEPT !.fault = TRUE]
  BY DEF ExFault, TypeOK, ExdcLatch, RfexLatch, Faulted
<1>3. QED
  BY <1>1, <1>2 DEF Common, ExFault

LEMMA RfFaultViews ==
  ASSUME TypeOK, RfFault
  PROVE  /\ rfex'.common.fault /\ icrf'.fault
         /\ exdc' = exdc /\ dcwb' = dcwb
<1>1. icrf \in Common
  BY DEF TypeOK
<1>2. /\ rfex'.common = [icrf EXCEPT !.fault = TRUE]
      /\ icrf' = [icrf EXCEPT !.fault = TRUE]
  BY DEF RfFault, TypeOK, RfexLatch, Faulted
<1>3. QED
  BY <1>1, <1>2 DEF Common, RfFault

LEMMA EretViews ==
  ASSUME TypeOK, ExEret
  PROVE  /\ stage = "ex" /\ Position = "ex" /\ Position' = "ic"
         /\ stage' = "cycle" /\ cycleType' = 4
         /\ rfex.op = "eret" /\ Live(rfex.common)
         /\ icVia'.kind = "eret" /\ icVia'.to = icPc'
         /\ icPc' \in Addr
         /\ exdc'.common.fault /\ rfex'.common.fault
         /\ rfex'.iw = rfex.iw /\ rfex'.annul = rfex.annul
         /\ UNCHANGED <<program, icrf, dcwb, flow, slow, coldReset>>
<1>1. stage = "ex" /\ stage' = "cycle" /\ cycleType' = 4
  BY DEF ExEret, ExReady, EndCycle
<1>2. Position = "ex" /\ Position' = "ic"
  BY <1>1 DEF Position, Lut
<1>3. rfex \in RfexLatch /\ rfex.common \in Common /\ ExLatched \in ExdcLatch
      /\ ExLatched.common \in Common
  BY LatchTypes DEF TypeOK, RfexLatch, ExdcLatch
<1>4. /\ exdc'.common = [ExLatched.common EXCEPT !.fault = TRUE]
      /\ rfex'.common = [rfex.common EXCEPT !.fault = TRUE]
      /\ rfex'.iw = rfex.iw /\ rfex'.annul = rfex.annul
  BY <1>3 DEF ExEret, ExdcLatch, RfexLatch
<1>5. exdc'.common.fault /\ rfex'.common.fault
  BY <1>3, <1>4 DEF Common
<1>6. icPc' \in Addr
  BY AddrAssumption DEF ExEret, TypeOK
<1>7. icVia' = By("eret", icPc')
  BY DEF ExEret
<1>8. icVia'.kind = "eret" /\ icVia'.to = icPc'
  BY <1>7 DEF By, Onward
<1>9. rfex.op = "eret" /\ Live(rfex.common)
      /\ UNCHANGED <<program, icrf, dcwb, flow, slow, coldReset>>
  BY DEF ExEret, ExReady
<1>10. QED
  BY <1>1, <1>2, <1>4, <1>5, <1>6, <1>8, <1>9

-----------------------------------------------------------------------------
(* Accesses are made once.                                                 *)

LEMMA TypesStep ==
  ASSUME IInv, TypesOfPass, [Next]_vars
  PROVE  TypesOfPass'
<1>0. TypeOK
  BY DEF IInv
<1>1. CASE StallCycle
  BY <1>1 DEF StallCycle, TypesOfPass
<1>2. CASE RunCycle
  <2>1. /\ stage' = Lut[cycleType + 1] /\ cycleType' = cycleType
        /\ slow' = (faultPresent \/ cycleType # 0)
    BY <1>2 DEF RunCycle, control
  <2>2. cycleType \in 0 .. 6
    BY <1>0 DEF TypeOK
  <2>3. /\ cycleType = 0 => stage' = "wb"
        /\ cycleType = 1 => stage' = "dc"
        /\ cycleType = 2 => stage' = "ex"
        /\ cycleType = 3 => stage' = "rf"
        /\ cycleType = 4 => stage' = "ic"
        /\ cycleType = 5 => stage' = "busywait"
        /\ cycleType = 6 => stage' = "dcm"
    BY <2>1 DEF Lut
  <2>4. cycleType # 0 => slow'
    BY <2>1, Zenon
  <2>5. cycleType \in {0, 1, 2, 3, 4, 5, 6}
    BY <2>2
  <2>6. QED
    BY <2>1, <2>3, <2>4, <2>5 DEF TypesOfPass
<1>3. CASE WbStage
  <2>1. stage = "wb" /\ stage' = "dc" /\ cycleType' \in {5, cycleType}
    BY <1>3 DEF WbStage, WbRetire, WbSkip
  <2>2. QED
    BY <2>1 DEF TypesOfPass
<1>4. CASE DcPasses
  BY <1>0, <1>4, DcPassViews DEF TypesOfPass
<1>5. CASE DcKeeps
  BY <1>0, <1>5, DcKeepViews DEF TypesOfPass
<1>6. CASE DcReset \/ DcInterrupt \/ DcTlbFault \/ DcWatch \/ ExUnusable
           \/ ExTrap \/ RfTlbFault \/ BusyWaitOver
  <2>1. stage' = "cycle"
    BY <1>6 DEF DcReset, DcInterrupt, DcTlbFault, DcWatch, ExUnusable, ExTrap,
                RfTlbFault, BusyWaitOver, Exception, EndCycle
  <2>2. QED
    BY <2>1 DEF TypesOfPass
<1>7. CASE ExPasses
  BY <1>0, <1>7, ExPassViews DEF TypesOfPass
<1>8. CASE ExLoadDelay \/ ExEret
  BY <1>0, <1>8, ExKeepViews, EretViews DEF TypesOfPass
<1>9. CASE ExTrapUndefined
  <2>1. /\ stage = "ex" /\ stage' \in {"rf", "cycle"}
        /\ cycleType' = cycleType /\ slow' = slow
    BY <1>9 DEF ExTrapUndefined, ExReady, control
  <2>2. QED
    BY <2>1 DEF TypesOfPass
<1>10. CASE RfPasses
  BY <1>0, <1>10, RfPassViews DEF TypesOfPass
<1>11. CASE IcStage
  BY <1>11 DEF IcStage, EndCycle, TypesOfPass
<1>12. CASE BusyWaitOn
  BY <1>12 DEF BusyWaitOn, EndCycle, TypesOfPass
<1>13. CASE UNCHANGED vars
  BY <1>13 DEF vars, control, TypesOfPass
<1>14. QED
  BY <1>1, <1>2, <1>3, <1>4, <1>5, <1>6, <1>7, <1>8, <1>9, <1>10, <1>11,
     <1>12, <1>13 DEF Next, DcStage, ExStage, RfStage, BusyWait, DcPasses,
     DcKeeps, ExPasses, RfPasses

\* The empty latches drain until DC takes the reset.
LEMMA ColdStep ==
  ASSUME IInv, TypesOfPass, coldReset, Cold, [Next]_vars, ~DcReset
  PROVE  coldReset' /\ Cold'
<1>0. TypeOK /\ Live(exdc.common) /\ Live(dcwb.common)
  BY DEF IInv, Cold, Zero, Live
<1>1. CASE StallCycle \/ RunCycle \/ UNCHANGED vars
  <2>1. /\ UNCHANGED <<rfex, exdc, dcwb>>
        /\ UNCHANGED <<cycleType, faultPresent, coldReset>>
    BY <1>0, <1>1, IdleViews
  <2>2. cycleType = 0 /\ ~slow /\ ~faultPresent
          /\ stage \in {"cycle", "wb", "dc"}
    BY DEF Cold
  <2>3. ~slow' /\ stage' \in {"cycle", "wb", "dc"}
    <3>1. CASE RunCycle
      <4>1. stage' = "wb"
        BY <2>2, <3>1 DEF RunCycle, Lut
      <4>2. ~slow'
        BY <2>2, <3>1 DEF RunCycle
      <4>3. QED
        BY <4>1, <4>2
    <3>2. CASE StallCycle \/ UNCHANGED vars
      <4>1. stage' = stage /\ slow' = slow
        BY <3>2 DEF StallCycle, vars
      <4>2. QED
        BY <2>2, <4>1
    <3>3. QED
      BY <1>1, <3>1, <3>2
  <2>4. QED
    BY <2>1, <2>3 DEF Cold
<1>2. CASE WbStage
  <2>1. /\ stage' = "dc" /\ UNCHANGED <<rfex, exdc, dcwb>>
        /\ UNCHANGED <<slow, coldReset>>
    BY <1>0, <1>2, WbViews
  <2>2. WbRetire
    BY <1>0, <1>2 DEF WbStage, WbSkip
  <2>3. cycleType' = 0
    BY <2>2 DEF WbRetire, Cold
  <2>4. faultPresent' = faultPresent
    BY <2>2 DEF WbRetire, SlowPass, Cold
  <2>5. QED
    BY <2>1, <2>3, <2>4 DEF Cold
<1>3. ~DcStage
  BY <1>0 DEF DcStage, DcSkip, DcInterrupt, DcNoRequest, DcTlbFault, DcWatch,
     DcUncached, DcMiss, DcBusy, DcHit, DcCacheOp, DcReady
<1>4. ~ExStage /\ ~RfStage /\ ~IcStage /\ ~BusyWait /\ ~DcmFill
  <2>1. stage \notin {"ex", "rf", "ic", "busywait", "dcm"}
    BY DEF Cold
  <2>2. ~ExStage
    BY <2>1 DEF ExStage, ExSkip, ExUnusable, ExLoadDelay, ExCompute, ExAccess,
       ExMultiCycle, ExBranchTaken, ExBranchNotTaken, ExMoveToStatus,
       ExMoveToCompare, ExEret, ExTrap, ExTrapUndefined, ExReady
  <2>3. ~RfStage /\ ~IcStage /\ ~BusyWait /\ ~DcmFill
    BY <2>1 DEF RfStage, RfSkip, RfTlbFault, RfBusy, RfFetch, IcStage,
       BusyWait, BusyWaitOver, BusyWaitOn, DcmFill
  <2>4. QED
    BY <2>2, <2>3
<1>5. QED
  BY <1>1, <1>2, <1>3, <1>4 DEF Next

\* Which latches are in flight once the stages have moved them.
LEMMA HereByPosition ==
  /\ Position = "wb" => /\ WbHere = ~dcwb.common.fault
                        /\ DcHere = ~exdc.common.fault
                        /\ ExHere = ~rfex.common.fault
                        /\ RfHere = ~icrf.fault
  /\ Position = "busywait" => /\ WbHere = ~dcwb.common.fault
                              /\ DcHere = ~exdc.common.fault
                              /\ ExHere = ~rfex.common.fault
                              /\ RfHere = ~icrf.fault
  /\ Position \in {"dc", "dcm"} => /\ ~WbHere
                                   /\ DcHere = ~exdc.common.fault
                                   /\ ExHere = ~rfex.common.fault
                                   /\ RfHere = ~icrf.fault
  /\ Position = "ex" => /\ WbHere = ~dcwb.common.fault
                        /\ ~DcHere
                        /\ ExHere = ~rfex.common.fault
                        /\ RfHere = ~icrf.fault
  /\ Position = "rf" => /\ WbHere = ~dcwb.common.fault
                        /\ DcHere = ~exdc.common.fault
                        /\ ~ExHere
                        /\ RfHere = ~icrf.fault
  /\ Position = "ic" => /\ WbHere = ~dcwb.common.fault
                        /\ DcHere = ~exdc.common.fault
                        /\ ExHere = ~rfex.common.fault
                        /\ ~RfHere
  BY DEF WbHere, DcHere, ExHere, RfHere

LEMMA HereTypes ==
  /\ WbHere \in BOOLEAN /\ DcHere \in BOOLEAN
  /\ ExHere \in BOOLEAN /\ RfHere \in BOOLEAN
  BY DEF WbHere, DcHere, ExHere, RfHere

\* The steps that move nothing.
LEMMA IdleAccess ==
  ASSUME IInv, TypesOfPass, Decoded, AccessPending,
         StallCycle \/ RunCycle \/ BusyWaitOn \/ UNCHANGED vars
  PROVE  Decoded' /\ AccessPending'
<1>1. /\ Position' = Position
      /\ UNCHANGED <<program, icPc, icVia, icrf, rfex, exdc, dcwb, flow>>
  BY IdleViews DEF IInv
<1>2. ExHere' = ExHere /\ DcHere' = DcHere /\ WbHere' = WbHere
  BY <1>1 DEF ExHere, DcHere, WbHere
<1>3. Decoded'
  BY <1>1, <1>2 DEF Decoded
<1>4. AccessPending'
  BY <1>1, <1>2 DEF AccessPending, Accesses
<1>5. QED
  BY <1>3, <1>4

LEMMA WbAccess ==
  ASSUME IInv, Decoded, AccessPending, WbStage
  PROVE  Decoded' /\ AccessPending'
<1>1. /\ Position = "wb" /\ Position' = "dc"
      /\ UNCHANGED <<program, icPc, icVia, icrf, rfex, exdc, dcwb>>
  BY WbViews DEF IInv
<1>2. ExHere' = ExHere /\ DcHere' = DcHere /\ ~WbHere'
  BY <1>1 DEF ExHere, DcHere, WbHere
<1>3. Decoded'
  BY <1>1, <1>2 DEF Decoded
<1>4. AccessPending'
  BY <1>1, <1>2 DEF AccessPending, Accesses
<1>5. QED
  BY <1>3, <1>4

LEMMA DcPassAccess ==
  ASSUME IInv, Decoded, AccessPending, DcPasses
  PROVE  Decoded' /\ AccessPending'
<1>1. /\ stage = "dc" /\ Position = "dc" /\ Position' = "ex"
      /\ dcwb'.common = exdc.common
      /\ Live(exdc.common) /\ exdc.request # "none" => dcwb'.outcome.accessed
      /\ UNCHANGED <<program, rfex>>
  BY DcPassViews DEF IInv
<1>2. Live(exdc.common) <=> ~exdc.common.fault
  BY <1>1, LiveIsUnfaulted
<1>3. /\ ExHere' = ExHere /\ ~DcHere'
      /\ WbHere' => ~exdc.common.fault
      /\ ~exdc.common.fault => DcHere
  BY <1>1 DEF ExHere, DcHere, WbHere
<1>4. Decoded'
  BY <1>1, <1>3 DEF Decoded
<1>5. AccessPending'
  BY <1>1, <1>2, <1>3 DEF AccessPending, Accesses
<1>6. QED
  BY <1>4, <1>5

LEMMA DcKeepAccess ==
  ASSUME IInv, Decoded, AccessPending, DcKeeps
  PROVE  Decoded' /\ AccessPending'
<1>1. /\ Position \in {"dc", "dcm"} /\ Position' \in {"dc", "dcm"}
      /\ exdc'.common = exdc.common /\ exdc'.outcome = exdc.outcome
      /\ exdc'.request = exdc.request
      /\ UNCHANGED <<program, rfex>>
  BY DcKeepViews DEF IInv
<1>2. ExHere' = ExHere /\ DcHere' = DcHere /\ ~WbHere'
  BY <1>1 DEF ExHere, DcHere, WbHere
<1>3. Decoded'
  BY <1>1, <1>2 DEF Decoded
<1>4. AccessPending'
  BY <1>1, <1>2 DEF AccessPending, Accesses
<1>5. QED
  BY <1>3, <1>4

LEMMA ExPassAccess ==
  ASSUME IInv, Decoded, AccessPending, ExPasses
  PROVE  Decoded' /\ AccessPending'
<1>1. /\ stage = "ex" /\ Position = "ex" /\ Position' = "rf"
      /\ exdc'.common = rfex.common
      /\ UNCHANGED <<program, dcwb>>
  BY ExPassViews DEF IInv
<1>2. Live(rfex.common) <=> ~rfex.common.fault
  BY <1>1, LiveIsUnfaulted
<1>3. Live(rfex.common) =>
        /\ ~exdc'.outcome.accessed
        /\ rfex.op \in {"lw", "sw", "cache"} => exdc'.request # "none"
  BY ExDecides DEF IInv
<1>4. /\ ~ExHere' /\ WbHere' = WbHere
      /\ DcHere' => ~rfex.common.fault
      /\ ~rfex.common.fault => ExHere
  BY <1>1 DEF ExHere, DcHere, WbHere
<1>5. Decoded'
  BY <1>1, <1>4 DEF Decoded
<1>6. AccessPending'
  BY <1>1, <1>2, <1>3, <1>4 DEF AccessPending, Accesses, Decoded
<1>7. QED
  BY <1>5, <1>6

LEMMA ExKeepAccess ==
  ASSUME IInv, Decoded, AccessPending, ExLoadDelay
  PROVE  Decoded' /\ AccessPending'
<1>1. /\ Position = "ex" /\ Position' = "ex"
      /\ UNCHANGED <<program, icrf, rfex, dcwb>>
  BY ExKeepViews DEF IInv
<1>2. ExHere' = ExHere /\ ~DcHere' /\ WbHere' = WbHere
  BY <1>1 DEF ExHere, DcHere, WbHere
<1>3. Decoded'
  BY <1>1, <1>2 DEF Decoded
<1>4. AccessPending'
  BY <1>1, <1>2 DEF AccessPending, Accesses
<1>5. QED
  BY <1>3, <1>4

\* A trap that falls off the end of its function leaves its latches behind.
LEMMA ExUndefinedAccess ==
  ASSUME IInv, TypesOfPass, Decoded, AccessPending, ExTrapUndefined
  PROVE  Decoded' /\ AccessPending'
<1>1. /\ stage = "ex" /\ Position = "ex" /\ rfex.op = "tne"
      /\ Live(rfex.common)
      /\ UNCHANGED <<program, icrf, rfex, dcwb, cycleType>>
      /\ stage' \in {"rf", "cycle"}
  BY DEF ExTrapUndefined, ExReady, Position, control
<1>2. cycleType \in {0, 1, 2, 5}
  BY <1>1 DEF TypesOfPass
<1>3. Position' \in {"rf", "wb", "dc", "ex", "busywait"}
  <2>1. CASE stage' = "rf"
    BY <2>1 DEF Position
  <2>2. CASE stage' = "cycle"
    BY <1>1, <1>2, <2>2 DEF Position, Lut
  <2>3. QED
    BY <1>1, <2>1, <2>2
<1>4. Live(rfex.common) <=> ~rfex.common.fault
  BY <1>1, LiveIsUnfaulted
<1>5. exdc \in ExdcLatch /\ ExLatched \in ExdcLatch
  BY LatchTypes DEF IInv, TypeOK
<1>6. exdc'.common = rfex.common /\ exdc'.outcome = NoOutcome
  BY <1>5 DEF ExTrapUndefined, ExLatched, ExdcLatch
<1>7. ~exdc'.outcome.accessed
  BY <1>6 DEF NoOutcome
<1>8. ExHere' => ExHere
  BY <1>1 DEF ExHere
<1>9. WbHere' => WbHere
  BY <1>1 DEF WbHere
<1>10. ExHere
  BY <1>1, <1>4 DEF ExHere
<1>11. Decoded'
  BY <1>1, <1>3, <1>10 DEF Decoded
<1>12. ~Accesses(exdc.common)'
  BY <1>1, <1>6, <1>10 DEF Accesses, Decoded
<1>13. AccessPending'
  BY <1>1, <1>7, <1>9, <1>12 DEF AccessPending, Accesses
<1>14. QED
  BY <1>11, <1>13

LEMMA RfPassAccess ==
  ASSUME IInv, Decoded, AccessPending, RfPasses
  PROVE  Decoded' /\ AccessPending'
<1>1. /\ stage = "rf" /\ Position = "rf" /\ Position' = "ic"
      /\ rfex'.common = icrf
      /\ rfex'.iw = IF Live(icrf) THEN program.op[icrf.pc] ELSE rfex.iw
      /\ UNCHANGED <<program, exdc, dcwb>>
  BY RfPassViews DEF IInv
<1>2. Live(icrf) <=> ~icrf.fault
  BY <1>1, LiveIsUnfaulted
<1>3. ExHere' = ~icrf.fault /\ DcHere' = DcHere /\ WbHere' = WbHere
  BY <1>1 DEF ExHere, DcHere, WbHere
<1>4. Decoded'
  BY <1>1, <1>2, <1>3 DEF Decoded
<1>5. AccessPending'
  BY <1>1, <1>3 DEF AccessPending, Accesses
<1>6. QED
  BY <1>4, <1>5

LEMMA IcAccess ==
  ASSUME IInv, TypesOfPass, Decoded, AccessPending, IcStage
  PROVE  Decoded' /\ AccessPending'
<1> DEFINE word == IF rfex.annul THEN "nop" ELSE rfex.iw
<1>1. /\ Position = "ic" /\ Position' \in {"wb", "busywait"}
      /\ rfex'.common.pc = rfex.common.pc
      /\ rfex'.common.fault = rfex.common.fault
      /\ rfex'.common.killed = rfex.annul
      /\ rfex'.iw = word /\ rfex'.op = word
      /\ UNCHANGED <<program, exdc, dcwb>>
  BY IcViews
<1>2. ExHere' = ExHere /\ DcHere' = DcHere /\ WbHere' = WbHere
  BY <1>1 DEF ExHere, DcHere, WbHere
<1>3. Decoded'
  BY <1>1, <1>2 DEF Decoded
<1>4. AccessPending'
  BY <1>1, <1>2 DEF AccessPending, Accesses
<1>5. QED
  BY <1>3, <1>4

\* What a redirection leaves in flight was there before.
LEMMA KillAccess ==
  ASSUME AccessPending, Position' \in {"wb", "ic"}, rfex'.common.fault,
         program' = program,
         exdc'.common.fault \/ (exdc' = exdc /\ (DcHere' => DcHere)),
         dcwb'.common.fault \/ (dcwb' = dcwb /\ (WbHere' => WbHere))
  PROVE  Decoded' /\ AccessPending'
<1>1. ~ExHere'
  BY DEF ExHere
<1>2. exdc'.common.fault => ~DcHere'
  BY DEF DcHere
<1>3. dcwb'.common.fault => ~WbHere'
  BY DEF WbHere
<1>4. Decoded'
  BY <1>1 DEF Decoded
<1>5. AccessPending'
  BY <1>2, <1>3 DEF AccessPending, Accesses
<1>6. QED
  BY <1>4, <1>5

\* An exception is taken on the instruction of latch l, all of whose elders,
\* named by `behind', stay in flight.
TrapsDc(vector) == Exception(exdc.common, vector) /\ DcFault(exdc.common)
TrapsEx(e, vector) == Exception(rfex.common, vector) /\ ExFault(e)
TrapsRf(vector) == Exception(icrf, vector) /\ RfFault

\* The four latches after a redirection.
AllKilled == /\ dcwb.common.fault /\ exdc.common.fault /\ rfex.common.fault
             /\ icrf.fault

LEMMA Redirections ==
  ASSUME IInv, TypesOfPass
  PROVE  /\ DcInterrupt \/ DcTlbFault \/ DcWatch =>
              /\ stage = "dc" /\ Position = "dc" /\ ~exdc.common.fault
              /\ \E vector \in {RefillVec, GeneralVec} :
                   TrapsDc(vector)
              /\ AllKilled'
         /\ ExUnusable \/ ExTrap =>
              /\ stage = "ex" /\ Position = "ex" /\ ~rfex.common.fault
              /\ \E vector \in {RefillVec, GeneralVec}, e \in ExdcLatch :
                   TrapsEx(e, vector)
              /\ exdc'.common.fault /\ rfex'.common.fault /\ icrf'.fault
              /\ dcwb' = dcwb
         /\ RfTlbFault =>
              /\ stage = "rf" /\ Position = "rf" /\ ~icrf.fault
              /\ \E vector \in {RefillVec, GeneralVec} : TrapsRf(vector)
              /\ rfex'.common.fault /\ icrf'.fault
              /\ exdc' = exdc /\ dcwb' = dcwb
         /\ BusyWaitOver =>
              /\ stage = "busywait" /\ Position = "busywait" /\ cycleType = 5
              /\ ~status.exl
              /\ Exception(dcwb.common, GeneralVec)
              /\ AllKilled'
<1>1. /\ TypeOK /\ exdc.common \in Common /\ rfex.common \in Common
      /\ rfex \in RfexLatch /\ exdc \in ExdcLatch /\ dcwb \in DcwbLatch
      /\ dcwb.common \in Common /\ icrf \in Common
      /\ ExLatched \in ExdcLatch
  BY LatchTypes DEF IInv, TypeOK, RfexLatch, ExdcLatch, DcwbLatch
<1>2. \A miss : TlbVector(miss) \in {RefillVec, GeneralVec}
  BY DEF TlbVector
<1>3. ASSUME DcInterrupt \/ DcTlbFault \/ DcWatch
      PROVE  /\ stage = "dc" /\ Position = "dc" /\ ~exdc.common.fault
             /\ \E vector \in {RefillVec, GeneralVec} : TrapsDc(vector)
             /\ AllKilled'
  <2>1. stage = "dc" /\ Live(exdc.common)
    BY <1>3 DEF DcInterrupt, DcTlbFault, DcWatch, DcReady
  <2>2. \E vector \in {RefillVec, GeneralVec} : TrapsDc(vector)
    BY <1>2, <1>3 DEF DcInterrupt, DcTlbFault, DcWatch, TrapsDc
  <2>3. AllKilled'
    BY <1>1, <2>2, DcFaultViews DEF TrapsDc, AllKilled
  <2>4. Position = "dc"
    BY <2>1 DEF Position
  <2>5. QED
    BY <2>1, <2>2, <2>3, <2>4, LiveIsUnfaulted
<1>4. ASSUME ExUnusable \/ ExTrap
      PROVE  /\ stage = "ex" /\ Position = "ex" /\ ~rfex.common.fault
             /\ \E vector \in {RefillVec, GeneralVec}, e \in ExdcLatch :
                  TrapsEx(e, vector)
             /\ exdc'.common.fault /\ rfex'.common.fault /\ icrf'.fault
             /\ dcwb' = dcwb
  <2>1. stage = "ex" /\ Live(rfex.common)
    BY <1>4 DEF ExUnusable, ExTrap, ExReady
  <2>2. [exdc EXCEPT !.common = rfex.common] \in ExdcLatch
    BY <1>1 DEF ExdcLatch
  <2>3. \E vector \in {RefillVec, GeneralVec}, e \in ExdcLatch :
          TrapsEx(e, vector)
    BY <1>1, <1>4, <2>2 DEF ExUnusable, ExTrap, TrapsEx
  <2>4. /\ exdc'.common.fault /\ rfex'.common.fault /\ icrf'.fault
        /\ dcwb' = dcwb
    BY <1>1, <2>3, ExFaultViews DEF TrapsEx
  <2>5. Position = "ex"
    BY <2>1 DEF Position
  <2>6. QED
    BY <2>1, <2>3, <2>4, <2>5, LiveIsUnfaulted
<1>5. ASSUME RfTlbFault
      PROVE  /\ stage = "rf" /\ Position = "rf" /\ ~icrf.fault
             /\ \E vector \in {RefillVec, GeneralVec} : TrapsRf(vector)
             /\ rfex'.common.fault /\ icrf'.fault
             /\ exdc' = exdc /\ dcwb' = dcwb
  <2>1. stage = "rf" /\ Live(icrf)
    BY <1>5 DEF RfTlbFault
  <2>2. \E vector \in {RefillVec, GeneralVec} : TrapsRf(vector)
    BY <1>2, <1>5 DEF RfTlbFault, TrapsRf
  <2>3. /\ rfex'.common.fault /\ icrf'.fault
        /\ exdc' = exdc /\ dcwb' = dcwb
    BY <1>1, <2>2, RfFaultViews DEF TrapsRf
  <2>4. Position = "rf"
    BY <2>1 DEF Position
  <2>5. QED
    BY <2>1, <2>2, <2>3, <2>4, LiveIsUnfaulted
<1>6. ASSUME BusyWaitOver
      PROVE  /\ stage = "busywait" /\ Position = "busywait" /\ cycleType = 5
             /\ ~status.exl
             /\ Exception(dcwb.common, GeneralVec)
             /\ AllKilled'
  <2>1. /\ stage = "busywait" /\ ~status.exl
        /\ Exception(dcwb.common, GeneralVec)
    BY <1>6 DEF BusyWaitOver, Interruptible
  <2>2. Position = "busywait" /\ cycleType = 5
    BY <2>1 DEF Position, TypesOfPass
  <2>3. /\ dcwb'.common = [dcwb.common EXCEPT !.fault = TRUE]
        /\ exdc'.common = [exdc.common EXCEPT !.fault = TRUE]
        /\ rfex'.common = [rfex.common EXCEPT !.fault = TRUE]
        /\ icrf' = [icrf EXCEPT !.fault = TRUE]
    BY <1>1, <1>6 DEF BusyWaitOver, Faulted, DcwbLatch, ExdcLatch, RfexLatch
  <2>4. AllKilled'
    BY <1>1, <2>3 DEF AllKilled, Common
  <2>5. QED
    BY <2>1, <2>2, <2>4
<1>7. QED
  BY <1>3, <1>4, <1>5, <1>6

LEMMA ResetViews ==
  ASSUME IInv, DcReset
  PROVE  /\ Position' = "wb" /\ stage' = "cycle" /\ cycleType' = 0
         /\ AllKilled' /\ ~coldReset'
         /\ icPc' = BootPc /\ icVia' = By("reset", BootPc)
         /\ program' = program /\ flow' = At(BootPc)
<1>1. exdc.common \in Common /\ TypeOK
  BY DEF IInv, TypeOK, ExdcLatch
<1>2. stage' = "cycle" /\ cycleType' = 0 /\ ~coldReset'
  BY DEF DcReset, EndCycle, Interlock
<1>3. Position' = "wb"
  BY <1>2 DEF Position, Lut
<1>4. AllKilled'
  BY <1>1, DcFaultViews DEF DcReset, AllKilled
<1>5. QED
  BY <1>2, <1>3, <1>4 DEF DcReset

LEMMA TrapAccess ==
  ASSUME IInv, TypesOfPass, AccessPending,
         \/ DcInterrupt \/ DcTlbFault \/ DcWatch
         \/ ExUnusable \/ ExTrap \/ RfTlbFault \/ BusyWaitOver \/ ExEret
  PROVE  Decoded' /\ AccessPending'
<1>1. CASE DcInterrupt \/ DcTlbFault \/ DcWatch
  <2>1. AllKilled'
    BY <1>1, Redirections
  <2>2. Position' = "wb" /\ program' = program
    BY <1>1, Redirections, ExceptionViews DEF TrapsDc
  <2>3. QED
    BY <2>1, <2>2, KillAccess DEF AllKilled
<1>2. CASE ExUnusable \/ ExTrap
  <2>1. /\ Position = "ex" /\ exdc'.common.fault /\ rfex'.common.fault
        /\ dcwb' = dcwb
    BY <1>2, Redirections
  <2>2. Position' = "wb" /\ program' = program
    BY <1>2, Redirections, ExceptionViews DEF TrapsEx
  <2>3. WbHere' => WbHere
    BY <2>1 DEF WbHere
  <2>4. QED
    BY <2>1, <2>2, <2>3, KillAccess
<1>3. CASE RfTlbFault
  <2>1. /\ Position = "rf" /\ rfex'.common.fault /\ exdc' = exdc
        /\ dcwb' = dcwb
    BY <1>3, Redirections
  <2>2. Position' = "wb" /\ program' = program
    BY <1>3, Redirections, ExceptionViews DEF TrapsRf
  <2>3. (WbHere' => WbHere) /\ (DcHere' => DcHere)
    BY <2>1 DEF WbHere, DcHere
  <2>4. QED
    BY <2>1, <2>2, <2>3, KillAccess
<1>4. CASE BusyWaitOver
  <2>1. AllKilled' /\ Exception(dcwb.common, GeneralVec)
    BY <1>4, Redirections
  <2>2. Position' = "wb" /\ program' = program
    BY <2>1, ExceptionViews
  <2>3. QED
    BY <2>1, <2>2, KillAccess DEF AllKilled
<1>5. CASE ExEret
  <2>1. /\ Position = "ex" /\ Position' = "ic"
        /\ exdc'.common.fault /\ rfex'.common.fault
        /\ dcwb' = dcwb /\ program' = program
    BY <1>5, EretViews DEF IInv
  <2>2. WbHere' => WbHere
    BY <2>1 DEF WbHere
  <2>3. QED
    BY <2>1, <2>2, KillAccess
<1>6. QED
  BY <1>1, <1>2, <1>3, <1>4, <1>5

LEMMA AccessInit == Init => AccessInv
<1> SUFFICES ASSUME Init PROVE AccessInv
  OBVIOUS
<1>1. TypesOfPass
  BY DEF Init, TypesOfPass
<1>2. Cold
  BY DEF Init, Cold, NoOutcome
<1>3. coldReset
  BY DEF Init
<1>4. QED
  BY <1>1, <1>2, <1>3 DEF AccessInv

LEMMA ResetStays ==
  ASSUME IInv, TypesOfPass, ~coldReset, [Next]_vars
  PROVE  ~coldReset' /\ ~DcReset
<1>0. TypeOK
  BY DEF IInv
<1>1. CASE StallCycle \/ RunCycle \/ BusyWaitOn \/ UNCHANGED vars
  BY <1>0, <1>1, IdleViews DEF StallCycle, RunCycle, BusyWaitOn, DcReset, vars
<1>2. CASE WbStage
  BY <1>0, <1>2, WbViews DEF DcReset
<1>3. CASE DcPasses \/ DcKeeps
  BY <1>0, <1>3, DcPassViews, DcKeepViews DEF DcReset
<1>4. CASE ExPasses \/ ExLoadDelay \/ ExEret
  BY <1>0, <1>4, ExPassViews, ExKeepViews, EretViews DEF DcReset
<1>5. CASE ExTrapUndefined
  BY <1>5 DEF ExTrapUndefined, ExReady, cp0, DcReset
<1>6. CASE RfPasses
  BY <1>0, <1>6, RfPassViews DEF DcReset
<1>7. CASE IcStage
  BY <1>7, IcViews DEF DcReset
<1>8. CASE \/ DcInterrupt \/ DcTlbFault \/ DcWatch
           \/ ExUnusable \/ ExTrap \/ RfTlbFault \/ BusyWaitOver
  <2>1. coldReset' = coldReset
    BY <1>8, Redirections, ExceptionViews DEF TrapsDc, TrapsEx, TrapsRf
  <2>2. QED
    BY <2>1 DEF DcReset
<1>9. ~DcReset
  BY DEF DcReset
<1>10. QED
  BY <1>1, <1>2, <1>3, <1>4, <1>5, <1>6, <1>7, <1>8, <1>9
     DEF Next, DcStage, ExStage, RfStage, BusyWait, DcPasses, DcKeeps,
         ExPasses, RfPasses

LEMMA AccessStep ==
  ASSUME IInv, AccessInv, [Next]_vars
  PROVE  AccessInv'
<1>0. TypesOfPass /\ TypesOfPass'
  BY TypesStep DEF AccessInv
<1>1. CASE coldReset /\ ~DcReset
  BY <1>0, <1>1, ColdStep DEF AccessInv
<1>2. CASE DcReset
  <2>1. Position' = "wb" /\ AllKilled' /\ ~coldReset'
    BY <1>2, ResetViews
  <2>2. ~ExHere' /\ ~DcHere' /\ ~WbHere'
    BY <2>1 DEF AllKilled, ExHere, DcHere, WbHere
  <2>3. Decoded' /\ AccessPending'
    BY <2>1, <2>2 DEF Decoded, AccessPending
  <2>4. QED
    BY <1>0, <2>1, <2>3 DEF AccessInv
<1>3. CASE ~coldReset
  <2>1. ~coldReset' /\ ~DcReset
    BY <1>0, <1>3, ResetStays
  <2>2. Decoded /\ AccessPending
    BY <1>3 DEF AccessInv
  <2>3. Decoded' /\ AccessPending'
    <3>1. CASE StallCycle \/ RunCycle \/ BusyWaitOn \/ UNCHANGED vars
      BY <1>0, <2>2, <3>1, IdleAccess
    <3>2. CASE WbStage
      BY <2>2, <3>2, WbAccess
    <3>3. CASE DcPasses \/ DcKeeps
      BY <2>2, <3>3, DcPassAccess, DcKeepAccess
    <3>4. CASE ExPasses \/ ExLoadDelay \/ ExTrapUndefined
      BY <1>0, <2>2, <3>4, ExPassAccess, ExKeepAccess, ExUndefinedAccess
    <3>5. CASE RfPasses \/ IcStage
      BY <1>0, <2>2, <3>5, RfPassAccess, IcAccess
    <3>6. CASE \/ DcInterrupt \/ DcTlbFault \/ DcWatch
               \/ ExUnusable \/ ExTrap \/ RfTlbFault \/ BusyWaitOver \/ ExEret
      BY <1>0, <2>2, <3>6, TrapAccess
    <3>7. QED
      BY <2>1, <3>1, <3>2, <3>3, <3>4, <3>5, <3>6
         DEF Next, DcStage, ExStage, RfStage, BusyWait, DcPasses, DcKeeps,
             ExPasses, RfPasses
  <2>4. QED
    BY <1>0, <2>1, <2>3 DEF AccessInv
<1>4. QED
  BY <1>1, <1>2, <1>3

\* A load, store or cache operation makes its access exactly once, between DC
\* and WB, whatever interlock splits the pass (vr4300_dc_stage,
\* pipeline.c:190): an interrupt that replays it has found it not made.
THEOREM AccessesMadeOnce == Spec => []AccessOnce
<1>1. Init => IInv /\ AccessInv
  BY InitInv, AccessInit
<1>2. IInv /\ AccessInv /\ [Next]_vars => (IInv /\ AccessInv)'
  BY Steps, AccessStep
<1>3. IInv /\ AccessInv => AccessOnce
  <2> SUFFICES ASSUME IInv, AccessInv
               PROVE  AccessOnce
    OBVIOUS
  <2>1. ASSUME stage = "dc", Live(exdc.common)
        PROVE  ~exdc.outcome.accessed
    <3>1. DcHere
      BY <2>1, LiveIsUnfaulted DEF DcHere, Position
    <3>2. QED
      BY <3>1 DEF AccessInv, Cold, AccessPending
  <2>2. ASSUME Retiring, ~dcwb.common.killed,
               program.op[dcwb.common.pc] \in {"lw", "sw", "cache"}
        PROVE  dcwb.outcome.accessed
    <3>1. WbHere /\ ~coldReset
      BY <2>2, LiveIsUnfaulted DEF Retiring, WbHere, Position
    <3>2. QED
      BY <2>2, <3>1 DEF AccessInv, AccessPending, Accesses
  <2>3. QED
    BY <2>1, <2>2 DEF AccessOnce
<1>4. QED
  BY <1>1, <1>2, <1>3, PTL DEF Spec

-----------------------------------------------------------------------------
(* Points of the program.                                                  *)

LEMMA Neighbours ==
  \A a \in Addr : Succ(Pred(a)) = a /\ Pred(Succ(a)) = a
  BY SizeAssumption DEF Addr, Succ, Pred

LEMMA PointViews ==
  /\ \A a : /\ At(a).pc = a /\ At(a).npc = Succ(a)
            /\ At(a).slot = FALSE /\ At(a).annulled = FALSE
  /\ \A f, o, b : /\ After(f, o, b).pc = f.npc
                  /\ After(f, o, b).slot = b
                  /\ After(f, o, b).annulled = o.annuls
                  /\ o.jump = NoJump => After(f, o, b).npc = Succ(f.npc)
                  /\ o.jump # NoJump => After(f, o, b).npc = o.jump
  /\ NoOutcome.jump = NoJump /\ NoOutcome.annuls = FALSE
  BY DEF At, After, NoOutcome

\* An instruction is at the point its elders lead to, unless the fetch was
\* redirected to it.
LEMMA PointCases ==
  ASSUME NEW p, NEW f, NEW v, NEW a, FetchFits(p, f, v, a)
  PROVE  /\ Point(f, v, a).pc = a
         /\ v.kind = "next" =>
              Point(f, v, a) = f /\ Reached(f, v) = f /\ ~Trapping(v)
         /\ v.kind # "next" => Point(f, v, a) = At(a)
         /\ v.kind # "next" /\ ~Trapping(v) => Reached(f, v) = At(a)
<1>1. a = Point(f, v, a).pc
  BY DEF FetchFits
<1>2. v.kind = "next" <=> (~Trapping(v) /\ v.to = NoJump)
  BY DEF FetchFits
<1>3. ASSUME v.kind = "next"
      PROVE  Point(f, v, a) = f /\ Reached(f, v) = f /\ ~Trapping(v)
  BY <1>2, <1>3 DEF Point, Reached
<1>4. ASSUME v.kind # "next", Trapping(v)
      PROVE  Point(f, v, a) = At(a)
  BY <1>4 DEF Point
<1>5. ASSUME v.kind # "next", ~Trapping(v)
      PROVE  Point(f, v, a) = At(a) /\ Reached(f, v) = At(a)
  <2>1. Point(f, v, a) = At(v.to) /\ Reached(f, v) = At(v.to)
    BY <1>2, <1>5 DEF Point, Reached
  <2>2. a = v.to
    BY <1>1, <2>1, PointViews
  <2>3. QED
    BY <2>1, <2>2
<1>6. QED
  BY <1>1, <1>3, <1>4, <1>5

\* A fetch that goes on is right wherever execution is at its address.
LEMMA NextFits ==
  ASSUME NEW p, NEW f, NEW v, NEW a, v.kind = "next", ~Trapping(v),
         v.to = NoJump, a = f.pc
  PROVE  FetchFits(p, f, v, a)
<1>1. Point(f, v, a) = f
  BY DEF Point, Reached
<1>2. QED
  BY <1>1 DEF FetchFits

\* The first instruction of a handler is right wherever its victim was.
LEMMA TrapFits ==
  ASSUME NEW p, NEW f, NEW l \in Common, NEW vector \in {RefillVec, GeneralVec},
         Fits(p, f, l), Trapping(l.via) => status.exl, Exception(l, vector)
  PROVE  FetchFits(p, f, icVia', icPc')
<1>1. /\ icPc' = vector /\ icVia'.to = l.via.to /\ Trapping(icVia')
      /\ icVia'.kind # "next" /\ icVia'.epc = epc' /\ icVia'.bd = bd'
      /\ icVia'.kind = "precise" => ~status.exl
      /\ ~status.exl => epc' = (IF l.bd THEN Pred(l.pc) ELSE l.pc)
                        /\ bd' = l.bd
  BY ExceptionViews
<1>2. icVia'.kind \notin {"reset", "eret"}
  BY <1>1 DEF Trapping
<1>3. Point(f, icVia', icPc').pc = icPc'
  BY <1>1, PointViews DEF Point
<1>4. Reached(f, icVia') = Reached(f, l.via)
  BY <1>1 DEF Reached
<1>5. ASSUME icVia'.kind = "precise"
      PROVE  /\ icVia'.bd = Reached(f, icVia').slot
             /\ Reached(f, icVia').pc =
                  IF icVia'.bd THEN Succ(icVia'.epc) ELSE icVia'.epc
  <2>1. ~status.exl /\ ~Trapping(l.via)
    BY <1>1, <1>5
  <2>2. l.bd = Reached(f, l.via).slot /\ l.pc = Reached(f, l.via).pc
    BY <2>1 DEF Fits, FetchFits, Point
  <2>3. Succ(Pred(l.pc)) = l.pc
    BY Neighbours DEF Common
  <2>4. QED
    BY <1>1, <1>4, <2>1, <2>2, <2>3
<1>6. QED
  BY <1>1, <1>2, <1>3, <1>5 DEF FetchFits

-----------------------------------------------------------------------------
(* Each group of steps keeps what is in flight in order.                   *)

\* The steps that move nothing, or only what nothing reads yet.
LEMMA KeptInFlight ==
  ASSUME InFlight,
         UNCHANGED <<program, icPc, icVia, icrf, rfex, flow, status>>,
         \/ /\ Position' = Position /\ dcwb' = dcwb
            /\ exdc'.common = exdc.common /\ exdc'.dest = exdc.dest
            /\ exdc'.outcome = exdc.outcome
         \/ /\ Position \in {"dc", "dcm"} /\ Position' \in {"dc", "dcm"}
            /\ exdc'.common = exdc.common /\ exdc'.dest = exdc.dest
            /\ exdc'.outcome = exdc.outcome
         \/ Position = "ex" /\ Position' = "ex" /\ dcwb' = dcwb
  PROVE  InFlight'
<1>1. /\ WbHere' = WbHere /\ DcHere' = DcHere
      /\ ExHere' = ExHere /\ RfHere' = RfHere
  BY DEF WbHere, DcHere, ExHere, RfHere
<1>2. /\ WbHere => dcwb' = dcwb
      /\ DcHere => /\ exdc'.common = exdc.common /\ exdc'.dest = exdc.dest
                   /\ exdc'.outcome = exdc.outcome
  BY DEF WbHere, DcHere
<1>3. BehindWb' = BehindWb
  BY <1>1, <1>2 DEF BehindWb, Behind
<1>4. BehindDc' = BehindDc
  BY <1>1, <1>2, <1>3 DEF BehindDc, Behind
<1>5. BehindEx' = BehindEx
  BY <1>1, <1>4 DEF BehindEx, Behind
<1>6. BehindRf' = BehindRf
  BY <1>1, <1>5 DEF BehindRf, Behind
<1>7. InOrder'
  BY <1>1, <1>2, <1>3, <1>4, <1>5, <1>6 DEF InFlight, InOrder
<1>8. Linked'
  BY <1>1, <1>2 DEF InFlight, Linked
<1>9. Masking'
  BY <1>1, <1>4, <1>5 DEF InFlight, Masking
<1>10. NoStaleBranch' /\ LevelHeld'
  BY <1>1, <1>2 DEF InFlight, NoStaleBranch, LevelHeld
<1>11. QED
  BY <1>7, <1>8, <1>9, <1>10 DEF InFlight

\* The point behind the retiring instruction, as WB computes it.
LEMMA RetiringPoint ==
  ASSUME WbHere, InOrder, WbRetire
  PROVE  flow' = BehindWb
<1> DEFINE l == dcwb.common
           q == Point(flow, l.via, l.pc)
<1>1. (IF HandlerEntry THEN At(l.pc) ELSE Expected) = q
  BY DEF HandlerEntry, Expected, Point, Reached
<1>2. q.pc = l.pc /\ l.killed = q.annulled
  BY DEF InOrder, Executed, Fits, FetchFits
<1>3. (program.op[l.pc] \in Branch /\ ~l.killed) = IsBranch(program, q)
  BY <1>2 DEF IsBranch
<1>4. flow' = After(q, dcwb.outcome, IsBranch(program, q))
  BY <1>1, <1>3 DEF WbRetire
<1>5. QED
  BY <1>4 DEF BehindWb, Behind

LEMMA WbInFlight ==
  ASSUME IInv, InFlight, WbStage
  PROVE  InFlight' /\ flow' = BehindWb
<1>1. /\ stage = "wb" /\ Position = "wb" /\ Position' = "dc"
      /\ UNCHANGED <<program, icPc, icVia, icrf, rfex, exdc, dcwb, status>>
  BY WbViews DEF IInv
<1>2. /\ ~WbHere' /\ DcHere' = DcHere /\ ExHere' = ExHere
      /\ RfHere' = RfHere
  BY <1>1 DEF WbHere, DcHere, ExHere, RfHere
<1>3. flow' = BehindWb
  <2>1. CASE WbHere
    <3>1. WbRetire
      BY <1>1, <2>1, LiveIsUnfaulted DEF WbStage, WbSkip, WbHere
    <3>2. QED
      BY <2>1, <3>1, RetiringPoint DEF InFlight
  <2>2. CASE ~WbHere
    <3>1. WbSkip
      BY <1>1, <2>2, LiveIsUnfaulted DEF WbStage, WbRetire, WbHere
    <3>2. QED
      BY <2>2, <3>1 DEF WbSkip, BehindWb, Behind
  <2>3. QED
    BY <2>1, <2>2
<1>4. BehindWb' = BehindWb
  BY <1>2, <1>3 DEF BehindWb, Behind
<1>5. BehindDc' = BehindDc
  BY <1>1, <1>2, <1>4 DEF BehindDc, Behind
<1>6. BehindEx' = BehindEx
  BY <1>1, <1>2, <1>5 DEF BehindEx, Behind
<1>7. BehindRf' = BehindRf
  BY <1>1, <1>2, <1>6 DEF BehindRf, Behind
<1>8. InOrder'
  BY <1>1, <1>2, <1>4, <1>5, <1>6, <1>7 DEF InFlight, InOrder
<1>9. Linked'
  BY <1>1, <1>2 DEF InFlight, Linked
<1>10. Masking'
  BY <1>1, <1>2, <1>5, <1>6 DEF InFlight, Masking
<1>11. NoStaleBranch' /\ LevelHeld'
  BY <1>1, <1>2 DEF InFlight, NoStaleBranch, LevelHeld
<1>12. QED
  BY <1>3, <1>8, <1>9, <1>10, <1>11 DEF InFlight

LEMMA DcPassInFlight ==
  ASSUME IInv, InFlight, DcPasses
  PROVE  InFlight'
<1>1. /\ stage = "dc" /\ Position = "dc" /\ Position' = "ex"
      /\ dcwb'.common = exdc.common
      /\ dcwb'.dest \in {exdc.dest, "gpr"}
      /\ UNCHANGED <<program, icPc, icVia, icrf, rfex, flow, status>>
  BY DcPassViews DEF IInv
<1>2. /\ ~WbHere /\ WbHere' = DcHere /\ ~DcHere' /\ ExHere' = ExHere
      /\ RfHere' = RfHere
  BY <1>1 DEF WbHere, DcHere, ExHere, RfHere
<1>3. DcHere => /\ dcwb'.outcome.jump = exdc.outcome.jump
                /\ dcwb'.outcome.annuls = exdc.outcome.annuls
  BY <1>1, LiveIsUnfaulted, DcPassViews DEF IInv, DcHere
<1>4. BehindWb = flow
  BY <1>2 DEF BehindWb, Behind
<1>5. BehindWb' = BehindDc
  BY <1>1, <1>2, <1>3, <1>4 DEF BehindWb, BehindDc, Behind, After
<1>6. BehindDc' = BehindDc
  BY <1>2, <1>5 DEF BehindDc, Behind
<1>7. BehindEx' = BehindEx
  BY <1>1, <1>2, <1>6 DEF BehindEx, Behind
<1>8. BehindRf' = BehindRf
  BY <1>1, <1>2, <1>7 DEF BehindRf, Behind
<1>9. WbHere' => Executed(program, flow, dcwb.common, dcwb.outcome, dcwb.dest)'
  <2>1. ASSUME DcHere
        PROVE  Executed(program, flow, dcwb'.common, dcwb'.outcome, dcwb'.dest)
    <3>1. Executed(program, flow, exdc.common, exdc.outcome, exdc.dest)
      BY <1>4, <2>1 DEF InFlight, InOrder
    <3>2. QED
      BY <1>1, <1>3, <2>1, <3>1 DEF Executed
  <2>2. QED
    BY <1>1, <1>2, <2>1
<1>10. InOrder'
  BY <1>1, <1>2, <1>6, <1>7, <1>8, <1>9 DEF InFlight, InOrder
<1>11. Linked'
  BY <1>1, <1>2 DEF InFlight, Linked
<1>12. Masking'
  BY <1>1, <1>2, <1>6, <1>7 DEF InFlight, Masking
<1>13. NoStaleBranch' /\ LevelHeld'
  BY <1>1, <1>2 DEF InFlight, NoStaleBranch, LevelHeld
<1>14. QED
  BY <1>10, <1>11, <1>12, <1>13 DEF InFlight

LEMMA RfPassInFlight ==
  ASSUME IInv, InFlight, RfPasses
  PROVE  InFlight'
<1>1. /\ stage = "rf" /\ Position = "rf" /\ Position' = "ic"
      /\ rfex'.common = icrf /\ rfex'.annul = rfex.annul
      /\ rfex'.iw = IF Live(icrf) THEN program.op[icrf.pc] ELSE rfex.iw
      /\ UNCHANGED <<program, icPc, icVia, icrf, exdc, dcwb, flow, status>>
  BY RfPassViews DEF IInv
<1>2. /\ WbHere' = WbHere /\ DcHere' = DcHere /\ ~ExHere /\ ExHere' = RfHere
      /\ ~RfHere'
  BY <1>1 DEF WbHere, DcHere, ExHere, RfHere
<1>3. Live(icrf) <=> ~icrf.fault
  BY <1>1, LiveIsUnfaulted
<1>4. BehindWb' = BehindWb
  BY <1>1, <1>2 DEF BehindWb, Behind
<1>5. BehindDc' = BehindDc
  BY <1>1, <1>2, <1>4 DEF BehindDc, Behind
<1>6. BehindEx = BehindDc
  BY <1>2 DEF BehindEx, Behind
<1>7. BehindEx' = BehindRf
  BY <1>1, <1>2, <1>5, <1>6 DEF BehindEx, BehindRf, Behind
<1>8. BehindRf' = BehindRf
  BY <1>2, <1>7 DEF BehindRf, Behind
<1>9. InOrder'
  BY <1>1, <1>2, <1>4, <1>5, <1>6, <1>7, <1>8 DEF InFlight, InOrder
<1>10. Linked'
  BY <1>1, <1>2 DEF InFlight, Linked
<1>11. Masking'
  BY <1>1, <1>2, <1>5, <1>6 DEF InFlight, Masking
<1>12. NoStaleBranch'
  <2>1. Follows(icrf, icVia)
    BY <1>1 DEF InFlight, Linked
  <2>2. icVia.kind \in {"reset", "eret"} => icrf.fault
    BY <2>1 DEF Follows
  <2>3. QED
    BY <1>1, <1>3, <2>2 DEF InFlight, NoStaleBranch
<1>13. LevelHeld'
  BY <1>1, <1>2 DEF InFlight, LevelHeld
<1>14. QED
  BY <1>9, <1>10, <1>11, <1>12, <1>13 DEF InFlight

\* What EX leaves of an instruction that is not in flight.
LEMMA ExSkips ==
  ASSUME ExPasses, ~Live(rfex.common)
  PROVE  rfex' = rfex /\ icPc' = icPc /\ status' = status
<1>1. ExSkip
  BY DEF ExPasses, ExCompute, ExAccess, ExMultiCycle, ExBranchTaken,
         ExBranchNotTaken, ExMoveToStatus, ExMoveToCompare, ExReady
<1>2. QED
  BY <1>1 DEF ExSkip, fetch, cp0

LEMMA ExSkipInFlight ==
  ASSUME IInv, InFlight, ExPasses, rfex.common.fault
  PROVE  InFlight'
<1>1. /\ stage = "ex" /\ Position = "ex" /\ Position' = "rf"
      /\ exdc'.common = rfex.common
      /\ UNCHANGED <<program, icVia, icrf, dcwb, flow>>
  BY ExPassViews DEF IInv
<1>2. rfex' = rfex /\ icPc' = icPc /\ status' = status
  BY <1>1, LiveIsUnfaulted, ExSkips
<1>3. /\ WbHere' = WbHere /\ ~DcHere /\ ~DcHere' /\ ~ExHere /\ ~ExHere'
      /\ RfHere' = RfHere
  BY <1>1 DEF WbHere, DcHere, ExHere, RfHere
<1>4. BehindWb' = BehindWb
  BY <1>1, <1>3 DEF BehindWb, Behind
<1>5. BehindDc' = BehindDc
  BY <1>3, <1>4 DEF BehindDc, Behind
<1>6. BehindEx' = BehindEx
  BY <1>3, <1>5 DEF BehindEx, Behind
<1>7. BehindRf' = BehindRf
  BY <1>1, <1>3, <1>6 DEF BehindRf, Behind
<1>8. InOrder'
  BY <1>1, <1>2, <1>3, <1>4, <1>6, <1>7 DEF InFlight, InOrder
<1>9. Linked'
  BY <1>1, <1>2, <1>3 DEF InFlight, Linked
<1>10. Masking'
  <2>1. ASSUME RfHere
        PROVE  rfex.annul = Point(BehindEx, icrf.via, icrf.pc).annulled
    <3>1. icrf.via.kind # "next"
      BY <1>1, <2>1 DEF InFlight, Linked, Follows
    <3>2. Point(BehindEx, icrf.via, icrf.pc) = At(icrf.pc)
      BY <2>1, <3>1, PointCases DEF InFlight, InOrder, Fits
    <3>3. rfex.annul = FALSE
      BY <1>1, <2>1 DEF InFlight, Masking, IInv, TypeOK, RfexLatch
    <3>4. QED
      BY <3>2, <3>3, PointViews
  <2>2. QED
    BY <1>1, <1>2, <1>3, <1>6, <2>1 DEF Masking
<1>11. NoStaleBranch' /\ LevelHeld'
  BY <1>1, <1>2, <1>3 DEF InFlight, NoStaleBranch, LevelHeld
<1>12. QED
  BY <1>8, <1>9, <1>10, <1>11 DEF InFlight

\* The instruction in EX is decoded as what its point in the program says.
LEMMA ExPoint ==
  ASSUME IInv, InFlight, Decoded, Position = "ex", ~rfex.common.fault
  PROVE  LET q == Point(BehindDc, rfex.common.via, rfex.common.pc)
         IN /\ q.pc = rfex.common.pc /\ rfex.common.killed = q.annulled
            /\ rfex.op = rfex.iw
            /\ rfex.op = IF q.annulled THEN "nop" ELSE program.op[q.pc]
            /\ Fits(program, BehindDc, rfex.common)
            /\ BehindDc = BehindWb
            /\ BehindEx = After(q, NoOutcome, IsBranch(program, q))
<1> DEFINE q == Point(BehindDc, rfex.common.via, rfex.common.pc)
<1>1. ExHere /\ ~DcHere
  BY DEF ExHere, DcHere
<1>2. Fits(program, BehindDc, rfex.common)
  BY <1>1 DEF InFlight, InOrder
<1>3. q.pc = rfex.common.pc
  BY <1>2 DEF Fits, FetchFits
<1>4. rfex.common.killed = q.annulled
  BY <1>1 DEF InFlight, Masking
<1>5. /\ rfex.op = rfex.iw
      /\ rfex.op = IF rfex.common.killed THEN "nop"
                   ELSE program.op[rfex.common.pc]
  BY <1>1 DEF Decoded
<1>6. BehindDc = BehindWb
  BY <1>1 DEF BehindDc, Behind
<1>7. BehindEx = After(q, NoOutcome, IsBranch(program, q))
  BY <1>1 DEF BehindEx, Behind
<1>8. QED
  BY <1>2, <1>3, <1>4, <1>5, <1>6, <1>7

LEMMA ExPassInFlight ==
  ASSUME IInv, InFlight, Decoded, Handled, ExPasses, ~rfex.common.fault
  PROVE  InFlight'
<1> DEFINE q == Point(BehindDc, rfex.common.via, rfex.common.pc)
           b == IsBranch(program, q)
           o == exdc'.outcome
<1>1. /\ stage = "ex" /\ Position = "ex" /\ Position' = "rf"
      /\ exdc'.common = rfex.common
      /\ rfex'.common = rfex.common /\ rfex'.iw = rfex.iw
      /\ UNCHANGED <<program, icVia, icrf, dcwb, flow>>
  BY ExPassViews DEF IInv
<1>2. Live(rfex.common) /\ TypeOK
  BY <1>1, LiveIsUnfaulted DEF IInv
<1>3. /\ o.jump # NoJump => rfex.op \in Branch /\ icPc' = o.jump
      /\ o.jump = NoJump => icPc' = icPc
      /\ o.annuls \in BOOLEAN
      /\ o.annuls => rfex.op \in Branch /\ rfex'.annul
      /\ ~o.annuls => rfex'.annul \in {FALSE, rfex.annul}
      /\ exdc'.dest = "cycle_type" =>
           /\ rfex.op = "j"
           /\ program.target[rfex.common.pc] = rfex.common.pc
      /\ rfex.op # "eret"
      /\ rfex.op \notin {"ei", "di"} => status' = status
  BY <1>2, ExDecides
<1>4. /\ q.pc = rfex.common.pc /\ rfex.common.killed = q.annulled
      /\ rfex.op = IF q.annulled THEN "nop" ELSE program.op[q.pc]
      /\ Fits(program, BehindDc, rfex.common)
      /\ BehindDc = BehindWb
      /\ BehindEx = After(q, NoOutcome, b)
  BY <1>1, ExPoint
<1>5. ~icrf.fault
  BY <1>1 DEF IInv, FaultsDrain
<1>6. /\ WbHere' = WbHere /\ ~DcHere /\ DcHere' /\ ExHere /\ ~ExHere'
      /\ RfHere /\ RfHere'
  BY <1>1, <1>5 DEF WbHere, DcHere, ExHere, RfHere
<1>7. icrf.via.kind = "next" /\ icVia.kind = "next"
  BY <1>1, <1>5, <1>6 DEF InFlight, Linked, Follows
<1>8. /\ Fits(program, BehindEx, icrf)
      /\ FetchFits(program, BehindRf, icVia, icPc)
  BY <1>6 DEF InFlight, InOrder
<1>9. /\ ~Trapping(icrf.via) /\ icrf.via.to = NoJump
      /\ ~Trapping(icVia) /\ icVia.to = NoJump
      /\ Point(BehindEx, icrf.via, icrf.pc) = BehindEx
      /\ Reached(BehindEx, icrf.via) = BehindEx
      /\ icrf.pc = BehindEx.pc /\ icrf.bd = BehindEx.slot
      /\ Point(BehindRf, icVia, icPc) = BehindRf
      /\ icPc = BehindRf.pc
  <2>1. FetchFits(program, BehindEx, icrf.via, icrf.pc)
    BY <1>8 DEF Fits
  <2>2. /\ ~Trapping(icrf.via) /\ icrf.via.to = NoJump
        /\ ~Trapping(icVia) /\ icVia.to = NoJump
    BY <1>7, <1>8, <2>1 DEF FetchFits
  <2>3. /\ Point(BehindEx, icrf.via, icrf.pc) = BehindEx
        /\ Reached(BehindEx, icrf.via) = BehindEx
        /\ icrf.pc = BehindEx.pc
    BY <1>7, <2>1, PointCases
  <2>4. Point(BehindRf, icVia, icPc) = BehindRf /\ icPc = BehindRf.pc
    BY <1>7, <1>8, PointCases
  <2>5. icrf.bd = BehindEx.slot
    BY <1>8, <2>2, <2>3 DEF Fits
  <2>6. QED
    BY <2>2, <2>3, <2>4, <2>5
<1>10. BehindWb' = BehindWb
  BY <1>1, <1>6 DEF BehindWb, Behind
<1>11. BehindDc' = After(q, o, b)
  BY <1>1, <1>4, <1>6, <1>10 DEF BehindDc, Behind
<1>12. BehindEx' = After(q, o, b)
  BY <1>6, <1>11 DEF BehindEx, Behind
<1>13. BehindRf = After(BehindEx, NoOutcome, IsBranch(program, BehindEx))
  BY <1>6, <1>9 DEF BehindRf, Behind
<1>14. Point(BehindEx', icrf'.via, icrf'.pc) = BehindEx'
       /\ Reached(BehindEx', icrf'.via) = BehindEx'
  BY <1>1, <1>9 DEF Point, Reached
<1>15. BehindRf' =
         After(BehindEx', NoOutcome, IsBranch(program, BehindEx'))
  BY <1>1, <1>6, <1>14 DEF BehindRf, Behind
<1>16. BehindEx'.pc = BehindEx.pc /\ BehindEx'.slot = BehindEx.slot
       /\ BehindEx'.annulled = o.annuls
  BY <1>4, <1>12, PointViews
<1>17. icPc' = BehindRf'.pc
  <2>1. BehindRf'.pc = BehindEx'.npc
    BY <1>15, PointViews
  <2>2. BehindEx.npc = Succ(q.npc) /\ BehindRf.pc = BehindEx.npc
    BY <1>4, <1>13, PointViews
  <2>3. o.jump = NoJump => BehindEx'.npc = Succ(q.npc)
    BY <1>12, PointViews
  <2>4. o.jump # NoJump => BehindEx'.npc = o.jump
    BY <1>12, PointViews
  <2>5. QED
    BY <1>3, <1>9, <2>1, <2>2, <2>3, <2>4
<1> HIDE DEF q, b, o
<1>18. Executed(program, BehindWb', exdc'.common, o, exdc'.dest)
  <2>1. Point(BehindWb', exdc'.common.via, exdc'.common.pc) = q
    BY <1>1, <1>4, <1>10 DEF q
  <2>2. Fits(program, BehindWb', exdc'.common)
    BY <1>1, <1>4, <1>10
  <2>3. ~IsEret(program, q)
    BY <1>3, <1>4 DEF IsEret
  <2>4. o.jump # NoJump => IsBranch(program, q)
    BY <1>3, <1>4 DEF IsBranch, Branch
  <2>5. exdc'.dest = "cycle_type" =>
          /\ program.op[exdc'.common.pc] = "j"
          /\ program.target[exdc'.common.pc] = exdc'.common.pc
          /\ ~exdc'.common.killed
    BY <1>1, <1>3, <1>4
  <2>6. QED
    BY <1>1, <1>4, <2>1, <2>2, <2>3, <2>4, <2>5 DEF Executed
<1>19. Fits(program, BehindEx', icrf)
  <2>1. FetchFits(program, BehindEx', icrf.via, icrf.pc)
    BY <1>7, <1>9, <1>16, NextFits
  <2>2. QED
    BY <1>1, <1>9, <1>14, <1>16, <2>1 DEF Fits
<1>20. FetchFits(program, BehindRf', icVia, icPc')
  BY <1>7, <1>9, <1>17, NextFits
<1>21. InOrder'
  <2>1. WbHere => Executed(program, flow, dcwb.common, dcwb.outcome, dcwb.dest)
    BY DEF InFlight, InOrder
  <2>2. QED
    BY <1>1, <1>6, <1>18, <1>19, <1>20, <2>1 DEF InOrder, o
<1>22. Linked'
  <2>1. Follows(dcwb.common, rfex.common.via)
    BY <1>1, <1>6 DEF InFlight, Linked
  <2>2. Follows(rfex.common, icrf.via) /\ Follows(icrf, icVia)
    BY <1>1, <1>6 DEF InFlight, Linked
  <2>3. QED
    BY <1>1, <1>6, <2>1, <2>2 DEF Linked
<1>23. Masking'
  <2>1. rfex.annul = FALSE
    BY <1>1, <1>2, <1>6 DEF InFlight, Masking, TypeOK, RfexLatch
  <2>2. rfex' \in RfexLatch
    BY Steps DEF IInv, TypeOK, Next, ExStage, ExPasses
  <2>3. rfex'.annul \in BOOLEAN
    BY <2>2 DEF RfexLatch
  <2>4. rfex'.annul = o.annuls
    BY <1>3, <2>1, <2>3
  <2>5. rfex'.annul = Point(BehindEx', icrf'.via, icrf'.pc).annulled
    BY <1>14, <1>16, <2>4
  <2>6. QED
    BY <1>1, <2>5 DEF Masking
<1>24. NoStaleBranch'
  BY <1>1, <1>7 DEF NoStaleBranch
<1>25. LevelHeld'
  <2>1. ~Trapping(icVia) /\ ~Trapping(icrf.via)
    BY <1>9
  <2>2. ASSUME Trapping(rfex.common.via)
        PROVE  status'.exl
    <3>1. status.exl
      BY <1>6, <2>2 DEF InFlight, LevelHeld
    <3>2. /\ rfex.common.pc \in {RefillVec, GeneralVec}
          /\ q = At(rfex.common.pc)
      BY <1>4, <2>2 DEF Fits, FetchFits, q, Point
    <3>3. rfex.op = program.op[rfex.common.pc]
      BY <1>4, <3>2, PointViews
    <3>4. status' = status
      BY <1>3, <3>2, <3>3 DEF Handled
    <3>5. QED
      BY <3>1, <3>4
  <2>3. QED
    BY <1>1, <1>6, <2>1, <2>2 DEF LevelHeld
<1>26. QED
  BY <1>21, <1>22, <1>23, <1>24, <1>25 DEF InFlight

LEMMA IcInFlight ==
  ASSUME IInv, TypesOfPass, InFlight, Decoded, IcStage
  PROVE  InFlight'
<1> DEFINE word == IF rfex.annul THEN "nop" ELSE rfex.iw
           q == Point(BehindDc, rfex.common.via, rfex.common.pc)
           r == Point(BehindEx, icVia, icPc)
<1>1. /\ stage = "ic" /\ Position = "ic" /\ Position' \in {"wb", "busywait"}
      /\ rfex'.common.pc = rfex.common.pc
      /\ rfex'.common.fault = rfex.common.fault
      /\ rfex'.common.bd = rfex.common.bd
      /\ rfex'.common.via = rfex.common.via
      /\ rfex'.common.killed = rfex.annul /\ ~rfex'.annul
      /\ icrf'.pc = icPc /\ icrf'.via = icVia /\ ~icrf'.fault
      /\ icrf'.bd = (word \in Branch)
      /\ icPc' = Succ(icPc) /\ icVia' = Onward
      /\ UNCHANGED <<program, exdc, dcwb, flow, status>>
  BY IcViews
<1>2. /\ WbHere' = WbHere /\ DcHere' = DcHere /\ ExHere' = ExHere
      /\ ~RfHere /\ RfHere'
  BY <1>1 DEF WbHere, DcHere, ExHere, RfHere
<1>3. ExHere = ~rfex.common.fault
  BY <1>1, HereByPosition
<1>4. BehindWb' = BehindWb
  BY <1>1, <1>2 DEF BehindWb, Behind
<1>5. BehindDc' = BehindDc
  BY <1>1, <1>2, <1>4 DEF BehindDc, Behind
<1>6. BehindEx' = BehindEx
  BY <1>1, <1>2, <1>5 DEF BehindEx, Behind
<1>7. BehindRf = BehindEx
  BY <1>2 DEF BehindRf, Behind
<1>8. BehindRf' = After(r, NoOutcome, IsBranch(program, r))
  BY <1>1, <1>2, <1>6 DEF BehindRf, Behind
<1>9. FetchFits(program, BehindEx, icVia, icPc)
  BY <1>7 DEF InFlight, InOrder
<1>10. (icVia.kind = "next") = ExHere
  <2>1. Follows(rfex.common, icVia)
    BY <1>1 DEF InFlight, Linked
  <2>2. rfex.common.fault \in BOOLEAN
    BY DEF IInv, TypeOK, RfexLatch, Common
  <2>3. QED
    BY <1>3, <2>1, <2>2, HereTypes DEF Follows
<1>11. ExHere => /\ Fits(program, BehindDc, rfex.common)
                 /\ q.pc = rfex.common.pc /\ rfex.annul = q.annulled
                 /\ rfex.iw = program.op[rfex.common.pc]
                 /\ BehindEx = After(q, NoOutcome, IsBranch(program, q))
  <2>1. ASSUME ExHere
        PROVE  /\ Fits(program, BehindDc, rfex.common)
               /\ BehindEx = After(q, NoOutcome, IsBranch(program, q))
    BY <2>1 DEF InFlight, InOrder, BehindEx, Behind
  <2>2. ASSUME ExHere
        PROVE  q.pc = rfex.common.pc
    BY <2>1, <2>2 DEF Fits, FetchFits
  <2>3. ASSUME ExHere
        PROVE  rfex.annul = q.annulled /\ rfex.iw = program.op[rfex.common.pc]
    BY <1>1, <2>3 DEF InFlight, Masking, Decoded
  <2>4. QED
    BY <2>1, <2>2, <2>3
<1>12. /\ r.pc = icPc
       /\ icVia.kind = "next" =>
            r = BehindEx /\ Reached(BehindEx, icVia) = BehindEx
       /\ icVia.kind # "next" => r = At(icPc)
       /\ icVia.kind # "next" /\ ~Trapping(icVia) =>
            Reached(BehindEx, icVia) = At(icPc)
  BY <1>9, PointCases
<1>13. r.npc = Succ(icPc)
  <2>1. CASE icVia.kind = "next"
    <3>1. BehindEx = After(q, NoOutcome, IsBranch(program, q))
      BY <1>10, <1>11, <2>1
    <3>2. BehindEx.npc = Succ(q.npc) /\ BehindEx.pc = q.npc
      BY <3>1, PointViews
    <3>3. QED
      BY <1>12, <2>1, <3>2
  <2>2. CASE icVia.kind # "next"
    BY <1>12, <2>2, PointViews
  <2>3. QED
    BY <2>1, <2>2
<1>14. ~Trapping(icVia) => (word \in Branch) = Reached(BehindEx, icVia).slot
  <2>1. ASSUME icVia.kind = "next"
        PROVE  (word \in Branch) = Reached(BehindEx, icVia).slot
    <3>1. Reached(BehindEx, icVia).slot = IsBranch(program, q)
      <4>1. BehindEx = After(q, NoOutcome, IsBranch(program, q))
        BY <1>10, <1>11, <2>1
      <4>2. BehindEx.slot = IsBranch(program, q)
        BY <4>1 DEF After
      <4>3. QED
        BY <1>12, <2>1, <4>2
    <3>2. /\ q.pc = rfex.common.pc /\ rfex.annul = q.annulled
          /\ rfex.iw = program.op[rfex.common.pc]
      BY <1>10, <1>11, <2>1
    <3>3. (word \in Branch) = IsBranch(program, q)
      BY <3>2 DEF IsBranch, Branch
    <3>4. QED
      BY <3>1, <3>3
  <2>2. ASSUME ~Trapping(icVia), icVia.kind # "next"
        PROVE  (word \in Branch) = Reached(BehindEx, icVia).slot
    <3>1. icVia.kind \in {"reset", "eret"}
      BY <2>2 DEF IInv, TypeOK, Via, Trapping
    <3>2. word \notin Branch
      BY <3>1 DEF InFlight, NoStaleBranch, Branch
    <3>3. Reached(BehindEx, icVia).slot = FALSE
      BY <1>12, <2>2, PointViews
    <3>4. (word \in Branch) = FALSE
      BY <3>2
    <3>5. QED
      BY <3>3, <3>4, Zenon
  <2>3. QED
    BY <2>1, <2>2
<1> HIDE DEF word, q, r
<1>15. Onward.kind = "next" /\ Onward.to = NoJump /\ ~Trapping(Onward)
  BY DEF Onward, Trapping
<1>16. FetchFits(program, BehindRf', Onward, Succ(icPc))
  <2>1. BehindRf'.pc = Succ(icPc)
    BY <1>8, <1>13, PointViews
  <2>2. QED
    BY <1>15, <2>1, NextFits
<1>17. Fits(program, BehindEx, icrf')
  BY <1>1, <1>9, <1>14 DEF Fits
<1>18. ExHere => Fits(program, BehindDc, rfex'.common)
  BY <1>1, <1>11 DEF Fits
<1>19. InOrder'
  BY <1>1, <1>2, <1>4, <1>5, <1>6, <1>16, <1>17, <1>18
     DEF InFlight, InOrder
<1>20. Linked'
  <2>1. Follows(icrf', Onward)
    <3>1. icrf'.fault \in BOOLEAN
      BY Steps DEF IInv, TypeOK, Common, Next
    <3>2. QED
      BY <1>1, <1>15, <3>1 DEF Follows
  <2>2. Follows(rfex'.common, icVia)
    BY <1>1 DEF InFlight, Linked, Follows
  <2>3. ExHere => Follows(exdc.common, rfex'.common.via)
    BY <1>1 DEF InFlight, Linked
  <2>4. DcHere => Follows(dcwb.common, exdc.common.via)
    BY <1>1 DEF InFlight, Linked
  <2>5. QED
    BY <1>1, <1>2, <2>1, <2>2, <2>3, <2>4 DEF Linked
<1>21. Masking'
  BY <1>1, <1>2, <1>5, <1>11 DEF Masking, q
<1>22. NoStaleBranch'
  BY <1>1, <1>15 DEF NoStaleBranch
<1>23. LevelHeld'
  BY <1>1, <1>2, <1>15 DEF InFlight, LevelHeld
<1>24. QED
  BY <1>19, <1>20, <1>21, <1>22, <1>23 DEF InFlight

\* A redirection leaves in flight what it has not killed.
LEMMA RedirectedInFlight ==
  ASSUME IInv, InFlight, Position' \in {"wb", "ic"},
         program' = program, flow' = flow,
         rfex'.common.fault, Position' = "wb" => icrf'.fault,
         icVia'.kind # "next", Follows(rfex'.common, icVia'),
         Position' = "wb" => Follows(icrf', icVia'),
         NoStaleBranch', Trapping(icVia') => status'.exl,
         \/ /\ AllKilled' /\ Position' = "wb"
            /\ FetchFits(program, flow, icVia', icPc')
         \/ /\ Position = "ex" /\ exdc'.common.fault /\ dcwb' = dcwb
            /\ FetchFits(program, BehindWb, icVia', icPc')
         \/ /\ Position = "rf" /\ exdc' = exdc /\ dcwb' = dcwb
            /\ FetchFits(program, BehindDc, icVia', icPc')
            /\ status'.exl
  PROVE  InFlight'
<1>1. ~ExHere' /\ ~RfHere'
  BY DEF ExHere, RfHere
<1>2. BehindEx' = BehindDc' /\ BehindRf' = BehindDc'
  BY <1>1 DEF BehindEx, BehindRf, Behind
<1>3. CASE AllKilled' /\ Position' = "wb"
             /\ FetchFits(program, flow, icVia', icPc')
  <2>1. ~WbHere' /\ ~DcHere'
    BY <1>3 DEF WbHere, DcHere, AllKilled
  <2>2. BehindDc' = flow
    BY <2>1 DEF BehindDc, BehindWb, Behind
  <2>3. InOrder'
    BY <1>1, <1>2, <1>3, <2>1, <2>2 DEF InOrder
  <2>4. Linked'
    BY <1>1, <1>3, <2>1 DEF Linked
  <2>5. Masking' /\ LevelHeld'
    BY <1>1, <1>3, <2>1 DEF Masking, LevelHeld
  <2>6. QED
    BY <2>3, <2>4, <2>5 DEF InFlight
<1>4. CASE /\ Position = "ex" /\ exdc'.common.fault /\ dcwb' = dcwb
           /\ FetchFits(program, BehindWb, icVia', icPc')
  <2>1. WbHere' = WbHere /\ ~DcHere'
    BY <1>4 DEF WbHere, DcHere
  <2>2. BehindWb' = BehindWb
    BY <1>4, <2>1 DEF BehindWb, Behind
  <2>3. BehindDc' = BehindWb
    BY <2>1, <2>2 DEF BehindDc, Behind
  <2>4. InOrder'
    BY <1>1, <1>2, <1>4, <2>1, <2>2, <2>3 DEF InFlight, InOrder
  <2>5. Linked'
    BY <1>1, <1>4, <2>1 DEF Linked
  <2>6. Masking' /\ LevelHeld'
    BY <1>1, <1>4, <2>1 DEF Masking, LevelHeld
  <2>7. QED
    BY <2>4, <2>5, <2>6 DEF InFlight
<1>5. CASE /\ Position = "rf" /\ exdc' = exdc /\ dcwb' = dcwb
           /\ FetchFits(program, BehindDc, icVia', icPc')
           /\ status'.exl
  <2>1. WbHere' = WbHere /\ DcHere' = DcHere
    BY <1>5 DEF WbHere, DcHere
  <2>2. BehindWb' = BehindWb
    BY <1>5, <2>1 DEF BehindWb, Behind
  <2>3. BehindDc' = BehindDc
    BY <1>5, <2>1, <2>2 DEF BehindDc, Behind
  <2>4. InOrder'
    BY <1>1, <1>2, <1>5, <2>1, <2>2, <2>3 DEF InFlight, InOrder
  <2>5. Linked'
    BY <1>1, <1>5, <2>1 DEF InFlight, Linked
  <2>6. Masking' /\ LevelHeld'
    BY <1>1, <1>5, <2>1 DEF Masking, LevelHeld
  <2>7. QED
    BY <2>4, <2>5, <2>6 DEF InFlight
<1>6. QED
  BY <1>3, <1>4, <1>5

LEMMA TrapInFlight ==
  ASSUME IInv, TypesOfPass, FlowInv, [Next]_vars,
         \/ DcInterrupt \/ DcTlbFault \/ DcWatch
         \/ ExUnusable \/ ExTrap \/ RfTlbFault \/ BusyWaitOver
  PROVE  InFlight' /\ cycleType' = 0 /\ flow' = flow
<1> DEFINE Trap(l) == \E vector \in {RefillVec, GeneralVec} :
                        Exception(l, vector)
<1>0. /\ exdc.common \in Common /\ rfex.common \in Common
      /\ dcwb.common \in Common /\ icrf \in Common
  BY DEF IInv, TypeOK, RfexLatch, ExdcLatch, DcwbLatch
<1>1. ASSUME NEW l, Trap(l)
      PROVE  /\ cycleType' = 0 /\ Position' = "wb"
             /\ program' = program /\ flow' = flow
             /\ Trapping(icVia') /\ icVia'.kind # "next"
             /\ NoStaleBranch' /\ status'.exl
  <2>1. PICK vector \in {RefillVec, GeneralVec} : Exception(l, vector)
    BY <1>1
  <2>2. /\ cycleType' = 0 /\ Position' = "wb"
        /\ program' = program /\ flow' = flow
        /\ Trapping(icVia') /\ icVia'.kind # "next"
        /\ status' = [status EXCEPT !.exl = TRUE]
    BY <2>1, ExceptionViews
  <2>3. NoStaleBranch'
    BY <2>2 DEF NoStaleBranch, Trapping
  <2>4. status'.exl
    BY <2>2 DEF IInv, TypeOK, Status
  <2>5. QED
    BY <2>2, <2>3, <2>4
<1>2. ASSUME NEW l \in Common, Trap(l), NEW f, Fits(program, f, l),
             Trapping(l.via) => status.exl
      PROVE  FetchFits(program, f, icVia', icPc')
  BY <1>2, TrapFits
<1>3. ASSUME icrf'.fault, rfex'.common.fault, icVia'.kind # "next"
      PROVE  Follows(icrf', icVia') /\ Follows(rfex'.common, icVia')
  <2>1. icrf'.fault \in BOOLEAN /\ rfex'.common.fault \in BOOLEAN
    BY Steps DEF IInv, TypeOK, Common, RfexLatch
  <2>2. QED
    BY <1>3, <2>1 DEF Follows
<1> HIDE DEF Trap
<1>4. CASE DcInterrupt \/ DcTlbFault \/ DcWatch
  <2>1. Position = "dc" /\ ~exdc.common.fault /\ AllKilled'
    BY <1>4, Redirections
  <2>2. Trap(exdc.common)
    BY <1>4, Redirections DEF TrapsDc, Trap
  <2>3. DcHere /\ ~WbHere
    BY <2>1 DEF DcHere, WbHere
  <2>4. BehindWb = flow
    BY <2>3 DEF BehindWb, Behind
  <2>5. Fits(program, flow, exdc.common)
    BY <2>3, <2>4 DEF FlowInv, InFlight, InOrder, Executed
  <2>6. Trapping(exdc.common.via) => status.exl
    BY <2>3 DEF FlowInv, InFlight, LevelHeld
  <2>7. FetchFits(program, flow, icVia', icPc')
    BY <1>0, <1>2, <2>2, <2>5, <2>6
  <2>8. InFlight'
    BY <1>1, <1>3, <2>1, <2>2, <2>7, RedirectedInFlight
       DEF AllKilled, FlowInv
  <2>9. QED
    BY <1>1, <2>2, <2>8
<1>5. CASE ExUnusable \/ ExTrap
  <2>1. /\ Position = "ex" /\ ~rfex.common.fault
        /\ exdc'.common.fault /\ rfex'.common.fault /\ icrf'.fault
        /\ dcwb' = dcwb
    BY <1>5, Redirections
  <2>2. Trap(rfex.common)
    BY <1>5, Redirections DEF TrapsEx, Trap
  <2>3. ExHere /\ ~DcHere
    BY <2>1 DEF DcHere, ExHere
  <2>4. BehindDc = BehindWb
    BY <2>3 DEF BehindDc, Behind
  <2>5. Fits(program, BehindWb, rfex.common)
    BY <2>3, <2>4 DEF FlowInv, InFlight, InOrder
  <2>6. Trapping(rfex.common.via) => status.exl
    BY <2>3 DEF FlowInv, InFlight, LevelHeld
  <2>7. FetchFits(program, BehindWb, icVia', icPc')
    BY <1>0, <1>2, <2>2, <2>5, <2>6
  <2>8. InFlight'
    BY <1>1, <1>3, <2>1, <2>2, <2>7, RedirectedInFlight DEF FlowInv
  <2>9. QED
    BY <1>1, <2>2, <2>8
<1>6. CASE RfTlbFault
  <2>1. /\ Position = "rf" /\ ~icrf.fault
        /\ rfex'.common.fault /\ icrf'.fault
        /\ exdc' = exdc /\ dcwb' = dcwb
    BY <1>6, Redirections
  <2>2. Trap(icrf)
    BY <1>6, Redirections DEF TrapsRf, Trap
  <2>3. RfHere /\ ~ExHere
    BY <2>1 DEF RfHere, ExHere
  <2>4. BehindEx = BehindDc
    BY <2>3 DEF BehindEx, Behind
  <2>5. Fits(program, BehindDc, icrf)
    BY <2>3, <2>4 DEF FlowInv, InFlight, InOrder
  <2>6. Trapping(icrf.via) => status.exl
    BY <2>3 DEF FlowInv, InFlight, LevelHeld
  <2>7. FetchFits(program, BehindDc, icVia', icPc')
    BY <1>0, <1>2, <2>2, <2>5, <2>6
  <2>8. InFlight'
    BY <1>1, <1>3, <2>1, <2>2, <2>7, RedirectedInFlight DEF FlowInv
  <2>9. QED
    BY <1>1, <2>2, <2>8
<1>7. CASE BusyWaitOver
  <2>1. /\ Position = "busywait" /\ cycleType = 5 /\ AllKilled'
        /\ Exception(dcwb.common, GeneralVec)
    BY <1>7, Redirections
  <2>2. Trap(dcwb.common)
    BY <2>1 DEF Trap
  <2>3. ~faultPresent /\ dcwb.common.via.kind = "next"
    BY <2>1 DEF FlowInv, Pausing, WaitingInSlot, Waiting, Oldest
  <2>4. ~dcwb.common.fault
    BY <2>3 DEF IInv, FastModeClean
  <2>5. WbHere
    BY <2>1, <2>4 DEF WbHere
  <2>6. Fits(program, flow, dcwb.common)
    BY <2>5 DEF FlowInv, InFlight, InOrder, Executed
  <2>7. ~Trapping(dcwb.common.via)
    BY <2>3 DEF Trapping
  <2>8. FetchFits(program, flow, icVia', icPc')
    BY <1>0, <1>2, <2>2, <2>6, <2>7
  <2>9. InFlight'
    BY <1>1, <1>3, <2>1, <2>2, <2>8, RedirectedInFlight
       DEF AllKilled, FlowInv
  <2>10. QED
    BY <1>1, <2>2, <2>9
<1>8. QED
  BY <1>4, <1>5, <1>6, <1>7

LEMMA EretInFlight ==
  ASSUME IInv, InFlight, Decoded, Handled, [Next]_vars, ExEret
  PROVE  InFlight'
<1> DEFINE v == rfex.common.via
           q == Point(BehindDc, v, rfex.common.pc)
<1>1. /\ stage = "ex" /\ Position = "ex" /\ Position' = "ic"
      /\ rfex.op = "eret" /\ Live(rfex.common)
      /\ icVia'.kind = "eret" /\ icVia'.to = icPc'
      /\ icPc' \in Addr
      /\ exdc'.common.fault /\ rfex'.common.fault
      /\ rfex'.iw = rfex.iw /\ rfex'.annul = rfex.annul
      /\ UNCHANGED <<program, icrf, dcwb, flow>>
  BY EretViews DEF IInv
<1>2. ~rfex.common.fault
  BY <1>1, LiveIsUnfaulted
<1>3. /\ q.pc = rfex.common.pc /\ rfex.op = rfex.iw
      /\ rfex.op = IF q.annulled THEN "nop" ELSE program.op[q.pc]
      /\ Fits(program, BehindDc, rfex.common)
      /\ BehindDc = BehindWb
  BY <1>1, <1>2, ExPoint
<1>4. IsEret(program, q)
  BY <1>1, <1>3 DEF IsEret
<1>5. FetchFits(program, BehindWb, v, rfex.common.pc)
  BY <1>3 DEF Fits
<1>6. IsEret(program, BehindWb)
  <2>1. CASE Trapping(v)
    <3>1. rfex.common.pc \in {RefillVec, GeneralVec}
      BY <1>5, <2>1 DEF FetchFits
    <3>2. QED
      BY <1>3, <1>4, <3>1 DEF IsEret, Handled
  <2>2. CASE v.kind = "next"
    BY <1>3, <1>4, <1>5, <2>2, PointCases
  <2>3. CASE v.kind = "eret"
    BY <1>5, <2>3 DEF FetchFits
  <2>4. CASE v.kind = "reset" /\ ~Trapping(v)
    <3>1. BehindWb = At(v.to)
      BY <1>5, <2>4 DEF FetchFits
    <3>2. q = At(v.to)
      BY <1>3, <1>5, <2>4, <3>1 DEF FetchFits, Point, Reached
    <3>3. QED
      BY <1>4, <3>1, <3>2
  <2>5. v.kind \in {"next", "reset", "eret"} \/ Trapping(v)
    BY DEF IInv, TypeOK, RfexLatch, Common, Via, Trapping
  <2>6. QED
    BY <2>1, <2>2, <2>3, <2>4, <2>5
<1>7. ~Trapping(icVia') /\ icVia'.kind # "next" /\ icVia'.to # NoJump
  BY <1>1, SizeAssumption DEF Trapping, Addr, NoJump
<1>8. FetchFits(program, BehindWb, icVia', icPc')
  <2>1. Point(BehindWb, icVia', icPc') = At(icPc')
    BY <1>1, <1>7 DEF Point, Reached
  <2>2. Point(BehindWb, icVia', icPc').pc = icPc'
    BY <2>1, PointViews
  <2>3. QED
    BY <1>1, <1>6, <1>7, <2>2 DEF FetchFits
<1>9. NoStaleBranch'
  BY <1>1, <1>3 DEF NoStaleBranch, Branch
<1>10. Follows(rfex'.common, icVia')
  <2>1. rfex'.common.fault \in BOOLEAN
    BY Steps DEF IInv, TypeOK, RfexLatch, Common
  <2>2. QED
    BY <1>1, <1>7, <2>1 DEF Follows
<1>11. QED
  BY <1>1, <1>7, <1>8, <1>9, <1>10, RedirectedInFlight

\* After the reset nothing is in flight.
LEMMA ResetFlow ==
  ASSUME IInv, Cold, [Next]_vars, DcReset
  PROVE  FlowInv'
<1>1. /\ Position' = "wb" /\ cycleType' = 0 /\ AllKilled'
      /\ icPc' = BootPc /\ icVia' = By("reset", BootPc)
      /\ program' = program /\ flow' = At(BootPc)
  BY ResetViews
<1>2. ~WbHere' /\ ~DcHere' /\ ~ExHere' /\ ~RfHere'
  BY <1>1 DEF WbHere, DcHere, ExHere, RfHere, AllKilled
<1>3. BehindRf' = At(BootPc)
  BY <1>1, <1>2 DEF BehindWb, BehindDc, BehindEx, BehindRf, Behind
<1>4. icVia'.kind = "reset" /\ icVia'.to = BootPc
  BY <1>1 DEF By, Onward
<1>5. ~Trapping(icVia') /\ icVia'.to # NoJump
  BY <1>4, AddrAssumption, SizeAssumption DEF Trapping, Addr, NoJump
<1>6. FetchFits(program, At(BootPc), icVia', icPc')
  <2>1. Point(At(BootPc), icVia', icPc') = At(BootPc)
    BY <1>4, <1>5 DEF Point, Reached
  <2>2. Point(At(BootPc), icVia', icPc').pc = icPc'
    BY <1>1, <2>1, PointViews
  <2>3. QED
    BY <1>4, <1>5, <2>2 DEF FetchFits
<1>7. InOrder'
  BY <1>1, <1>2, <1>3, <1>6 DEF InOrder
<1>8. Linked'
  <2>1. icrf'.fault \in BOOLEAN
    BY Steps DEF IInv, TypeOK, Common
  <2>2. Follows(icrf', icVia')
    BY <1>1, <1>4, <2>1 DEF Follows, AllKilled
  <2>3. QED
    BY <1>1, <1>2, <2>2 DEF Linked
<1>9. Masking' /\ LevelHeld'
  BY <1>1, <1>2, <1>5 DEF Masking, LevelHeld
<1>10. NoStaleBranch'
  <2>1. rfex'.annul = rfex.annul
    BY DEF DcReset, DcFault, IInv, TypeOK, RfexLatch
  <2>2. QED
    BY <2>1 DEF Cold, NoStaleBranch
<1>11. Pausing'
  <2>1. ~Waiting'
    BY <1>1 DEF Waiting
  <2>2. SlotsFollow'
    BY <1>1, PointViews DEF SlotsFollow
  <2>3. QED
    BY <2>1, <2>2 DEF Pausing, WaitingInSlot, WaitingAfterJump
<1>12. QED
  BY <1>7, <1>8, <1>9, <1>10, <1>11 DEF FlowInv, InFlight

-----------------------------------------------------------------------------
(* The busy wait.                                                          *)

\* Whatever does not retire an instruction leaves the core where it waits.
LEMMA KeptPausing ==
  ASSUME Pausing, program' = program, flow' = flow,
         Waiting' => /\ Waiting /\ faultPresent' = faultPresent
                     /\ Oldest'.via = Oldest.via
  PROVE  Pausing'
<1>1. WaitingInSlot'
  BY DEF Pausing, WaitingInSlot
<1>2. PlainSlots' = PlainSlots /\ SlotsFollow' = SlotsFollow
  BY DEF PlainSlots, SlotsFollow
<1>3. PlainSlots => SlotsFollow' /\ WaitingAfterJump'
  BY <1>2 DEF Pausing, WaitingAfterJump
<1>4. QED
  BY <1>1, <1>2, <1>3 DEF Pausing

LEMMA WbPausing ==
  ASSUME IInv, TypesOfPass, FlowInv, WbStage
  PROVE  Pausing'
<1>1. /\ stage = "wb" /\ stage' = "dc" /\ Position = "wb" /\ Position' = "dc"
      /\ UNCHANGED <<program, rfex, exdc, dcwb, slow>>
  BY WbViews DEF IInv
<1>2. CASE WbSkip
  <2>1. cycleType' = 0 /\ flow' = flow
    BY <1>1, <1>2 DEF WbSkip, TypesOfPass
  <2>2. ~Waiting'
    BY <2>1 DEF Waiting
  <2>3. QED
    BY <1>1, <2>1, <2>2, KeptPausing DEF FlowInv
<1>3. CASE WbRetire
  <2> DEFINE l == dcwb.common
             o == dcwb.outcome
             q == Point(flow, l.via, l.pc)
             b == IsBranch(program, q)
  <2>1. WbHere
    BY <1>1, <1>3, LiveIsUnfaulted DEF WbRetire, WbHere
  <2>2. /\ Fits(program, flow, l)
        /\ l.killed = q.annulled
        /\ o.jump # NoJump => b
        /\ dcwb.dest = "cycle_type" =>
             program.op[l.pc] = "j" /\ program.target[l.pc] = l.pc /\ ~l.killed
    BY <2>1 DEF FlowInv, InFlight, InOrder, Executed
  <2>3. FetchFits(program, flow, l.via, l.pc)
    BY <2>2 DEF Fits
  <2>4. /\ q.pc = l.pc
        /\ l.via.kind = "next" => q = flow
        /\ l.via.kind # "next" => q = At(l.pc)
    BY <2>3, PointCases
  <2>5. flow' = After(q, o, b)
    BY <1>3, <2>1, RetiringPoint DEF FlowInv, InFlight, BehindWb, Behind
  <2>6. flow'.pc = q.npc /\ flow'.slot = b
        /\ (o.jump = NoJump => flow'.npc = Succ(q.npc))
    BY <2>5 DEF After
  <2>7. l.pc \in Addr /\ flow.pc \in Addr
    BY DEF IInv, TypeOK, DcwbLatch, Common, Flow
  <2>8. b = (program.op[l.pc] \in Branch /\ ~l.killed)
    BY <2>2, <2>4 DEF IsBranch
  <2> HIDE DEF b, q, o
  <2>9. ASSUME PlainSlots, program.op[l.pc] \in Branch
        PROVE  q.npc = Succ(l.pc)
    <3>1. CASE l.via.kind # "next"
      BY <2>4, <3>1, PointViews
    <3>2. CASE l.via.kind = "next"
      <4>1. q = flow /\ flow.pc = l.pc
        BY <2>4, <3>2
      <4>2. SlotsFollow
        BY <2>9 DEF FlowInv, Pausing
      <4>3. ~flow.slot
        <5>1. SUFFICES ASSUME flow.slot PROVE FALSE
          OBVIOUS
        <5>2. program.op[Pred(flow.pc)] \in Branch
          BY <4>2, <5>1 DEF SlotsFollow
        <5>3. Pred(flow.pc) \in Addr /\ Succ(Pred(flow.pc)) = flow.pc
          BY <2>7, Neighbours, AddrClosed
        <5>4. QED
          BY <2>9, <4>1, <5>2, <5>3 DEF PlainSlots
      <4>4. QED
        BY <4>1, <4>2, <4>3 DEF SlotsFollow
    <3>3. QED
      BY <3>1, <3>2
  <2>10. SlotsFollow' \/ ~PlainSlots
    <3>1. CASE PlainSlots /\ b
      <4>1. program.op[l.pc] \in Branch
        BY <2>8, <3>1
      <4>2. flow'.pc = Succ(l.pc)
        BY <2>6, <2>9, <3>1, <4>1
      <4>3. Pred(flow'.pc) = l.pc
        BY <2>7, <4>2, Neighbours
      <4>4. flow'.slot
        BY <2>6, <3>1
      <4>5. QED
        BY <1>1, <4>1, <4>3, <4>4 DEF SlotsFollow
    <3>2. CASE ~b
      <4>1. o.jump = NoJump
        BY <2>2, <3>2
      <4>2. ~flow'.slot /\ flow'.npc = Succ(flow'.pc)
        BY <2>6, <3>2, <4>1
      <4>3. QED
        BY <4>2 DEF SlotsFollow
    <3>3. QED
      BY <3>1, <3>2
  <2>11. ASSUME Waiting'
         PROVE  /\ dcwb.dest = "cycle_type" /\ ~slow
                /\ ~faultPresent /\ ~faultPresent'
    <3>1. cycleType' = 5 /\ ~slow
      BY <1>1, <2>11 DEF Waiting
    <3>2. dcwb.dest = "cycle_type"
      BY <1>1, <1>3, <3>1 DEF WbRetire, TypesOfPass
    <3>3. ~faultPresent
      BY <1>1, <3>1 DEF IInv, FaultsDrain
    <3>4. faultPresent' = faultPresent
      BY <1>3, <3>1 DEF WbRetire, SlowPass
    <3>5. QED
      BY <3>1, <3>2, <3>3, <3>4
  <2>12. WaitingInSlot'
    <3>1. ASSUME Waiting'
          PROVE  ~faultPresent' /\ flow'.slot /\ exdc.common.via.kind = "next"
      <4>1. b
        BY <2>2, <2>8, <2>11, <3>1 DEF Branch
      <4>2. flow'.slot
        BY <2>6, <4>1
      <4>3. ~exdc.common.fault /\ ~dcwb.common.fault
        BY <2>11, <3>1 DEF IInv, FastModeClean
      <4>4. DcHere
        BY <1>1, <4>3 DEF DcHere
      <4>5. Follows(dcwb.common, exdc.common.via)
        BY <1>1, <4>4 DEF FlowInv, InFlight, Linked
      <4>6. exdc.common.via.kind = "next"
        BY <4>3, <4>5 DEF Follows
      <4>7. QED
        BY <2>11, <3>1, <4>2, <4>6
    <3>2. Oldest' = exdc.common
      BY <1>1 DEF Oldest
    <3>3. QED
      BY <3>1, <3>2 DEF WaitingInSlot
  <2>13. WaitingAfterJump' \/ ~PlainSlots
    <3>1. ASSUME Waiting', PlainSlots
          PROVE  /\ program.op[Pred(flow'.pc)] = "j"
                 /\ program.target[Pred(flow'.pc)] = Pred(flow'.pc)
      <4>1. program.op[l.pc] = "j" /\ program.target[l.pc] = l.pc
        BY <2>2, <2>11, <3>1
      <4>2. q.npc = Succ(l.pc)
        BY <2>9, <3>1, <4>1 DEF Branch
      <4>3. Pred(flow'.pc) = l.pc
        BY <2>6, <2>7, <4>2, Neighbours
      <4>4. QED
        BY <4>1, <4>3
    <3>2. QED
      BY <1>1, <3>1 DEF WaitingAfterJump
  <2>14. PlainSlots' = PlainSlots
    BY <1>1 DEF PlainSlots
  <2>15. QED
    BY <2>10, <2>12, <2>13, <2>14 DEF Pausing
<1>4. QED
  BY <1>2, <1>3 DEF WbStage

LEMMA PassPausing ==
  ASSUME IInv, TypesOfPass, Pausing,
         DcPasses \/ DcKeeps \/ ExPasses \/ ExLoadDelay \/ RfPasses \/ IcStage
           \/ ExEret
  PROVE  Pausing'
<1>0. TypeOK
  BY DEF IInv
<1>1. CASE DcPasses
  <2>1. /\ stage = "dc" /\ Position = "dc" /\ Position' = "ex"
        /\ \/ stage' = "ex" /\ cycleType' = cycleType
           \/ stage' = "cycle" /\ cycleType' = 2
        /\ dcwb'.common = exdc.common
        /\ UNCHANGED <<program, flow, slow, faultPresent>>
    BY <1>0, <1>1, DcPassViews
  <2>2. Waiting' => Waiting /\ Oldest' = Oldest
    BY <2>1 DEF Waiting, Oldest
  <2>3. QED
    BY <2>1, <2>2, KeptPausing
<1>2. CASE DcKeeps
  <2>1. cycleType' \in {1, 6} /\ UNCHANGED <<program, flow>>
    BY <1>0, <1>2, DcKeepViews
  <2>2. ~Waiting'
    BY <2>1 DEF Waiting
  <2>3. QED
    BY <2>1, <2>2, KeptPausing
<1>3. CASE ExPasses
  <2>1. /\ Position = "ex" /\ Position' = "rf"
        /\ \/ stage' = "rf" /\ cycleType' = cycleType
           \/ stage' = "cycle" /\ cycleType' = 3
        /\ UNCHANGED <<program, dcwb, flow, slow, faultPresent>>
    BY <1>0, <1>3, ExPassViews
  <2>2. Waiting' => Waiting /\ Oldest' = Oldest
    BY <2>1 DEF Waiting, Oldest
  <2>3. QED
    BY <2>1, <2>2, KeptPausing
<1>4. CASE ExLoadDelay \/ ExEret
  <2>1. cycleType' \in {2, 4} /\ UNCHANGED <<program, flow>>
    BY <1>0, <1>4, ExKeepViews, EretViews
  <2>2. ~Waiting'
    BY <2>1 DEF Waiting
  <2>3. QED
    BY <2>1, <2>2, KeptPausing
<1>5. CASE RfPasses
  <2>1. /\ Position = "rf" /\ Position' = "ic"
        /\ \/ stage' = "ic" /\ cycleType' = cycleType
           \/ stage' = "cycle" /\ cycleType' = 4
        /\ UNCHANGED <<program, dcwb, flow, slow, faultPresent>>
    BY <1>0, <1>5, RfPassViews
  <2>2. Waiting' => Waiting /\ Oldest' = Oldest
    BY <2>1 DEF Waiting, Oldest
  <2>3. QED
    BY <2>1, <2>2, KeptPausing
<1>6. CASE IcStage
  <2>1. /\ Position = "ic" /\ Position' \in {"wb", "busywait"}
        /\ cycleType' \in {0, 5}
        /\ cycleType' = 5 => ~slow /\ cycleType = 5
        /\ UNCHANGED <<program, dcwb, flow, slow, faultPresent>>
    BY <1>6, IcViews
  <2>2. Waiting' => Waiting /\ Oldest' = Oldest
    BY <2>1 DEF Waiting, Oldest
  <2>3. QED
    BY <2>1, <2>2, KeptPausing
<1>7. QED
  BY <1>1, <1>2, <1>3, <1>4, <1>5, <1>6

-----------------------------------------------------------------------------
(* The invariant.                                                          *)

LEMMA FlowStep ==
  ASSUME IInv, AccessInv, ~coldReset, Defined, Handled, FlowInv, [Next]_vars
  PROVE  FlowInv'
<1>0. /\ TypeOK /\ TypesOfPass /\ Decoded /\ InFlight /\ Pausing
  BY DEF IInv, AccessInv, FlowInv
<1>1. CASE StallCycle \/ RunCycle \/ BusyWaitOn \/ UNCHANGED vars
  <2>1. /\ Position' = Position
        /\ UNCHANGED <<program, icPc, icVia, icrf, rfex, exdc, dcwb, flow>>
        /\ UNCHANGED <<cycleType, faultPresent, status>>
    BY <1>0, <1>1, IdleViews
  <2>2. InFlight'
    BY <1>0, <2>1, KeptInFlight
  <2>3. Waiting' => Waiting
    <3>1. CASE RunCycle
      <4>1. cycleType = 5 => Position = "busywait"
        BY <3>1, Positions DEF RunCycle
      <4>2. QED
        BY <2>1, <4>1 DEF Waiting
    <3>2. CASE StallCycle \/ BusyWaitOn \/ UNCHANGED vars
      <4>1. slow' = slow
        BY <3>2 DEF StallCycle, BusyWaitOn, vars
      <4>2. QED
        BY <2>1, <4>1 DEF Waiting
    <3>3. QED
      BY <1>1, <3>1, <3>2
  <2>4. Oldest' = Oldest
    BY <2>1 DEF Oldest
  <2>5. Pausing'
    BY <1>0, <2>1, <2>3, <2>4, KeptPausing
  <2>6. QED
    BY <2>2, <2>5 DEF FlowInv
<1>2. CASE WbStage
  BY <1>0, <1>2, WbInFlight, WbPausing DEF FlowInv
<1>3. CASE DcPasses
  BY <1>0, <1>3, DcPassInFlight, PassPausing DEF FlowInv
<1>4. CASE DcKeeps
  <2>1. InFlight'
    BY <1>0, <1>4, DcKeepViews, KeptInFlight
  <2>2. QED
    BY <1>0, <1>4, <2>1, PassPausing DEF FlowInv
<1>5. CASE ExPasses
  <2>1. rfex.common.fault \/ ~rfex.common.fault
    OBVIOUS
  <2>2. InFlight'
    BY <1>0, <1>5, <2>1, ExSkipInFlight, ExPassInFlight
  <2>3. QED
    BY <1>0, <1>5, <2>2, PassPausing DEF FlowInv
<1>6. CASE ExLoadDelay
  <2>1. InFlight'
    BY <1>0, <1>6, ExKeepViews, KeptInFlight
  <2>2. QED
    BY <1>0, <1>6, <2>1, PassPausing DEF FlowInv
<1>7. CASE ExEret
  BY <1>0, <1>7, EretInFlight, PassPausing DEF FlowInv
<1>8. CASE RfPasses
  BY <1>0, <1>8, RfPassInFlight, PassPausing DEF FlowInv
<1>9. CASE IcStage
  BY <1>0, <1>9, IcInFlight, PassPausing DEF FlowInv
<1>10. CASE \/ DcInterrupt \/ DcTlbFault \/ DcWatch
            \/ ExUnusable \/ ExTrap \/ RfTlbFault \/ BusyWaitOver
  <2>1. InFlight' /\ cycleType' = 0 /\ flow' = flow
    BY <1>0, <1>10, TrapInFlight
  <2>2. program' = program
    BY <1>0, <1>10, Redirections, ExceptionViews DEF TrapsDc, TrapsEx, TrapsRf
  <2>3. Pausing'
    BY <1>0, <2>1, <2>2, KeptPausing DEF Waiting
  <2>4. QED
    BY <2>1, <2>3 DEF FlowInv
<1>11. CASE ExTrapUndefined
  <2>1. stage = "ex" /\ Live(rfex.common) /\ rfex.op = "tne"
    BY <1>11 DEF ExTrapUndefined, ExReady
  <2>2. Position = "ex" /\ ~rfex.common.fault
    BY <2>1, LiveIsUnfaulted DEF Position
  <2>3. program.op[rfex.common.pc] = "tne"
    BY <1>0, <2>1, <2>2, ExPoint
  <2>4. rfex.common.pc \in Addr
    BY DEF IInv, TypeOK, RfexLatch, Common
  <2>5. QED
    BY <2>3, <2>4 DEF Defined
<1>12. ~DcReset
  BY DEF DcReset
<1>13. QED
  BY <1>1, <1>2, <1>3, <1>4, <1>5, <1>6, <1>7, <1>8, <1>9, <1>10, <1>11,
     <1>12 DEF Next, DcStage, ExStage, RfStage, BusyWait, DcPasses, DcKeeps,
     ExPasses, RfPasses

LEMMA SameProgram == [Next]_vars => program' = program
  BY DEF Next, DcStage, ExStage, RfStage, IcStage, BusyWait, WbStage,
     StallCycle, RunCycle, WbRetire, WbSkip, DcSkip, DcReset, DcInterrupt,
     DcNoRequest, DcTlbFault, DcWatch, DcUncached, DcMiss, DcBusy, DcHit,
     DcCacheOp, DcmFill, ExSkip, ExUnusable, ExLoadDelay, ExCompute, ExAccess,
     ExMultiCycle, ExBranchTaken, ExBranchNotTaken, ExMoveToStatus,
     ExMoveToCompare, ExEret, ExTrap, ExTrapUndefined, ExDone, RfSkip,
     RfTlbFault, RfBusy, RfFetch, BusyWaitOver, BusyWaitOn, Exception, vars

LEMMA OrderStep ==
  ASSUME IInv, OrderInv, [Next]_vars
  PROVE  OrderInv'
<1>1. AccessInv /\ AccessInv'
  BY AccessStep DEF OrderInv
<1>2. (Defined' => Defined) /\ (Handled' => Handled)
  BY <1>1, SameProgram DEF AccessInv, Defined, Handled
<1>3. ASSUME ~coldReset', Defined, Handled
      PROVE  FlowInv'
  <2>1. CASE coldReset
    <3>1. Cold /\ TypesOfPass
      BY <1>1, <2>1 DEF AccessInv
    <3>2. DcReset
      BY <1>3, <2>1, <3>1, ColdStep
    <3>3. QED
      BY <3>1, <3>2, ResetFlow
  <2>2. CASE ~coldReset
    BY <1>1, <1>3, <2>2, FlowStep DEF OrderInv
  <2>3. QED
    BY <2>1, <2>2
<1>4. QED
  BY <1>1, <1>2, <1>3 DEF OrderInv

\* In every program that respects the hypotheses, the latches spell out the
\* execution of the program from `flow' on, between any two stage functions.
THEOREM LatchesSpellProgram == Spec => []OrderInv
<1>1. Init => IInv /\ OrderInv
  <2>1. Init => coldReset
    BY DEF Init
  <2>2. QED
    BY <2>1, InitInv, AccessInit DEF OrderInv
<1>2. IInv /\ OrderInv /\ [Next]_vars => (IInv /\ OrderInv)'
  BY Steps, OrderStep
<1>3. QED
  BY <1>1, <1>2, PTL DEF Spec

\* What WB is about to retire, when the hypotheses hold.
LEMMA RetiringInOrder ==
  ASSUME IInv, OrderInv, Defined, Handled, Retiring
  PROVE  /\ FlowInv /\ Position = "wb" /\ WbHere
         /\ Executed(program, flow, dcwb.common, dcwb.outcome, dcwb.dest)
         /\ Expected = Reached(flow, dcwb.common.via)
<1>1. stage = "wb" /\ Live(dcwb.common) /\ ~coldReset
  BY DEF Retiring
<1>2. Position = "wb" /\ WbHere
  BY <1>1, LiveIsUnfaulted DEF Position, WbHere
<1>3. FlowInv
  BY <1>1 DEF OrderInv
<1>4. QED
  BY <1>2, <1>3 DEF FlowInv, InFlight, InOrder, Expected, Reached

\* Instructions retire in program order, each once and annulled exactly when
\* it is the slot of a likely branch not taken, whatever interlocks, faults
\* and interrupts split the passes (vr4300_cycle, pipeline.c:456).
THEOREM RetiresInOrder == Spec => []InOrderRetirement
<1>1. IInv /\ OrderInv => InOrderRetirement
  <2> SUFFICES ASSUME IInv, OrderInv, Defined, Handled, Retiring
               PROVE  IF HandlerEntry
                      THEN /\ dcwb.common.pc \in {RefillVec, GeneralVec}
                           /\ ~dcwb.common.killed
                      ELSE /\ dcwb.common.pc = Expected.pc
                           /\ dcwb.common.killed = Expected.annulled
                           /\ (dcwb.common.via.kind = "eret") = Returning
    BY DEF InOrderRetirement
  <2> DEFINE l == dcwb.common
             v == dcwb.common.via
             q == Point(flow, v, l.pc)
  <2>1. /\ Executed(program, flow, l, dcwb.outcome, dcwb.dest)
        /\ Expected = Reached(flow, v)
    BY RetiringInOrder
  <2>2. /\ FetchFits(program, flow, v, l.pc) /\ l.killed = q.annulled
        /\ ~IsEret(program, q)
    BY <2>1 DEF Executed, Fits
  <2>3. CASE HandlerEntry
    <3>1. Trapping(v)
      BY <2>3 DEF HandlerEntry
    <3>2. l.pc \in {RefillVec, GeneralVec}
      BY <2>2, <3>1 DEF FetchFits
    <3>3. q = At(l.pc)
      BY <3>1 DEF Point
    <3>4. ~l.killed
      BY <2>2, <3>3, PointViews
    <3>5. QED
      BY <2>3, <3>2, <3>4
  <2>4. CASE ~HandlerEntry
    <3>1. ~Trapping(v)
      BY <2>4 DEF HandlerEntry
    <3>2. q = Expected
      BY <2>1, <3>1 DEF Point
    <3>3. l.pc = Expected.pc /\ l.killed = Expected.annulled
      BY <2>2, <3>2 DEF FetchFits
    <3>4. v.kind = "eret" => Returning
      BY <2>2 DEF FetchFits, IsEret, Returning
    <3>5. Returning => v.kind = "eret"
      <4>1. SUFFICES ASSUME IsEret(program, flow), v.kind # "eret"
                     PROVE  FALSE
        BY DEF IsEret, Returning
      <4>2. v.kind \in {"next", "reset"}
        BY <3>1, <4>1 DEF IInv, TypeOK, DcwbLatch, Common, Via, Trapping
      <4>3. CASE v.kind = "next"
        BY <2>2, <4>1, <4>3, PointCases
      <4>4. CASE v.kind = "reset"
        <5>1. flow = At(v.to) /\ v.to # NoJump
          BY <2>2, <3>1, <4>4 DEF FetchFits
        <5>2. q = At(v.to)
          BY <3>1, <5>1 DEF Point, Reached
        <5>3. QED
          BY <2>2, <4>1, <5>1, <5>2
      <4>5. QED
        BY <4>2, <4>3, <4>4
    <3>6. (v.kind = "eret") = Returning
      BY <3>4, <3>5 DEF Returning
    <3>7. QED
      BY <2>4, <3>3, <3>6
  <2>5. QED
    BY <2>3, <2>4
<1>2. QED
  BY <1>1, Invariance, LatchesSpellProgram, PTL

\* The EPC and BD of an exception taken with EXL clear name the point reached
\* when its handler begins (vr4300_exception_prolog, fault.c:38).
THEOREM ExceptionsArePrecise == Spec => []PreciseException
<1>1. IInv /\ OrderInv => PreciseException
  <2> SUFFICES ASSUME IInv, OrderInv, Defined, Handled, Retiring,
                      dcwb.common.via.kind = "precise"
               PROVE  Resumable
    BY DEF PreciseException
  <2> DEFINE v == dcwb.common.via
  <2>1. /\ FetchFits(program, flow, v, dcwb.common.pc)
        /\ Expected = Reached(flow, v)
    BY RetiringInOrder DEF Executed, Fits
  <2>2. /\ v.bd = Reached(flow, v).slot
        /\ Reached(flow, v).pc = IF v.bd THEN Succ(v.epc) ELSE v.epc
    BY <2>1 DEF FetchFits
  <2>3. QED
    BY <2>1, <2>2 DEF Resumable
<1>2. QED
  BY <1>1, Invariance, LatchesSpellProgram, PTL

\* In the busy-wait mode the core stands in the delay slot of a jump to
\* itself, where an interrupt leaves an EPC that leads back into the loop
\* (vr4300_cycle_busywait, pipeline.c:396).
THEOREM BusyWaitIsSound == Spec => []BusyWaitSound
<1>1. IInv /\ OrderInv => BusyWaitSound
  <2> SUFFICES ASSUME IInv, OrderInv, Defined, Handled, PlainSlots,
                      stage = "busywait"
               PROVE  /\ ~dcwb.common.fault /\ dcwb.common.bd
                      /\ program.op[Pred(dcwb.common.pc)] = "j"
                      /\ program.target[Pred(dcwb.common.pc)] =
                           Pred(dcwb.common.pc)
                      /\ Expected.pc = dcwb.common.pc /\ Expected.slot
    BY DEF BusyWaitSound
  <2> DEFINE l == dcwb.common
  <2>1. AccessInv
    BY DEF OrderInv
  <2>2. Position = "busywait" /\ cycleType = 5 /\ ~coldReset
    BY <2>1 DEF Position, AccessInv, TypesOfPass, Cold
  <2>3. FlowInv
    BY <2>2 DEF OrderInv
  <2>4. Waiting
    BY <2>2 DEF Waiting
  <2>5. ~faultPresent /\ flow.slot /\ l.via.kind = "next"
    BY <2>2, <2>3, <2>4 DEF FlowInv, Pausing, WaitingInSlot, Oldest
  <2>6. ~l.fault
    BY <2>5 DEF IInv, FastModeClean
  <2>7. WbHere
    BY <2>2, <2>6 DEF WbHere
  <2>8. Fits(program, flow, l)
    BY <2>3, <2>7 DEF FlowInv, InFlight, InOrder, Executed
  <2>9. FetchFits(program, flow, l.via, l.pc)
    BY <2>8 DEF Fits
  <2>10. /\ Reached(flow, l.via) = flow /\ ~Trapping(l.via)
         /\ l.pc = flow.pc /\ l.via.to = NoJump
    BY <2>5, <2>9, PointCases DEF FetchFits
  <2>11. l.bd
    BY <2>5, <2>8, <2>10 DEF Fits
  <2>12. Expected = flow
    BY <2>10 DEF Expected
  <2>13. /\ program.op[Pred(flow.pc)] = "j"
         /\ program.target[Pred(flow.pc)] = Pred(flow.pc)
    BY <2>3, <2>4 DEF FlowInv, Pausing, WaitingAfterJump
  <2>14. QED
    BY <2>5, <2>6, <2>10, <2>11, <2>12, <2>13
<1>2. QED
  BY <1>1, Invariance, LatchesSpellProgram, PTL
=============================================================================
