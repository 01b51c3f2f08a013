----------------------------- MODULE BmsProofs -----------------------------
(***************************************************************************)
(* The BMS tells the truth about its pack for any clock, any periods of    *)
(* which the loop's divides a calibration, and any temperatures.  Fault    *)
(* frames are sent on a change only, so the strengthening says that the    *)
(* remembered code is the one on the bus, and that the code in the state   *)
(* is the state's.  A calibration's remaining time is a multiple of the    *)
(* loop period: the task is never found past its end.                      *)
(***************************************************************************)
EXTENDS Bms, TLAPS

Codes == {FAULT_NONE, FAULT_OVERTEMP}

StateOK ==
  /\ bs \in [state : BmsStates, fault_code : Codes]
  /\ bs.fault_code = bms_state_fault_code(bs.state)
  /\ limit \in {0, 25, 255}

FramesOK ==
  /\ published = faultFrame
  /\ pc # "drain" => published = bs.fault_code

ClockOK ==
  /\ now \in 0..(TickModulus - 1) /\ steady \in 0..SteadyCap /\ silence \in 0..HeartbeatMs

CalibOK ==
  /\ calib_done \in BOOLEAN
  /\ calib_done => calib = NoTask
  /\ \/ calib = NoTask
     \/ calib \in 0..CalibMs /\ \E k \in Nat : calib = k * LoopMs

(* The inductive invariant. *)
IInv == StateOK /\ FramesOK /\ ClockOK /\ CalibOK

LEMMA StateCode ==
  ASSUME NEW temp \in Int
  PROVE  /\ UpdatedState(temp) \in [state : BmsStates, fault_code : Codes]
         /\ UpdatedState(temp).fault_code = bms_state_fault_code(UpdatedState(temp).state)
<1>1. mc_bms_determine_state(temp) \in BmsStates
  BY DEF mc_bms_determine_state, BmsStates
<1>2. bms_state_fault_code(mc_bms_determine_state(temp)) \in Codes
  BY DEF bms_state_fault_code, Codes
<1> QED BY <1>1, <1>2 DEF UpdatedState

LEMMA LimitRange ==
  ASSUME NEW state \in BmsStates PROVE bms_limits_compute(state) \in {0, 25, 255}
  BY DEF bms_limits_compute

(* A positive multiple of the loop period stays one when a period has passed. *)
LEMMA PreviousMultiple ==
  ASSUME NEW k \in Nat, k * LoopMs # 0
  PROVE  k * LoopMs - LoopMs >= 0 /\ \E j \in Nat : k * LoopMs - LoopMs = j * LoopMs
<1>1. LoopMs \in Nat \ {0}
  BY BmsAssumption
<1>2. k # 0
  BY <1>1
<1>3. PICK j \in Nat : k = j + 1
  BY <1>2
<1>4. k * LoopMs = j * LoopMs + LoopMs /\ j * LoopMs >= 0 /\ j * LoopMs \in Int
  BY <1>1, <1>3
<1> QED BY <1>1, <1>4

LEMMA FullCalibration == CalibMs \in 0..CalibMs /\ \E k \in Nat : CalibMs = k * LoopMs
<1>1. PICK k \in 1..CalibMs : CalibMs = k * LoopMs
  BY BmsAssumption
<1>2. k \in Nat /\ CalibMs \in 0..CalibMs
  BY BmsAssumption
<1> QED BY <1>1, <1>2, Zenon

LEMMA InitIInv == Init => IInv
<1> SUFFICES ASSUME Init PROVE IInv
  OBVIOUS
<1>1. StateOK
  BY DEF Init, StateOK, Codes, BmsStates, bms_state_fault_code
<1>2. FramesOK
  BY DEF Init, FramesOK
<1>3. ClockOK
  BY BmsAssumption DEF Init, ClockOK, SteadyCap
<1>4. CalibOK
  <2>1. calib_done = FALSE /\ calib = CalibMs
    BY DEF Init
  <2> QED BY <2>1, FullCalibration, Zenon DEF CalibOK
<1> QED BY <1>1, <1>2, <1>3, <1>4 DEF IInv

LEMMA TickIInv == ASSUME IInv, Tick PROVE IInv'
<1>1. StateOK' /\ FramesOK'
  BY DEF Tick, IInv, StateOK, FramesOK
<1>2. ClockOK'
  BY BmsAssumption DEF Tick, IInv, ClockOK, Plus, After, SteadyCap
<1>3. CalibOK'
  <2>1. CASE calib = NoTask
    BY <2>1 DEF Tick, IInv, CalibOK
  <2>2. CASE calib # NoTask
    <3>1. PICK k \in Nat : calib = k * LoopMs
      BY <2>2 DEF IInv, CalibOK
    <3>2. /\ calib \in 0..CalibMs /\ calib # 0 /\ ~calib_done
          /\ calib' = calib - LoopMs /\ calib_done' = calib_done
      BY <2>2 DEF Tick, IInv, CalibOK
    <3>3. calib' >= 0 /\ \E j \in Nat : calib' = j * LoopMs
      BY <3>1, <3>2, PreviousMultiple
    <3>4. calib' \in 0..CalibMs
      BY <3>2, <3>3, BmsAssumption
    <3>5. calib_done' \in BOOLEAN /\ ~calib_done'
      BY <3>2 DEF IInv, CalibOK
    <3> QED BY <3>3, <3>4, <3>5 DEF CalibOK
  <2> QED BY <2>1, <2>2
<1> QED BY <1>1, <1>2, <1>3 DEF IInv

LEMMA NextIInv == IInv /\ [Next]_vars => IInv'
<1> SUFFICES ASSUME IInv, [Next]_vars PROVE IInv'
  OBVIOUS
<1>1. CASE Tick
  BY <1>1, TickIInv
<1>2. CASE calibration_task
  <2>1. StateOK' /\ FramesOK' /\ ClockOK'
    BY <1>2 DEF calibration_task, IInv, StateOK, FramesOK, ClockOK
  <2>2. CalibOK'
    BY <1>2 DEF calibration_task, CalibOK
  <2> QED BY <2>1, <2>2 DEF IInv
<1>3. CASE Start
  <2>1. StateOK' /\ FramesOK' /\ ClockOK'
    BY <1>3 DEF Start, IInv, StateOK, FramesOK, ClockOK
  <2>2. CASE Restart
    <3>1. calib' = CalibMs /\ calib_done' = FALSE
      BY <1>3, <2>2 DEF Start
    <3>2. CalibOK'
      BY <3>1, FullCalibration, Zenon DEF CalibOK
    <3> QED BY <2>1, <3>2 DEF IInv
  <2>3. CASE ~Restart
    <3>1. calib' = calib /\ calib_done' = calib_done
      BY <1>3, <2>3 DEF Start, IInv, CalibOK
    <3> QED BY <2>1, <3>1 DEF IInv, CalibOK
  <2> QED BY <2>2, <2>3
<1>4. ASSUME NEW t \in Temps, PlantSensors(t) PROVE IInv'
  <2>1. t \in Int
    BY BmsAssumption
  <2>2. bs' = UpdatedState(t) /\ limit' = bms_limits_compute(bs'.state)
    BY <1>4 DEF PlantSensors
  <2>3. StateOK'
    BY <2>1, <2>2, StateCode, LimitRange DEF StateOK
  <2>4. FramesOK' /\ CalibOK'
    BY <1>4 DEF PlantSensors, IInv, FramesOK, CalibOK
  <2>5. ClockOK'
    BY <1>4, BmsAssumption DEF PlantSensors, IInv, ClockOK, SteadyCap
  <2> QED BY <2>3, <2>4, <2>5 DEF IInv
<1>5. CASE Publish
  <2>1. StateOK' /\ CalibOK'
    BY <1>5 DEF Publish, IInv, StateOK, CalibOK
  <2>2. FramesOK'
    BY <1>5 DEF Publish, IInv, FramesOK
  <2>3. ClockOK'
    <3>1. silence' \in {0, silence}
      BY <1>5 DEF Publish
    <3> QED BY <1>5, <3>1, BmsAssumption DEF Publish, IInv, ClockOK
  <2> QED BY <2>1, <2>2, <2>3 DEF IInv
<1>6. CASE UNCHANGED vars
  BY <1>6 DEF vars, IInv, StateOK, FramesOK, ClockOK, CalibOK
<1> QED BY <1>1, <1>2, <1>3, <1>4, <1>5, <1>6 DEF Next

LEMMA AlwaysIInv == Spec => []IInv
  BY InitIInv, NextIInv, PTL DEF Spec

(* Every variable keeps its type: the clock stays below its modulus and a
   calibration is never overdue (bms_main, calibration_task). *)
THEOREM TypeCorrect == Spec => []TypeOK
<1>1. IInv => TypeOK
  BY BmsAssumption DEF IInv, StateOK, ClockOK, CalibOK, Codes, TypeOK
<1> QED BY <1>1, AlwaysIInv, PTL

(* Whatever frames are drained and however the state flaps meanwhile, the last
   BMS_FAULT frame agrees with the pack when an activation ends (bms_main). *)
THEOREM FaultFrameIsCurrent == Spec => []FaultFrameCurrent
<1>1. IInv => FaultFrameCurrent
  BY DEF IInv, StateOK, FramesOK, FaultFrameCurrent, bms_state_fault_code, FAULT_NONE, FAULT_OVERTEMP
<1> QED BY <1>1, AlwaysIInv, PTL

(* No calibration runs while the flag says that one is done: bms_main starts
   none before it has taken the flag back (bms_request_calibration). *)
THEOREM DoneMeansIdle == Spec => [](calib_done => calib = NoTask)
<1>1. IInv => (calib_done => calib = NoTask)
  BY DEF IInv, CalibOK
<1> QED BY <1>1, AlwaysIInv, PTL
============================================================================
