-------------------------- MODULE PowertrainProofs --------------------------
(***************************************************************************)
(* The powertrain never commands an unsafe torque, for any frames, periods *)
(* and clock width; and the two implementations of the torque clamp agree. *)
(***************************************************************************)
EXTENDS Powertrain, TLAPS

(* What the clamp may return for a request and a limit. *)
SafeTorque(t, r, m, b, l) ==
  /\ t \in 0..100
  /\ t > 0 => /\ ~b /\ m \in {"DRIVE", "LIMP"} /\ t <= r /\ t <= l
              /\ m = "LIMP" => t <= MC_TORQUE_LIMP_MAX_PERCENT

LEMMA ClampSafe ==
  ASSUME NEW r \in Int, NEW m, NEW b \in BOOLEAN, NEW l \in 0..255
  PROVE  SafeTorque(safety_clamp_torque(r, m, b, l), r, m, b, l)
  BY DEF SafeTorque, safety_clamp_torque, safety_mode_blocks_torque,
         safety_limp_torque_cap, Lower, NonNegative, MC_TORQUE_LIMP_MAX_PERCENT

(* The firmware's safety_clamp_torque and the shared mc_safety_clamp_torque
   return the same torque for every request, mode, brake and limit. *)
THEOREM ClampsAgree ==
  ASSUME NEW r \in Int, NEW m, NEW b \in BOOLEAN, NEW l \in 0..255
  PROVE  safety_clamp_torque(r, m, b, l) = mc_safety_clamp_torque(r, m, b, l)
  BY DEF safety_clamp_torque, mc_safety_clamp_torque, safety_mode_blocks_torque,
         safety_limp_torque_cap, Lower, NonNegative, MC_TORQUE_LIMP_MAX_PERCENT

ClockType == 0..(TickModulus - 1)

LEMMA ClockRange == ASSUME NEW t \in ClockType PROVE Plus(t, LoopMs) \in ClockType
  BY PowertrainAssumption DEF Plus, ClockType

(* The setters keep the type of the controller. *)
LEMMA InputType ==
  ASSUME NEW c \in TorqueControllerType, NEW t \in 0..255, NEW b \in BOOLEAN
  PROVE  WithInput(c, t, b) \in TorqueControllerType
  BY DEF TorqueControllerType, WithInput

LEMMA ModeType ==
  ASSUME NEW c \in TorqueControllerType, NEW m \in Modes \cup {"OFF", Forced}
  PROVE  WithMode(c, m) \in TorqueControllerType
  BY DEF TorqueControllerType, WithMode

LEMMA LimitType ==
  ASSUME NEW c \in TorqueControllerType, NEW l \in 0..255
  PROVE  WithLimit(c, l) \in TorqueControllerType
  BY DEF TorqueControllerType, WithLimit

LEMMA CommandedType ==
  ASSUME NEW c \in TorqueControllerType, NEW x \in 0..100, NEW e \in BOOLEAN
  PROVE  Commanded(c, x, e) \in TorqueControllerType
  BY DEF TorqueControllerType, Commanded

LEMMA ForcedInputType ==
  ASSUME NEW c \in TorqueControllerType
  PROVE  ForcedInput(c) \in TorqueControllerType
<1>1. CASE Forced = "none"
  BY <1>1 DEF ForcedInput
<1>2. CASE Forced # "none"
  <2>1. 80 \in 0..255 /\ FALSE \in BOOLEAN /\ Forced \in Modes \cup {"OFF", Forced}
    OBVIOUS
  <2>2. WithInput(c, 80, FALSE) \in TorqueControllerType
    BY <2>1, InputType, Zenon
  <2>3. WithMode(WithInput(c, 80, FALSE), Forced) \in TorqueControllerType
    BY <2>1, <2>2, ModeType, Zenon
  <2> QED BY <1>2, <2>3 DEF ForcedInput
<1> QED BY <1>1, <1>2

(* A computed command is safe for the inputs it was computed from. *)
Safe(c) ==
  c.torque > 0 =>
    /\ c.motor_enable /\ c.mode \in {"DRIVE", "LIMP"} /\ ~c.brake
    /\ c.throttle <= 100 /\ c.torque <= c.throttle /\ c.torque <= c.limit
    /\ c.mode = "LIMP" => c.torque <= MC_TORQUE_LIMP_MAX_PERCENT

LEMMA ComputeSafe ==
  ASSUME NEW c \in TorqueControllerType
  PROVE  /\ torque_controller_compute(c) \in TorqueControllerType
         /\ Safe(torque_controller_compute(c))
<1> DEFINE x == safety_clamp_torque(c.throttle, c.mode, c.brake, c.limit)
<1>1. /\ c.throttle \in Int /\ c.throttle \in 0..255 /\ c.brake \in BOOLEAN
      /\ c.limit \in 0..255
  BY DEF TorqueControllerType
<1>2. SafeTorque(x, c.throttle, c.mode, c.brake, c.limit)
  BY <1>1, ClampSafe, Zenon
<1>6. 0 \in 0..100 /\ x \in 0..100 /\ FALSE \in BOOLEAN /\ TRUE \in BOOLEAN
  BY <1>2 DEF SafeTorque
<1> HIDE DEF x
<1>3. CASE safety_throttle_invalid(c.throttle)
  <2>1. torque_controller_compute(c) = Commanded(c, 0, FALSE)
    BY <1>3 DEF torque_controller_compute
  <2>2. Commanded(c, 0, FALSE) \in TorqueControllerType
    BY <1>6, CommandedType, Zenon
  <2>3. Commanded(c, 0, FALSE).torque = 0
    BY DEF Commanded
  <2>4. Safe(Commanded(c, 0, FALSE))
    <3>1. ~(0 > 0)
      OBVIOUS
    <3> QED BY <2>3, <3>1, Zenon DEF Safe
  <2> QED BY <2>1, <2>2, <2>4
<1>4. CASE ~safety_throttle_invalid(c.throttle) /\ safety_mode_blocks_torque(c.mode)
  <2>1. torque_controller_compute(c) = Commanded(c, x, FALSE)
    BY <1>4 DEF torque_controller_compute, x
  <2>2. Commanded(c, x, FALSE) \in TorqueControllerType
    BY <1>6, CommandedType, Zenon
  <2>3. ~(x > 0)
    BY <1>2, <1>4 DEF safety_mode_blocks_torque, SafeTorque
  <2>4. Commanded(c, x, FALSE).torque = x
    BY DEF Commanded
  <2>5. Safe(Commanded(c, x, FALSE))
    BY <2>3, <2>4, Zenon DEF Safe
  <2> QED BY <2>1, <2>2, <2>5
<1>5. CASE ~safety_throttle_invalid(c.throttle) /\ ~safety_mode_blocks_torque(c.mode)
  <2> DEFINE d == Commanded(c, x, TRUE)
  <2>1. torque_controller_compute(c) = d
    BY <1>5 DEF torque_controller_compute, x
  <2>2. d \in TorqueControllerType
    BY <1>6, CommandedType, Zenon
  <2>3. /\ d.torque = x /\ d.motor_enable = TRUE /\ d.mode = c.mode
        /\ d.brake = c.brake /\ d.throttle = c.throttle /\ d.limit = c.limit
    BY DEF Commanded
  <2>4. c.throttle <= 100
    BY <1>1, <1>5 DEF safety_throttle_invalid
  <2> HIDE DEF d
  <2>5. Safe(d)
    BY <1>2, <2>3, <2>4, Zenon DEF Safe, SafeTorque
  <2> QED BY <2>1, <2>2, <2>5
<1> QED BY <1>3, <1>4, <1>5

LEMMA InitTypeOK == Init => TypeOK
<1> SUFFICES ASSUME Init PROVE TypeOK
  OBVIOUS
<1>1. torque_controller_init \in TorqueControllerType
  BY DEF torque_controller_init, TorqueControllerType
<1>2. tc \in TorqueControllerType
  BY <1>1, ForcedInputType DEF Init
<1>3. wd \in [last : 0..(TickModulus - 1), online : BOOLEAN, torque_disabled : BOOLEAN]
  BY PowertrainAssumption DEF Init, watchdog_init
<1>4. motor \in [torque : 0..100, enable : BOOLEAN]
  BY DEF Init
<1>5. now \in 0..(TickModulus - 1) /\ silence \in 0..SilenceCap
  BY PowertrainAssumption DEF Init, SilenceCap
<1> QED BY <1>2, <1>3, <1>4, <1>5 DEF Init, TypeOK

(* The inductive invariant is the type invariant with MotorSafe. *)
IInv == TypeOK /\ MotorSafe

(* MotorSafe, from a controller whose command the frame carries. *)
LEMMA FromSafe ==
  ASSUME motor.torque = tc.torque, motor.enable = tc.motor_enable, Safe(tc)
  PROVE  MotorSafe
  BY Zenon DEF Safe, MotorSafe

(* A step that leaves the frame and the inputs of the controller alone, and
   does not end a drain, keeps MotorSafe. *)
LEMMA SameInputs ==
  ASSUME MotorSafe, motor' = motor, pc' # "drain" => pc # "drain",
         tc'.mode = tc.mode, tc'.brake = tc.brake, tc'.throttle = tc.throttle,
         tc'.limit = tc.limit
  PROVE  MotorSafe'
  BY Zenon DEF MotorSafe

LEMMA CommandIInv == ASSUME IInv, Command PROVE IInv'
<1>1. tc \in TorqueControllerType
  BY DEF IInv, TypeOK
<1>2. ForcedInput(tc) \in TorqueControllerType
  BY <1>1, ForcedInputType
<1>3. tc' \in TorqueControllerType /\ Safe(tc')
  BY <1>2, ComputeSafe DEF Command
<1>4. motor' = [torque |-> tc'.torque, enable |-> tc'.motor_enable]
  BY DEF Command
<1>5. motor'.torque = tc'.torque /\ motor'.enable = tc'.motor_enable
  BY <1>4, Zenon
<1>6. MotorSafe'
  BY <1>3, <1>5, Zenon DEF Safe, MotorSafe
<1>7. tc'.torque \in 0..100 /\ tc'.motor_enable \in BOOLEAN
  BY <1>3 DEF TorqueControllerType
<1>8. motor' \in [torque : 0..100, enable : BOOLEAN]
  BY <1>4, <1>7
<1>9. pc' \in {"wait", "drain", "done"} /\ UNCHANGED <<wd, now, due, silence, heard>>
  BY DEF Command
<1> QED BY <1>3, <1>6, <1>8, <1>9 DEF IInv, TypeOK

LEMMA TimerIInv == ASSUME IInv, watchdog_timer_cb PROVE IInv'
<1> DEFINE WdType == [last : 0..(TickModulus - 1), online : BOOLEAN, torque_disabled : BOOLEAN]
<1>1. tc \in TorqueControllerType /\ wd \in WdType
  BY DEF IInv, TypeOK
<1>2. wd' \in WdType
  BY <1>1 DEF watchdog_timer_cb, watchdog_check
<1>3. tc.torque \in 0..100 /\ FALSE \in BOOLEAN
  BY <1>1 DEF TorqueControllerType
<1> DEFINE off == Commanded(tc, tc.torque, FALSE)
<1>4. off \in TorqueControllerType
  BY <1>1, <1>3, CommandedType, Zenon
<1>5. off.mode = tc.mode /\ off.brake = tc.brake /\ off.throttle = tc.throttle
      /\ off.limit = tc.limit
  BY Zenon DEF Commanded
<1>6. tc' = off \/ tc' = tc
  BY DEF watchdog_timer_cb
<1> HIDE DEF off
<1>7. /\ due' = FALSE /\ motor' = motor /\ pc' = pc
      /\ UNCHANGED <<now, silence, heard>>
  BY DEF watchdog_timer_cb
<1>8. MotorSafe'
  BY <1>5, <1>6, <1>7, SameInputs DEF IInv
<1> QED BY <1>1, <1>2, <1>4, <1>6, <1>7, <1>8 DEF IInv, TypeOK

LEMMA NextIInv == IInv /\ [Next]_vars => IInv'
<1> SUFFICES ASSUME IInv, [Next]_vars PROVE IInv'
  OBVIOUS
<1> USE DEF IInv
<1>0. tc \in TorqueControllerType
  BY DEF TypeOK
<1>1. CASE UNCHANGED vars
  BY <1>1 DEF TypeOK, MotorSafe, vars
<1>2. CASE Tick
  <2>1. Plus(now, LoopMs) \in 0..(TickModulus - 1)
    BY ClockRange DEF TypeOK, ClockType
  <2>2. silence' \in 0..SilenceCap
    BY <1>2, PowertrainAssumption DEF Tick, TypeOK, SilenceCap
  <2>3. due' \in BOOLEAN /\ pc' = "wait" /\ now' = Plus(now, LoopMs)
        /\ pc # "drain" /\ UNCHANGED <<tc, wd, motor, heard>>
    BY <1>2 DEF Tick
  <2>4. MotorSafe'
    BY <2>3, SameInputs
  <2> QED BY <2>1, <2>2, <2>3, <2>4 DEF TypeOK
<1>3. CASE Start
  BY <1>3 DEF Start, TypeOK, MotorSafe
<1>4. ASSUME NEW t \in Throttles, NEW b \in BOOLEAN, DriverInput(t, b) PROVE IInv'
  <2>1. tc' \in TorqueControllerType
    BY <1>0, <1>4, InputType, PowertrainAssumption DEF DriverInput
  <2> QED BY <1>4, <2>1 DEF DriverInput, TypeOK, MotorSafe
<1>5. ASSUME NEW m \in Modes, VehicleMode(m) PROVE IInv'
  <2>1. tc' \in TorqueControllerType
    BY <1>0, <1>5, ModeType DEF VehicleMode
  <2> QED BY <1>5, <2>1 DEF VehicleMode, TypeOK, MotorSafe
<1>6. ASSUME NEW l \in Limits, BmsLimits(l) PROVE IInv'
  <2>1. tc' \in TorqueControllerType
    BY <1>0, <1>6, LimitType, PowertrainAssumption DEF BmsLimits
  <2> QED BY <1>6, <2>1 DEF BmsLimits, TypeOK, MotorSafe
<1>7. CASE GatewayBeat
  <2>1. wd' \in [last : 0..(TickModulus - 1), online : BOOLEAN, torque_disabled : BOOLEAN]
    BY <1>7 DEF GatewayBeat, watchdog_gateway_beat, TypeOK
  <2>2. silence' \in 0..SilenceCap
    BY <1>7, PowertrainAssumption DEF GatewayBeat, SilenceCap
  <2> QED BY <1>7, <2>1, <2>2 DEF GatewayBeat, TypeOK, MotorSafe
<1> QED BY <1>1, <1>2, <1>3, <1>4, <1>5, <1>6, <1>7, CommandIInv, TimerIInv DEF Next

LEMMA InitIInv == Init => IInv
<1>1. Init => motor.torque = 0
  BY DEF Init
<1>2. ~(0 > 0)
  OBVIOUS
<1>3. Init => MotorSafe
  BY <1>1, <1>2, Zenon DEF MotorSafe
<1> QED BY <1>3, InitTypeOK DEF IInv

(* The controller, the watchdog and the clock keep their types. *)
THEOREM TypeCorrect == Spec => []TypeOK
<1>1. IInv => TypeOK
  BY DEF IInv
<1> QED BY <1>1, InitIInv, NextIInv, PTL DEF Spec

(* The powertrain never commands a torque its last inputs forbid: brake, mode,
   throttle range, BMS limit and limp cap hold in every MOTOR_COMMAND frame
   (torque_controller_compute, safety_clamp_torque). *)
THEOREM TorqueIsSafe == Spec => []MotorSafe
<1>1. IInv => MotorSafe
  BY DEF IInv
<1> QED BY <1>1, InitIInv, NextIInv, PTL DEF Spec
============================================================================
