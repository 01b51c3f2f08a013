---------------------------- MODULE MirrorProofs ----------------------------
(***************************************************************************)
(* Where the C state machines and their Rust copies agree, for every       *)
(* argument: the mode machine for ever, the torque controllers and the     *)
(* pack states exactly in the stated region.                               *)
(***************************************************************************)
EXTENDS Mirrors, TLAPS

(* On the modes the copy knows, one update of either machine has one result,
   which the copy knows too. *)
LEMMA DetermineMode ==
  ASSUME NEW mode \in GW!VehicleMode,
         NEW online \in BOOLEAN, NEW fault \in BOOLEAN, NEW limp \in BOOLEAN
  PROVE  /\ GW!determine_mode(mode, online, fault, limp)
              = mc_gateway_determine_mode(mode, online, fault, limp)
         /\ mc_gateway_determine_mode(mode, online, fault, limp) \in GW!VehicleMode
<1>1. CASE mode = "FAULT" \/ fault
  BY <1>1 DEF GW!determine_mode, mc_gateway_determine_mode, GW!VehicleMode
<1>2. CASE ~fault /\ mode = "CHARGING"
  BY <1>2 DEF GW!determine_mode, mc_gateway_determine_mode, GW!VehicleMode
<1>3. CASE ~fault /\ mode \in {"OFF", "READY", "DRIVE", "LIMP"}
  BY <1>3 DEF GW!determine_mode, mc_gateway_determine_mode, ByOnline, GW!VehicleMode
<1> QED BY <1>1, <1>2, <1>3 DEF GW!VehicleMode

(* The fields of the copy's gateway_state, as the calls leave them. *)
GatewayCopy ==
  [mode : GW!VehicleMode, all_nodes_online : BOOLEAN, bms_fault_active : BOOLEAN,
   bms_limp_requested : BOOLEAN, active_fault_count : Nat]

ModeAgrees == part = "mode" => dev.r \in GatewayCopy /\ dev.r.mode = dev.c

LEMMA InitModeAgrees == MirrorInit => ModeAgrees
<1> SUFFICES ASSUME dev = Fresh("mode") PROVE dev.r \in GatewayCopy /\ dev.r.mode = dev.c
  BY DEF MirrorInit, ModeAgrees
<1>1. Fresh("mode") = [c |-> "OFF", r |-> GW!GatewayState_default]
  BY DEF Fresh
<1>2. dev.c = "OFF" /\ dev.r = GW!GatewayState_default
  BY <1>1
<1>3. GW!GatewayState_default \in GatewayCopy /\ GW!GatewayState_default.mode = "OFF"
  BY DEF GatewayCopy, GW!GatewayState_default, GW!VehicleMode
<1> QED BY <1>2, <1>3

LEMMA NextModeAgrees == ModeAgrees /\ [MirrorNext]_mirrorVars => ModeAgrees'
<1> SUFFICES ASSUME ModeAgrees, [MirrorNext]_mirrorVars, part' = "mode"
             PROVE  dev'.r \in GatewayCopy /\ dev'.r.mode = dev'.c
  BY DEF ModeAgrees
<1>1. ASSUME NEW online \in BOOLEAN, NEW fault \in BOOLEAN, NEW limp \in BOOLEAN,
             UpdateMode(online, fault, limp)
      PROVE  dev'.r \in GatewayCopy /\ dev'.r.mode = dev'.c
  <2>1. dev.r.mode \in GW!VehicleMode /\ dev.r.mode = dev.c
    BY <1>1 DEF ModeAgrees, GatewayCopy, UpdateMode, Device
  <2> QED BY <1>1, <2>1, DetermineMode DEF UpdateMode, GatewayCopy, GW!GatewayState_update
<1>2. CASE EnterDrive
  BY <1>2 DEF EnterDrive, Device, ModeAgrees, GatewayCopy, gateway_state_enter_drive,
              GW!GatewayState_enter_drive, GW!VehicleMode
<1>3. CASE RebootGateway
  BY <1>3 DEF RebootGateway, GatewayCopy, GW!GatewayState_reboot, GW!GatewayState_default,
              GW!VehicleMode
<1>4. ASSUME NEW mode \in GW!VehicleMode, SetMode(mode)
      PROVE  dev'.r \in GatewayCopy /\ dev'.r.mode = dev'.c
  BY <1>4 DEF SetMode, Device, ModeAgrees, GatewayCopy, GW!VehicleMode_from_u8
<1>5. CASE UNCHANGED <<part, dev>>
  BY <1>5 DEF ModeAgrees
<1>6. part = "mode" \/ UNCHANGED mirrorVars
  BY DEF MirrorNext, mirrorVars, UpdateMode, EnterDrive, RebootGateway, SetMode, Compute,
         GatewayBeat, WatchdogCheck, RebootWatchdog, Sense, Warn, ClearWarning,
         ClearNodeWarnings, RebootDashboard, Device
<1> QED BY <1>1, <1>2, <1>3, <1>4, <1>5, <1>6 
    DEF MirrorNext, mirrorVars, Compute,
         GatewayBeat, WatchdogCheck, RebootWatchdog, Sense, Warn, ClearWarning,
         ClearNodeWarnings, RebootDashboard, Device

(* gateway_state.c and its copy gateway.rs are in the same mode after every
   sequence of updates, DRIVE requests, client writes and reboots. *)
THEOREM ModeMirrorIsExact == MirrorSpec => [](part = "mode" => dev.r.mode = dev.c)
<1>1. ModeAgrees => (part = "mode" => dev.r.mode = dev.c)
  BY DEF ModeAgrees
<1> QED BY InitModeAgrees, NextModeAgrees, <1>1, PTL DEF MirrorSpec

(* After the same inputs torque_controller_compute and its copy have the same
   state exactly in DRIVE, LIMP and FAULT, or when both refuse the throttle:
   in OFF, READY and CHARGING the copy enables the motor. *)
THEOREM TorqueMirror ==
  ASSUME NEW throttle \in 0..255, NEW brake \in BOOLEAN,
         NEW mode \in GW!VehicleMode, NEW limit \in 0..255, NEW torque \in Int,
         NEW enable \in BOOLEAN,
         NEW tc, tc = [throttle |-> throttle, brake |-> brake, mode |-> mode,
                       limit |-> limit, torque |-> torque, motor_enable |-> enable]
  PROVE  torque_controller_compute(tc) = ECU!TorqueController_compute(tc)
           <=> mode \in {"DRIVE", "LIMP", "FAULT"} \/ throttle > 100
<1>1. ECU!Max({throttle, 0}) = throttle /\ NonNegative(throttle) = throttle
  BY DEF ECU!Max, NonNegative
<1>2. mode \in {"DRIVE", "LIMP", "FAULT"} =>
        safety_clamp_torque(throttle, mode, brake, limit)
          = ECU!safety_clamp_torque(throttle, mode, brake, limit)
  BY <1>1 DEF safety_clamp_torque, ECU!safety_clamp_torque, safety_mode_blocks_torque,
              safety_limp_torque_cap, Lower, ECU!Least, MC_TORQUE_LIMP_MAX_PERCENT
<1>3. CASE throttle > 100
  BY <1>3 DEF torque_controller_compute, ECU!TorqueController_compute, Commanded,
              safety_throttle_invalid
<1>4. CASE ~(throttle > 100) /\ mode \in {"DRIVE", "LIMP", "FAULT"}
  BY <1>2, <1>4 DEF torque_controller_compute, ECU!TorqueController_compute, Commanded,
              safety_throttle_invalid, safety_mode_blocks_torque
<1>5. CASE ~(throttle > 100) /\ mode \in {"OFF", "READY", "CHARGING"}
  <2>1. torque_controller_compute(tc).motor_enable = FALSE
    BY <1>5 DEF torque_controller_compute, Commanded, safety_throttle_invalid,
                safety_mode_blocks_torque
  <2>2. ECU!TorqueController_compute(tc).motor_enable = TRUE
    BY <1>5 DEF ECU!TorqueController_compute
  <2> QED BY <1>5, <2>1, <2>2
<1> QED BY <1>3, <1>4, <1>5 DEF GW!VehicleMode

(* A temperature below zero has no positive degrees. *)
LEMMA TruncatedNegative ==
  ASSUME NEW temp \in Int, temp < 0
  PROVE  ECU!Degrees(temp) \in Int /\ ECU!Degrees(temp) <= 0
<1>1. -temp \in Nat
  OBVIOUS
<1>2. (-temp) \div 10 \in Nat
  BY <1>1
<1> QED BY <1>2 DEF ECU!Degrees

(* For every temperature bms_state_update and its copy agree
   exactly outside the first degree from a threshold on: the copy truncates
   to whole degrees before it compares. *)
THEOREM PackMirror ==
  ASSUME NEW temp \in Int
  PROVE  mc_bms_determine_state(temp) = ECU!bms_determine_state(temp)
           <=> \A t \in {600, 750, 900} : temp \notin t..(t + 9)
<1> DEFINE d == ECU!Degrees(temp)
<1>1. CASE temp < 0
  <2>1. d \in Int /\ d <= 0
    BY <1>1, TruncatedNegative
  <2>2. ECU!bms_determine_state(temp) = "OK"
    BY <2>1 DEF ECU!bms_determine_state
  <2>3. mc_bms_determine_state(temp) = "OK"
    BY <1>1 DEF mc_bms_determine_state
  <2> QED BY <1>1, <2>2, <2>3
<1>2. CASE temp >= 0
  <2>1. d = temp \div 10
    BY <1>2 DEF ECU!Degrees
  <2>2. d \in Int /\ 10 * d <= temp /\ temp <= 10 * d + 9
    BY <1>2, <2>1
  <2> HIDE DEF d
  <2>3. ECU!bms_determine_state(temp) =
          IF temp >= 910 THEN "CRITICAL_FAULT"
          ELSE IF temp >= 760 THEN "LIMP_REQUEST"
          ELSE IF temp >= 610 THEN "WARN_HOT" ELSE "OK"
    <3>1. /\ d > 90 <=> temp >= 910
          /\ d \in 76..90 <=> temp \in 760..909
          /\ d \in 61..75 <=> temp \in 610..759
      BY <2>2
    <3>2. ECU!bms_determine_state(temp) =
            CASE d > 90 -> "CRITICAL_FAULT" [] d \in 76..90 -> "LIMP_REQUEST"
              [] d \in 61..75 -> "WARN_HOT" [] OTHER -> "OK"
      BY DEF d, ECU!bms_determine_state
    <3> QED BY <3>1, <3>2
  <2>4. mc_bms_determine_state(temp) =
          IF temp >= 900 THEN "CRITICAL_FAULT"
          ELSE IF temp >= 750 THEN "LIMP_REQUEST"
          ELSE IF temp >= 600 THEN "WARN_HOT" ELSE "OK"
    BY DEF mc_bms_determine_state
  <2> QED BY <2>3, <2>4
<1> QED BY <1>1, <1>2
============================================================================
