------------------------------ MODULE RustEcus ------------------------------
(***************************************************************************)
(* state_tests/src: powertrain.rs, bms.rs and dashboard.rs, with the       *)
(* safety functions of protocol.rs.  The torque controller's gear and the  *)
(* values that bms.rs and dashboard.rs only store are left out.            *)
(***************************************************************************)
EXTENDS Integers, SequencesExt

Least(a, b) == IF a < b THEN a ELSE b

(* Unlike the firmware's, this clamp lets torque through in OFF, READY and
   CHARGING. *)
safety_clamp_torque(requested, mode, brake, bms_max) ==
  IF brake \/ mode = "FAULT" THEN 0
  ELSE Least(Max({requested, 0}), Least(bms_max, IF mode = "LIMP" THEN 25 ELSE 100))

TorqueController_default ==
  [throttle |-> 0, brake |-> FALSE, mode |-> "OFF", limit |-> 255, torque |-> 0,
   motor_enable |-> TRUE]

TorqueController_set_input(t, throttle, brake) == [t EXCEPT !.throttle = throttle, !.brake = brake]
TorqueController_set_mode(t, mode) == [t EXCEPT !.mode = mode]
TorqueController_set_bms_limit(t, limit) == [t EXCEPT !.limit = limit]

(* Fault: an invalid throttle is clamped, not refused. *)
TorqueController_compute_faulty(t) ==
  [t EXCEPT !.torque = safety_clamp_torque(t.throttle, t.mode, t.brake, t.limit),
            !.motor_enable = t.mode # "FAULT"]

TorqueController_compute(t) ==
  IF t.throttle > 100 THEN [t EXCEPT !.torque = 0, !.motor_enable = FALSE]
  ELSE [t EXCEPT !.torque = safety_clamp_torque(t.throttle, t.mode, t.brake, t.limit),
                 !.motor_enable = t.mode # "FAULT"]

(* The state of a new and of a reset watchdog. *)
WatchdogTask_reset == [last |-> 0, online |-> FALSE, torque_disabled |-> TRUE]

WatchdogTask_gateway_beat(now) == [last |-> now, online |-> TRUE, torque_disabled |-> FALSE]

(* The subtraction panics in a debug build when the beat is later than now. *)
WatchdogTask_check_panics(w, now) == w.online /\ now < w.last

WatchdogTask_check(w, now, timeout) ==
  LET alive == w.online /\ now - w.last < timeout
  IN [last |-> w.last, online |-> alive, torque_disabled |-> ~alive]

----------------------------------------------------------------------------

(* The temperature in whole degrees; i16 division truncates towards zero. *)
Degrees(temp) == IF temp < 0 THEN -((-temp) \div 10) ELSE temp \div 10

bms_determine_state(temp) ==
  CASE Degrees(temp) > 90 -> "CRITICAL_FAULT"
    [] Degrees(temp) \in 76..90 -> "LIMP_REQUEST"
    [] Degrees(temp) \in 61..75 -> "WARN_HOT"
    [] OTHER -> "OK"

BmsStateMachine_default == [state |-> "OK", fault_code |-> 0]

BmsStateMachine_update(temp) ==
  LET state == bms_determine_state(temp)
  IN [state |-> state, fault_code |-> IF state = "CRITICAL_FAULT" THEN 1 ELSE 0]

BmsLimits_compute(state) ==
  CASE state = "LIMP_REQUEST" -> 25 [] state = "CRITICAL_FAULT" -> 0 [] OTHER -> 255

----------------------------------------------------------------------------

DashboardState_default == <<>>

Entry(code, node, active) == [warning_code |-> code, source_node |-> node, active |-> active]

DashboardState_add_warning(ws, code, node) ==
  LET known == {i \in DOMAIN ws : ws[i].warning_code = code /\ ws[i].source_node = node}
  IN IF known = {} THEN Append(ws, Entry(code, node, TRUE))
     ELSE [ws EXCEPT ![Min(known)].active = TRUE]

DashboardState_clear_warning(ws, code) ==
  [i \in DOMAIN ws |-> [ws[i] EXCEPT !.active = @ /\ ws[i].warning_code # code]]

DashboardState_clear_node_warnings(ws, node) ==
  [i \in DOMAIN ws |-> [ws[i] EXCEPT !.active = @ /\ ws[i].source_node # node]]

warning_severity(code) ==
  CASE code = "CRITICAL_BMS_FAULT" -> 3
    [] code \in {"BMS_OVERTEMP", "POWERTRAIN_OFFLINE", "GATEWAY_RESTARTED"} -> 2
    [] code \in {"BMS_OFFLINE", "DASHBOARD_OFFLINE", "INVALID_THROTTLE", "CHARGER_PLUGGED"} -> 1
    [] OTHER -> 0

(* The first active warning of the highest severity. *)
DashboardState_top_warning(ws) ==
  LET sev(i) == warning_severity(ws[i].warning_code)
      top == {i \in DOMAIN ws : /\ ws[i].active /\ sev(i) > 0
                                /\ \A j \in DOMAIN ws : ws[j].active => sev(j) <= sev(i)}
  IN IF top = {} THEN "NONE" ELSE ws[Min(top)].warning_code

DashboardState_reboot(ws) == DashboardState_default

WarningDisplay_default == [displayed_warning |-> "NONE", severity |-> 0]

WarningDisplay_update(d, code, severity) ==
  IF severity > d.severity THEN [displayed_warning |-> code, severity |-> severity] ELSE d

WarningDisplay_clear(d) == WarningDisplay_default
============================================================================
