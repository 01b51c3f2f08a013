------------------------------ MODULE Mirrors ------------------------------
(***************************************************************************)
(* The C state machines and their Rust copies in state_tests/src, on which *)
(* the unit tests run, driven by the same calls.  Init chooses the part of *)
(* the vehicle that is driven.  The fault table and the heartbeat monitor  *)
(* run the specifications FaultTable and HeartbeatLoop; C and Rust keep    *)
(* the same fields there, so one state stands for both.  The other parts   *)
(* keep the state of the C code and of its copy next to each other.        *)
(***************************************************************************)
EXTENDS FaultTable, HeartbeatLoop, GatewayState, TorqueController, BmsState, DashboardState

CONSTANTS Parts,                       \* the parts to drive
          Throttles, Limits,           \* inputs of the torque controller
          Temps,                       \* of the pack, in tenths of a degree
          Warnings, Sources            \* of dashboard warnings

GW == INSTANCE RustGateway
ECU == INSTANCE RustEcus
W == INSTANCE Watchdog

VARIABLES part,    \* the part that is driven
          dev      \* its state: c of the C code, r of the Rust copy

mirrorVars == <<vars, loopVars, part, dev>>

Fresh(p) ==
  CASE p = "mode" -> [c |-> "OFF", r |-> GW!GatewayState_default]
    [] p = "torque" -> [c |-> torque_controller_init, r |-> ECU!TorqueController_default]
    [] p = "watchdog" -> [c |-> W!watchdog_init, r |-> ECU!WatchdogTask_reset,
                          time |-> 0, called |-> FALSE, panicked |-> FALSE]
    [] p = "bms" -> [c |-> [state |-> "OK", fault_code |-> FAULT_NONE],
                     r |-> ECU!BmsStateMachine_default, temp |-> 0]
    [] p = "warnings" -> [c |-> <<>>, r |-> ECU!DashboardState_default, cd |-> NoDisplay,
                          rd |-> ECU!WarningDisplay_default, dropped |-> FALSE]
    [] OTHER -> [c |-> 0, r |-> 0]

MirrorInit == Init /\ LoopInit /\ part \in Parts /\ dev = Fresh(part)

Device(p) == part = p /\ UNCHANGED <<vars, loopVars, part>>

(* gateway_state_update and its copy, with every combination of arguments. *)
UpdateMode(online, fault, limp) ==
  /\ Device("mode")
  /\ dev' = [c |-> mc_gateway_determine_mode(dev.c, online, fault, limp),
             r |-> GW!GatewayState_update(dev.r, online, fault, limp, 0)]

EnterDrive ==
  /\ Device("mode")
  /\ dev' = [c |-> gateway_state_enter_drive(dev.c), r |-> GW!GatewayState_enter_drive(dev.r)]

(* The client writes the mode itself; the copy stores the byte as its enum. *)
SetMode(mode) ==
  /\ Device("mode")
  /\ dev' = [c |-> mode, r |-> [dev.r EXCEPT !.mode = GW!VehicleMode_from_u8(mode)]]

RebootGateway ==
  /\ Device("mode") /\ dev' = [c |-> "OFF", r |-> GW!GatewayState_reboot(dev.r)]

Compute(throttle, brake, mode, limit) ==
  /\ Device("torque")
  /\ dev' = [c |-> torque_controller_compute(
                     [dev.c EXCEPT !.throttle = throttle, !.brake = brake, !.mode = mode,
                                   !.limit = limit]),
             r |-> ECU!TorqueController_compute(ECU!TorqueController_set_bms_limit(
                     ECU!TorqueController_set_mode(
                       ECU!TorqueController_set_input(dev.r, throttle, brake), mode), limit))]

GatewayBeat ==
  /\ Device("watchdog") /\ ~dev.panicked
  /\ dev' = [dev EXCEPT !.c = W!watchdog_gateway_beat(dev.time),
                        !.r = ECU!WatchdogTask_gateway_beat(dev.time), !.called = TRUE]

WatchdogCheck ==
  /\ Device("watchdog") /\ ~dev.panicked
  /\ LET t == Plus(dev.time, Period)
     IN dev' = [c |-> W!watchdog_check(dev.c, t), r |-> ECU!WatchdogTask_check(dev.r, t, Timeout),
                time |-> t, called |-> TRUE,
                panicked |-> ECU!WatchdogTask_check_panics(dev.r, t)]

(* A reboot of the powertrain, with the clock; the next test after a panic. *)
RebootWatchdog == Device("watchdog") /\ dev' = Fresh("watchdog")

Sense(temp) ==
  LET state == mc_bms_determine_state(temp)
  IN /\ Device("bms")
     /\ dev' = [c |-> [state |-> state, fault_code |-> bms_state_fault_code(state)],
                r |-> ECU!BmsStateMachine_update(temp), temp |-> temp]

Warn(code, node) ==
  LET severity == warning_display_severity_for(code)
  IN /\ Device("warnings")
     /\ dev' = [c |-> dashboard_state_add_warning(dev.c, code, node),
                r |-> ECU!DashboardState_add_warning(dev.r, code, node),
                cd |-> warning_display_update(dev.cd, code, severity),
                rd |-> ECU!WarningDisplay_update(dev.rd, code, ECU!warning_severity(code)),
                dropped |-> \/ dev.dropped
                            \/ /\ Len(dev.c) = DASHBOARD_MAX_WARNINGS
                               /\ ~\E i \in DOMAIN dev.c : IsEntry(dev.c[i], code, node)]

ClearWarning(code) ==
  /\ Device("warnings")
  /\ dev' = [dev EXCEPT !.c = dashboard_state_clear_warning(@, code),
                        !.r = ECU!DashboardState_clear_warning(@, code)]

ClearNodeWarnings(node) ==
  /\ Device("warnings")
  /\ dev' = [dev EXCEPT !.c = dashboard_state_clear_node_warnings(@, node),
                        !.r = ECU!DashboardState_clear_node_warnings(@, node)]

RebootDashboard ==
  /\ Device("warnings")
  /\ dev' = [c |-> <<>>, r |-> ECU!DashboardState_reboot(dev.r), cd |-> NoDisplay,
             rd |-> ECU!WarningDisplay_clear(dev.rd), dropped |-> FALSE]

MirrorNext ==
  \/ part = "faults" /\ Next /\ UNCHANGED <<loopVars, part, dev>>
  \/ part = "heartbeats" /\ LoopNext /\ UNCHANGED <<vars, part, dev>>
  \/ \E online, fault, limp \in BOOLEAN : UpdateMode(online, fault, limp)
  \/ EnterDrive \/ RebootGateway
  \/ \E mode \in GW!VehicleMode : SetMode(mode)
  \/ \E throttle \in Throttles, brake \in BOOLEAN, mode \in Mode, limit \in Limits :
       Compute(throttle, brake, GW!VehicleMode_from_u8(mode), limit)
  \/ GatewayBeat \/ WatchdogCheck \/ RebootWatchdog
  \/ \E temp \in Temps : Sense(temp)
  \/ \E code \in Warnings, node \in Sources : Warn(code, node)
  \/ \E code \in Warnings : ClearWarning(code)
  \/ \E node \in Sources : ClearNodeWarnings(node)
  \/ RebootDashboard

MirrorSpec == MirrorInit /\ [][MirrorNext]_mirrorVars

----------------------------------------------------------------------------

(* The copies of the gateway's services: the fault managers agree on every
   report and clear until the C table is full (the copy's Vec is not bounded),
   the monitors on every beat and check unless the clock has wrapped since a
   beat (the copy's subtraction panics then), and the mode machines for ever
   on the six modes the copy knows. *)
GatewayMirrorAgrees ==
  /\ part = "faults" =>
       /\ GW!FaultManager_new = fault_manager_init
       /\ \A n \in Node, c \in Code :
            /\ Full(n, c) \/ GW!FaultManager_report(fm, n, c, Severity[n][c])
                               = fault_manager_report(fm, n, c, Severity[n][c])
            /\ GW!FaultManager_clear(fm, n, c) = fault_manager_clear(fm, n, c)
       /\ GW!FaultManager_has_critical(fm) = fault_manager_has_critical(fm)
       /\ GW!FaultManager_active_count(fm) = fault_manager_active_count(fm)
  /\ part = "heartbeats" =>
       LET t == Plus(now, Period)
       IN /\ FoldLeft(LAMBDA nodes, n : GW!HeartbeatMonitor_register(nodes, n, Timeout),
                      GW!HeartbeatMonitor_new, Monitored)
               = heartbeat_monitor_register(Monitored, Timeout)
          /\ \A n \in Nodes :
               /\ GW!HeartbeatMonitor_beat(hm, n, t) = heartbeat_monitor_beat(hm, {n}, t)
               /\ GW!HeartbeatMonitor_is_online(hm, n)
                    <=> \E i \in DOMAIN hm : Monitored[i] = n /\ age[i] < Timeout
          /\ \/ GW!HeartbeatMonitor_check_panics(hm, t)
             \/ GW!HeartbeatMonitor_check(hm, t) = heartbeat_monitor_check(hm, t)
          /\ GW!HeartbeatMonitor_all_online(hm) = heartbeat_monitor_all_online(hm)
  /\ part = "mode" => dev.r.mode = dev.c

(* The copies of the other ECUs agree only in part, and this is where: the
   torque controllers after a computation exactly in DRIVE, LIMP and FAULT or
   when they refuse the throttle; the watchdogs from the first call to the
   first wrap; the pack states except in the first degree above a threshold;
   the warning tables until the firmware's drops a warning, and the displays
   always. *)
EcuMirrorAgrees ==
  CASE part = "torque" /\ dev # Fresh("torque") ->
         dev.c = dev.r <=> dev.c.mode \in {"DRIVE", "LIMP", "FAULT"} \/ dev.c.throttle > 100
    [] part = "watchdog" -> dev.called /\ ~dev.panicked => dev.c = dev.r
    [] part = "bms" ->
         /\ dev.c = dev.r <=> \A t \in {600, 750, 900} : dev.temp \notin t..(t + 9)
         /\ dev.c = dev.r => bms_limits_compute(dev.c.state) = ECU!BmsLimits_compute(dev.r.state)
    [] part = "warnings" ->
         /\ dev.cd = dev.rd
         /\ ~dev.dropped => /\ dev.c = dev.r
                            /\ dashboard_state_top_warning(dev.c)
                                 = ECU!DashboardState_top_warning(dev.r)
    [] OTHER -> TRUE
============================================================================
