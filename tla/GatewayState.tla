---------------------------- MODULE GatewayState ----------------------------
(***************************************************************************)
(* The vehicle-mode machine: mc_gateway_determine_mode of                  *)
(* common/src/microcar_protocol.c and gateway_state.c.  The copies of its  *)
(* arguments that gateway_state_t keeps are never read and left out.       *)
(***************************************************************************)

Mode == {"OFF", "READY", "DRIVE", "LIMP", "FAULT", "CHARGING", "SERVICE",
         "OTA_UPDATE", "TRANSPORT_MODE"}

(* The modes that depend only on whether all nodes are online. *)
ByOnline(mode, all_online) ==
  CASE mode \in {"OFF", "READY", "LIMP"} -> IF all_online THEN "READY" ELSE "OFF"
    [] mode = "DRIVE" -> IF all_online THEN "DRIVE" ELSE "READY"
    [] OTHER -> "OFF"

(* Fault: FAULT is left as LIMP is, when its cause is gone. *)
determine_mode_unlatched(mode, all_online, fault, limp) ==
  IF fault THEN "FAULT"
  ELSE ByOnline(IF mode = "FAULT" THEN "LIMP" ELSE mode, all_online)

(* Fault: a mode without a rule is kept. *)
determine_mode_stuck(mode, all_online, fault, limp) ==
  IF fault THEN "FAULT"
  ELSE IF mode \in {"OFF", "READY", "DRIVE"} THEN ByOnline(mode, all_online) ELSE mode

(* powertrain_online is not used by the code. *)
mc_gateway_determine_mode(mode, all_online, fault, limp) ==
  IF mode = "FAULT" \/ fault THEN "FAULT"
  ELSE IF mode \in {"CHARGING", "OTA_UPDATE"} THEN mode
  ELSE IF limp THEN "LIMP"
  ELSE ByOnline(mode, all_online)

(* Fault: DRIVE is entered from any mode. *)
enter_drive_faulty(mode) == "DRIVE"

gateway_state_enter_drive(mode) == IF mode = "READY" THEN "DRIVE" ELSE mode
============================================================================
