--------------------------- MODULE DashboardState ---------------------------
(***************************************************************************)
(* firmware/dashboard_ecu/src: the warning table of dashboard_state.c and  *)
(* the single displayed warning of warning_display.c.  The Zephyr          *)
(* dashboard has identical copies of both files.                           *)
(***************************************************************************)
EXTENDS Integers, SequencesExt

CONSTANT DASHBOARD_MAX_WARNINGS   \* 16

MC_WARN_NONE == "NONE"

(* The severity of a warning code, in dashboard_state_top_warning and, the same
   table, in warning_display_severity_for. *)
warning_display_severity_for(code) ==
  CASE code = "CRITICAL_BMS_FAULT" -> 3
    [] code \in {"BMS_OVERTEMP", "POWERTRAIN_OFFLINE", "GATEWAY_RESTARTED"} -> 2
    [] code \in {"BMS_OFFLINE", "DASHBOARD_OFFLINE", "INVALID_THROTTLE", "CHARGER_PLUGGED"} -> 1
    [] OTHER -> 0

Warning(code, node, active) == [warning_code |-> code, source_node |-> node, active |-> active]

IsEntry(w, code, node) == w.warning_code = code /\ w.source_node = node

dashboard_state_add_warning(ws, code, node) ==
  IF \E i \in DOMAIN ws : IsEntry(ws[i], code, node)
  THEN [i \in DOMAIN ws |->
          IF IsEntry(ws[i], code, node) THEN Warning(code, node, TRUE) ELSE ws[i]]
  ELSE IF Len(ws) >= DASHBOARD_MAX_WARNINGS THEN ws
  ELSE Append(ws, Warning(code, node, TRUE))

Inactive(w) == Warning(w.warning_code, w.source_node, FALSE)

dashboard_state_clear_warning(ws, code) ==
  [i \in DOMAIN ws |-> IF ws[i].warning_code = code THEN Inactive(ws[i]) ELSE ws[i]]

dashboard_state_clear_node_warnings(ws, node) ==
  [i \in DOMAIN ws |-> IF ws[i].source_node = node THEN Inactive(ws[i]) ELSE ws[i]]

(* Fault: cleared warnings still count. *)
worse_faulty(top, w) ==
  IF warning_display_severity_for(w.warning_code) > warning_display_severity_for(top)
  THEN w.warning_code ELSE top

Worse(top, w) ==
  IF w.active /\ warning_display_severity_for(w.warning_code) > warning_display_severity_for(top)
  THEN w.warning_code ELSE top

(* One pass over the table that keeps the first warning of the highest severity. *)
dashboard_state_top_warning(ws) == FoldLeft(Worse, MC_WARN_NONE, ws)

NoDisplay == [displayed_warning |-> MC_WARN_NONE, severity |-> 0]

(* Fault: the latest warning wins. *)
display_update_faulty(wd, code, severity) == [displayed_warning |-> code, severity |-> severity]

warning_display_update(wd, code, severity) ==
  IF severity > wd.severity THEN [displayed_warning |-> code, severity |-> severity] ELSE wd
============================================================================
