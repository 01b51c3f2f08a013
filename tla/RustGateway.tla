---------------------------- MODULE RustGateway ----------------------------
(***************************************************************************)
(* state_tests/src/gateway.rs: the Rust copies of the gateway's mode       *)
(* machine, heartbeat monitor and fault manager, on which the unit tests   *)
(* run.  A method with &mut self is an operator from the old value to the  *)
(* new one.  A Vec is a sequence, without a capacity.                      *)
(***************************************************************************)
EXTENDS Integers, Sequences, FiniteSets

(* The enum of protocol.rs; from_u8 maps every other mode byte to OFF. *)
VehicleMode == {"OFF", "READY", "DRIVE", "LIMP", "FAULT", "CHARGING"}

VehicleMode_from_u8(mode) == IF mode \in VehicleMode THEN mode ELSE "OFF"

(* Fault: a limp request is looked at before the charging mode. *)
determine_mode_faulty(current, all_online, fault, limp) ==
  IF current = "FAULT" \/ fault THEN "FAULT"
  ELSE IF limp THEN "LIMP"
  ELSE CASE current = "CHARGING" -> "CHARGING"
         [] current = "DRIVE" -> IF all_online THEN "DRIVE" ELSE "READY"
         [] OTHER -> IF all_online THEN "READY" ELSE "OFF"

determine_mode(current, all_online, fault, limp) ==
  IF current = "FAULT" \/ fault THEN "FAULT"
  ELSE IF current = "CHARGING" THEN "CHARGING"
  ELSE IF limp THEN "LIMP"
  ELSE CASE current = "DRIVE" -> IF all_online THEN "DRIVE" ELSE "READY"
         [] current \in {"OFF", "READY", "LIMP"} -> IF all_online THEN "READY" ELSE "OFF"
         [] OTHER -> "OFF"

GatewayState_default ==
  [mode |-> "OFF", all_nodes_online |-> FALSE, bms_fault_active |-> FALSE,
   bms_limp_requested |-> FALSE, active_fault_count |-> 0]

GatewayState_update(s, all_online, fault, limp, count) ==
  [mode |-> determine_mode(s.mode, all_online, fault, limp),
   all_nodes_online |-> all_online, bms_fault_active |-> fault,
   bms_limp_requested |-> limp, active_fault_count |-> count]

GatewayState_enter_drive(s) == IF s.mode = "READY" THEN [s EXCEPT !.mode = "DRIVE"] ELSE s

GatewayState_reboot(s) == GatewayState_default

----------------------------------------------------------------------------

Smallest(S) == CHOOSE i \in S : \A j \in S : i <= j

HeartbeatMonitor_new == <<>>

HeartbeatMonitor_register(nodes, id, timeout) ==
  Append(nodes, [node_id |-> id, online |-> FALSE, last_beat_ms |-> 0, timeout_ms |-> timeout])

(* The first entry of the node, if it has one. *)
HeartbeatMonitor_beat(nodes, id, now) ==
  LET mine == {i \in DOMAIN nodes : nodes[i].node_id = id}
  IN IF mine = {} THEN nodes
     ELSE [nodes EXCEPT ![Smallest(mine)].last_beat_ms = now, ![Smallest(mine)].online = TRUE]

(* The u32 subtraction of check panics in a debug build, such as the tests',
   when the beat is later than now. *)
HeartbeatMonitor_check_panics(nodes, now) ==
  \E i \in DOMAIN nodes : nodes[i].online /\ now < nodes[i].last_beat_ms

(* Fault: a node times out one millisecond late. *)
HeartbeatMonitor_check_faulty(nodes, now) ==
  [i \in DOMAIN nodes |->
     [nodes[i] EXCEPT !.online = @ /\ now - nodes[i].last_beat_ms <= nodes[i].timeout_ms]]

HeartbeatMonitor_check(nodes, now) ==
  [i \in DOMAIN nodes |->
     [nodes[i] EXCEPT !.online = @ /\ now - nodes[i].last_beat_ms < nodes[i].timeout_ms]]

HeartbeatMonitor_all_online(nodes) == nodes # <<>> /\ \A i \in DOMAIN nodes : nodes[i].online

HeartbeatMonitor_is_online(nodes, id) ==
  \E i \in DOMAIN nodes : nodes[i].node_id = id /\ nodes[i].online

----------------------------------------------------------------------------

FaultManager_new == [faults |-> <<>>, critical_count |-> 0, warning_count |-> 0]

(* The match on a severity that moves the two counters. *)
Counted(m, faults, severity, by) ==
  [faults |-> faults,
   critical_count |-> m.critical_count + (IF severity = 2 THEN by ELSE 0),
   warning_count |-> m.warning_count + (IF severity = 1 THEN by ELSE 0)]

Matching(m, source, code) ==
  {i \in DOMAIN m.faults : m.faults[i].source_node = source /\ m.faults[i].fault_code = code}

FaultManager_report(m, source, code, severity) ==
  LET known == Matching(m, source, code)
      i == Smallest(known)
      entry == [source_node |-> source, fault_code |-> code, active |-> TRUE, severity |-> severity]
  IN IF known = {} THEN Counted(m, Append(m.faults, entry), severity, 1)
     ELSE Counted(m, [m.faults EXCEPT ![i] = entry], severity, IF m.faults[i].active THEN 0 ELSE 1)

(* The first active match. *)
FaultManager_clear(m, source, code) ==
  LET live == {i \in Matching(m, source, code) : m.faults[i].active}
      i == Smallest(live)
  IN IF live = {} THEN m
     ELSE Counted(m, [m.faults EXCEPT ![i].active = FALSE], m.faults[i].severity, -1)

FaultManager_has_critical(m) == m.critical_count > 0

FaultManager_active_count(m) == Cardinality({i \in DOMAIN m.faults : m.faults[i].active}) % 256
============================================================================
