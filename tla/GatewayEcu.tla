----------------------------- MODULE GatewayEcu -----------------------------
(***************************************************************************)
(* The gateway firmware, firmware/gateway_ecu/src/main.c.  g is the        *)
(* per-machine gateway_ctx_t, with the frames the current activation sent. *)
(* Tasks run on the simulator's fibers: an activation runs until the task  *)
(* blocks, so each is one action and the fault-table mutex is always free. *)
(* Trace output, the frame counter task and request ids are left out.      *)
(***************************************************************************)
EXTENDS FaultManager, HeartbeatMonitor, GatewayState, SequencesExt

CONSTANTS Monitored,     \* node ids, in registration order
          LoopMs,        \* period of gateway_main, 10
          Timeout,       \* MC_SAFETY_BMS_HEARTBEAT_TIMEOUT_MS, 300
          HeartbeatMs,   \* 100
          ModeMs,        \* period of the VEHICLE_MODE broadcast, 50
          QueueLen,      \* capacity of hb_queue, 16
          Scripts,       \* the scenario scripts of the firmware variants
          ScriptTick,    \* script time per loop, 10; larger in the models
          BmsCodes,      \* fault codes that arrive from the BMS
          Services,      \* diagnostic services that are requested
          MayReboot      \* the scenario reboots the gateway

POWERTRAIN == 2
BMS == 3
COMM_ERROR == 5

VARIABLES g,      \* gateway_ctx_t
          now,    \* xTaskGetTickCount() * portTICK_PERIOD_MS
          wire,   \* the last VEHICLE_MODE frame; receivers assume OFF before
          stale   \* the gateway has rebooted since that frame

vars == <<g, now, wire, stale>>

gateway_init(script) ==
  [mode |-> "OFF", session |-> FALSE,
   hm |-> heartbeat_monitor_register(Monitored, Timeout), fm |-> fault_manager_init,
   hb_queue |-> <<>>, mode_events |-> {}, notify |-> 0,
   script |-> script, script_ms |-> 0, sent |-> 0, out |-> <<[id |-> "HEARTBEAT"]>>]

Init ==
  /\ g \in {gateway_init(script) : script \in Scripts} /\ now = 0
  /\ wire = [mode |-> "OFF", fault |-> FALSE] /\ stale = FALSE

Send(c, frame) == [c EXCEPT !.out = Append(@, frame)]

----------------------------------------------------------------------------
(* Frame handlers, run by heartbeat_rx or by a script. *)

(* xTaskNotify with eSetValueWithoutOverwrite: a pending value stays. *)
NotifyMain(c, code) == [c EXCEPT !.notify = IF @ = 0 THEN code ELSE @]

handle_bms_fault(c, code) ==
  LET severity == fault_manager_bms_severity(code)
      reported == [c EXCEPT !.fm = fault_manager_report(@, BMS, code, severity)]
  IN IF severity = 2 THEN NotifyMain(reported, code) ELSE reported

(* The number of active faults and the code of the first. *)
first_active_dtc(fm) ==
  LET active == ActiveEntries(fm)
  IN IF active = {} THEN <<0, 0>>
     ELSE <<Cardinality(active),
            fm.faults[CHOOSE i \in active : \A j \in active : i <= j].fault_code>>

send_diag_response(c, service, status, value) ==
  Send(c, [id |-> "DIAG_RESPONSE", service |-> service, status |-> status, value |-> value])

StartSession(c) == [c EXCEPT !.session = TRUE, !.mode = "SERVICE", !.mode_events = @ \cup {1}]

(* Fault: the seeded defects, a session starts in DRIVE too and CLEAR_DTCS
   clears the faults of every node. *)
diag_request_faulty(c, service) ==
  CASE service = "START_SESSION" ->
         send_diag_response(StartSession(c), service, "OK", "SERVICE")
    [] service = "CLEAR_DTCS" /\ c.session ->
         send_diag_response([c EXCEPT !.fm = fault_manager_clear_all(@)], service, "OK", 0)
    [] OTHER -> send_diag_response(c, service, "UNSUPPORTED", 0)

handle_diag_request(c, service) ==
  LET answer(d, status, value) == send_diag_response(d, service, status, value)
  IN CASE service = "START_SESSION" ->
            IF c.mode = "DRIVE" THEN answer(c, "REJECTED", c.mode)
            ELSE answer(StartSession(c), "OK", "SERVICE")
       [] service = "END_SESSION" -> answer([c EXCEPT !.session = FALSE], "OK", c.mode)
       [] service = "READ_MODE" -> answer(c, "OK", c.mode)
       [] service = "READ_DTCS" -> answer(c, "OK", first_active_dtc(c.fm))
       [] service = "CLEAR_DTCS" ->
            IF c.session
            THEN answer([c EXCEPT !.fm = fault_manager_clear_node(@, BMS)], "OK", 0)
            ELSE answer(c, "REJECTED", 0)
       [] service = "ACTUATOR_TEST" ->
            answer(c, IF c.session /\ c.mode # "DRIVE" THEN "OK" ELSE "REJECTED", c.mode)
       [] OTHER -> answer(c, "UNSUPPORTED", 0)

(* heartbeat_rx takes one frame of the bus; a heartbeat is dropped when the
   queue is full, and any other frame is ignored. *)
dispatch_frame_in_rx(c, frame) ==
  CASE frame.id = "HEARTBEAT" ->
         [c EXCEPT !.hb_queue = IF Len(@) < QueueLen THEN Append(@, frame.sender) ELSE @]
    [] frame.id = "BMS_FAULT" -> handle_bms_fault(c, frame.code)
    [] frame.id = "DIAG_REQUEST" -> handle_diag_request(c, frame.service)
    [] OTHER -> c

Receive(frame) ==
  /\ g' = dispatch_frame_in_rx([g EXCEPT !.out = <<>>], frame)
  /\ UNCHANGED <<now, wire, stale>>

----------------------------------------------------------------------------
(* The scenario scripts of the firmware variants: <<time, step, argument>>.
   A step runs once, in the first loop at or after its time. *)

DiagScript ==
  << <<100, "diag", "START_SESSION">>, <<200, "diag", "READ_MODE">>,
     <<300, "bms_fault", 1>>, <<310, "pt_fault", 3>>,
     <<350, "diag", "ACTUATOR_TEST">>, <<450, "diag", "READ_DTCS">>,
     <<650, "diag", "CLEAR_DTCS">>, <<750, "diag", "READ_DTCS">> >>

StartDriveScript ==
  << <<100, "force", "DRIVE">>, <<100, "diag", "START_SESSION">>, <<200, "diag", "READ_MODE">> >>

ChargingScript == << <<100, "force", "CHARGING">>, <<300, "enter_drive", "">> >>

ScriptStep(c, step) ==
  CASE step[2] = "diag" -> handle_diag_request(c, step[3])
    [] step[2] = "bms_fault" -> handle_bms_fault(c, step[3])
    [] step[2] = "pt_fault" -> [c EXCEPT !.fm = fault_manager_report(@, POWERTRAIN, step[3], 1)]
    [] step[2] = "force" -> [c EXCEPT !.mode = step[3], !.mode_events = @ \cup {1}]
    [] step[2] = "enter_drive" -> [c EXCEPT !.mode = gateway_state_enter_drive(@)]

(* Advance the script clock, which stops counting after the last step. *)
run_script(c) ==
  LET end == IF c.script = <<>> THEN 0 ELSE Last(c.script)[1]
      ms == Min({c.script_ms + ScriptTick, end})
      due == Cardinality({i \in DOMAIN c.script : c.script[i][1] <= ms})
  IN [FoldLeft(ScriptStep, c, SubSeq(c.script, c.sent + 1, due))
        EXCEPT !.script_ms = ms, !.sent = due]

----------------------------------------------------------------------------
(* One iteration of gateway_main at time t. *)

DequeueHeartbeats(c, t) ==
  [c EXCEPT !.hm = heartbeat_monitor_beat(@, Range(c.hb_queue), t), !.hb_queue = <<>>]

(* The notification is consumed; a loss of the BMS becomes a critical fault if
   the BMS is the first node offline. *)
CheckHeartbeats(c, t) ==
  LET hm == heartbeat_monitor_check(c.hm, t)
      lost == transitions(c.hm, t) /\ heartbeat_monitor_last_transition_node(hm) = BMS
  IN [c EXCEPT !.notify = 0, !.hm = hm,
               !.fm = IF lost THEN fault_manager_report(@, BMS, COMM_ERROR, 2) ELSE @]

(* Fault: a diagnostic session keeps SERVICE whatever the faults. *)
update_vehicle_mode_faulty(c) ==
  IF c.session THEN "SERVICE"
  ELSE mc_gateway_determine_mode(c.mode, heartbeat_monitor_all_online(c.hm),
                                 fault_manager_has_critical(c.fm), FALSE)

(* Fault: an open session does not hold the mode. *)
update_vehicle_mode_sessionless(c) ==
  mc_gateway_determine_mode(c.mode, heartbeat_monitor_all_online(c.hm),
                            fault_manager_has_critical(c.fm), FALSE)

(* The code checks the heartbeats once more here, at the same time. *)
update_vehicle_mode(c) ==
  IF ~fault_manager_has_critical(c.fm) /\ c.session THEN "SERVICE"
  ELSE mc_gateway_determine_mode(c.mode, heartbeat_monitor_all_online(c.hm),
                                 fault_manager_has_critical(c.fm), FALSE)

(* Fault: the mode is only broadcast periodically. *)
broadcast_faulty(c, old_mode, t) ==
  IF t % ModeMs = 0
  THEN Send(c, [id |-> "VEHICLE_MODE", mode |-> c.mode, fault |-> c.fm.critical_count > 0])
  ELSE c

(* Heartbeat, then VEHICLE_MODE when the update changed it or periodically. *)
broadcast(c, old_mode, t) ==
  LET d == IF t % HeartbeatMs = 0 THEN Send(c, [id |-> "HEARTBEAT"]) ELSE c
  IN IF c.mode # old_mode \/ t % ModeMs = 0
     THEN Send(d, [id |-> "VEHICLE_MODE", mode |-> c.mode, fault |-> c.fm.critical_count > 0])
     ELSE d

(* Setting bit 0x01 on a change and clearing it after the trace leaves it clear. *)
MainLoop(c, t) ==
  LET ready == CheckHeartbeats(run_script(DequeueHeartbeats(c, t)), t)
      updated == [ready EXCEPT !.mode = update_vehicle_mode(ready), !.mode_events = @ \ {1}]
  IN broadcast(updated, ready.mode, t)

Broadcasts(out) == SelectSeq(out, LAMBDA f : f.id = "VEHICLE_MODE")

LastMode(modes) ==
  IF modes = <<>> THEN wire ELSE [mode |-> Last(modes).mode, fault |-> Last(modes).fault]

(* The step that moves the clock to the next period: Main, or a reboot that
   coincides with a wrap. *)
NextPeriod == now' = Plus(now, LoopMs)

Main ==
  /\ NextPeriod
  /\ g' = MainLoop([g EXCEPT !.out = <<>>], now')
  /\ wire' = LastMode(Broadcasts(g'.out))
  /\ stale' = (stale /\ Broadcasts(g'.out) = <<>>)

(* fault_aggregator: bit 0x02 is never cleared. *)
Aggregate ==
  /\ g' = [g EXCEPT !.out = <<>>,
                    !.mode_events = IF g.fm.critical_count > 0 THEN @ \cup {2} ELSE @]
  /\ UNCHANGED <<now, wire, stale>>

(* The simulator restarts the machine: RAM and queues are gone, what other
   nodes received stays. *)
Reboot == MayReboot /\ g' = gateway_init(g.script) /\ now' = 0 /\ stale' = TRUE /\ UNCHANGED wire

Next ==
  \/ \E n \in Range(Monitored) : Receive([id |-> "HEARTBEAT", sender |-> n])
  \/ \E c \in BmsCodes : Receive([id |-> "BMS_FAULT", code |-> c])
  \/ \E s \in Services : Receive([id |-> "DIAG_REQUEST", service |-> s])
  \/ Main
  \/ Aggregate
  \/ Reboot

(* vTaskDelayUntil: the simulator always gets to the next period of
   gateway_main, which never blocks otherwise. *)
Spec == Init /\ [][Next]_vars /\ WF_now(NextPeriod)

----------------------------------------------------------------------------

AllOnline == heartbeat_monitor_all_online(g.hm)
Online(n) == \E i \in DOMAIN g.hm : g.hm[i].node_id = n /\ g.hm[i].online
Critical == fault_manager_has_critical(g.fm)

(* When an iteration of gateway_main ends with a critical fault active, the
   last mode on the bus is FAULT: no session, script or sticky mode delays it,
   although rx may have written the mode since the last update (S8). *)
CriticalIsBroadcast == [][NextPeriod /\ Critical' => wire'.mode = "FAULT"]_vars

Forces(script) == \E i \in DOMAIN script : script[i][2] = "force"

(* Receivers that saw FAULT from a gateway that has not rebooted, and whose
   script forces no mode, never see READY or DRIVE next: the way out is a
   diagnostic session (handle_diag_request), through SERVICE or OFF. *)
FaultLeftThroughService ==
  [][wire.mode = "FAULT" /\ ~stale /\ ~Forces(g.script) => wire'.mode \in {"FAULT", "SERVICE", "OFF"}]_vars

(* Once every monitored node stays online, no session is open and the mode is
   not sticky, the bus says READY (or DRIVE) from some time on. *)
ReadyWhenHealthy ==
  <>[](AllOnline /\ ~g.session /\ ~Critical /\ g.mode \notin {"FAULT", "CHARGING"})
    => <>[](wire.mode \in {"READY", "DRIVE"})

(* A critical fault report leads to FAULT on the bus unless it is cleared. *)
CriticalLeadsToFault == Critical ~> (wire.mode = "FAULT" \/ ~Critical)

(* While the bus says DRIVE no diagnostic session is open, so no actuator
   test is accepted; only a reboot of the gateway leaves a stale DRIVE on the
   bus, and only until the first periodic VEHICLE_MODE frame. *)
SessionExcludesDrive == g.session /\ wire.mode = "DRIVE" => stale

(* The bus says DRIVE only while every monitored node is online: a loss takes
   the vehicle out of DRIVE in the iteration that notices it. *)
DriveNeedsAllOnline == wire.mode = "DRIVE" => AllOnline \/ stale

(* CLEAR_DTCS clears the faults of the BMS only: the active faults of other
   nodes stay until the gateway reboots. *)
OnlyBmsCleared ==
  [][~Reboot => \A i \in ActiveEntries(g.fm) :
       g.fm.faults[i].source_node # BMS => i \in ActiveEntries(g.fm)']_vars

(* Receivers that saw CHARGING from a gateway that has not rebooted never see
   READY or DRIVE next, whatever the script requests while charging. *)
ChargingBlocksDrive ==
  [][wire.mode = "CHARGING" /\ ~stale => wire'.mode \notin {"READY", "DRIVE"}]_vars

(* What the safety rules say, and the code does not do. *)

(* S5: losing the heartbeat of the BMS makes the gateway enter FAULT. *)
BmsLossIsFault == [][NextPeriod /\ AllOnline /\ ~Online(BMS)' => wire'.mode = "FAULT"]_vars
============================================================================
