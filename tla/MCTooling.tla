------------------------------ MODULE MCTooling ------------------------------
(* The small instance of Tooling: scenarios, frames and inputs for the     *)
(* host, the lines and lengths of the lane traces, and the programs the    *)
(* harness's children turn out to be.                                      *)
EXTENDS Tooling

M(name, firmware, zephyr) == [name |-> name, firmware |-> firmware, zephyr |-> zephyr]
Path(p) == << "firmware" >> \o p

GwEcu == M(<< "gateway" >>, Path(<< "gateway", "ecu" >>), FALSE)
PtEcu == M(<< "powertrain" >>, Path(<< "powertrain", "diag", "service", "bug" >>), FALSE)
EvseActor == M(<< "evse" >>, NoFirmware, FALSE)

(* Vehicles that exercise both tables: overlapping paths, a path only the  *)
(* machine's name resolves, a Zephyr dashboard, and a mislabelled one.     *)
OneEcu ==
  {GwEcu, PtEcu,
   M(<< "gw" >>, Path(<< "gateway", "diag", "clear", "bug" >>), FALSE),
   M(<< "gw" >>, Path(<< "gateway", "diag", "nostics" >>), FALSE),
   M(<< "gw" >>, Path(<< "gateway", "ota", "tool" >>), FALSE),
   M(<< "gateway", "ota", "spare" >>, Path(<< "v2" >>), FALSE),
   M(<< "cluster" >>, Path(<< "dashboard" >>), TRUE),
   M(<< "gw" >>, Path(<< "gateway" >>), TRUE),
   M(<< "body" >>, Path(<< "body" >>), FALSE)}

Input(at, throttle, brake) == [at |-> at, throttle |-> throttle, brake |-> brake]

MCInputs == {Input(1, 200, FALSE), Input(2, 0, TRUE), Input(2, 100, FALSE)}

Scenario(machines, nodes, inputs, hasPlant, deadline) ==
  [machines |-> machines, nodes |-> nodes, inputs |-> inputs, plant |-> hasPlant,
   deadline |-> deadline]

Attached == << << "can0", << "gateway" >> >>, << "can0", << "evse" >> >> >>

MCScenarios ==
  {Scenario(<< GwEcu, e >>, << << "can0", << "gateway" >> >> >>, << >>, FALSE, 1) : e \in OneEcu}
    \cup {Scenario(<< e >>, << >>, << Input(1, 30, FALSE) >>, FALSE, 1) : e \in OneEcu}
    \cup {Scenario(<< GwEcu, EvseActor >>, Attached \o more, << >>, FALSE, 0) :
            more \in {<< >>, << << "can0", << "evse" >> >> >>}}
    \cup {Scenario(<< PtEcu, GwEcu >>, << >>, inputs, TRUE, 3) :
            inputs \in {<< >>, << Input(2, 100, FALSE), Input(1, 30, FALSE) >>}}

Frame(id, b1, b2, b3) ==
  [id |-> id, sender |-> << "evse" >>, bus |-> "can0", len |-> want_len[id],
   node |-> reserved(id), b1 |-> b1, b2 |-> b2, b3 |-> b3]

Request1 == Frame("OTA_REQUEST", 1, 0, 1)

MCFrames ==
  {Frame("EVSE_EVENT", e, r, 0) : e \in 0..4, r \in 0..1}
    \cup {Frame("OTA_REQUEST", r, 0, n) : r \in Ids, n \in 0..2}
    \cup {Frame("OTA_CHUNK", r, n, 0) : r \in Ids, n \in 0..2}
    \cup {Frame("OTA_FINISH", r, n, 0) : r \in Ids, n \in 0..3}
    \cup {[Request1 EXCEPT !.sender = << "gateway" >>], [Request1 EXCEPT !.bus = "can1"],
          [Request1 EXCEPT !.len = 3], [Request1 EXCEPT !.node = 6]}

------------------------------------------------------------------------------
(* Lines of the traces.                                                    *)
User(m, l, v) == [machine |-> m, time |-> 0, kind |-> "user-u32", label |-> l, value |-> v]
Gw(l, n) == User(GATEWAY, l, U32(n))
CanRx(m, id) == [machine |-> m, time |-> 0, kind |-> "can-rx", label |-> id, value |-> U32(0)]
TimedLine(m, t) == [machine |-> m, time |-> t, kind |-> "resume", label |-> "", value |-> U32(0)]
Edge(c, p, d, s, to) == [correlation_id |-> c, parent_id |-> p, direction |-> d,
                         message_id |-> "P", source |-> s, destination |-> to]
RespHead(s, r, st, v) == User(GATEWAY, "gateway_diag_response", << r, s, st, v >>)
RespV1(s, r, v) == User(GATEWAY, "gateway_diag_response_v1", << r, s, 0, v >>)
Motor(l, t, e) == User(POWERTRAIN, l, << 0, 0, t, e >>)

MCLaneLines ==
  [ota |-> {Gw("ota_state", 1), Gw("ota_state", 2), User(POWERTRAIN, "ota_state", U32(1)),
            Gw("ota_active_slot", 0), Gw("ota_active_slot", 1), Gw("ota_crc_ok", 0),
            Gw("ota_crc_ok", 1), Gw("ota_boot_result", 1), Gw("ota_rollback", 1)},
   charging |-> {Gw("gateway_charging_state", 5), Gw("gateway_charging_state", 2),
                 Gw("charging_drive_blocked", 1), Gw("charging_drive_blocked", 0),
                 Motor("charging_motor_command", 0, 0), Motor("charging_motor_command", 200, 0),
                 Motor("charging_motor_command", 6, 0), Motor("charging_motor_command", 0, 1)},
   diagnostics |-> {RespHead(1, 1, 0, 6), RespHead(1, 1, 1, 2), RespHead(2, 2, 0, 6),
                    RespHead(3, 3, 0, 1), RespV1(3, 3, 7), RespHead(6, 6, 1, 0), RespV1(6, 6, 9),
                    Motor("diag_motor_command", 0, 0), Motor("diag_motor_command", 2, 1)},
   telematics |-> {Gw("telematics_boot", 1), Gw("telem_hb", 0), Gw("telem_hb", 1),
                   Gw("telem_hb", 2), Gw("telem_net_sent", 11), Gw("telem_net_sent", 5),
                   Gw("telem_net_recv", 4)},
   topology |-> {CanRx(2, "P"), CanRx(3, "P"), CanRx(4, "P"), CanRx(2, "Q"), Gw("boot", 1)},
   trace_v2 |-> {Edge(1, 0, "tx", 1, 0), Edge(1, 0, "rx", 1, 2), Edge(1, 0, "rx", 2, 2),
                 Edge(2, 1, "rx", 2, 3), Edge(2, 2, "rx", 2, 3), Edge(3, 2, "rx", 3, 4),
                 Edge(2, 3, "rx", 2, 3), Edge(2, 0, "rx", 1, 3), Edge(2, 4, "rx", 1, 3)},
   clock |-> {TimedLine(m, t) : m \in {1, 2}, t \in {0, 1000, 1500}}
             \cup {[TimedLine(1, 0) EXCEPT !.kind = "text"]},
   ota_rollback |-> {Gw("ota_boot_result", 1), Gw("ota_rollback", 1), Gw("ota_crc_ok", 1),
                     Gw("ota_state", 5)},
   service_torque |-> {Motor("diag_motor_command", 0, 0), Motor("diag_motor_command", 2, 1),
                       Motor("diag_motor_command", 200, 0), Motor("diag_motor_command", 2, 0)},
   clear_all_dtcs |-> {RespHead(3, 3, 0, 2), RespHead(3, 5, 0, 0), RespHead(3, 5, 0, 1)},
   start_session_in_drive |-> {RespHead(1, 1, 0, 6), RespHead(1, 1, 1, 2), RespHead(1, 1, 0, 2),
                               RespHead(2, 2, 0, 6)}]
MCLaneLength ==
  [l \in DOMAIN MCLaneLines |-> IF l \in {"telematics", "clock"} THEN 5
                                ELSE IF l \in {"topology"} \cup Seeds THEN 3 ELSE 4]
MCFixedLines ==
  [s \in Seeds |-> IF s # "ota_rollback" THEN MCLaneLines[s]
                   ELSE {Gw("ota_boot_result", 1), Gw("ota_rollback", 1), Gw("ota_crc_ok", 0),
                         Gw("ota_state", 6), Gw("ota_active_slot", 0)}]
MCFixedLength == [s \in Seeds |-> IF s = "ota_rollback" THEN 4 ELSE 3]

------------------------------------------------------------------------------
(* Programs: the good scenario may be nondeterministic, hang after its      *)
(* output or panic; the bad one may complain, panic, pass or hang.         *)
MCLineOf ==
  [l \in {"a1", "a2", "a", "b", "boot", "charge", "diag", "probe", "accept", "reject"} |->
     CASE l \in {"a1", "a2", "a"} -> TimedLine(1, 0)
       [] l = "b" -> TimedLine(1, 5)
       [] l = "boot" -> User(GATEWAY, "ota_boot_result", U32(1))
       [] l = "charge" -> User(GATEWAY, "gateway_charging_state", U32(5))
       [] l = "diag" -> User(GATEWAY, "gateway_diag_response", << 6, 6, 0, 0 >>)
       [] l = "probe" -> CanRx(2, "P")
       [] l = "accept" -> User(GATEWAY, "gateway_diag_response", << 1, 1, 0, 6 >>)
       [] l = "reject" -> User(GATEWAY, "gateway_diag_response", << 1, 1, 1, 2 >>)]
MCNormalized == [l \in DOMAIN MCLineOf |-> IF l \in {"a1", "a2"} THEN "a" ELSE l]
MCDirectives ==
  [ota |-> << >>, charging |-> << >>, debug_gym |-> << 1 >>,
   diagnostics |-> << [kind |-> "actuator", req |-> 0, n |-> 0, code |-> None] >>,
   topology |-> {[id |-> "P", expect |-> {2}]}]

Prog(out, err, end) == [out |-> out, err |-> err, end |-> end, edges |-> << >>]
OneEvent(l) == {Prog(<< l >>, << >>, 0), Prog(<< l >>, << >>, Hangs), Prog(<< >>, << "panicked" >>, 101)}
MCPrograms ==
  [good |-> OneEvent("a1") \cup {Prog(<< "b" >>, << >>, 0)},
   bad |-> {Prog(<< >>, << "error [kind]" >>, 2), Prog(<< >>, << "panicked" >>, 101),
            Prog(<< "a1" >>, << >>, 0), Prog(<< >>, << >>, Hangs)},
   ota |-> OneEvent("boot")
           \cup {Prog(<< "=== name ===", "boot", "PASS" >>, << "warning", "warning" >>, 0),
                 Prog(<< >>, << >>, NoChild)},
   telematics |-> OneEvent("a1") \cup {Prog(<< "a2" >>, << >>, 0), Prog(<< "a1" >>, << >>, 1),
                                        Prog(<< "a1", "b" >>, << >>, 0)},
   charging |-> OneEvent("charge"),
   diagnostics |-> OneEvent("diag"),
   topology |-> OneEvent("probe"),
   topology_v2 |-> {[Prog(<< >>, << >>, 0) EXCEPT !.edges = << Edge(1, 0, "tx", 1, 0), Edge(1, 0, "rx", 1, 2) >>],
                    [Prog(<< >>, << >>, Hangs) EXCEPT !.edges = << Edge(1, 0, "tx", 1, 0) >>]},
   failing |-> OneEvent("accept"),
   fixed |-> OneEvent("reject") \cup OneEvent("accept")]
=============================================================================
