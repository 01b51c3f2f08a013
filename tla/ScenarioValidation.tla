-------------------------- MODULE ScenarioValidation --------------------------
(***************************************************************************)
(* The automotive checks a scenario passes before anything is simulated    *)
(* (src/src/validate.rs).  Every check is fail-fast: the result is the     *)
(* kind of the first error, or "ok".                                       *)
(*                                                                         *)
(* A scenario is [machines, nodes, inputs, ...]: machines a sequence of    *)
(* [name, firmware, zephyr], nodes the sequence of <<bus, machine>>        *)
(* attachments over all buses, inputs a sequence of driver inputs.  The    *)
(* reserved external-actor frames are looked at one by one, in the order   *)
(* of the stable sort by at_ms; v is what the loop remembers between two   *)
(* of them.                                                                *)
(***************************************************************************)
EXTENDS FirmwareTable

CONSTANT Ids                 \* request ids a frame may carry, 0 included
NoTotal == 256               \* ota_totals has no entry (a total is a u8)

resolve_ecu(m) == resolve_ecu_category(m.firmware, m.name)

HasEcu(s, cat) == \E i \in DOMAIN s.machines : resolve_ecu(s.machines[i]) = cat

validate_scenario(s) ==
  IF \E i \in DOMAIN s.machines :
       s.machines[i].firmware # NoFirmware /\ resolve_ecu(s.machines[i]) = NoCategory
    THEN "unknown-firmware"
  ELSE IF /\ ~HasEcu(s, << "gateway" >>)
          /\ \E e \in {"powertrain", "bms", "dashboard"} : HasEcu(s, << e >>)
    THEN "missing-gateway"
  ELSE IF ~IsInjective(s.nodes) THEN "duplicate-bus-node"
  ELSE IF /\ ~HasEcu(s, << "powertrain" >>)
          /\ \E i \in DOMAIN s.inputs : s.inputs[i].throttle > 0
    THEN "drive-without-powertrain"
  ELSE "ok"

------------------------------------------------------------------------------
(* A reserved frame: [id, sender, bus, len, node, b1, b2, b3], the bytes   *)
(* of the payload the checks read.                                         *)
FrameIds == {"EVSE_EVENT", "OTA_REQUEST", "OTA_CHUNK", "OTA_FINISH"}

want_len == [EVSE_EVENT |-> 6, OTA_REQUEST |-> 4, OTA_CHUNK |-> 8, OTA_FINISH |-> 7]
reserved(id) == IF id = "EVSE_EVENT" THEN 6 ELSE 7

(* The first machine of that name decides whether the sender has firmware. *)
is_ecu(s, name) ==
  LET named == SelectSeq(s.machines, LAMBDA m : m.name = name)
  IN named # << >> /\ resolve_ecu(Head(named)) # NoCategory

actor_error(s, f) ==
  IF is_ecu(s, f.sender) THEN "actor-has-firmware"
  ELSE IF ~ \E i \in DOMAIN s.nodes : s.nodes[i] = << f.bus, f.sender >> THEN "actor-not-on-bus"
  ELSE IF f.len # want_len[f.id] THEN "bad-payload-length"
  ELSE IF f.node # reserved(f.id) THEN "bad-source-node"
  ELSE "ok"

frames_init == [plugged |-> FALSE,
                totals |-> [i \in Ids |-> NoTotal],
                seen |-> [i \in Ids |-> 0]]

(* EVSE_EVENT: event b1 (1 plugs, 2 is the handshake), request id b2.      *)
evse_error(v, f) ==
  IF f.b1 > 3 THEN "bad-enum-value"
  ELSE IF f.b2 = 0 THEN "zero-request-id"
  ELSE IF f.b1 = 2 /\ ~v.plugged THEN "handshake-before-plug"
  ELSE "ok"

(* OTA_REQUEST: request id b1, total b3.  OTA_CHUNK: id b1, index b2.      *)
(* OTA_FINISH: id b1, total b2.                                            *)
ota_error(v, f) ==
  IF f.b1 = 0 THEN "zero-request-id"
  ELSE IF f.id = "OTA_CHUNK" /\ v.totals[f.b1] = NoTotal THEN "chunk-before-request"
  ELSE IF f.id = "OTA_CHUNK" /\ (f.b2 # v.seen[f.b1] \/ f.b2 >= v.totals[f.b1])
    THEN "ota-chunk-order"
  ELSE IF f.id = "OTA_FINISH" /\ (v.totals[f.b1] # f.b2 \/ v.seen[f.b1] # f.b2)
    THEN "ota-finish-mismatch"
  ELSE "ok"

frame_error(s, v, f) ==
  IF actor_error(s, f) # "ok" THEN actor_error(s, f)
  ELSE IF f.id = "EVSE_EVENT" THEN evse_error(v, f) ELSE ota_error(v, f)

(* Fault: a repeated OTA_REQUEST restarts the count of observed chunks.    *)
frame_accept_faulty(v, f) ==
  [plugged |-> v.plugged \/ (f.id = "EVSE_EVENT" /\ f.b1 = 1),
   totals |-> IF f.id = "OTA_REQUEST" THEN [v.totals EXCEPT ![f.b1] = f.b3] ELSE v.totals,
   seen |-> IF f.id = "OTA_CHUNK" THEN [v.seen EXCEPT ![f.b1] = @ + 1]
            ELSE IF f.id = "OTA_REQUEST" THEN [v.seen EXCEPT ![f.b1] = 0] ELSE v.seen]

(* What an accepted frame leaves behind: a request declares its total and  *)
(* keeps the count of its id (entry().or_insert(0)); an unplug is not      *)
(* recorded.                                                               *)
frame_accept(v, f) ==
  [plugged |-> v.plugged \/ (f.id = "EVSE_EVENT" /\ f.b1 = 1),
   totals |-> IF f.id = "OTA_REQUEST" THEN [v.totals EXCEPT ![f.b1] = f.b3] ELSE v.totals,
   seen |-> IF f.id = "OTA_CHUNK" THEN [v.seen EXCEPT ![f.b1] = @ + 1] ELSE v.seen]
=============================================================================
