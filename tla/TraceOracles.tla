---------------------------- MODULE TraceOracles ----------------------------
(***************************************************************************)
(* The verdicts of the dogfood lanes (dogfood/src/): pure functions of the *)
(* trace a run printed.  A trace is a sequence of parsed lines             *)
(* [machine, time, kind, label, value]; a value is the four bytes of the   *)
(* traced u32, most significant first, so that the packed values need no   *)
(* arithmetic.  A line that does not parse has another kind.               *)
(***************************************************************************)
EXTENDS Integers, Sequences, SequencesExt, FiniteSets

CONSTANT MIN_EXPECTED_RECORDS        \* 10 in telematics.rs

GATEWAY == 1
POWERTRAIN == 2
U32(n) == << 0, 0, 0, n >>
None == << >>                        \* Option::None; Some(v) is << v >>
SignedByte(b) == IF b > 127 THEN b - 256 ELSE b

(* parse_user_trace_line over a trace: the user-u32 lines, in order.       *)
UserTrace(trace) == SelectSeq(trace, LAMBDA e : e.kind = "user-u32")

(* The values machine m traced under a label, in order.                    *)
Values(trace, m, label) ==
  LET es == SelectSeq(UserTrace(trace), LAMBDA e : e.machine = m /\ e.label = label)
  IN [i \in DOMAIN es |-> es[i].value]

state_values(trace, m) == Values(trace, m, "ota_state")
any_value(trace, m, label, want) == U32(want) \in Range(Values(trace, m, label))
last_value(trace, m, label) ==
  LET vs == Values(trace, m, label) IN IF vs = << >> THEN None ELSE << Last(vs) >>

(* One iterator over have serves all of want: finding an element consumes  *)
(* it and what precedes it.                                                *)
is_subsequence(have, want) ==
  LET Find(at, w) == {i \in DOMAIN have : i > at /\ have[i] = w}
      Advance(at, w) == IF Find(at, w) = {} THEN Len(have) + 1
                        ELSE CHOOSE i \in Find(at, w) : \A j \in Find(at, w) : i <= j
  IN FoldLeft(Advance, 0, want) <= Len(have)

------------------------------------------------------------------------------
(* ota.rs.  An expectation is [kind, seq, n]; a file without directives    *)
(* expects a healthy boot.                                                 *)
ota_expectations(directives) ==
  IF directives = << >> THEN << [kind |-> "healthy", seq |-> << >>, n |-> 0] >> ELSE directives

ota_evaluate(exp, trace) ==
  CASE exp.kind = "state-sequence" ->
         /\ exp.seq # << >>
         /\ is_subsequence(state_values(trace, GATEWAY), [i \in DOMAIN exp.seq |-> U32(exp.seq[i])])
    [] exp.kind = "crc-ok" -> any_value(trace, GATEWAY, "ota_crc_ok", 1)
    [] exp.kind = "crc-bad" -> /\ any_value(trace, GATEWAY, "ota_crc_ok", 0)
                               /\ ~any_value(trace, GATEWAY, "ota_crc_ok", 1)
    [] exp.kind = "healthy" -> any_value(trace, GATEWAY, "ota_boot_result", 1)
    [] exp.kind = "rolled-back" -> any_value(trace, GATEWAY, "ota_rollback", 1)
    [] exp.kind = "active-slot" ->
         last_value(trace, GATEWAY, "ota_active_slot") = << U32(exp.n) >>

run_ota_scenario(status, directives, trace) ==
  /\ status = "Pass"
  /\ \A i \in DOMAIN ota_expectations(directives) :
       ota_evaluate(ota_expectations(directives)[i], trace)

------------------------------------------------------------------------------
(* charging.rs.                                                            *)
VEHICLE_CHARGING == 5

charging_expectations(directives) ==
  IF directives = << >> THEN << [kind |-> "charging-mode", n |-> 0] >> ELSE directives

motor_commands(trace) ==
  LET vs == Values(trace, POWERTRAIN, "charging_motor_command")
  IN [i \in DOMAIN vs |-> [torque |-> SignedByte(vs[i][3]), enable |-> vs[i][4]]]

charging_evaluate(exp, trace) ==
  CASE exp.kind = "charging-mode" ->
         any_value(trace, GATEWAY, "gateway_charging_state", VEHICLE_CHARGING)
    [] exp.kind = "drive-blocked" ->
         /\ last_value(trace, GATEWAY, "charging_drive_blocked") = << U32(1) >>
         /\ last_value(trace, GATEWAY, "gateway_charging_state") = << U32(VEHICLE_CHARGING) >>
    [] exp.kind = "motor-torque" ->
         LET cmds == motor_commands(trace)
         IN cmds # << >> /\ \A i \in DOMAIN cmds : cmds[i].torque <= exp.n /\ cmds[i].enable = 0

run_charging_scenario(status, directives, trace) ==
  /\ status = "Pass"
  /\ \A i \in DOMAIN charging_expectations(directives) :
       charging_evaluate(charging_expectations(directives)[i], trace)

------------------------------------------------------------------------------
(* diagnostics.rs.  A response head packs request, service, status and     *)
(* value0; a v1 line completes the response of the same key.               *)
DIAG_OK == 0
VEHICLE_SERVICE == 6

diagnostics_expectations(directives) ==
  IF directives = << >>
    THEN << [kind |-> "service-mode", req |-> 0, n |-> 0, code |-> None] >> ELSE directives

decode_response_head(v) == [status |-> v[3], value0 |-> v[4], value1 |-> 0]

(* The map after a line: a head replaces the entry of its key, value1      *)
(* included; a v1 line fills value1 and, without a head, invents an entry  *)
(* with status 0.                                                          *)
collect_diag_responses(trace) ==
  LET es == SelectSeq(UserTrace(trace), LAMBDA e : e.machine = GATEWAY)
      Key(v) == << v[2], v[1] >>
      Put(map, k, r) == [x \in DOMAIN map \cup {k} |-> IF x = k THEN r ELSE map[x]]
      Add(map, e) ==
        LET k == Key(e.value)
            old == IF k \in DOMAIN map THEN map[k]
                   ELSE [status |-> 0, value0 |-> 0, value1 |-> 0]
        IN IF e.label = "gateway_diag_response" THEN Put(map, k, decode_response_head(e.value))
           ELSE IF e.label = "gateway_diag_response_v1"
             THEN Put(map, k, [old EXCEPT !.value1 = e.value[4]])
           ELSE map
  IN FoldLeft(Add, << >>, es)

collect_service_motor_commands(trace) ==
  LET vs == Values(trace, POWERTRAIN, "diag_motor_command")
  IN [i \in DOMAIN vs |-> SignedByte(vs[i][3])]

(* response(..).is_some_and(test).                                         *)
Answered(responses, service, req, Test(_)) ==
  << service, req >> \in DOMAIN responses /\ Test(responses[<< service, req >>])

diagnostics_evaluate(exp, trace) ==
  LET rs == collect_diag_responses(trace)
      cmds == collect_service_motor_commands(trace)
      InService(r) == r.status = DIAG_OK /\ r.value0 = VEHICLE_SERVICE
  IN CASE exp.kind = "service-mode" ->
            Answered(rs, 1, 1, InService) /\ Answered(rs, 2, 2, InService)
       [] exp.kind = "dtc" ->
            Answered(rs, 3, exp.req,
                     LAMBDA r : /\ r.status = DIAG_OK /\ r.value0 = exp.n
                                /\ exp.code = None \/ exp.code = << r.value1 >>)
       [] exp.kind = "actuator" -> Answered(rs, 6, 6, LAMBDA r : r.status = exp.n)
       [] exp.kind = "motor-torque" ->
            cmds # << >> /\ \A i \in DOMAIN cmds : cmds[i] <= exp.n

run_diagnostics_scenario(status, directives, trace) ==
  /\ status = "Pass"
  /\ \A i \in DOMAIN diagnostics_expectations(directives) :
       diagnostics_evaluate(diagnostics_expectations(directives)[i], trace)

------------------------------------------------------------------------------
(* telematics.rs: the events of machine 1.                                 *)
STATUS_RECORD_BYTES == 11
label_values(trace, label) == LET vs == Values(trace, 1, label)
                              IN [i \in DOMAIN vs |-> vs[i][4]]
Windows(vs, Rel(_, _)) == \A i \in 1 .. (Len(vs) - 1) : Rel(vs[i], vs[i + 1])

check_booted(trace) == LET boot == label_values(trace, "telematics_boot")
                       IN boot # << >> /\ boot[1] = 1

(* Zero, the boot-time heartbeat, is dropped wherever it appears.          *)
check_heartbeat_monotonic(trace) ==
  LET ticks == SelectSeq(label_values(trace, "telem_hb"), LAMBDA v : v > 0)
  IN ticks # << >> /\ Windows(ticks, LAMBDA a, b : a < b)

check_send_record_size(trace) ==
  LET sent == label_values(trace, "telem_net_sent")
  IN sent # << >> /\ \A i \in DOMAIN sent : sent[i] = STATUS_RECORD_BYTES

check_minimum_record_count(trace) ==
  Len(label_values(trace, "telem_net_sent")) >= MIN_EXPECTED_RECORDS

(* No received frame at all is accepted.                                   *)
check_recv_non_decreasing(trace) ==
  Windows(label_values(trace, "telem_net_recv"), LAMBDA a, b : b >= a)

check_all_telematics(trace) ==
  /\ check_booted(trace)
  /\ check_heartbeat_monotonic(trace)
  /\ check_send_record_size(trace)
  /\ check_minimum_record_count(trace)
  /\ check_recv_non_decreasing(trace)

run_telematics_scenario(status, trace) == status = "Pass" /\ check_all_telematics(trace)

------------------------------------------------------------------------------
(* topology.rs.  A probe is [id, expect]; the can-rx lines of the plain    *)
(* run give the receivers, the edges of a second, --trace-v2 run give the  *)
(* causality.                                                              *)
parse_can_rx(trace, id) ==
  LET es == SelectSeq(trace, LAMBDA e : e.kind = "can-rx" /\ e.label = id)
  IN [i \in DOMAIN es |-> es[i].machine]

evaluate_probe(probe, trace) ==
  LET rx == parse_can_rx(trace, probe.id)
      count(r) == Cardinality({i \in DOMAIN rx : rx[i] = r})
  IN Range(rx) = probe.expect /\ \A r \in Range(rx) : count(r) = 1

Corr(es) == {es[i].correlation_id : i \in DOMAIN es}

(* Fault: a forwarded delivery needs no known parent.                      *)
causal_ok_faulty(rx) == TRUE

causal_ok(rx) == \A i \in DOMAIN rx : rx[i].parent_id = 0 \/ rx[i].parent_id \in Corr(rx)

evaluate_correlation(probe, edges) ==
  LET Of(d) == SelectSeq(edges, LAMBDA e : e.message_id = probe.id /\ e.direction = d)
      rx == Of("rx")
      roots == SelectSeq(rx, LAMBDA e : e.parent_id = 0)
      dests == [i \in DOMAIN rx |-> rx[i].destination]
  IN IF probe.expect = {} THEN rx = << >>
     ELSE /\ rx # << >>
          /\ Cardinality(Corr(roots)) = 1
          /\ Cardinality({roots[i].source : i \in DOMAIN roots}) = 1
          /\ causal_ok(rx)
          /\ Range(dests) = probe.expect /\ IsInjective(dests)
          /\ Corr(Of("tx")) \cap Corr(roots) # {}

(* The edges of a run that could not be started, or was killed at the      *)
(* deadline, are those the file holds: its outcome is not looked at.       *)
run_topology_scenario(status, probes, trace, edges) ==
  /\ status = "Pass"
  /\ probes # {}
  /\ \A p \in probes : evaluate_probe(p, trace) /\ evaluate_correlation(p, edges)
=============================================================================
