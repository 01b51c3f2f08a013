-------------------------- MODULE TraceInvariants --------------------------
(***************************************************************************)
(* The trace invariants (dogfood/src/invariants.rs), the two oracles of    *)
(* the debug gym (debug_gym.rs, debug_gym_corpus.rs) and the normalized    *)
(* trace that the determinism hash compares (trace_hash.rs).               *)
(***************************************************************************)
EXTENDS TraceOracles

PASS == "pass"
FAIL == "fail"
SKIPPED == "skipped"

(* parse_machine_time: every parsed line has a machine and a time; other   *)
(* lines (kind "text") have none.                                          *)
Timed(trace) == SelectSeq(trace, LAMBDA e : e.kind # "text")

(* Per machine the start of its segment and the time last seen; no entry   *)
(* before its first line.  A time at or below the start opens a segment.   *)
Advance(st, e) ==
  LET m == e.machine
      Put(v) == [x \in DOMAIN st.seg \cup {m} |-> IF x = m THEN v ELSE st.seg[x]]
  IN IF ~st.ok THEN st
     ELSE IF m \notin DOMAIN st.seg THEN [st EXCEPT !.seg = Put(<< e.time, e.time >>)]
     ELSE IF e.time >= st.seg[m][2] THEN [st EXCEPT !.seg = Put(<< st.seg[m][1], e.time >>)]
     ELSE IF e.time <= st.seg[m][1] THEN [st EXCEPT !.seg = Put(<< e.time, e.time >>)]
     ELSE [st EXCEPT !.ok = FALSE]

VirtualTimeMonotonic(trace) ==
  LET end == FoldLeft(Advance, [ok |-> TRUE, seg |-> << >>], Timed(trace))
  IN IF ~end.ok THEN FAIL ELSE IF Timed(trace) = << >> THEN SKIPPED ELSE PASS

ProcessTerminatedCleanly(status) == IF status = "Pass" THEN PASS ELSE FAIL
TraceNonEmpty(trace) == IF trace = << >> THEN FAIL ELSE PASS

(* The seven invariants whose trace data does not exist yet.               *)
stub_invariants == [i \in 1 .. 7 |-> SKIPPED]

check_default(status, trace) ==
  << VirtualTimeMonotonic(trace), ProcessTerminatedCleanly(status), TraceNonEmpty(trace) >>
    \o stub_invariants
any_failed(results) == FAIL \in Range(results)

------------------------------------------------------------------------------
(* debug_gym.rs: one scenario, run continuously and stepped.               *)
max_trace_time(trace) ==
  LET ts == {0} \cup {Timed(trace)[i].time : i \in DOMAIN Timed(trace)}
  IN CHOOSE t \in ts : \A u \in ts : u <= t

(* duration_ms is << >> when the file has none.                            *)
gym_run_one(continuous, stepped, duration_ms) ==
  /\ continuous.status = "Pass" /\ stepped.status = "Pass"
  /\ continuous.trace = stepped.trace
  /\ duration_ms = None \/ max_trace_time(continuous.trace) <= duration_ms[1] * 1000
  /\ VirtualTimeMonotonic(continuous.trace) # FAIL

------------------------------------------------------------------------------
(* debug_gym_corpus.rs: a seed holds when the buggy firmware shows its bug *)
(* in trace f, the fixed one does not in trace x, and the two diverge.     *)
VEHICLE_DRIVE == 2
DIAG_REJECTED == 1
Seeds == {"ota_rollback", "service_torque", "clear_all_dtcs", "start_session_in_drive"}

(* The first response to the request, unlike the diagnostics lane.         *)
diag_response_status_value0(trace, service, req) ==
  LET vs == SelectSeq(Values(trace, GATEWAY, "gateway_diag_response"),
                      LAMBDA v : v[1] = req /\ v[2] = service)
  IN IF vs = << >> THEN None ELSE << Head(vs)[3], Head(vs)[4] >>

dtc_count(trace, req) ==
  LET r == diag_response_status_value0(trace, 3, req) IN IF r = None THEN None ELSE << r[2] >>

service_motor_commands(trace) ==
  LET vs == Values(trace, POWERTRAIN, "diag_motor_command")
  IN [i \in DOMAIN vs |-> [torque |-> SignedByte(vs[i][3]), motor_enable |-> vs[i][4] % 2 = 1]]

(* Fault: any answer but OK with SERVICE counts as the fix.                *)
evaluate_start_session_in_drive_faulty(f, x) ==
  /\ diag_response_status_value0(f, 1, 1) = << DIAG_OK, VEHICLE_SERVICE >>
  /\ diag_response_status_value0(x, 1, 1) # << DIAG_OK, VEHICLE_SERVICE >>

evaluate_start_session_in_drive(f, x) ==
  /\ diag_response_status_value0(f, 1, 1) = << DIAG_OK, VEHICLE_SERVICE >>
  /\ diag_response_status_value0(x, 1, 1) = << DIAG_REJECTED, VEHICLE_DRIVE >>

evaluate_clear_all_dtcs(f, x) ==
  /\ dtc_count(f, 3) = << 2 >> /\ dtc_count(f, 5) = << 0 >>
  /\ dtc_count(x, 3) = << 2 >> /\ dtc_count(x, 5) = << 1 >>

(* The largest torque commanded, 0 for none, decides the divergence.       *)
evaluate_service_torque_clamp(f, x) ==
  LET fc == service_motor_commands(f)
      xc == service_motor_commands(x)
      MaxTorque(cs) == IF cs = << >> THEN 0
                       ELSE CHOOSE t \in {cs[i].torque : i \in DOMAIN cs} :
                              \A i \in DOMAIN cs : cs[i].torque <= t
  IN /\ \E i \in DOMAIN fc : fc[i].torque > 0 /\ fc[i].motor_enable
     /\ xc # << >> /\ \A i \in DOMAIN xc : xc[i].torque = 0 /\ ~xc[i].motor_enable
     /\ MaxTorque(fc) > 0 /\ MaxTorque(xc) = 0

evaluate_ota_rollback(f, x) ==
  /\ any_value(f, GATEWAY, "ota_boot_result", 1) /\ ~any_value(f, GATEWAY, "ota_rollback", 1)
  /\ any_value(x, GATEWAY, "ota_rollback", 1) /\ ~any_value(x, GATEWAY, "ota_boot_result", 1)
  /\ last_value(x, GATEWAY, "ota_active_slot") = << U32(0) >>
  /\ last_value(f, GATEWAY, "ota_crc_ok") = << U32(1) >>
  /\ last_value(x, GATEWAY, "ota_crc_ok") = << U32(0) >>
  /\ last_value(f, GATEWAY, "ota_state") = << U32(5) >>
  /\ last_value(x, GATEWAY, "ota_state") = << U32(6) >>

corpus_evaluate(kind, f, x) ==
  CASE kind = "ota_rollback" -> evaluate_ota_rollback(f, x)
    [] kind = "service_torque" -> evaluate_service_torque_clamp(f, x)
    [] kind = "clear_all_dtcs" -> evaluate_clear_all_dtcs(f, x)
    [] kind = "start_session_in_drive" -> evaluate_start_session_in_drive(f, x)
=============================================================================
