-------------------------------- MODULE Lanes --------------------------------
(***************************************************************************)
(* The lane verdicts over every short trace: a behaviour picks a lane and  *)
(* its trace grows line by line; a seed of the corpus has two traces, one  *)
(* per firmware.  The verdict operators are compared with references that  *)
(* say what the lane is for without folding over the trace.                *)
(***************************************************************************)
EXTENDS TraceInvariants

CONSTANTS LaneLines,    \* lane -> the lines its traces are made of
          LaneLength,   \* lane -> the longest trace
          FixedLines,   \* seed -> the lines of the fixed firmware's traces
          FixedLength   \* seed -> the longest of these

VARIABLES lane,         \* the lane of this behaviour, "none" for no lane
          lines,        \* the trace so far (the failing run's, for a seed)
          fixed         \* a seed's other trace
laneVars == << lane, lines, fixed >>

LaneInit == lane \in DOMAIN LaneLines /\ lines = << >> /\ fixed = << >>
LaneIdle == lane = "none" /\ lines = << >> /\ fixed = << >>

TraceLine == /\ lane # "none" /\ Len(lines) < LaneLength[lane]
             /\ \E e \in LaneLines[lane] : lines' = Append(lines, e)
             /\ UNCHANGED << lane, fixed >>

FixedLine == /\ lane \in Seeds /\ Len(fixed) < FixedLength[lane]
             /\ \E e \in FixedLines[lane] : fixed' = Append(fixed, e)
             /\ UNCHANGED << lane, lines >>

LaneNext == TraceLine \/ FixedLine

------------------------------------------------------------------------------
(* References.                                                             *)
At(m, label, v) == {i \in DOMAIN lines : /\ lines[i].kind = "user-u32" /\ lines[i].machine = m
                                         /\ lines[i].label = label /\ lines[i].value = v}
Of(m, label) == {i \in DOMAIN lines : /\ lines[i].kind = "user-u32" /\ lines[i].machine = m
                                      /\ lines[i].label = label}
IsLast(i, S) == i \in S /\ \A j \in S : j <= i

(* want can be embedded, in order, in the gateway's OTA states.            *)
Embeds(want) ==
  \E at \in [DOMAIN want -> DOMAIN lines] :
    /\ \A i, j \in DOMAIN want : i < j => at[i] < at[j]
    /\ \A i \in DOMAIN want : at[i] \in At(GATEWAY, "ota_state", U32(want[i]))

OtaExps == {[kind |-> "state-sequence", seq |-> s, n |-> 0] :
              s \in {<< >>, << 1 >>, << 1, 2 >>, << 1, 1 >>, << 1, 2, 1 >>}}
           \cup [kind : {"crc-ok", "crc-bad", "healthy", "rolled-back"}, seq : {<< >>}, n : {0}]
           \cup [kind : {"active-slot"}, seq : {<< >>}, n : {0, 1}]
OtaReference(exp) ==
  LET Saw(label, v) == At(GATEWAY, label, U32(v)) # {}
      K(k) == exp.kind = k
  IN \/ K("state-sequence") /\ exp.seq # << >> /\ Embeds(exp.seq)
     \/ K("crc-ok") /\ Saw("ota_crc_ok", 1)
     \/ K("crc-bad") /\ Saw("ota_crc_ok", 0) /\ ~Saw("ota_crc_ok", 1)
     \/ K("healthy") /\ Saw("ota_boot_result", 1)
     \/ K("rolled-back") /\ Saw("ota_rollback", 1)
     \/ K("active-slot") /\ \E i \in At(GATEWAY, "ota_active_slot", U32(exp.n)) :
                              IsLast(i, Of(GATEWAY, "ota_active_slot"))

ChargingExps == [kind : {"charging-mode", "drive-blocked"}, n : {0}]
                \cup [kind : {"motor-torque"}, n : {0, 5}]
ChargingReference(exp) ==
  LET charging == At(GATEWAY, "gateway_charging_state", U32(VEHICLE_CHARGING))
      cmds == Of(POWERTRAIN, "charging_motor_command")
      LastIn(S, label) == \E i \in S : IsLast(i, Of(GATEWAY, label))
  IN \/ exp.kind = "charging-mode" /\ charging # {}
     \/ /\ exp.kind = "drive-blocked"
        /\ LastIn(charging, "gateway_charging_state")
        /\ LastIn(At(GATEWAY, "charging_drive_blocked", U32(1)), "charging_drive_blocked")
     \/ /\ exp.kind = "motor-torque" /\ cmds # {}
        /\ \A i \in cmds : /\ lines[i].value[4] = 0
                           /\ lines[i].value[3] \in 128 .. 255 \cup 0 .. exp.n

(* What the last head for a key said, and the last v1 line after it.  A    *)
(* key with v1 lines only counts as answered OK with a zero value0.        *)
DiagExps == [kind : {"service-mode"}, req : {0}, n : {0}, code : {None}]
            \cup [kind : {"dtc"}, req : {3}, n : {0, 1}, code : {None, << 0 >>, << 7 >>}]
            \cup [kind : {"actuator", "motor-torque"}, req : {0}, n : {0, 1}, code : {None}]
DiagReference(exp) ==
  LET Key(i, s, r) == lines[i].value[2] = s /\ lines[i].value[1] = r
      Heads(s, r) == {i \in Of(GATEWAY, "gateway_diag_response") : Key(i, s, r)}
      V1s(s, r) == {i \in Of(GATEWAY, "gateway_diag_response_v1") : Key(i, s, r)}
      Said(s, r, st, v0) ==
        \/ \E i \in Heads(s, r) :
             /\ IsLast(i, Heads(s, r))
             /\ lines[i].value[3] = st
             /\ v0 \in {None, << lines[i].value[4] >>}
        \/ Heads(s, r) = {} /\ V1s(s, r) # {} /\ st = DIAG_OK /\ v0 \in {None, << 0 >>}
      Fresh(s, r) == {i \in V1s(s, r) : \A j \in Heads(s, r) : j < i}
      Value1(s, r) == IF Fresh(s, r) = {} THEN 0
                      ELSE lines[CHOOSE i \in Fresh(s, r) : IsLast(i, Fresh(s, r))].value[4]
      cmds == Of(POWERTRAIN, "diag_motor_command")
  IN \/ /\ exp.kind = "service-mode"
        /\ Said(1, 1, DIAG_OK, << VEHICLE_SERVICE >>) /\ Said(2, 2, DIAG_OK, << VEHICLE_SERVICE >>)
     \/ /\ exp.kind = "dtc" /\ Said(3, exp.req, DIAG_OK, << exp.n >>)
        /\ exp.code \in {None, << Value1(3, exp.req) >>}
     \/ exp.kind = "actuator" /\ Said(6, 6, exp.n, None)
     \/ /\ exp.kind = "motor-torque" /\ cmds # {}
        /\ \A i \in cmds : lines[i].value[3] \in 128 .. 255 \cup 0 .. exp.n

TelematicsReference ==
  LET V(i) == lines[i].value[4]
      ticks == {i \in Of(1, "telem_hb") : V(i) # 0}
      boots == Of(1, "telematics_boot")
      sent == Of(1, "telem_net_sent")
      recv == Of(1, "telem_net_recv")
  IN /\ \E i \in boots : V(i) = 1 /\ \A j \in boots : i <= j
     /\ ticks # {} /\ \A i, j \in ticks : i < j => V(i) < V(j)
     /\ sent # {} /\ \A i \in sent : V(i) = STATUS_RECORD_BYTES
     /\ Cardinality(sent) >= MIN_EXPECTED_RECORDS
     /\ \A i, j \in recv : i < j => V(i) <= V(j)

Probes == [id : {"P"}, expect : {{}, {2}, {2, 3}, {2, 3, 4}}]
ProbeReference(p) ==
  LET To(r) == {i \in DOMAIN lines : /\ lines[i].kind = "can-rx" /\ lines[i].label = p.id
                                     /\ lines[i].machine = r}
  IN \A r \in 1 .. 4 : Cardinality(To(r)) = IF r \in p.expect THEN 1 ELSE 0

(* The deliveries are one send and what was forwarded from it, one per     *)
(* expected receiver.  A correlation is caused by its parents.             *)
Rx(p) == {i \in DOMAIN lines : lines[i].direction = "rx" /\ lines[i].message_id = p.id}
CorrIds(p) == {lines[i].correlation_id : i \in Rx(p)}
FromRoot(p) ==
  \A S \in SUBSET CorrIds(p) :
    (\A i \in Rx(p) : lines[i].parent_id \in S \cup {0} => lines[i].correlation_id \in S)
      => \A i \in Rx(p) : lines[i].parent_id \in S \cup {0}
Acyclic(p) ==
  \E rank \in [CorrIds(p) -> 1 .. Cardinality(CorrIds(p))] :
    \A i \in Rx(p) : lines[i].parent_id \in CorrIds(p)
                      => rank[lines[i].parent_id] < rank[lines[i].correlation_id]
OneSend(p) ==
  /\ Cardinality({lines[i].correlation_id : i \in {j \in Rx(p) : lines[j].parent_id = 0}}) = 1
  /\ Cardinality({lines[i].source : i \in {j \in Rx(p) : lines[j].parent_id = 0}}) = 1
  /\ \E t \in DOMAIN lines, i \in Rx(p) :
       /\ lines[t].direction = "tx" /\ lines[t].message_id = p.id
       /\ lines[i].parent_id = 0 /\ lines[t].correlation_id = lines[i].correlation_id
CorrelationReference(p) ==
  /\ \A r \in 1 .. 4 : Cardinality({i \in Rx(p) : lines[i].destination = r})
                         = IF r \in p.expect THEN 1 ELSE 0
  /\ p.expect # {} => OneSend(p) /\ FromRoot(p)

(* The times of each machine are segments without a backward step, each    *)
(* starting no later than the one before it.                               *)
Segmented(m) ==
  LET ts == SelectSeq(Timed(lines), LAMBDA e : e.machine = m)
      T(i) == ts[i].time
  IN \E starts \in SUBSET DOMAIN ts :
       /\ ts # << >> => 1 \in starts
       /\ \A i \in DOMAIN ts \ {1} : i \in starts \/ T(i - 1) <= T(i)
       /\ \A i, j \in starts : i < j => T(j) <= T(i)
ClockReference == \A m \in {lines[i].machine : i \in DOMAIN lines} : Segmented(m)
Gym(d) == gym_run_one([status |-> "Pass", trace |-> lines], [status |-> "Pass", trace |-> lines], d)

------------------------------------------------------------------------------
(* Every lane decides as its reference does, on every trace: an OTA state  *)
(* sequence is found exactly when it can be embedded in the states traced; *)
(* "last" means the last line of that machine and label; a diagnostic      *)
(* answer is its last head with a later v1 line, or OK for an orphan v1    *)
(* line; heartbeats increase between any two ticks; a probe passes exactly *)
(* when each expected receiver, and no other, got it once; a correlation   *)
(* passes, when causes are not circular, exactly when all deliveries go    *)
(* back to one traced send; the clock check accepts exactly the traces     *)
(* that split into segments.  (evaluate in ota.rs, charging.rs,            *)
(* diagnostics.rs; the checks of telematics.rs, topology.rs, invariants.rs *)
(* and debug_gym.rs.)                                                      *)
LaneVerdictExact ==
  CASE lane = "ota" ->
         \A e \in OtaExps : run_ota_scenario("Pass", << e >>, lines) <=> OtaReference(e)
    [] lane = "charging" ->
         \A e \in ChargingExps : run_charging_scenario("Pass", << e >>, lines) <=> ChargingReference(e)
    [] lane = "diagnostics" ->
         \A e \in DiagExps : run_diagnostics_scenario("Pass", << e >>, lines) <=> DiagReference(e)
    [] lane = "telematics" -> run_telematics_scenario("Pass", lines) <=> TelematicsReference
    [] lane = "topology" -> \A p \in Probes : evaluate_probe(p, lines) <=> ProbeReference(p)
    [] lane = "trace_v2" ->
         \A p \in Probes : Acyclic(p) => (evaluate_correlation(p, lines) <=> CorrelationReference(p))
    [] lane = "clock" ->
         /\ any_failed(check_default("Pass", lines)) <=> ~ClockReference \/ lines = << >>
         /\ \A d \in {None, << 0 >>, << 1 >>} :
              Gym(d) <=> /\ ClockReference
                         /\ d = None \/ \A i \in DOMAIN Timed(lines) : Timed(lines)[i].time <= 1000 * d[1]
    [] OTHER -> TRUE

(* A seed of the corpus that passes separates the two firmwares: it would  *)
(* fail with the traces swapped, and some label was traced by the same     *)
(* machine in both runs with different values, so that a breakpoint on it  *)
(* stops at the bug in either run (evaluate_* in debug_gym_corpus.rs,      *)
(* whose traces-diverge check is this localizing signal).                  *)
SeedsSeparateFirmware ==
  LET Signals == {<< lines[i].machine, lines[i].label >> : i \in DOMAIN lines}
                 \cap {<< fixed[i].machine, fixed[i].label >> : i \in DOMAIN fixed}
  IN lane \in Seeds /\ corpus_evaluate(lane, lines, fixed) =>
       /\ ~corpus_evaluate(lane, fixed, lines)
       /\ \E s \in Signals : Values(lines, s[1], s[2]) # Values(fixed, s[1], s[2])
=============================================================================
