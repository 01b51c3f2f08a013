---------------------------- MODULE FaultManager ----------------------------
(***************************************************************************)
(* The fault table of firmware/gateway_ecu/src/fault_manager.c: operators  *)
(* from the old fault_manager_t to the new one.  faults is the prefix of   *)
(* the C array that fault_count delimits; the two counters are uint8_t.    *)
(***************************************************************************)
EXTENDS Integers, Sequences, FiniteSets

CONSTANT FM_MAX_FAULTS     \* capacity of the table, 16 in the firmware

ASSUME CapacityAssumption == FM_MAX_FAULTS \in 1..255

uint8(x) == x % 256

fault_manager_init == [faults |-> <<>>, critical_count |-> 0, warning_count |-> 0]

(* A new table, and the counters after so many critical and warning faults
   came (or, below 0, went). *)
Recount(fm, faults, critical, warning) ==
  [faults |-> faults,
   critical_count |-> uint8(fm.critical_count + critical),
   warning_count |-> uint8(fm.warning_count + warning)]

Entries(fm, node, code) ==
  {i \in DOMAIN fm.faults : /\ fm.faults[i].source_node = node
                            /\ fm.faults[i].fault_code = code}

OfSeverity(fm, S, severity) == {i \in S : fm.faults[i].severity = severity}

One(condition) == IF condition THEN 1 ELSE 0

(* Fault: a fault reported again after it was cleared is not counted. *)
track_again_faulty(fm, i, severity) ==
  [fm EXCEPT !.faults[i].active = TRUE, !.faults[i].severity = severity]

(* The branch of fault_manager_report for a tracked fault: entry i. *)
TrackAgain(fm, i, severity) ==
  LET new == ~fm.faults[i].active
  IN Recount(fm, [fm.faults EXCEPT ![i].active = TRUE, ![i].severity = severity],
             One(new /\ severity = 2), One(new /\ severity = 1))

(* The branch for a fault without an entry. *)
TrackNew(fm, node, code, severity) ==
  Recount(fm, Append(fm.faults, [source_node |-> node, fault_code |-> code,
                                 active |-> TRUE, severity |-> severity]),
          One(severity = 2), One(severity = 1))

(* The code takes the first entry that matches; a fault has only one
   (FaultTable's TableIsLiveSet). *)
fault_manager_report(fm, node, code, severity) ==
  LET known == Entries(fm, node, code)
  IN IF known # {} THEN TrackAgain(fm, CHOOSE i \in known : TRUE, severity)
     ELSE IF Len(fm.faults) >= FM_MAX_FAULTS THEN fm
     ELSE TrackNew(fm, node, code, severity)

(* The loop body the three clearing functions share, for the active entries S. *)
Deactivate(fm, S) ==
  Recount(fm, [i \in DOMAIN fm.faults |->
                 IF i \in S THEN [fm.faults[i] EXCEPT !.active = FALSE]
                            ELSE fm.faults[i]],
          -Cardinality(OfSeverity(fm, S, 2)), -Cardinality(OfSeverity(fm, S, 1)))

ActiveEntries(fm) == {i \in DOMAIN fm.faults : fm.faults[i].active}

fault_manager_clear(fm, node, code) ==
  Deactivate(fm, Entries(fm, node, code) \cap ActiveEntries(fm))

fault_manager_clear_all(fm) == Deactivate(fm, ActiveEntries(fm))

(* Fault: the seeded debug-gym defect, clearing the faults of every node. *)
clear_node_faulty(fm, node) == fault_manager_clear_all(fm)

fault_manager_clear_node(fm, node) ==
  Deactivate(fm, {i \in ActiveEntries(fm) : fm.faults[i].source_node = node})

fault_manager_has_critical(fm) == fm.critical_count > 0

fault_manager_active_count(fm) == uint8(Cardinality(ActiveEntries(fm)))

(* OVERTEMP 1, OVERVOLTAGE 2 and COMM_ERROR 5 are critical, UNDERVOLTAGE 3
   and OVER_CURRENT 4 warnings; any other code, NONE 0 too, is information. *)
fault_manager_bms_severity(code) ==
  IF code \in {1, 2, 5} THEN 2 ELSE One(code \in {3, 4})
============================================================================
