----------------------------- MODULE FaultTable -----------------------------
(***************************************************************************)
(* The fault table under any sequence of reports and clears, against the   *)
(* set of faults it stands for.  As in the firmware, every caller gives a  *)
(* fault the same severity each time.                                      *)
(***************************************************************************)
EXTENDS FaultManager

CONSTANTS Node, Code,
          Severity    \* Severity[n][c]: 0 info, 1 warning, 2 critical

ASSUME SeverityAssumption == Severity \in [Node -> [Code -> 0..2]]

VARIABLES fm,     \* fault_manager_t
          live    \* the faults reported and not cleared since

vars == <<fm, live>>

Entry == [source_node : Node, fault_code : Code, active : BOOLEAN, severity : 0..2]

Init == fm = fault_manager_init /\ live = {}

Full(n, c) == Entries(fm, n, c) = {} /\ Len(fm.faults) >= FM_MAX_FAULTS

Report(n, c) ==
  /\ fm' = fault_manager_report(fm, n, c, Severity[n][c])
  /\ live' = IF Full(n, c) THEN live ELSE live \cup {<<n, c>>}

Clear(n, c) ==
  /\ fm' = fault_manager_clear(fm, n, c)
  /\ live' = live \ {<<n, c>>}

ClearNode(n) ==
  /\ fm' = fault_manager_clear_node(fm, n)
  /\ live' = {f \in live : f[1] # n}

ClearAll == fm' = fault_manager_clear_all(fm) /\ live' = {}

Next ==
  \/ \E n \in Node, c \in Code : Report(n, c) \/ Clear(n, c)
  \/ \E n \in Node : ClearNode(n)
  \/ ClearAll

Spec == Init /\ [][Next]_vars

----------------------------------------------------------------------------

(* The table never exceeds its capacity and the counters stay in a uint8_t. *)
TypeOK ==
  /\ fm.faults \in Seq(Entry) /\ Len(fm.faults) <= FM_MAX_FAULTS
  /\ fm.critical_count \in 0..255 /\ fm.warning_count \in 0..255
  /\ live \subseteq Node \X Code

(* A fault has one entry, whatever the order of reports and clears, and the
   active entries are exactly the reported faults that were not cleared:
   clearing one node's faults (diagnostic CLEAR_DTCS) keeps the others'. *)
TableIsLiveSet ==
  /\ \A i, j \in DOMAIN fm.faults :
       fm.faults[i].source_node = fm.faults[j].source_node
         /\ fm.faults[i].fault_code = fm.faults[j].fault_code => i = j
  /\ live = {<<fm.faults[i].source_node, fm.faults[i].fault_code>> :
               i \in ActiveEntries(fm)}

(* The counters, kept incrementally by report and clear, count the active
   critical and warning entries; so fault_manager_has_critical, which decides
   VEHICLE_FAULT, is true exactly when a critical fault is active. *)
CountersExact ==
  /\ fm.critical_count = Cardinality(OfSeverity(fm, ActiveEntries(fm), 2))
  /\ fm.warning_count = Cardinality(OfSeverity(fm, ActiveEntries(fm), 1))
============================================================================
