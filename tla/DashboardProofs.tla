-------------------------- MODULE DashboardProofs --------------------------
(***************************************************************************)
(* The screen is fresh for all periods of which the loop's divides the     *)
(* waiting period.  The strengthening relates the three clocks: dash and   *)
(* screen differ at most since the last rendering, and a rendering that is *)
(* due waits for the end of the current wait of display_update.            *)
(***************************************************************************)
EXTENDS Dashboard, TLAPS

(* The inductive invariant. *)
IInv ==
  /\ waited \in Nat /\ age \in Nat /\ behind \in Nat
  /\ \E k \in Nat : waited = k * LoopMs
  /\ waited <= WaitMs /\ age < RenderMs + waited /\ behind <= age

(* A multiple of the period below another is at least a period below it. *)
LEMMA NextMultiple ==
  ASSUME NEW a \in Nat, NEW b \in Nat, NEW l \in Nat, a * l < b * l
  PROVE  (a + 1) * l = a * l + l /\ a * l + l <= b * l
<1>1. a < b
  <2> SUFFICES ASSUME b <= a PROVE FALSE
    OBVIOUS
  <2>1. PICK d \in Nat : a = b + d
    <3>1. a - b \in Nat /\ a = b + (a - b)
      OBVIOUS
    <3> QED BY <3>1
  <2>2. a * l = b * l + d * l /\ d * l >= 0
    BY <2>1
  <2>3. a * l \in Int /\ b * l \in Int /\ d * l \in Int
    OBVIOUS
  <2> QED BY <2>2, <2>3
<1>2. PICK d \in Nat : b = a + 1 + d
  <2>1. b - a - 1 \in Nat /\ b = a + 1 + (b - a - 1)
    BY <1>1
  <2> QED BY <2>1
<1>3. (a + 1) * l = a * l + l
  OBVIOUS
<1>4. b * l = (a + 1) * l + d * l /\ d * l >= 0
  BY <1>2
<1> QED BY <1>3, <1>4

LEMMA InitIInv == Init => IInv
<1>1. 0 = 0 * LoopMs
  BY DashboardAssumption
<1> QED BY <1>1, DashboardAssumption DEF Init, IInv

LEMMA NextIInv == IInv /\ [Next]_vars => IInv'
<1> SUFFICES ASSUME IInv, [Next]_vars PROVE IInv'
  OBVIOUS
<1>1. ASSUME UNCHANGED <<waited, age>>, behind' \in {0, behind} PROVE IInv'
  BY <1>1 DEF IInv
<1>2. CASE Tick
  <2>1. waited' = waited + LoopMs /\ waited < WaitMs
    BY <1>2 DEF Tick
  <2>2. PICK k \in Nat : waited = k * LoopMs
    BY DEF IInv
  <2>3. PICK n \in 1..WaitMs : WaitMs = n * LoopMs
    BY DashboardAssumption
  <2>4. waited' = (k + 1) * LoopMs /\ waited' <= WaitMs
    BY <2>1, <2>2, <2>3, NextMultiple, DashboardAssumption
  <2>5. /\ age' \in Nat /\ age' <= age + LoopMs
        /\ behind' \in Nat /\ behind' <= age'
    BY <1>2, DashboardAssumption DEF Tick, IInv, BehindCap
  <2>6. \E x \in Nat : waited' = x * LoopMs
    BY <2>4
  <2> QED BY <2>1, <2>4, <2>5, <2>6, DashboardAssumption DEF IInv
<1>3. CASE display_update
  <2>1. 0 = 0 * LoopMs
    BY DashboardAssumption
  <2>2. waited' = 0
    BY <1>3 DEF display_update
  <2>3. CASE age >= RenderMs
    BY <1>3, <2>1, <2>2, <2>3, DashboardAssumption DEF display_update, IInv
  <2>4. CASE ~(age >= RenderMs)
    BY <1>3, <2>1, <2>2, <2>4, DashboardAssumption DEF display_update, IInv
  <2> QED BY <2>3, <2>4
<1>4. ASSUME NEW d, SetDash(d) PROVE IInv'
  BY <1>1, <1>4 DEF SetDash
<1>5. CASE \/ Start \/ Drained
           \/ \E c \in Warnings, n \in Nodes : handle_warning(c, n)
           \/ \E c \in Warnings : ClearWarnings(dashboard_state_clear_warning(ws, c))
           \/ \E n \in Nodes : ClearWarnings(dashboard_state_clear_node_warnings(ws, n))
           \/ UNCHANGED vars
  BY <1>1, <1>5 DEF Start, Drained, handle_warning, ClearWarnings, vars
<1> QED BY <1>2, <1>3, <1>4, <1>5 DEF Next, handle_vehicle_mode, handle_ota_status

(* However notifications and time-outs interleave, what is drawn is less than
   a rendering and a waiting period behind what should be (display_update). *)
THEOREM ScreenIsFresh == Spec => []ScreenFresh
<1>1. IInv => ScreenFresh
  BY DashboardAssumption DEF IInv, ScreenFresh, BehindCap
<1> QED BY <1>1, InitIInv, NextIInv, PTL DEF Spec

------------------------------------------------------------------------------
Entry == [warning_code : Warnings, source_node : Nodes, active : BOOLEAN]
Display == [displayed_warning : Warnings \cup {MC_WARN_NONE}, severity : 0..3]

(* The table of warnings with at most as many entries as its array. *)
Fits(t) == t \in Seq(Entry) /\ Len(t) <= DASHBOARD_MAX_WARNINGS

(* Updating the entries in place, as a sequence. *)
LEMMA InPlace ==
  ASSUME NEW t \in Seq(Entry), NEW u, u = [i \in DOMAIN t |-> u[i]],
         \A i \in DOMAIN t : u[i] \in Entry
  PROVE  u \in Seq(Entry) /\ Len(u) = Len(t)
<1>1. Len(t) \in Nat /\ DOMAIN t = 1..Len(t)
  OBVIOUS
<1>2. u \in [1..Len(t) -> Entry]
  BY <1>1
<1> QED BY <1>1, <1>2

LEMMA AddFits ==
  ASSUME NEW t, Fits(t), NEW c \in Warnings, NEW n \in Nodes
  PROVE  Fits(dashboard_state_add_warning(t, c, n))
<1> DEFINE w == Warning(c, n, TRUE)
           u == [i \in DOMAIN t |-> IF IsEntry(t[i], c, n) THEN w ELSE t[i]]
<1>1. w \in Entry
  BY DEF Warning, Entry
<1>2. t \in Seq(Entry) /\ Len(t) \in Nat /\ Len(t) <= DASHBOARD_MAX_WARNINGS
  BY DEF Fits
<1>3. CASE \E i \in DOMAIN t : IsEntry(t[i], c, n)
  <2>1. dashboard_state_add_warning(t, c, n) = u
    BY <1>3 DEF dashboard_state_add_warning
  <2>2. \A i \in DOMAIN t : u[i] \in Entry
    <3>1. \A i \in DOMAIN t : t[i] \in Entry
      BY <1>2
    <3>2. \A i \in DOMAIN t : u[i] = w \/ u[i] = t[i]
      OBVIOUS
    <3> QED BY <1>1, <3>1, <3>2
  <2>3. u = [i \in DOMAIN t |-> u[i]]
    OBVIOUS
  <2> HIDE DEF u
  <2>4. u \in Seq(Entry) /\ Len(u) = Len(t)
    BY <1>2, <2>2, <2>3, InPlace
  <2> QED BY <1>2, <2>1, <2>4 DEF Fits
<1>4. CASE ~\E i \in DOMAIN t : IsEntry(t[i], c, n)
  <2>1. CASE Len(t) >= DASHBOARD_MAX_WARNINGS
    BY <1>4, <2>1, <1>2 DEF dashboard_state_add_warning, Fits
  <2>2. CASE ~(Len(t) >= DASHBOARD_MAX_WARNINGS)
    <3>1. dashboard_state_add_warning(t, c, n) = Append(t, w)
      BY <1>4, <2>2 DEF dashboard_state_add_warning
    <3> HIDE DEF w
    <3>2. Append(t, w) \in Seq(Entry) /\ Len(Append(t, w)) = Len(t) + 1
      BY <1>1, <1>2
    <3> QED BY <1>2, <2>2, <3>1, <3>2, DashboardAssumption DEF Fits
  <2> QED BY <2>1, <2>2
<1> QED BY <1>3, <1>4

LEMMA ClearFits ==
  ASSUME NEW t, Fits(t)
  PROVE  /\ \A c : Fits(dashboard_state_clear_warning(t, c))
         /\ \A n : Fits(dashboard_state_clear_node_warnings(t, n))
<1>1. t \in Seq(Entry) /\ Len(t) <= DASHBOARD_MAX_WARNINGS
  BY DEF Fits
<1>2. \A i \in DOMAIN t : t[i] \in Entry /\ Inactive(t[i]) \in Entry
  <2>1. \A e \in Entry : Inactive(e) \in Entry
    BY DEF Entry, Inactive, Warning
  <2> QED BY <1>1, <2>1
<1>3. ASSUME NEW c PROVE Fits(dashboard_state_clear_warning(t, c))
  <2> DEFINE u == dashboard_state_clear_warning(t, c)
  <2>1. u = [i \in DOMAIN t |-> u[i]] /\ \A i \in DOMAIN t : u[i] \in Entry
    BY <1>2 DEF dashboard_state_clear_warning
  <2> HIDE DEF u
  <2>2. u \in Seq(Entry) /\ Len(u) = Len(t)
    BY <1>1, <2>1, InPlace
  <2> QED BY <1>1, <2>2 DEF Fits, u
<1>4. ASSUME NEW n PROVE Fits(dashboard_state_clear_node_warnings(t, n))
  <2> DEFINE u == dashboard_state_clear_node_warnings(t, n)
  <2>1. u = [i \in DOMAIN t |-> u[i]] /\ \A i \in DOMAIN t : u[i] \in Entry
    BY <1>2 DEF dashboard_state_clear_node_warnings
  <2> HIDE DEF u
  <2>2. u \in Seq(Entry) /\ Len(u) = Len(t)
    BY <1>1, <2>1, InPlace
  <2> QED BY <1>1, <2>2 DEF Fits, u
<1> QED BY <1>3, <1>4

LEMMA DisplayType ==
  ASSUME NEW d \in Display, NEW c \in Warnings
  PROVE  warning_display_update(d, c, Severity(c)) \in Display
<1>1. Severity(c) \in 0..3
  BY DEF Severity, warning_display_severity_for
<1> HIDE DEF Severity
<1> QED BY <1>1 DEF warning_display_update, Display

TypeInv == Fits(ws) /\ wd \in Display /\ pending \in Warnings \cup {NoValue}
           /\ dash \in [mode : Modes \cup {"UNSET"}, ota_progress : 0..100]

LEMMA InitTypeInv == Init => TypeInv
<1> SUFFICES ASSUME Init PROVE TypeInv
  OBVIOUS
<1>1. Fits(ws)
  BY DashboardAssumption DEF Init, Fits
<1>2. wd \in Display
  BY DEF Init, Display, NoDisplay
<1>3. dash \in [mode : Modes \cup {"UNSET"}, ota_progress : 0..100]
  BY DEF Init
<1> QED BY <1>1, <1>2, <1>3 DEF Init, TypeInv

LEMMA NextTypeInv == TypeInv /\ [Next]_vars => TypeInv'
<1> SUFFICES ASSUME TypeInv, [Next]_vars PROVE TypeInv'
  OBVIOUS
<1> USE DEF TypeInv
<1>1. CASE Tick \/ Start \/ Drained \/ display_update \/ UNCHANGED vars
  BY <1>1 DEF Tick, Start, Drained, display_update, vars, table, Fits
<1>2. ASSUME NEW m \in Modes, handle_vehicle_mode(m) PROVE TypeInv'
  BY <1>2 DEF handle_vehicle_mode, SetDash, table, Fits
<1>3. ASSUME NEW s \in OtaStates, handle_ota_status(s) PROVE TypeInv'
  <2>1. Progress(s) \in 0..100
    BY DEF Progress
  <2> QED BY <1>3, <2>1 DEF handle_ota_status, SetDash, table, Fits
<1>4. ASSUME NEW c \in Warnings, NEW n \in Nodes, handle_warning(c, n) PROVE TypeInv'
  <2>1. Fits(ws')
    BY <1>4, AddFits DEF handle_warning
  <2>2. wd' \in Display
    BY <1>4, DisplayType DEF handle_warning, Severity
  <2>3. dash' = dash /\ pending' \in {pending, c}
    BY <1>4 DEF handle_warning, Notify
  <2> QED BY <2>1, <2>2, <2>3
<1>5. ASSUME NEW cleared, ClearWarnings(cleared), Fits(cleared) PROVE TypeInv'
  BY <1>5 DEF ClearWarnings, Fits
<1> QED BY <1>1, <1>2, <1>3, <1>4, <1>5, ClearFits DEF Next

(* Types hold throughout; in particular a warning that arrives when the table
   is full never goes past its array (dashboard_state_add_warning). *)
THEOREM TypeCorrect == Spec => []TypeOK
<1>1. IInv /\ TypeInv => TypeOK
  <2> SUFFICES ASSUME IInv, TypeInv PROVE TypeOK
    OBVIOUS
  <2>1. waited \in 0..WaitMs /\ age \in 0..BehindCap
    BY DashboardAssumption DEF IInv, BehindCap
  <2> QED BY <2>1 DEF TypeInv, TypeOK, Fits, Entry, Display
<1> QED BY <1>1, InitIInv, NextIInv, InitTypeInv, NextTypeInv, PTL DEF Spec
============================================================================
