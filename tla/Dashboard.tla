----------------------------- MODULE Dashboard -----------------------------
(***************************************************************************)
(* The FreeRTOS dashboard, firmware/dashboard_ecu/src/main.c: dashboard_main*)
(* drains the bus every 10 ms, display_update wakes on a task notification *)
(* or after 50 ms and renders every 100 ms.  The display holds the vehicle *)
(* mode and the OTA progress; speed, battery and torque are copied the same*)
(* way and are left out, like touch input and heartbeats.                  *)
(***************************************************************************)
EXTENDS DashboardState

CONSTANTS WaitMs, RenderMs, LoopMs,    \* 50, 100, 10
          Warnings, Nodes, Modes, OtaStates,   \* contents of the frames on the bus
          MayClear    \* whether a client of dashboard_state.c clears warnings

(* The loop period divides the waiting period. *)
ASSUME DashboardAssumption ==
  /\ LoopMs \in Nat \ {0} /\ RenderMs \in Nat \ {0} /\ WaitMs \in Nat
  /\ \E k \in 1..WaitMs : WaitMs = k * LoopMs
  /\ DASHBOARD_MAX_WARNINGS \in Nat

VARIABLES ws,        \* the warning table
          wd,        \* the displayed warning
          dash,      \* mc_dash_state_t: what the next rendering draws
          screen,    \* what the last rendering drew
          pending,   \* notification value of display_update, or NoValue
          pc,        \* dashboard_main: "wait" for its tick, "drain", "done"
          waited,    \* how long display_update has been waiting
          age,       \* now_ms - last_render_ms
          behind,    \* how long dash and screen have differed, capped
          received,  \* codes of the warning frames received so far
          partial    \* a received warning was dropped from the full table, or cleared

table == <<ws, wd, received, partial>>
vars == <<table, dash, screen, pending, pc, waited, age, behind>>

NoValue == MC_WARN_NONE

Init ==
  /\ ws = <<>> /\ wd = NoDisplay /\ received = {} /\ partial = FALSE
  /\ dash = [mode |-> "UNSET", ota_progress |-> 0] /\ screen = dash
  /\ pending = NoValue /\ pc = "done"
  /\ waited = 0 /\ age = 0 /\ behind = 0

BehindCap == RenderMs + WaitMs

(* Time passes when no task is ready to run. *)
Tick ==
  /\ pc = "done" /\ pending = NoValue /\ waited < WaitMs
  /\ pc' = "wait" /\ waited' = waited + LoopMs
  /\ age' = IF age < BehindCap THEN age + LoopMs ELSE age
  /\ behind' = IF dash # screen /\ behind < BehindCap THEN behind + LoopMs ELSE behind
  /\ UNCHANGED <<table, dash, screen, pending>>

Start == pc = "wait" /\ pc' = "drain"
         /\ UNCHANGED <<table, dash, screen, pending, waited, age, behind>>

Drained == pc = "drain" /\ pc' = "done"
           /\ UNCHANGED <<table, dash, screen, pending, waited, age, behind>>

SetDash(d) ==
  /\ pc = "drain" /\ dash' = d
  /\ behind' = IF d = screen THEN 0 ELSE behind
  /\ UNCHANGED <<table, screen, pending, pc, waited, age>>

handle_vehicle_mode(mode) == SetDash([dash EXCEPT !.mode = mode])

Progress(state) ==
  CASE state = "DOWNLOADING" -> 25 [] state = "VERIFYING" -> 50
    [] state = "COMMIT_PENDING" -> 75 [] state = "REBOOTING" -> 90
    [] state = "HEALTHY" -> 100 [] OTHER -> 0

handle_ota_status(state) == SetDash([dash EXCEPT !.ota_progress = Progress(state)])

(* xTaskNotify with eSetValueWithoutOverwrite: refused while a value is pending. *)
Notify(value) == pending' = IF pending = NoValue THEN value ELSE pending

(* The notification value is the severity and the code; the code determines it. *)
handle_warning(code, node) ==
  /\ pc = "drain"
  /\ ws' = dashboard_state_add_warning(ws, code, node)
  /\ wd' = warning_display_update(wd, code, warning_display_severity_for(code))
  /\ Notify(code)
  /\ received' = received \cup {code}
  /\ partial' = (partial \/ ~\E i \in DOMAIN ws' : IsEntry(ws'[i], code, node))
  /\ UNCHANGED <<dash, screen, pc, waited, age, behind>>

(* The table's interface to other clients; the firmware has none that clear. *)
ClearWarnings(cleared) ==
  /\ MayClear /\ pc = "done" /\ ws' = cleared /\ partial' = TRUE
  /\ UNCHANGED <<wd, received, dash, screen, pending, pc, waited, age, behind>>

(* Fault: a wake-up by a notification does not render. *)
display_update_on_timeout ==
  LET render == pending = NoValue /\ age >= RenderMs
  IN /\ pc # "drain" /\ (pending # NoValue \/ waited = WaitMs)
     /\ pending' = NoValue /\ waited' = 0
     /\ screen' = IF render THEN dash ELSE screen
     /\ age' = IF render THEN 0 ELSE age
     /\ behind' = IF render THEN 0 ELSE behind
     /\ UNCHANGED <<table, dash, pc>>

(* One round of the task, from its notification or time-out to its next wait;
   a repeated notification value is traced once only. *)
display_update ==
  LET render == age >= RenderMs
  IN /\ pc # "drain" /\ (pending # NoValue \/ waited = WaitMs)
     /\ pending' = NoValue /\ waited' = 0
     /\ screen' = IF render THEN dash ELSE screen
     /\ age' = IF render THEN 0 ELSE age
     /\ behind' = IF render THEN 0 ELSE behind
     /\ UNCHANGED <<table, dash, pc>>

Next ==
  \/ Tick \/ Start \/ Drained \/ display_update
  \/ \E m \in Modes : handle_vehicle_mode(m)
  \/ \E s \in OtaStates : handle_ota_status(s)
  \/ \E c \in Warnings, n \in Nodes : handle_warning(c, n)
  \/ \E c \in Warnings : ClearWarnings(dashboard_state_clear_warning(ws, c))
  \/ \E n \in Nodes : ClearWarnings(dashboard_state_clear_node_warnings(ws, n))

Spec == Init /\ [][Next]_vars

----------------------------------------------------------------------------

Severity(c) == warning_display_severity_for(c)

(* Types; the table never outgrows its array. *)
TypeOK ==
  /\ ws \in Seq([warning_code : Warnings, source_node : Nodes, active : BOOLEAN])
  /\ Len(ws) <= DASHBOARD_MAX_WARNINGS
  /\ wd \in [displayed_warning : Warnings \cup {MC_WARN_NONE}, severity : 0..3]
  /\ dash \in [mode : Modes \cup {"UNSET"}, ota_progress : 0..100]
  /\ pending \in Warnings \cup {NoValue} /\ waited \in 0..WaitMs /\ age \in 0..BehindCap

(* The display never forgets, so the displayed warning is one of the worst ever
   received, whatever the order; and the table, scanned independently by
   dashboard_state_top_warning, agrees on its severity unless it overflowed or
   was cleared. *)
WorstIsDisplayed ==
  /\ \A c \in received : Severity(c) <= wd.severity
  /\ wd.displayed_warning \in received \cup {MC_WARN_NONE}
  /\ wd.severity = Severity(wd.displayed_warning)
  /\ ~partial => Severity(dashboard_state_top_warning(ws)) = wd.severity

(* However warnings are added, repeated, cleared and added again, no pair of
   code and node has two entries, and dashboard_state_top_warning returns an
   active warning than which none is worse. *)
TableConsistent ==
  /\ \A i, j \in DOMAIN ws :
       IsEntry(ws[i], ws[j].warning_code, ws[j].source_node) => i = j
  /\ LET top == dashboard_state_top_warning(ws)
     IN /\ \A i \in DOMAIN ws : ws[i].active => Severity(ws[i].warning_code) <= Severity(top)
        /\ top # MC_WARN_NONE => \E i \in DOMAIN ws : ws[i].active /\ ws[i].warning_code = top

(* The screen is never a rendering period plus a waiting period behind, however
   often notifications wake display_update between its time-outs. *)
ScreenFresh == behind < BehindCap
============================================================================
