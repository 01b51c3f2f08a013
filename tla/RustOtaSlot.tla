---------------------------- MODULE RustOtaSlot ----------------------------
(***************************************************************************)
(* state_tests/src/ota_slot.rs: the Rust copy of the OTA slot metadata and *)
(* of the record kept in flash.  As in OtaSlot, the record's magic, format *)
(* version and CRC are one Boolean, intact.                                *)
(***************************************************************************)
EXTENDS Integers

OtaState == [Idle |-> 0, Downloading |-> 1, Verifying |-> 2, CommitPending |-> 3,
             Rebooting |-> 4, Healthy |-> 5, RolledBack |-> 6]

other_slot(slot) == 1 - slot

OtaSlotModel_new ==
  [active_slot |-> 0, target_slot |-> 0, state |-> OtaState.Idle, image_written |-> FALSE,
   crc_ok |-> FALSE, committed |-> FALSE, boot_healthy |-> FALSE, rolled_back |-> FALSE,
   abort_reason |-> 0]

rollback(m) ==
  IF m.state = OtaState.Healthy THEN m
  ELSE [m EXCEPT !.target_slot = m.active_slot, !.image_written = FALSE, !.committed = FALSE,
                 !.boot_healthy = FALSE, !.rolled_back = TRUE, !.state = OtaState.RolledBack]

begin_download(m) ==
  IF m.state # OtaState.Idle THEN m
  ELSE [m EXCEPT !.target_slot = other_slot(m.active_slot), !.image_written = FALSE,
                 !.crc_ok = FALSE, !.committed = FALSE, !.state = OtaState.Downloading]

finish_download(m, complete) ==
  CASE m.state # OtaState.Downloading -> m
    [] m.state = OtaState.Downloading /\ ~complete -> rollback(m)
    [] OTHER -> [m EXCEPT !.image_written = TRUE]

verify(m, crc_ok) ==
  LET verifying == [m EXCEPT !.state = OtaState.Verifying, !.crc_ok = crc_ok]
  IN CASE m.state # OtaState.Downloading -> m
       [] m.state = OtaState.Downloading /\ ~crc_ok -> rollback(verifying)
       [] OTHER -> verifying

(* Fault: an image that was not written completely can be armed. *)
commit_faulty(m) ==
  CASE m.state # OtaState.Verifying -> m
    [] m.state = OtaState.Verifying /\ ~m.crc_ok -> rollback(m)
    [] OTHER -> [m EXCEPT !.committed = TRUE, !.state = OtaState.CommitPending]

commit(m) ==
  CASE m.state # OtaState.Verifying -> m
    [] m.state = OtaState.Verifying /\ ~(m.image_written /\ m.crc_ok) -> rollback(m)
    [] OTHER -> [m EXCEPT !.committed = TRUE, !.state = OtaState.CommitPending]

reboot(m) ==
  IF m.state = OtaState.CommitPending THEN [m EXCEPT !.state = OtaState.Rebooting] ELSE m

health_check(m, healthy) ==
  CASE m.state # OtaState.Rebooting -> m
    [] m.state = OtaState.Rebooting /\ healthy /\ m.committed ->
         [m EXCEPT !.boot_healthy = TRUE, !.active_slot = m.target_slot, !.state = OtaState.Healthy]
    [] OTHER -> rollback([m EXCEPT !.boot_healthy = FALSE])

boot_slot(m) ==
  IF m.state = OtaState.Healthy /\ m.committed THEN m.target_slot ELSE m.active_slot

abort(m, reason) ==
  IF m.state = OtaState.Healthy THEN m ELSE [rollback(m) EXCEPT !.abort_reason = reason]

(* Every byte above HEALTHY is read as ROLLED_BACK. *)
from_u8(v) == IF v \in 0..5 THEN v ELSE OtaState.RolledBack

recover_after_reset(r) ==
  LET late == r.state >= OtaState.CommitPending
  IN [active_slot |-> r.active_slot, target_slot |-> r.target_slot, state |-> from_u8(r.state),
      image_written |-> late, crc_ok |-> late, committed |-> r.committed,
      boot_healthy |-> r.healthy, rolled_back |-> r.state = OtaState.RolledBack,
      abort_reason |-> r.abort_reason]

is_valid(r) == r.intact

(* The chosen record as a set, empty for None. *)
select_record(a, b) ==
  CASE is_valid(a) /\ is_valid(b) -> {IF a.generation >= b.generation THEN a ELSE b}
    [] is_valid(a) /\ ~is_valid(b) -> {a}
    [] ~is_valid(a) /\ is_valid(b) -> {b}
    [] OTHER -> {}
============================================================================
