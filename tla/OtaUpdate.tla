----------------------------- MODULE OtaUpdate -----------------------------
(***************************************************************************)
(* A gateway that drives the slot metadata of OtaSlot: any client, calling *)
(* any function at any time, over two slots of real image contents, with   *)
(* the record saved to flash now and then and with resets between any two  *)
(* steps.  The metadata functions are the code; who calls them is external *)
(* (firmware/gateway_ecu runs one fixed script).                           *)
(***************************************************************************)
EXTENDS OtaSlot

CONSTANTS Reasons,         \* abort reason codes, 0 for none
          MaxGeneration    \* bound on saves of the metadata record

ASSUME OtaAssumption == 0 \in Reasons /\ MaxGeneration \in Nat

VARIABLES ota,    \* mc_ota_slot_state_t in RAM, lost on reset
          image,  \* image[slot]: what the slot really holds
          page    \* page[0], page[1]: the two flash copies of the record

vars == <<ota, image, page>>

Pages == {0, 1}
Image == {"good", "bad", "partial"}

Blank ==
  [intact |-> FALSE, active_slot |-> MC_OTA_SLOT_A,
   target_slot |-> MC_OTA_SLOT_A, state |-> MC_OTA_IDLE, committed |-> FALSE,
   healthy |-> FALSE, abort_reason |-> 0, generation |-> 0]

Selected == mc_ota_select_record(page[0], page[1])

Init ==
  /\ ota = mc_ota_init
  /\ image = [s \in Slots |-> IF s = MC_OTA_SLOT_A THEN "good" ELSE "bad"]
  /\ page = [p \in Pages |-> Blank]

----------------------------------------------------------------------------
(* The client: one action per metadata function. *)

BeginDownload ==
  /\ ota' = mc_ota_begin_download(ota)
  /\ image' = IF ota.state = MC_OTA_IDLE
              THEN [image EXCEPT ![ota'.target_slot] = "partial"]
              ELSE image
  /\ UNCHANGED page

(* A completed download leaves a good or a corrupt image in the target. *)
FinishDownload(complete, received) ==
  /\ ota' = mc_ota_finish_download(ota, complete)
  /\ image' = IF ota.state = MC_OTA_DOWNLOADING /\ complete
              THEN [image EXCEPT ![ota.target_slot] = received]
              ELSE image
  /\ UNCHANGED page

(* The client passes the result of the CRC over the target image. *)
Verify ==
  /\ ota' = mc_ota_verify(ota, image[ota.target_slot] = "good")
  /\ UNCHANGED <<image, page>>

Commit == ota' = mc_ota_commit(ota) /\ UNCHANGED <<image, page>>

Reboot == ota' = mc_ota_reboot(ota) /\ UNCHANGED <<image, page>>

HealthCheck(healthy) ==
  ota' = mc_ota_health_check(ota, healthy) /\ UNCHANGED <<image, page>>

Rollback == ota' = mc_ota_rollback(ota) /\ UNCHANGED <<image, page>>

Abort(reason) == ota' = mc_ota_abort(ota, reason) /\ UNCHANGED <<image, page>>

----------------------------------------------------------------------------
(* Flash: a save goes to the page that is not selected, and may be torn. *)

NextGeneration == IF Selected = {} THEN 1
                  ELSE 1 + (CHOOSE r \in Selected : TRUE).generation

Save(p, intact) ==
  /\ Selected \subseteq {page[1 - p]}
  /\ NextGeneration <= MaxGeneration
  /\ page' = [page EXCEPT ![p] =
       [intact |-> intact, active_slot |-> ota.active_slot,
        target_slot |-> ota.target_slot, state |-> ota.state,
        committed |-> ota.committed, healthy |-> ota.boot_healthy,
        abort_reason |-> ota.abort_reason, generation |-> NextGeneration]]
  /\ UNCHANGED <<ota, image>>

(* RAM is lost; the boot path rebuilds it from flash, or from scratch when
   neither record is valid. *)
Reset ==
  /\ \/ \E r \in Selected : ota' = mc_ota_recover_after_reset(r)
     \/ Selected = {} /\ ota' = mc_ota_init
  /\ UNCHANGED <<image, page>>

Next ==
  \/ BeginDownload
  \/ \E complete \in BOOLEAN, received \in {"good", "bad"} :
       FinishDownload(complete, received)
  \/ Verify
  \/ Commit
  \/ Reboot
  \/ \E healthy \in BOOLEAN : HealthCheck(healthy)
  \/ Rollback
  \/ \E reason \in Reasons : Abort(reason)
  \/ \E p \in Pages, intact \in BOOLEAN : Save(p, intact)
  \/ Reset

Spec == Init /\ [][Next]_vars

----------------------------------------------------------------------------

(* Every field keeps its C type's range, and flash holds well-formed records. *)
TypeOK ==
  /\ ota \in SlotState(Reasons)
  /\ image \in [Slots -> Image]
  /\ page \in [Pages -> MetaRecord(Reasons)]

(* The bootloader never runs a slot whose image is partial or corrupt,
   whatever the client calls, in whatever order, and wherever a reset or a
   torn save falls (mc_ota_boot_slot, "never arms a bad slot"). *)
BootSlotGood == image[mc_ota_boot_slot(ota)] = "good"

(* An armed or trial slot holds a complete image that passed verification:
   COMMIT_PENDING, REBOOTING and HEALTHY are reached, or recovered from
   flash, only for such a target (mc_ota_commit, mc_ota_recover_after_reset). *)
ArmedSlotGood ==
  ota.state \in MC_OTA_COMMIT_PENDING..MC_OTA_HEALTHY =>
    /\ ota.committed /\ ota.image_written /\ ota.crc_ok
    /\ image[ota.target_slot] = "good"

(* Outside a reset the update only moves forward and a HEALTHY update is
   never undone: no call of the client leaves HEALTHY, and the active slot
   changes only by the health check that makes it HEALTHY. *)
HealthyIsFinal ==
  [][~Reset =>
       /\ ota.state = MC_OTA_HEALTHY => ota' = ota
       /\ ota'.active_slot # ota.active_slot =>
            ota.state = MC_OTA_REBOOTING /\ ota'.state = MC_OTA_HEALTHY]_vars

(* Flash never runs ahead of RAM: the record a reset would select describes
   a stage the update has reached, and the other page an earlier one.  This
   is why a download may overwrite the target: no valid record arms it. *)
FlashBehindRam ==
  \A p \in Pages : page[p].intact =>
    /\ page[p].state <= ota.state
    /\ \A r \in Selected : page[p].state <= r.state

SB == INSTANCE SafeBoot WITH
        Slot <- Slots, boot <- mc_ota_boot_slot(ota),
        good <- {s \in Slots : image[s] = "good"}

(* The metadata implements the promise of an A/B update. *)
ImplementsSafeBoot == SB!Spec
============================================================================
