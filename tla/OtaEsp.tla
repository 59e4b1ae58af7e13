------------------------------- MODULE OtaEsp -------------------------------
(* source/ota_ws_update_esp.c: the plain backend, five calls of the http    *)
(* layer on top of ESP-IDF.  Its statics are update_partition (always the   *)
(* slot that does not run, see EspOta), update_handle (only whether it is   *)
(* still open matters: `handle`) and image_header_was_checked.                *)
EXTENDS EspOta

CONSTANT HeaderLen  \* image header + segment header + app description
ASSUME HeaderAssumption == HeaderLen \in Nat

VARIABLE image_header_was_checked

espVars == <<flashVars, image_header_was_checked>>

start_ota_ws ==
    /\ esp_ota_begin(update_partition)
    /\ image_header_was_checked' = FALSE
    /\ UNCHANGED <<running, boot, img>>

\* update_handle keeps the handle it had.
start_ota_ws_fails ==
    /\ esp_ota_begin_fails(update_partition)
    /\ UNCHANGED <<running, boot, img, image_header_was_checked>>

\* The first segment must hold the whole header.
HeaderFits(c) == image_header_was_checked \/ c.len > HeaderLen

write_ota_ws(c) ==
    /\ HeaderFits(c)
    /\ image_header_was_checked' = TRUE
    /\ esp_ota_write(update_partition, c)

write_ota_ws_fails(c) ==
    /\ image_header_was_checked' = HeaderFits(c)
    /\ UNCHANGED slot

\* Mutant: the partition is selected without asking whether the image is whole.
end_ota_ws_Unverified(k) ==
    /\ handle = "open" /\ handle' = "closed"
    /\ boot' = update_partition
    /\ img' = [img EXCEPT ![update_partition] = NewState]

\* k: what the update partition holds by now.
end_ota_ws(k) ==
    /\ esp_ota_end(k)
    /\ esp_ota_set_boot_partition(update_partition, k)

\* The image is refused, or selecting it fails after it was accepted.
end_ota_ws_fails ==
    /\ esp_ota_end_fails
    /\ UNCHANGED <<boot, img>>

abort_ota_ws == esp_ota_abort

check_ota_ws_rollback_enable == RollbackEnabled /\ img[running] = "PENDING"

\* rollback = FALSE: the verdict is recorded.
rollback_ota_ws_confirm ==
    /\ RollbackEnabled
    /\ esp_ota_mark_app_valid_cancel_rollback
    /\ UNCHANGED image_header_was_checked

\* Mutant: the other slot is selected, but no verdict is recorded.
rollback_ota_ws_rollback_NoVerdict ==
    /\ RollbackEnabled
    /\ RollbackPossible
    /\ Reset(img, Other(boot), slot)
    /\ UNCHANGED slot
    /\ image_header_was_checked' = FALSE

\* rollback = TRUE: the verdict is recorded and the chip restarts.
rollback_ota_ws_rollback ==
    /\ RollbackEnabled
    /\ esp_ota_mark_app_invalid_rollback_and_reboot
    /\ image_header_was_checked' = FALSE

rollback_ota_ws_fails == UNCHANGED espVars
=============================================================================
