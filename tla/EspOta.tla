------------------------------- MODULE EspOta -------------------------------
(* What the component uses of ESP-IDF: the app_update calls that open,     *)
(* write, verify and close an update, select a slot and record a verdict,   *)
(* the two OTA slots they work on, and the bootloader that picks a slot at  *)
(* a reset.  None of this code is in the repository: each call is modelled  *)
(* by what source/ota_ws_update_esp.c relies on.                            *)
(*                                                                          *)
(* Every call comes as one operator for ESP_OK and, where the caller can    *)
(* tell, one named xxx_fails for an error.  An operator primes only what    *)
(* the call changes.                                                        *)
EXTENDS Integers

CONSTANTS
    Image,            \* the firmware files clients may upload
    NoImage,          \* tag of a slot into which nothing was written
    ImageSize,        \* [Image -> Nat]: length of each file
    SlotSize,         \* length of an OTA partition
    MaxLeaks,         \* open OTA handles the heap holds besides the current one
    RollbackEnabled   \* CONFIG_BOOTLOADER_APP_ROLLBACK_ENABLE

ASSUME FlashAssumption ==
    /\ SlotSize \in Nat \ {0}
    /\ ImageSize \in [Image -> 1 .. SlotSize]
    /\ NoImage \notin Image
    /\ MaxLeaks \in Nat
    /\ RollbackEnabled \in BOOLEAN

VARIABLES
    running,  \* the slot the firmware runs from
    boot,     \* the slot the OTA data selects for the next start
    img,      \* image state of each slot in the OTA data
    slot,     \* contents of each slot
    handle,   \* whether the last handle esp_ota_begin gave out is still open
    leaked    \* open handles nobody holds any more

flashVars == <<running, boot, img, slot, handle, leaked>>

Slots == 0 .. 1
ImgState == {"UNDEFINED", "NEW", "PENDING", "VALID", "INVALID", "ABORTED"}

\* A slot is known by how many bytes were written into it and how many of
\* them, from its start, are the bytes of one file.  Files are taken to differ
\* everywhere, so a byte of the wrong file or from the wrong place ends the
\* agreement for good.
Content == [of : Image \cup {NoImage}, good : 0 .. SlotSize, wrote : 0 .. SlotSize]

\* A piece of a file, as a client sends it.
Chunk == {c \in [of : Image, at : 0 .. SlotSize, len : 0 .. SlotSize] :
             c.at + c.len <= ImageSize[c.of]}

Other(s) == 1 - s
Erased == [of |-> NoImage, good |-> 0, wrote |-> 0]

\* The whole file is in the slot: what image verification accepts.
Whole(k) == k.of \in Image /\ k.good = ImageSize[k.of]

\* Contents k after chunk c is appended.
Appended(k, c) ==
    IF k.good = k.wrote /\ c.at = k.wrote /\ (k.wrote = 0 \/ k.of = c.of)
    THEN [of |-> c.of, good |-> k.good + c.len, wrote |-> k.wrote + c.len]
    ELSE [k EXCEPT !.wrote = @ + c.len]

FlashTypeOK ==
    /\ running \in Slots
    /\ boot \in Slots
    /\ img \in [Slots -> ImgState]
    /\ slot \in [Slots -> Content]
    /\ handle \in {"open", "closed"}
    /\ leaked \in 0 .. MaxLeaks

\* A device flashed over the cable: one whole image, selected and running.
FlashInit ==
    /\ running = 0
    /\ boot = 0
    /\ img = [s \in Slots |-> "UNDEFINED"]
    /\ \E i \in Image :
         slot = [s \in Slots |->
                   IF s = 0 THEN [of |-> i, good |-> ImageSize[i], wrote |-> ImageSize[i]]
                            ELSE Erased]
    /\ handle = "closed"
    /\ leaked = 0

----------------------------------------------------------------------------
\* Mutant: the slot after the one selected for the next start.
update_partition_Boot == Other(boot)

(* esp_ota_get_next_update_partition(NULL) *)
update_partition == Other(running)

\* Mutant: begun although the running image awaits its verdict.
esp_ota_begin_as_Pending(s, status) ==
    /\ slot' = [slot EXCEPT ![s] = Erased]
    /\ handle = "open" => leaked < MaxLeaks
    /\ leaked' = IF handle = "open" THEN leaked + 1 ELSE leaked
    /\ handle' = status

(* esp_ota_begin erases the partition and opens a handle; it refuses while  *)
(* the running image awaits its verdict.  A handle that was open stays open *)
(* and is lost, as long as the heap has room for it.  What becomes of the   *)
(* new handle before the caller returns is left to the caller: status.      *)
esp_ota_begin_as(s, status) ==
    /\ img[running] # "PENDING"
    /\ slot' = [slot EXCEPT ![s] = Erased]
    /\ handle = "open" => leaked < MaxLeaks
    /\ leaked' = IF handle = "open" THEN leaked + 1 ELSE leaked
    /\ handle' = status

esp_ota_begin(s) == esp_ota_begin_as(s, "open")

\* Refused, out of memory, or a flash error after the erase began.
esp_ota_begin_fails(s) ==
    /\ \/ slot' = slot
       \/ /\ img[running] # "PENDING"
          /\ slot' = [slot EXCEPT ![s] = Erased]
    /\ leaked' = leaked

\* Mutant: a write past the end is not refused.
esp_ota_write_NoLimit(s, c) ==
    /\ handle = "open"
    /\ c.len > 0
    /\ slot' = [slot EXCEPT ![s] = Appended(@, c)]

\* An empty write or one past the end of the partition is refused.
esp_ota_write(s, c) ==
    /\ handle = "open"
    /\ c.len > 0
    /\ slot[s].wrote + c.len <= SlotSize
    /\ slot' = [slot EXCEPT ![s] = Appended(@, c)]

\* Verifies contents k and closes the handle.  A failure closes it as well.
esp_ota_end(k) == handle = "open" /\ Whole(k) /\ handle' = "closed"
esp_ota_end_fails == handle' = "closed"

NewState == IF RollbackEnabled THEN "NEW" ELSE "UNDEFINED"

\* Verifies contents k again and selects slot s for the next start.
esp_ota_set_boot_partition(s, k) ==
    /\ Whole(k)
    /\ boot' = s
    /\ img' = [img EXCEPT ![s] = NewState]

esp_ota_abort == handle' = "closed"

----------------------------------------------------------------------------
(* The bootloader.  A NEW image is started once as PENDING; a PENDING one   *)
(* that is started again was never confirmed and is ABORTED in favour of    *)
(* the other slot.  An image that does not verify is passed over.           *)
Selected(im, b) == IF im[b] = "PENDING" THEN Other(b) ELSE b

StateAfter(im, b) ==
    [s \in Slots |->
        IF s = b /\ im[s] = "PENDING" THEN "ABORTED"
        ELSE IF s = Selected(im, b) /\ im[s] = "NEW" THEN "PENDING"
        ELSE im[s]]

Reset(im, b, content) ==
    /\ boot' = Selected(im, b)
    /\ img' = StateAfter(im, b)
    /\ running' = IF Whole(content[boot']) THEN boot' ELSE Other(boot')
    /\ handle' = "closed"
    /\ leaked' = 0

(* The two verdicts write the entry the OTA data selects.                   *)
esp_ota_mark_app_valid_cancel_rollback ==
    /\ img' = [img EXCEPT ![boot] = "VALID"]
    /\ UNCHANGED <<running, boot, slot, handle, leaked>>

RollbackPossible ==
    /\ Whole(slot[Other(boot)])
    /\ img[Other(boot)] \notin {"INVALID", "ABORTED"}

esp_ota_mark_app_invalid_rollback_and_reboot ==
    /\ RollbackPossible
    /\ Reset([img EXCEPT ![boot] = "INVALID"], Other(boot), slot)
    /\ UNCHANGED slot

----------------------------------------------------------------------------
(* What the flash offers, in the terms of OtaService.                       *)

\* The firmware a slot could start: none if it was given up.
Startable(k, state) ==
    IF Whole(k) /\ state \notin {"INVALID", "ABORTED"} THEN k.of ELSE NoImage

\* What the next start does with the other slot: one that waits for a verdict
\* without running is not started again.
Choice(im, b) ==
    IF b = running \/ im[b] = "PENDING" THEN "no"
    ELSE IF im[b] = "NEW" THEN "trial" ELSE "outright"
=============================================================================
