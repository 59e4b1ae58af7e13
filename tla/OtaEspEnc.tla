------------------------------ MODULE OtaEspEnc ------------------------------
(* source/ota_ws_update_esp_preencrypted.c: the backend for encrypted       *)
(* firmware.  Its statics are those of the plain backend, the decoder's     *)
(* enc_handle and enc_arg, the decoder's argument, whose buffer data_out the *)
(* decoder allocates and this file frees.  What matters is who owns handle  *)
(* and buffer, and which plaintext the buffer holds.  The decoder is what   *)
(* EncStream promises of it.                                                *)
EXTENDS EspOta

CONSTANTS
    HeaderLen,  \* image header + segment header + app description
    EncFile,    \* the encrypted files clients may send
    Plain,      \* the firmware each one contains
    Genuine,    \* those whose tag is the one of their contents
    EncHeader,  \* bytes of the encrypted header
    BLOCK       \* bytes of a cipher block

ASSUME EncFileAssumption ==
    /\ {HeaderLen, EncHeader} \subseteq Nat
    /\ BLOCK \in Nat \ {0}
    /\ Plain \in [EncFile -> Image]
    /\ Genuine \subseteq EncFile
    /\ NoImage \notin EncFile

VARIABLES
    image_header_was_checked,
    enc   \* enc_handle and enc_arg, and how far the decoder has come

encVars == <<flashVars, image_header_was_checked, enc>>

EncSize(f) == EncHeader + ImageSize[Plain[f]]

\* A piece of an encrypted file, as a client sends it.
EncChunk == {c \in [of : EncFile, at : 0 .. EncHeader + SlotSize, len : 0 .. EncHeader + SlotSize] :
                c.at + c.len <= EncSize(c.of)}

\* Plaintext of which nothing is known.
Garbage(n) == [of |-> NoImage, at |-> 0, len |-> n]

\* handle, data_out: the pointer is NULL, its memory is allocated, or was freed.
\* of, read, got: the file the decoder reads, bytes of it supplied, bytes of
\* plaintext given back.  wrong: some byte came out of its place.
EncType ==
    [handle : {"NULL", "live", "freed"}, data_out : {"NULL", "live", "freed"},
     text : [of : Image \cup {NoImage}, at : Nat, len : Nat], heap : {"sound", "corrupt"},
     of : EncFile \cup {NoImage}, read : Nat, got : Nat, wrong : BOOLEAN]

Unused ==
    [handle |-> "NULL", data_out |-> "NULL", text |-> Garbage(0), heap |-> "sound",
     of |-> NoImage, read |-> 0, got |-> 0, wrong |-> FALSE]

----------------------------------------------------------------------------
(* The decoder, as the backend sees it.                                     *)
\* What is freed must be allocated.
Freed(e, pointers) == IF "freed" \in pointers THEN "corrupt" ELSE e.heap

Stream == INSTANCE EncStream WITH
    HeaderSize <- EncHeader, len <- ImageSize[Plain[enc.of]],
    supplied <- enc.read, got <- enc.got, status <- "reading"

InPlace(c) == ~enc.wrong /\ c.at = enc.read /\ (enc.read = 0 \/ c.of = enc.of)

\* Plaintext decrypt_data may give back for c.
Outputs(c) ==
    LET l == ImageSize[Plain[c.of]]
    IN  IF InPlace(c)
        THEN {[of |-> Plain[c.of], at |-> enc.got,
               len |-> Stream!Plaintext(l, enc.read + c.len) - enc.got]}
        ELSE {Garbage(n) : n \in 0 .. c.len + BLOCK - 1}

Fed(c, n) ==
    [enc EXCEPT !.of = c.of, !.read = @ + c.len, !.got = @ + n,
                !.wrong = IF InPlace(c) THEN @ ELSE TRUE]

\* realloc(NULL, n) is a malloc.
realloc(e, p) ==
    [e EXCEPT !.data_out = IF p.len > 0 THEN "live" ELSE @,
              !.text = IF p.len > 0 THEN p ELSE Garbage(0)]

\* Mutant: buffer, length and plaintext of the last call are kept.
realloc_fails_KeepsOld(e) == [e EXCEPT !.wrong = TRUE]

\* The pointer to the old block is overwritten by NULL; the length stays the one
\* of the last call.
realloc_fails(e) ==
    [e EXCEPT !.data_out = "NULL", !.wrong = TRUE]

\* enc after a call of decrypt_data that returns neither ESP_FAIL nor
\* ESP_ERR_INVALID_ARG.  In the header the decoder leaves the length alone; it
\* is the 0 of start_ota_ws then.  A frame without payload has a null data_in.
decrypt_data(c) ==
    {realloc(Fed(c, p.len), p) : p \in IF c.len = 0 THEN {} ELSE Outputs(c)}
    \cup {realloc_fails(Fed(c, 0)) : p \in {q \in Outputs(c) : q.len > 0}}

\* Mutant: decrypt_end is not asked whether the tag is right.
decrypt_end_accepts_AnyTag(e) == ~e.wrong /\ e.read = EncSize(e.of)

decrypt_end_accepts(e) ==
    \/ e.read < EncHeader
    \/ ~e.wrong /\ e.of \in Genuine /\ e.read = EncSize(e.of)

----------------------------------------------------------------------------
(* The calls of the http layer.  Each takes and leaves enc as a value: a    *)
(* failing call aborts, and the http layer aborts once more after it.       *)

abort_ota_ws(e) ==
    [Unused EXCEPT !.heap = Freed(e, {e.handle, e.data_out})]

\* A handle or buffer that an unfinished upload left behind is lost.
start_ota_ws ==
    /\ esp_ota_begin(update_partition)
    /\ image_header_was_checked' = FALSE
    /\ enc' = [Unused EXCEPT !.handle = "live", !.heap = enc.heap]
    /\ UNCHANGED <<running, boot, img>>

\* esp_ota_begin fails, and nothing is cleaned up here.
start_ota_ws_fails ==
    /\ esp_ota_begin_fails(update_partition)
    /\ UNCHANGED <<running, boot, img, image_header_was_checked>>

\* decrypt_start fails: the update just begun is aborted.
start_ota_ws_no_handle ==
    /\ esp_ota_begin_as(update_partition, "closed")
    /\ image_header_was_checked' = FALSE
    /\ UNCHANGED <<running, boot, img>>

NoHandle == abort_ota_ws([enc EXCEPT !.handle = "NULL"])

\* The first plaintext must hold the whole header.
HeaderFits(e) == image_header_was_checked \/ e.text.len > HeaderLen

\* e: enc after decrypt_data, whatever that has returned.  esp_ota_write refuses
\* a null pointer and has nothing to do for no bytes.
write_ota_ws(e) ==
    /\ HeaderFits(e)
    /\ image_header_was_checked' = TRUE
    /\ e.data_out = "live"
    /\ IF e.text.len > 0 THEN esp_ota_write(update_partition, e.text)
                         ELSE handle = "open" /\ slot' = slot

\* What a failing call leaves: the decoder refuses; or the header is too short or
\* the flash refuses.
FailedWrites(c) ==
    {[checked |-> image_header_was_checked, enc |-> abort_ota_ws(enc)]}
    \cup {[checked |-> HeaderFits(e), enc |-> abort_ota_ws(e)] : e \in decrypt_data(c)}

write_ota_ws_fails(f) ==
    /\ image_header_was_checked' = f.checked
    /\ UNCHANGED slot

\* decrypt_end frees what the handle refers to and the handle is kept, and so is
\* data_out after its memory was freed.
Ended(e) == [e EXCEPT !.handle = "freed"]

Released(e) == [Ended(e) EXCEPT !.data_out = IF @ = "live" THEN "freed" ELSE @]

end_ota_ws(e, k) ==
    /\ decrypt_end_accepts(e)
    /\ esp_ota_end(k)
    /\ esp_ota_set_boot_partition(update_partition, k)

\* Whichever of the three calls fails, the handle is gone by then.
FailedEnd(e) == abort_ota_ws(Ended(e))

end_ota_ws_fails ==
    /\ esp_ota_end_fails
    /\ UNCHANGED <<boot, img>>

check_ota_ws_rollback_enable == RollbackEnabled /\ img[running] = "PENDING"

rollback_ota_ws_confirm ==
    /\ RollbackEnabled
    /\ esp_ota_mark_app_valid_cancel_rollback
    /\ UNCHANGED <<image_header_was_checked, enc>>

rollback_ota_ws_rollback ==
    /\ RollbackEnabled
    /\ esp_ota_mark_app_invalid_rollback_and_reboot
    /\ image_header_was_checked' = FALSE
    /\ enc' = Unused
=============================================================================
