-------------------------------- MODULE OtaWs -------------------------------
(* The device: the http layer on top of the plain backend on top of         *)
(* ESP-IDF.  The frames come from any number of clients in any order, so    *)
(* here a client is free to send anything the protocol knows; OtaSystem     *)
(* puts the page behind the frames.  Power may go at any time.              *)
EXTENDS OtaEsp, OtaHttp, OtaDevice

CONSTANT SizeValues  \* what atoi may make of the value of an otaSize frame
ASSUME SizeAssumption ==
    /\ SizeValues \subseteq Int
    /\ \A n \in SizeValues : -WordMod < n /\ n < WordMod  \* an int fits a size_t
    /\ SlotSize < WordMod

vars == <<flashVars, image_header_was_checked, httpVars>>

Init ==
    /\ FlashInit
    /\ image_header_was_checked = FALSE
    /\ HttpInit

\* ota_error with its call of abort_ota_ws.
Failed(code, ret) == ota_error(code, ret) /\ abort_ota_ws

Restarted == restarted /\ image_header_was_checked' = FALSE

----------------------------------------------------------------------------
(* ota_ws_handler, by what the frame is.                                    *)
Handshake ==
    /\ handshake(check_ota_ws_rollback_enable)
    /\ UNCHANGED espVars

\* The frame cannot be received, or there is no memory for it.
ReceiveFails ==
    /\ Failed("otaError", "FAIL")
    /\ UNCHANGED <<running, boot, img, slot, leaked, image_header_was_checked>>

BadJson ==
    /\ Failed("otaError", "OK")
    /\ UNCHANGED <<running, boot, img, slot, leaked, image_header_was_checked>>

SizeZero ==
    /\ Failed("otaError", "OK")
    /\ UNCHANGED <<running, boot, img, slot, leaked, image_header_was_checked>>

OtaSize(n) ==
    \/ n = 0 /\ SizeZero
    \/ n # 0 /\ start_ota_ws /\ size_accepted(n)
    \/ n # 0 /\ start_ota_ws_fails /\ Failed("otaError", "FAIL")

\* otaCancel and otaError, the two commands that stop an update.
StopCommand(code) ==
    /\ Failed(code, "OK")
    /\ UNCHANGED <<running, boot, img, slot, leaked, image_header_was_checked>>

ConfirmApp ==
    \/ rollback_ota_ws_confirm /\ no_reply("OK")
    \/ rollback_ota_ws_fails /\ no_reply("FAIL")

RollbackApp ==
    \/ rollback_ota_ws_rollback /\ restarted
    \/ rollback_ota_ws_fails /\ no_reply("FAIL")

RestartEsp ==
    /\ Reset(img, boot, slot)
    /\ Restarted
    /\ UNCHANGED slot

\* A name the handler does not know.
OtherText == no_reply("OK") /\ UNCHANGED espVars

ChunkWritten(c) ==
    /\ ota_started = 1
    /\ write_ota_ws(c)
    /\ chunk_written(c.len)
    /\ UNCHANGED <<running, boot, img, handle, leaked>>

ChunkFails(c) ==
    /\ ota_started = 1
    /\ write_ota_ws_fails(c)
    /\ Failed("otaError", "FAIL")
    /\ UNCHANGED <<running, boot, img, leaked>>

LastChunkInstalled(c) ==
    /\ ota_started = 1
    /\ write_ota_ws(c)
    /\ end_ota_ws(slot'[update_partition])
    /\ last_chunk_installed(c.len)
    /\ UNCHANGED <<running, leaked>>

LastChunkRefused(c) ==
    /\ ota_started = 1
    /\ IsLast(c.len)
    /\ write_ota_ws(c)
    /\ end_ota_ws_fails
    /\ Failed("otaError", "FAIL")
    /\ UNCHANGED <<running, leaked>>

\* Outside a session the frame is neither written nor answered.
ChunkIgnored ==
    /\ ota_started = 0
    /\ no_reply("OK")
    /\ UNCHANGED espVars

Binary(c) ==
    \/ ChunkWritten(c)
    \/ ChunkFails(c)
    \/ LastChunkInstalled(c)
    \/ LastChunkRefused(c)
    \/ ChunkIgnored

----------------------------------------------------------------------------
(* Power goes between two runs of the handler, or in the midst of one that  *)
(* has written a chunk, or has selected the new slot and not answered yet.  *)
PowerLossIdle == Reset(img, boot, slot) /\ UNCHANGED slot

PowerLossAfterWrite(c) ==
    /\ ota_started = 1
    /\ HeaderFits(c)
    /\ esp_ota_write(update_partition, c)
    /\ Reset(img, boot, slot')

PowerLossAfterSelect(c) ==
    /\ ota_started = 1
    /\ HeaderFits(c)
    /\ IsLast(c.len)
    /\ esp_ota_write(update_partition, c)
    /\ Whole(slot'[update_partition])
    /\ Reset([img EXCEPT ![update_partition] = NewState], update_partition, slot')

PowerLoss ==
    /\ \/ PowerLossIdle
       \/ \E c \in Chunk : PowerLossAfterWrite(c) \/ PowerLossAfterSelect(c)
    /\ Restarted

----------------------------------------------------------------------------
Text ==
    \/ BadJson
    \/ \E n \in SizeValues : OtaSize(n)
    \/ \E code \in {"otaCancel", "otaError"} : StopCommand(code)
    \/ ConfirmApp
    \/ RollbackApp
    \/ RestartEsp
    \/ OtherText

Next ==
    \/ Handshake
    \/ ReceiveFails
    \/ Text
    \/ \E c \in Chunk : Binary(c)
    \/ PowerLoss

Spec == Init /\ [][Next]_vars

----------------------------------------------------------------------------
(* Properties.                                                              *)

\* Every variable stays within its type.
TypeOK == FlashTypeOK /\ image_header_was_checked \in BOOLEAN /\ HttpTypeOK

\* Three layers keep their own idea of an upload and nothing but the order of
\* calls keeps them in step.  A session of the http layer runs exactly while
\* the handle of the backend is open; it then asks next for exactly the byte
\* the flash expects next, which lies inside the announced size; and the header
\* was looked at before anything was written.
SessionInv ==
    /\ ota_started = 1 <=> handle = "open"
    /\ ota_started = 0 => ota_size = 0 /\ ota_start_chunk = 0
    /\ ota_started = 1 =>
           /\ ota_start_chunk = slot[update_partition].wrote
           /\ ota_start_chunk < Unsigned(ota_size)
           /\ ota_start_chunk > 0 => image_header_was_checked

\* otaEnd, after which the page offers to restart into the new firmware, is
\* sent only in a step that selects the other slot, holding a whole image of at
\* least the announced length, for its first start.
EndMeansInstalled ==
    [][out'.sent = <<Frame("otaEnd", 0)>> =>
           /\ boot' = update_partition
           /\ Whole(slot'[boot'])
           /\ slot'[boot'].wrote >= Unsigned(ota_size)
           /\ img'[boot'] = NewState]_vars
=============================================================================
