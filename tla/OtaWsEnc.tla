------------------------------- MODULE OtaWsEnc -------------------------------
(* The device in pre-encrypted mode: the http layer on top of the backend   *)
(* for encrypted firmware.  Clients send anything in any order, and power   *)
(* may go at any time, as in OtaWs.                                         *)
EXTENDS OtaEspEnc, OtaHttp, OtaDevice

CONSTANT SizeValues  \* what atoi may make of the value of an otaSize frame
ASSUME SizeAssumption ==
    /\ SizeValues \subseteq Int
    /\ \A n \in SizeValues : -WordMod < n /\ n < WordMod
    /\ EncHeader + SlotSize < WordMod

vars == <<encVars, httpVars>>

Init ==
    /\ FlashInit
    /\ image_header_was_checked = FALSE
    /\ enc = Unused
    /\ HttpInit

\* ota_error with its call of abort_ota_ws; e is enc as the failed call left it.
Failed(code, ret, e) ==
    /\ ota_error(code, ret)
    /\ esp_ota_abort
    /\ enc' = abort_ota_ws(e)

----------------------------------------------------------------------------
(* ota_ws_handler, by what the frame is.                                    *)
Handshake ==
    /\ handshake(check_ota_ws_rollback_enable)
    /\ UNCHANGED encVars

\* Frames for which only ota_error is called: one that cannot be received, text
\* that is no command, the size 0, otaError and otaCancel.
Stopped(code, ret) ==
    /\ Failed(code, ret, enc)
    /\ UNCHANGED <<running, boot, img, slot, leaked, image_header_was_checked>>

OtaSize(n) ==
    /\ n # 0
    /\ \/ start_ota_ws /\ size_accepted(n)
       \/ start_ota_ws_fails /\ Failed("otaError", "FAIL", enc)
       \/ start_ota_ws_no_handle /\ Failed("otaError", "FAIL", NoHandle)

ConfirmApp ==
    \/ rollback_ota_ws_confirm /\ no_reply("OK")
    \/ UNCHANGED encVars /\ no_reply("FAIL")

RollbackApp ==
    \/ rollback_ota_ws_rollback /\ restarted
    \/ UNCHANGED encVars /\ no_reply("FAIL")

\* A name the handler does not know, or a chunk outside a session.
Ignored == no_reply("OK") /\ UNCHANGED encVars

ChunkWritten(c) ==
    /\ ota_started = 1
    /\ \E e \in decrypt_data(c) : write_ota_ws(e) /\ enc' = e
    /\ chunk_written(c.len)
    /\ UNCHANGED <<running, boot, img, handle, leaked>>

ChunkFails(c) ==
    /\ ota_started = 1
    /\ \E f \in FailedWrites(c) :
         write_ota_ws_fails(f) /\ Failed("otaError", "FAIL", f.enc)
    /\ UNCHANGED <<running, boot, img, leaked>>

LastChunkInstalled(c) ==
    /\ ota_started = 1
    /\ \E e \in decrypt_data(c) :
         /\ write_ota_ws(e)
         /\ end_ota_ws(e, slot'[update_partition])
         /\ enc' = Released(e)
    /\ last_chunk_installed(c.len)
    /\ UNCHANGED <<running, leaked>>

LastChunkRefused(c) ==
    /\ ota_started = 1
    /\ IsLast(c.len)
    /\ \E e \in decrypt_data(c) :
         write_ota_ws(e) /\ Failed("otaError", "FAIL", FailedEnd(e))
    /\ end_ota_ws_fails
    /\ UNCHANGED <<running, leaked>>

Binary(c) ==
    \/ ChunkWritten(c)
    \/ ChunkFails(c)
    \/ LastChunkInstalled(c)
    \/ LastChunkRefused(c)

----------------------------------------------------------------------------
(* esp_restart, a panic after the heap was damaged, or power that goes: also *)
(* in a handler that has written a chunk, or has selected the new slot.     *)
Restarted ==
    /\ restarted
    /\ image_header_was_checked' = FALSE
    /\ enc' = Unused

RestartIdle == Reset(img, boot, slot) /\ UNCHANGED slot

RestartAfterWrite(c) ==
    /\ ota_started = 1
    /\ \E e \in decrypt_data(c) :
         /\ HeaderFits(e)
         /\ e.text.len > 0 /\ e.data_out = "live"
         /\ esp_ota_write(update_partition, e.text)
         /\ Reset(img, boot, slot')

RestartAfterSelect(c) ==
    /\ ota_started = 1
    /\ IsLast(c.len)
    /\ \E e \in decrypt_data(c) :
         /\ HeaderFits(e)
         /\ e.text.len > 0 /\ e.data_out = "live"
         /\ esp_ota_write(update_partition, e.text)
         /\ decrypt_end_accepts(e)
         /\ Whole(slot'[update_partition])
         /\ Reset([img EXCEPT ![update_partition] = NewState], update_partition, slot')

Restart ==
    /\ \/ RestartIdle
       \/ \E c \in EncChunk : RestartAfterWrite(c) \/ RestartAfterSelect(c)
    /\ Restarted

----------------------------------------------------------------------------
Handler ==
    \/ Handshake
    \/ \E ret \in {"OK", "FAIL"} : Stopped("otaError", ret)
    \/ Stopped("otaCancel", "OK")
    \/ \E n \in SizeValues : OtaSize(n)
    \/ ConfirmApp
    \/ RollbackApp
    \/ Ignored
    \/ \E c \in EncChunk : Binary(c)

\* What handlers do once the heap is damaged is anybody's guess, but for the reset
\* in which it ends.
Next == (enc.heap = "sound" /\ Handler) \/ Restart

Spec == Init /\ [][Next]_vars

----------------------------------------------------------------------------
(* Properties.                                                              *)

\* Every variable stays within its type.
TypeOK ==
    /\ FlashTypeOK
    /\ image_header_was_checked \in BOOLEAN
    /\ enc \in EncType
    /\ HttpTypeOK

\* Five places keep an idea of an upload.  The session of the http layer, the
\* handle of the flash and the handle of the decoder live and end together; the
\* next byte the client is asked for is the next one of the decoder; what the flash
\* holds is all the plaintext the decoder gave back and nothing twice, also when a
\* buffer could not be had; nothing of a firmware is there before the header of
\* its file is over; and as long as every byte came in its place it is the
\* beginning of the firmware, to the last block.
PipelineInv ==
    /\ ota_started = 1 <=> handle = "open"
    /\ ota_started = 1 <=> enc.handle = "live"
    /\ enc.data_out = "live" => ota_started = 1
    /\ ota_started = 1 =>
          LET k == slot[update_partition]
          IN  /\ ota_start_chunk = enc.read
              /\ k.wrote = enc.got
              /\ enc.read = 0 => k = Erased /\ ~image_header_was_checked
              /\ enc.read > 0 => image_header_was_checked /\ enc.data_out = "live"
              /\ k.of \in Image /\ k.good > 0 => enc.read > EncHeader
              /\ ~image_header_was_checked => enc.data_out = "NULL" /\ enc.text.len = 0
              /\ enc.read > 0 /\ ~enc.wrong =>
                    LET l == ImageSize[Plain[enc.of]]
                    IN  /\ k.of = Plain[enc.of] /\ k.good = k.wrote
                        /\ k.wrote = Stream!Plaintext(l, enc.read)

\* All of what the decoder e has read is one file whose tag is the one of its
\* contents, and k is the firmware in it.
Genuinely(e, k) ==
    /\ e.of \in Genuine
    /\ e.read = EncSize(e.of)
    /\ k.of = Plain[e.of]

\* An update selects its slot for the next start only with a whole firmware that came, to
\* the last byte, out of one genuine file: when otaEnd is sent, and also when a reset
\* comes first.  Of a rollback it says nothing: that starts whatever whole firmware
\* lies beside, and a file refused at its tag has left one there.
InstalledIsGenuine ==
    [][/\ out'.sent = <<Frame("otaEnd", 0)>> =>
             /\ boot' = update_partition
             /\ Whole(slot'[boot'])
             /\ Genuinely(enc', slot'[boot'])
       /\ running' # running => \A c \in EncChunk : RestartAfterSelect(c) =>
             \E e \in decrypt_data(c) : Genuinely(e, slot'[update_partition])]_vars

\* The header file of the decoder says that decrypt_end cleans up the handle, and
\* that decrypt_abort is there to do so when decrypt_end was not called: nothing
\* that has been freed is freed again.
HeapSound == enc.heap = "sound"
=============================================================================
