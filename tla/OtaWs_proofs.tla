----------------------------- MODULE OtaWs_proofs ---------------------------
(* What OtaWs promises for every set of files, every partition size and     *)
(* every chunk a client may send.                                           *)
EXTENDS OtaWs, OtaDevice_proofs

USE DEF Slots, Other, update_partition

----------------------------------------------------------------------------
(* Arithmetic.                                                              *)

\* A count of bytes in a partition is the same number as a size_t.
LEMMA UnsignedSmall == ASSUME NEW x \in 0 .. SlotSize PROVE Unsigned(x) = x
  BY FlashAssumption, WordAssumption, SizeAssumption DEF Unsigned

\* Only the announced size 0 reads as no bytes at all.
LEMMA UnsignedPositive ==
    ASSUME NEW n \in SizeValues, n # 0 PROVE Unsigned(n) > 0
  BY WordAssumption, SizeAssumption DEF Unsigned

----------------------------------------------------------------------------
(* Types.                                                                   *)

\* A device flashed over the cable is well typed.
LEMMA TypingInit == Init => TypeOK
  <1>1. FlashInit => FlashTypeOK
    BY FlashAssumption DEF FlashInit, FlashTypeOK, Content, Erased, ImgState
  <1>2. HttpInit => HttpTypeOK
    BY DEF HttpInit, HttpTypeOK
  <1> QED
    BY <1>1, <1>2 DEF Init, TypeOK

\* Every step keeps the types.
LEMMA TypingStep == ASSUME TypeOK, [Next]_vars PROVE TypeOK'
  <1>t. FlashTypeOK /\ image_header_was_checked \in BOOLEAN /\ HttpTypeOK
    BY DEF TypeOK
  <1>a. Erased \in Content
    BY FlashAssumption DEF Erased, Content
  <1>b. ASSUME NEW code \in {"otaCancel", "otaError"}, NEW ret \in {"OK", "FAIL"},
               Failed(code, ret)
        PROVE  HttpTypeOK' /\ handle' = "closed"
    BY <1>b, <1>t, HttpTyping DEF Failed, abort_ota_ws, esp_ota_abort
  <1>c. ASSUME NEW c \in Chunk, esp_ota_write(update_partition, c)
        PROVE  slot' \in [Slots -> Content]
    BY <1>c, <1>t, AppendedType, ChunkIsPiece DEF esp_ota_write, FlashTypeOK
  <1>d. NewState \in ImgState
    BY DEF NewState, ImgState
  <1>e. ASSUME NEW ret \in {"OK", "FAIL"}, no_reply(ret), UNCHANGED espVars PROVE TypeOK'
    <2>1. HttpTypeOK'
      BY <1>e, <1>t, HttpTyping
    <2>2. FlashTypeOK' /\ image_header_was_checked' \in BOOLEAN
      BY <1>e, <1>t DEF espVars, flashVars, FlashTypeOK
    <2> QED
      BY <2>1, <2>2 DEF TypeOK
  <1>f. ASSUME NEW code \in {"otaCancel", "otaError"}, NEW ret \in {"OK", "FAIL"},
               Failed(code, ret),
               UNCHANGED <<running, boot, img, slot, leaked, image_header_was_checked>>
        PROVE  TypeOK'
    BY <1>b, <1>f, <1>t DEF TypeOK, FlashTypeOK
  <1>g. Restarted => image_header_was_checked' \in BOOLEAN /\ HttpTypeOK'
    BY <1>t, HttpTyping DEF Restarted
  <1>1. CASE Handshake
    <2>1. HttpTypeOK'
      BY <1>1, <1>t, HttpTyping DEF Handshake
    <2>2. FlashTypeOK' /\ image_header_was_checked' \in BOOLEAN
      BY <1>1, <1>t DEF Handshake, espVars, flashVars, FlashTypeOK
    <2> QED
      BY <2>1, <2>2 DEF TypeOK
  <1>2. CASE ReceiveFails \/ BadJson
    BY <1>2, <1>f DEF ReceiveFails, BadJson
  <1>3. ASSUME NEW n \in SizeValues, OtaSize(n) PROVE TypeOK'
    <2>1. CASE SizeZero
      BY <2>1, <1>f DEF SizeZero
    <2>2. CASE start_ota_ws /\ size_accepted(n)
      <3>1. HttpTypeOK' /\ image_header_was_checked' \in BOOLEAN
        BY <2>2, <1>t, HttpTyping, SizeAssumption DEF start_ota_ws
      <3>2. FlashTypeOK'
        BY <2>2, <1>t, <1>a, FlashAssumption DEF start_ota_ws, esp_ota_begin, esp_ota_begin_as, FlashTypeOK
      <3> QED
        BY <3>1, <3>2 DEF TypeOK
    <2>3. CASE start_ota_ws_fails /\ Failed("otaError", "FAIL")
      <3>1. slot' \in [Slots -> Content]
        BY <2>3, <1>t, <1>a DEF start_ota_ws_fails, esp_ota_begin_fails, FlashTypeOK
      <3> QED
        BY <2>3, <3>1, <1>t, <1>b
        DEF start_ota_ws_fails, esp_ota_begin_fails, FlashTypeOK, TypeOK
    <2> QED
      BY <1>3, <2>1, <2>2, <2>3 DEF OtaSize
  <1>4. ASSUME NEW code \in {"otaCancel", "otaError"}, StopCommand(code) PROVE TypeOK'
    BY <1>4, <1>f DEF StopCommand
  <1>5. CASE ConfirmApp
    <2>1. CASE rollback_ota_ws_confirm /\ no_reply("OK")
      <3>1. HttpTypeOK' /\ image_header_was_checked' \in BOOLEAN
        BY <2>1, <1>t, HttpTyping DEF rollback_ota_ws_confirm
      <3>2. FlashTypeOK'
        BY <2>1, <1>t DEF rollback_ota_ws_confirm, esp_ota_mark_app_valid_cancel_rollback,
                          FlashTypeOK, ImgState
      <3> QED
        BY <3>1, <3>2 DEF TypeOK
    <2>2. CASE rollback_ota_ws_fails /\ no_reply("FAIL")
      BY <2>2, <1>e DEF rollback_ota_ws_fails
    <2> QED
      BY <1>5, <2>1, <2>2 DEF ConfirmApp
  <1>6. CASE RollbackApp
    <2>1. CASE rollback_ota_ws_rollback /\ restarted
      <3>1. /\ [img EXCEPT ![boot] = "INVALID"] \in [Slots -> ImgState]
            /\ Other(boot) \in Slots
        BY <1>t DEF FlashTypeOK, ImgState
      <3>2. /\ Reset([img EXCEPT ![boot] = "INVALID"], Other(boot), slot)
            /\ slot' \in [Slots -> Content]
        BY <2>1, <1>t DEF rollback_ota_ws_rollback,
                          esp_ota_mark_app_invalid_rollback_and_reboot, FlashTypeOK
      <3>3. FlashTypeOK'
        BY <3>1, <3>2, ResetType
      <3> QED
        BY <2>1, <3>3, <1>t, HttpTyping DEF rollback_ota_ws_rollback, TypeOK
    <2>2. CASE rollback_ota_ws_fails /\ no_reply("FAIL")
      BY <2>2, <1>e DEF rollback_ota_ws_fails
    <2> QED
      BY <1>6, <2>1, <2>2 DEF RollbackApp
  <1>7. CASE RestartEsp
    <2>1. FlashTypeOK'
      BY <1>7, <1>t, ResetType DEF RestartEsp, FlashTypeOK
    <2> QED
      BY <1>7, <2>1, <1>g DEF RestartEsp, TypeOK
  <1>8. CASE OtherText \/ ChunkIgnored
    BY <1>8, <1>e DEF OtherText, ChunkIgnored
  <1>9. ASSUME NEW c \in Chunk, ChunkWritten(c) PROVE TypeOK'
    <2>1. HttpTypeOK' /\ slot' \in [Slots -> Content] /\ image_header_was_checked' = TRUE
      BY <1>9, <1>t, <1>c, HttpTyping DEF ChunkWritten, write_ota_ws, Chunk
    <2> QED
      BY <1>9, <2>1, <1>t DEF ChunkWritten, TypeOK, FlashTypeOK
  <1>10. ASSUME NEW c \in Chunk, ChunkFails(c) PROVE TypeOK'
    <2>1. image_header_was_checked' \in BOOLEAN
      BY <1>10, <1>t DEF ChunkFails, write_ota_ws_fails, HeaderFits
    <2> QED
      BY <1>10, <2>1, <1>b, <1>t DEF ChunkFails, write_ota_ws_fails, TypeOK, FlashTypeOK
  <1>11. ASSUME NEW c \in Chunk, LastChunkInstalled(c) PROVE TypeOK'
    <2>1. HttpTypeOK' /\ slot' \in [Slots -> Content] /\ image_header_was_checked' = TRUE
      BY <1>11, <1>t, <1>c, HttpTyping DEF LastChunkInstalled, write_ota_ws, Chunk
    <2>2. boot' = update_partition /\ img' = [img EXCEPT ![update_partition] = NewState]
      BY <1>11 DEF LastChunkInstalled, end_ota_ws, esp_ota_set_boot_partition
    <2>3. boot' \in Slots /\ img' \in [Slots -> ImgState]
      BY <2>2, <1>d, <1>t DEF FlashTypeOK
    <2>4. handle' = "closed" /\ UNCHANGED <<running, leaked>>
      BY <1>11 DEF LastChunkInstalled, end_ota_ws, esp_ota_end
    <2> QED
      BY <2>1, <2>3, <2>4, <1>t DEF TypeOK, FlashTypeOK
  <1>12. ASSUME NEW c \in Chunk, LastChunkRefused(c) PROVE TypeOK'
    <2>1. slot' \in [Slots -> Content] /\ image_header_was_checked' = TRUE
      BY <1>12, <1>c DEF LastChunkRefused, write_ota_ws
    <2> QED
      BY <1>12, <2>1, <1>b, <1>t DEF LastChunkRefused, end_ota_ws_fails, TypeOK, FlashTypeOK
  <1>13. CASE PowerLoss
    <2>1. Restarted
      BY <1>13 DEF PowerLoss
    <2>2. SUFFICES FlashTypeOK'
      BY <2>1, <1>g DEF TypeOK
    <2>3. CASE PowerLossIdle
      BY <2>3, <1>t, ResetType DEF PowerLossIdle, FlashTypeOK
    <2>4. ASSUME NEW c \in Chunk, PowerLossAfterWrite(c) PROVE FlashTypeOK'
      BY <2>4, <1>t, <1>c, ResetType DEF PowerLossAfterWrite, FlashTypeOK
    <2>5. ASSUME NEW c \in Chunk, PowerLossAfterSelect(c) PROVE FlashTypeOK'
      <3> DEFINE im == [img EXCEPT ![update_partition] = NewState]
      <3>1. im \in [Slots -> ImgState] /\ update_partition \in Slots
        BY <1>d, <1>t DEF FlashTypeOK
      <3>2. Reset(im, update_partition, slot') /\ slot' \in [Slots -> Content]
        BY <2>5, <1>c DEF PowerLossAfterSelect
      <3> HIDE DEF im
      <3> QED
        BY <3>1, <3>2, ResetType
    <2> QED
      BY <1>13, <2>3, <2>4, <2>5 DEF PowerLoss
  <1>14. CASE UNCHANGED vars
    BY <1>14, <1>t DEF vars, flashVars, httpVars, FlashTypeOK, HttpTypeOK, TypeOK
  <1> QED
    BY <1>1, <1>2, <1>3, <1>4, <1>5, <1>6, <1>7, <1>8, <1>9, <1>10, <1>11, <1>12,
       <1>13, <1>14 DEF Next, Text, Binary

\* The variables of the device stay within their types; in particular no slot
\* ever holds more than a partition.
THEOREM Typing == Spec => []TypeOK
  BY TypingInit, TypingStep, PTL DEF Spec

----------------------------------------------------------------------------
(* The session.                                                             *)

\* Where every path that stops an upload or resets the chip leaves the session.
LEMMA SessionOver ==
    ASSUME ClearSession, handle' = "closed" PROVE SessionInv'
  BY DEF ClearSession, SessionInv

\* The session of the http layer, the handle of the backend and the write
\* position of the flash agree after every handler and every reset, for every
\* announced size, the negative ones included.
THEOREM Session == Spec => []SessionInv
  <1>1. Init => SessionInv
    BY DEF Init, FlashInit, HttpInit, SessionInv
  <1>2. TypeOK /\ SessionInv /\ [Next]_vars => SessionInv'
    <2> SUFFICES ASSUME TypeOK, SessionInv, [Next]_vars PROVE SessionInv'
      OBVIOUS
    <2>t. FlashTypeOK /\ HttpTypeOK
      BY DEF TypeOK
    <2>a. ASSUME NEW code, NEW ret, Failed(code, ret) PROVE SessionInv'
      BY <2>a, SessionOver DEF Failed, ota_error, abort_ota_ws, esp_ota_abort
    <2>b. ASSUME restarted, NEW im, NEW b, NEW content, Reset(im, b, content)
          PROVE  SessionInv'
      BY <2>b, SessionOver DEF restarted, Reset
    <2>c. ASSUME UNCHANGED <<ota_size, ota_start_chunk, ota_started, handle, slot, running,
                             image_header_was_checked>>
          PROVE  SessionInv'
      BY <2>c DEF SessionInv
    <2>1. CASE Handshake
      BY <2>1, <2>c DEF Handshake, handshake, espVars, flashVars
    <2>2. CASE ReceiveFails \/ BadJson
      BY <2>2, <2>a DEF ReceiveFails, BadJson
    <2>3. ASSUME NEW n \in SizeValues, OtaSize(n) PROVE SessionInv'
      <3>1. CASE SizeZero
        BY <3>1, <2>a DEF SizeZero
      <3>2. CASE n # 0 /\ start_ota_ws /\ size_accepted(n)
        <4>1. /\ ota_started' = 1
              /\ ota_start_chunk' = 0
              /\ ota_size' = n
              /\ handle' = "open"
          BY <3>2 DEF start_ota_ws, esp_ota_begin, esp_ota_begin_as, size_accepted
        <4>2. slot'[update_partition].wrote = 0 /\ running' = running
          BY <3>2, <2>t DEF start_ota_ws, esp_ota_begin, esp_ota_begin_as, FlashTypeOK, Erased
        <4>3. Unsigned(ota_size') > 0
          BY <3>2, <4>1, UnsignedPositive
        <4> QED
          BY <4>1, <4>2, <4>3 DEF SessionInv
      <3>3. CASE start_ota_ws_fails /\ Failed("otaError", "FAIL")
        BY <3>3, <2>a
      <3> QED
        BY <2>3, <3>1, <3>2, <3>3 DEF OtaSize
    <2>4. ASSUME NEW code \in {"otaCancel", "otaError"}, StopCommand(code) PROVE SessionInv'
      BY <2>4, <2>a DEF StopCommand
    <2>5. CASE ConfirmApp
      BY <2>5, <2>c
      DEF ConfirmApp, rollback_ota_ws_confirm, esp_ota_mark_app_valid_cancel_rollback,
          rollback_ota_ws_fails, espVars, flashVars, no_reply
    <2>6. CASE RollbackApp
      BY <2>6, <2>b, <2>c
      DEF RollbackApp, rollback_ota_ws_rollback, esp_ota_mark_app_invalid_rollback_and_reboot,
          rollback_ota_ws_fails, espVars, flashVars, no_reply
    <2>7. CASE RestartEsp
      BY <2>7, <2>b DEF RestartEsp, Restarted
    <2>8. CASE OtherText \/ ChunkIgnored
      BY <2>8, <2>c DEF OtherText, ChunkIgnored, no_reply, espVars, flashVars
    <2>9. ASSUME NEW c \in Chunk, ChunkWritten(c) PROVE SessionInv'
      <3>1. /\ ota_started = 1 /\ ota_started' = 1
            /\ ota_size' = ota_size
            /\ ota_start_chunk' = ota_start_chunk + c.len
            /\ Unsigned(ota_start_chunk + c.len) < Unsigned(ota_size)
            /\ handle' = handle /\ running' = running
            /\ image_header_was_checked' = TRUE
        BY <2>9, <2>t DEF ChunkWritten, chunk_written, IsLast, write_ota_ws, HttpTypeOK
      <3>2. esp_ota_write(update_partition, c)
        BY <2>9 DEF ChunkWritten, write_ota_ws
      <3>3. /\ ota_start_chunk = slot[update_partition].wrote
            /\ handle = "open"
        BY <3>1 DEF SessionInv
      <3>4. slot[update_partition] \in Content
        BY <2>t DEF FlashTypeOK
      <3>5. slot'[update_partition].wrote = ota_start_chunk + c.len
        BY <3>2, <3>3, <3>4, <2>t, AppendedType, ChunkIsPiece DEF esp_ota_write, FlashTypeOK
      <3>6. ota_start_chunk + c.len \in 0 .. SlotSize
        BY <3>2, <3>3, <2>t DEF esp_ota_write, Chunk, HttpTypeOK
      <3>7. ota_start_chunk + c.len < Unsigned(ota_size)
        BY <3>1, <3>6, UnsignedSmall
      <3> QED
        BY <3>1, <3>3, <3>5, <3>7 DEF SessionInv
    <2>10. ASSUME NEW c \in Chunk, ChunkFails(c) PROVE SessionInv'
      BY <2>10, <2>a DEF ChunkFails
    <2>11. ASSUME NEW c \in Chunk, LastChunkInstalled(c) PROVE SessionInv'
      BY <2>11, SessionOver
      DEF LastChunkInstalled, end_ota_ws, esp_ota_end, last_chunk_installed
    <2>12. ASSUME NEW c \in Chunk, LastChunkRefused(c) PROVE SessionInv'
      BY <2>12, <2>a DEF LastChunkRefused
    <2>13. CASE PowerLoss
      BY <2>13, <2>b
      DEF PowerLoss, PowerLossIdle, PowerLossAfterWrite, PowerLossAfterSelect, Restarted
    <2>14. CASE UNCHANGED vars
      BY <2>14, <2>c DEF vars, flashVars, httpVars
    <2> QED
      BY <2>1, <2>2, <2>3, <2>4, <2>5, <2>6, <2>7, <2>8, <2>9, <2>10, <2>11, <2>12,
         <2>13, <2>14 DEF Next, Text, Binary
  <1>3. QED
    BY <1>1, <1>2, Typing, PTL DEF Spec

----------------------------------------------------------------------------
(* The flash and the update service.                                        *)

\* A chunk that is written is a piece the slot takes.
LEMMA ChunkGrows ==
    ASSUME NEW c \in Chunk, ota_started = 1, esp_ota_write(update_partition, c)
    PROVE  Grows
  <1>1. c \in Supply
    BY DEF esp_ota_write, Chunk, Supply
  <1> QED
    BY <1>1 DEF esp_ota_write, Grows

\* Every step, that of each command and chunk, whichever call into the flash
\* fails, and every loss of power, does to the flash one of the things OtaDevice
\* allows.
LEMMA IsDeviceStep ==
    ASSUME TypeOK, [Next]_vars
    PROVE  DeviceStep
  <1>t. ota_started \in 0 .. 1
    BY DEF TypeOK, HttpTypeOK
  <1>a. ASSUME NEW code, NEW ret, Failed(code, ret), UNCHANGED <<running, boot, img, slot>>
        PROVE  DeviceStep
    BY <1>a DEF Failed, ota_error, ClearSession, Rests, DeviceStep
  <1>b. ASSUME UNCHANGED <<running, boot, img, slot, ota_started>> PROVE DeviceStep
    BY <1>b DEF Rests, DeviceStep
  <1>1. CASE Handshake \/ OtherText \/ ChunkIgnored
    BY <1>1, <1>b DEF Handshake, handshake, OtherText, ChunkIgnored, no_reply, espVars, flashVars
  <1>2. CASE ReceiveFails \/ BadJson
    BY <1>2, <1>a DEF ReceiveFails, BadJson
  <1>3. ASSUME NEW n \in SizeValues, OtaSize(n) PROVE DeviceStep
    <2>1. CASE SizeZero
      BY <2>1, <1>a DEF SizeZero
    <2>2. CASE start_ota_ws /\ size_accepted(n)
      BY <2>2 DEF start_ota_ws, esp_ota_begin, esp_ota_begin_as, size_accepted, Erases, DeviceStep
    <2>3. CASE start_ota_ws_fails /\ Failed("otaError", "FAIL")
      BY <2>3 DEF start_ota_ws_fails, esp_ota_begin_fails, Failed, ota_error, ClearSession,
                  Rests, Erases, DeviceStep
    <2> QED
      BY <1>3, <2>1, <2>2, <2>3 DEF OtaSize
  <1>4. ASSUME NEW code \in {"otaCancel", "otaError"}, StopCommand(code) PROVE DeviceStep
    BY <1>4, <1>a DEF StopCommand
  <1>5. CASE ConfirmApp \/ RollbackApp
    <2>1. CASE rollback_ota_ws_confirm /\ no_reply("OK")
      BY <2>1 DEF rollback_ota_ws_confirm, no_reply, Confirms, DeviceStep
    <2>2. CASE rollback_ota_ws_rollback /\ restarted
      BY <2>2 DEF rollback_ota_ws_rollback, restarted, ClearSession, RollsBack, DeviceStep
    <2>3. CASE rollback_ota_ws_fails /\ no_reply("FAIL")
      BY <2>3, <1>b DEF rollback_ota_ws_fails, no_reply, espVars, flashVars
    <2> QED
      BY <1>5, <2>1, <2>2, <2>3 DEF ConfirmApp, RollbackApp
  <1>6. ASSUME Reset(img, boot, slot), UNCHANGED slot, Restarted PROVE DeviceStep
    BY <1>6 DEF Restarted, restarted, ClearSession, Restarts, DeviceStep
  <1>7. CASE RestartEsp
    BY <1>6, <1>7 DEF RestartEsp
  <1>8. ASSUME NEW c \in Chunk, Binary(c) PROVE DeviceStep
    <2>1. CASE ChunkWritten(c)
      BY <2>1, <1>t, ChunkGrows
      DEF ChunkWritten, write_ota_ws, chunk_written, Writes, DeviceStep
    <2>2. CASE ChunkFails(c)
      BY <2>2, <1>a DEF ChunkFails, write_ota_ws_fails
    <2>3. CASE LastChunkInstalled(c)
      BY <2>3, ChunkGrows
      DEF LastChunkInstalled, write_ota_ws, end_ota_ws, esp_ota_set_boot_partition,
          last_chunk_installed, ClearSession, Selects, DeviceStep
    <2>4. CASE LastChunkRefused(c)
      BY <2>4, ChunkGrows
      DEF LastChunkRefused, write_ota_ws, end_ota_ws_fails, Failed, ota_error, ClearSession,
          Writes, DeviceStep
    <2>5. CASE ChunkIgnored
      BY <1>1, <2>5
    <2> QED
      BY <1>8, <2>1, <2>2, <2>3, <2>4, <2>5 DEF Binary
  <1>9. CASE PowerLoss
    <2>1. CASE PowerLossIdle
      BY <1>6, <1>9, <2>1 DEF PowerLoss, PowerLossIdle
    <2>2. ASSUME NEW c \in Chunk, PowerLossAfterWrite(c) PROVE DeviceStep
      BY <1>9, <2>2, ChunkGrows
      DEF PowerLoss, PowerLossAfterWrite, Restarted, restarted, ClearSession, Restarts, DeviceStep
    <2>3. ASSUME NEW c \in Chunk, PowerLossAfterSelect(c) PROVE DeviceStep
      BY <1>9, <2>3, ChunkGrows
      DEF PowerLoss, PowerLossAfterSelect, Restarted, restarted, ClearSession,
          RestartsSelected, DeviceStep
    <2> QED
      BY <1>9, <2>1, <2>2, <2>3 DEF PowerLoss
  <1>10. CASE UNCHANGED vars
    BY <1>10, <1>b DEF vars, flashVars, httpVars
  <1> QED
    BY <1>1, <1>2, <1>3, <1>4, <1>5, <1>7, <1>8, <1>9, <1>10 DEF Next, Text

\* Whatever clients send, however a call into the flash fails and whenever the
\* power goes: the running firmware is never overwritten, no rejected image is
\* running or selected, and a firmware on trial has an intact one to go back to.
LEMMA FlashInvariant == Spec => []FlashSafe
  <1>1. Init => FlashSafe
    BY SafeInit DEF Init, HttpInit
  <1>2. TypeOK /\ FlashSafe /\ [Next]_vars => FlashSafe'
    BY IsDeviceStep, SafeStep DEF TypeOK
  <1>3. QED
    BY <1>1, <1>2, Typing, PTL DEF Spec

\* The device is an update service.
THEOREM Implements == Spec => IsService
  <1>1. Init => Service!ServiceInit
    BY SafeInit DEF Init, HttpInit
  <1>2. TypeOK /\ FlashSafe /\ [Next]_vars => [Service!ServiceNext]_(Service!serviceVars)
    BY IsDeviceStep, ServiceStep DEF TypeOK, HttpTypeOK
  <1>3. QED
    BY <1>1, <1>2, Typing, FlashInvariant, PTL DEF Spec, IsService, Service!ServiceSpec

\* The running slot holds a whole image at every reset and between them.
THEOREM AlwaysStarts == Spec => []RunningIsWhole
  <1>1. FlashSafe => RunningIsWhole
    BY DEF FlashSafe
  <1> QED
    BY <1>1, FlashInvariant, PTL

\* At most the selected slot waits for a start or a verdict, and a rejected image
\* neither runs nor is selected.
THEOREM Verdicts == Spec => []VerdictInv
  <1>1. FlashSafe => VerdictInv
    BY DEF FlashSafe
  <1> QED
    BY <1>1, FlashInvariant, PTL

\* A firmware on trial always has an intact one to go back to.
THEOREM WayBack == Spec => []FallbackReady
  <1>1. FlashSafe => FallbackReady
    BY DEF FlashSafe
  <1> QED
    BY <1>1, FlashInvariant, PTL

\* otaEnd is the truth: the step that sends it has selected a slot with a whole
\* image of at least the announced length.
THEOREM EndTruth == Spec => EndMeansInstalled
  <1> DEFINE Told == out'.sent = <<Frame("otaEnd", 0)>> =>
                        /\ boot' = update_partition
                        /\ Whole(slot'[boot'])
                        /\ slot'[boot'].wrote >= Unsigned(ota_size)
                        /\ img'[boot'] = NewState
  <1>1. TypeOK /\ SessionInv /\ [Next]_vars => [Told]_vars
    <2> SUFFICES ASSUME TypeOK, SessionInv, Next, out'.sent = <<Frame("otaEnd", 0)>> PROVE Told
      OBVIOUS
    <2>t. FlashTypeOK /\ HttpTypeOK
      BY DEF TypeOK
    <2>a. \A name, v, ret : Reply(<<Frame(name, v)>>, ret) => name = "otaEnd"
      BY DEF Reply, Frame
    <2>b. \A ret : ~Reply(<<>>, ret)
      BY DEF Reply, Frame
    <2>c. \A f, g, ret : ~Reply(<<f, g>>, ret)
      BY DEF Reply, Frame
    <2>d. \A ret : \A code \in {"otaCancel", "otaError"} : ~Failed(code, ret)
      BY <2>a DEF Failed, ota_error
    <2>1. PICK c \in Chunk : LastChunkInstalled(c)
      <3>1. ~Handshake
        BY <2>a, <2>b DEF Handshake, handshake
      <3>2. ~ReceiveFails /\ ~BadJson /\ ~SizeZero
        BY <2>d DEF ReceiveFails, BadJson, SizeZero
      <3>3. \A n : ~OtaSize(n)
        BY <3>2, <2>c, <2>d DEF OtaSize, size_accepted
      <3>4. \A code \in {"otaCancel", "otaError"} : ~StopCommand(code)
        BY <2>d DEF StopCommand
      <3>5. ~ConfirmApp /\ ~RollbackApp /\ ~RestartEsp /\ ~OtherText /\ ~PowerLoss
        BY <2>b DEF ConfirmApp, RollbackApp, RestartEsp, OtherText, PowerLoss, Restarted,
                    restarted, no_reply
      <3>6. \A c \in Chunk : ~ChunkWritten(c) /\ ~ChunkFails(c) /\ ~LastChunkRefused(c)
        BY <2>a, <2>d DEF ChunkWritten, chunk_written, ChunkFails, LastChunkRefused
      <3>7. ~ChunkIgnored
        BY <2>b DEF ChunkIgnored, no_reply
      <3> QED
        BY <3>1, <3>2, <3>3, <3>4, <3>5, <3>6, <3>7 DEF Next, Text, Binary
    <2>2. /\ ota_started = 1
          /\ esp_ota_write(update_partition, c)
          /\ ~(Unsigned(ota_start_chunk + c.len) < Unsigned(ota_size))
          /\ Whole(slot'[update_partition])
          /\ boot' = update_partition
          /\ img' = [img EXCEPT ![update_partition] = NewState]
      BY <2>1 DEF LastChunkInstalled, write_ota_ws, end_ota_ws, esp_ota_end,
                  esp_ota_set_boot_partition, last_chunk_installed, IsLast
    <2>3. ota_start_chunk = slot[update_partition].wrote
      BY <2>2 DEF SessionInv
    <2>4. ota_start_chunk + c.len \in 0 .. SlotSize
      BY <2>2, <2>3, <2>t DEF esp_ota_write, Chunk, HttpTypeOK
    <2>5. slot'[update_partition].wrote = ota_start_chunk + c.len
      BY <2>2, <2>3, <2>t, AppendedType, ChunkIsPiece DEF esp_ota_write, FlashTypeOK
    <2>6. Unsigned(ota_start_chunk + c.len) = ota_start_chunk + c.len
      BY <2>4, UnsignedSmall
    <2>7. Unsigned(ota_size) \in Int /\ ota_start_chunk + c.len \in Int
      BY <2>4, <2>t, WordAssumption DEF Unsigned, HttpTypeOK
    <2>8. slot'[update_partition].wrote >= Unsigned(ota_size)
      BY <2>2, <2>5, <2>6, <2>7
    <2>9. img'[update_partition] = NewState
      BY <2>2, <2>t DEF FlashTypeOK
    <2> QED
      BY <2>2, <2>8, <2>9
  <1>2. QED
    BY <1>1, Typing, Session, PTL DEF Spec, EndMeansInstalled
=============================================================================
