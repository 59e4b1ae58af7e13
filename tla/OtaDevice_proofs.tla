--------------------------- MODULE OtaDevice_proofs ---------------------------
(* What both devices share: the types of the flash and of the http layer;   *)
(* what a device does to the flash, as a handful of steps; and that these   *)
(* steps keep the flash safe and are those of the update service.           *)
EXTENDS OtaDevice, TLAPS

USE DEF Slots, Other, update_partition

----------------------------------------------------------------------------
(* Types of the flash.                                                      *)

\* Appending a chunk that fits leaves the contents of a slot well formed and
\* moves its write position by the length of the chunk.
LEMMA AppendedType ==
    ASSUME NEW k \in Content, NEW c \in [of : Image \cup {NoImage}, at : Nat, len : Nat],
           k.wrote + c.len <= SlotSize
    PROVE  /\ Appended(k, c) \in Content
           /\ Appended(k, c).wrote = k.wrote + c.len
  BY FlashAssumption DEF Appended, Content

\* A reset keeps the types of the flash, whatever it finds in the slots.
LEMMA ResetType ==
    ASSUME NEW im \in [Slots -> ImgState], NEW b \in Slots, NEW content,
           Reset(im, b, content),
           slot' \in [Slots -> Content]
    PROVE  FlashTypeOK'
  <1>1. boot' \in Slots
    BY DEF Reset, Selected
  <1>2. running' \in Slots
    BY <1>1 DEF Reset
  <1>3. img' \in [Slots -> ImgState]
    BY DEF Reset, StateAfter, ImgState
  <1>4. handle' \in {"open", "closed"} /\ leaked' \in 0 .. MaxLeaks
    BY FlashAssumption DEF Reset
  <1> QED
    BY <1>1, <1>2, <1>3, <1>4 DEF FlashTypeOK

\* A chunk is a piece of a file, like any other.
LEMMA ChunkIsPiece == Chunk \subseteq [of : Image \cup {NoImage}, at : Nat, len : Nat]
  BY DEF Chunk

----------------------------------------------------------------------------
(* Types of the http layer.                                                 *)

\* Frames the http layer builds are frames, and a reply of frames is well typed.
LEMMA FrameIsFrame ==
    ASSUME NEW name \in FrameName, NEW value \in Int
    PROVE  Frame(name, value) \in FrameType
  BY DEF Frame, FrameType

LEMMA ReplyType ==
    ASSUME NEW frames \in Seq(FrameType), NEW ret \in {"OK", "FAIL"}, Reply(frames, ret)
    PROVE  out' \in [sent : Seq(FrameType), ret : {"OK", "FAIL"}]
  BY DEF Reply

\* What a path of the handler does to the http layer keeps its types.
LEMMA HttpTyping ==
    ASSUME HttpTypeOK
    PROVE  /\ \A code \in {"otaCancel", "otaError"}, ret \in {"OK", "FAIL"} :
                 ota_error(code, ret) => HttpTypeOK'
           /\ \A p : handshake(p) => HttpTypeOK'
           /\ \A n \in Int : size_accepted(n) => HttpTypeOK'
           /\ \A len \in Nat : chunk_written(len) => HttpTypeOK'
           /\ \A len \in Nat : last_chunk_installed(len) => HttpTypeOK'
           /\ \A ret \in {"OK", "FAIL"} : no_reply(ret) => HttpTypeOK'
           /\ restarted => HttpTypeOK'
  <1>a. <<>> \in Seq(FrameType)
    OBVIOUS
  <1>b. \A f, g \in FrameType : <<f>> \in Seq(FrameType) /\ <<f, g>> \in Seq(FrameType)
    OBVIOUS
  <1>c. /\ {"otaCancel", "otaError"} \subseteq FrameName
        /\ {"otaEnd", "otaGetChunk", "otaSetChunkSize", "otaCheckRollback"} \subseteq FrameName
    BY DEF FrameName
  <1>d. ClearSession => ota_size' \in Int /\ ota_start_chunk' \in Nat /\ ota_started' \in 0 .. 1
    BY DEF ClearSession
  <1>1. ASSUME NEW code \in {"otaCancel", "otaError"}, NEW ret \in {"OK", "FAIL"},
               ota_error(code, ret)
        PROVE  HttpTypeOK'
    <2>1. <<Frame(code, 0)>> \in Seq(FrameType)
      BY <1>b, <1>c, FrameIsFrame
    <2> QED
      BY <1>1, <2>1, <1>d, ReplyType DEF ota_error, HttpTypeOK
  <1>2. ASSUME NEW p, handshake(p) PROVE HttpTypeOK'
    <2>1. <<Frame("otaCheckRollback", 0)>> \in Seq(FrameType)
      BY <1>b, <1>c, FrameIsFrame
    <2> QED
      BY <1>2, <2>1, <1>a, ReplyType DEF handshake, HttpTypeOK
  <1>3. ASSUME NEW n \in Int, size_accepted(n) PROVE HttpTypeOK'
    <2>1. <<Frame("otaSetChunkSize", ChunkSize), Frame("otaGetChunk", 0)>> \in Seq(FrameType)
      BY <1>b, <1>c, FrameIsFrame, WordAssumption
    <2>2. out' \in [sent : Seq(FrameType), ret : {"OK", "FAIL"}]
      BY <1>3, <2>1, ReplyType DEF size_accepted
    <2> QED
      BY <1>3, <2>2 DEF size_accepted, HttpTypeOK
  <1>4. ASSUME NEW len \in Nat, chunk_written(len) PROVE HttpTypeOK'
    <2>1. ota_start_chunk' \in Nat
      BY <1>4 DEF chunk_written, HttpTypeOK
    <2>2. <<Frame("otaGetChunk", ota_start_chunk')>> \in Seq(FrameType)
      BY <1>b, <1>c, <2>1, FrameIsFrame
    <2> QED
      BY <1>4, <2>1, <2>2, ReplyType DEF chunk_written, HttpTypeOK
  <1>5. ASSUME NEW len \in Nat, last_chunk_installed(len) PROVE HttpTypeOK'
    <2>1. <<Frame("otaEnd", 0)>> \in Seq(FrameType)
      BY <1>b, <1>c, FrameIsFrame
    <2> QED
      BY <1>5, <2>1, <1>d, ReplyType DEF last_chunk_installed, HttpTypeOK
  <1>6. ASSUME NEW ret \in {"OK", "FAIL"}, no_reply(ret) PROVE HttpTypeOK'
    BY <1>6, <1>a, ReplyType DEF no_reply, HttpTypeOK
  <1>7. ASSUME restarted PROVE HttpTypeOK'
    BY <1>7, <1>a, <1>d, ReplyType DEF restarted, HttpTypeOK
  <1> QED
    BY <1>1, <1>2, <1>3, <1>4, <1>5, <1>6, <1>7

----------------------------------------------------------------------------
(* What a device does to the flash.                                         *)

\* What a handler may write at once: a piece of a firmware, or bytes of no file.
Supply ==
    {p \in [of : Image \cup {NoImage}, at : Nat, len : Nat] :
        p.len > 0 /\ (p.of \in Image => p.at + p.len <= ImageSize[p.of])}

\* The slot that does not run takes one more piece of an upload, or none.
Grows ==
    /\ ota_started = 1
    /\ \/ slot' = slot
       \/ \E p \in Supply :
             /\ slot[update_partition].wrote + p.len <= SlotSize
             /\ slot' = [slot EXCEPT ![update_partition] = Appended(@, p)]

\* The steps.
Rests == UNCHANGED <<running, boot, img, slot>> /\ ota_started' \in {ota_started, 0}

Erases ==
    /\ img[running] # "PENDING"
    /\ slot' = [slot EXCEPT ![update_partition] = Erased]
    /\ UNCHANGED <<running, boot, img>>
    /\ ota_started' \in 0 .. 1

Writes == Grows /\ UNCHANGED <<running, boot, img>> /\ ota_started' \in 0 .. 1

Selects ==
    /\ Grows
    /\ Whole(slot'[update_partition])
    /\ running' = running
    /\ boot' = update_partition
    /\ img' = [img EXCEPT ![update_partition] = NewState]
    /\ ota_started' = 0

Confirms == esp_ota_mark_app_valid_cancel_rollback /\ ota_started' = ota_started

RollsBack == esp_ota_mark_app_invalid_rollback_and_reboot /\ ota_started' = 0

Restarts ==
    /\ slot' = slot \/ Grows
    /\ Reset(img, boot, slot')
    /\ ota_started' = 0

RestartsSelected ==
    /\ Grows
    /\ Whole(slot'[update_partition])
    /\ Reset([img EXCEPT ![update_partition] = NewState], update_partition, slot')
    /\ ota_started' = 0

DeviceStep ==
    \/ Rests \/ Erases \/ Writes \/ Selects \/ Confirms \/ RollsBack
    \/ Restarts \/ RestartsSelected

----------------------------------------------------------------------------
(* The flash: what runs is whole, and there is a way back.                  *)

\* The three are inductive only together: that an erase never meets the slot a
\* rollback needs follows from who may be waiting for a verdict.
FlashSafe == RunningIsWhole /\ VerdictInv /\ FallbackReady

\* A reset keeps FlashSafe.  im, b: the OTA data it finds, which may differ from
\* img, boot by a slot just selected; slot': the slots it finds.
LEMMA ResetSafe ==
    ASSUME running \in Slots, NEW im \in [Slots -> ImgState], NEW b \in Slots,
           \A s \in Slots : im[s] \in {"NEW", "PENDING"} => s = b,
           \A s \in {running, b} : im[s] \notin {"INVALID", "ABORTED"},
           im[running] # "NEW",
           im[running] = "PENDING" => /\ b = running
                                      /\ Whole(slot'[Other(b)])
                                      /\ im[Other(b)] \notin {"INVALID", "ABORTED"},
           Whole(slot'[running]),
           Reset(im, b, slot'),
           ota_started' = 0
    PROVE  FlashSafe'
  <1>1. CASE im[b] = "PENDING"
    <2>1. boot' = Other(b)
      BY <1>1 DEF Reset, Selected
    <2>2. /\ img'[b] = "ABORTED"
          /\ img'[Other(b)] = im[Other(b)]
          /\ im[Other(b)] \notin {"NEW", "PENDING"}
      BY <1>1 DEF Reset, Selected, StateAfter
    <2>3. Whole(slot'[Other(b)]) /\ im[Other(b)] \notin {"INVALID", "ABORTED"}
      BY <1>1
    <2>4. running' = Other(b)
      BY <2>1, <2>3 DEF Reset
    <2> QED
      BY <2>1, <2>2, <2>3, <2>4 DEF FlashSafe, RunningIsWhole, VerdictInv, FallbackReady
  <1>2. CASE im[b] # "PENDING"
    <2>1. boot' = b
      BY <1>2 DEF Reset, Selected
    <2>2. /\ img'[b] = IF im[b] = "NEW" THEN "PENDING" ELSE im[b]
          /\ img'[Other(b)] = im[Other(b)]
          /\ im[Other(b)] \notin {"NEW", "PENDING"}
      BY <1>2 DEF Reset, Selected, StateAfter
    <2>3. CASE Whole(slot'[b])
      <3>1. running' = b
        BY <2>1, <2>3 DEF Reset
      <3>2. img'[b] = "PENDING" => Other(b) = running
        BY <1>2, <2>2
      <3>3. img'[b] = "PENDING" => RollbackPossible'
        BY <2>1, <2>2, <3>2 DEF RollbackPossible
      <3> QED
        BY <1>2, <2>1, <2>2, <2>3, <3>1, <3>3
        DEF FlashSafe, RunningIsWhole, VerdictInv, FallbackReady
    <2>4. CASE ~Whole(slot'[b])
      <3>1. running' = Other(b) /\ Other(b) = running
        BY <2>1, <2>4 DEF Reset
      <3> QED
        BY <1>2, <2>1, <2>2, <3>1 DEF FlashSafe, RunningIsWhole, VerdictInv, FallbackReady
    <2> QED
      BY <2>3, <2>4
  <1> QED
    BY <1>1, <1>2

\* A step that leaves the running slot, the OTA data and the running firmware
\* alone, and neither starts a session nor touches the other slot while a
\* verdict is awaited, keeps FlashSafe.
LEMMA QuietSafe ==
    ASSUME running \in Slots, FlashSafe,
           UNCHANGED <<running, boot, img>>,
           slot'[running] = slot[running],
           img[running] = "PENDING" => slot' = slot /\ ota_started' = 0
    PROVE  FlashSafe'
  BY DEF FlashSafe, RunningIsWhole, VerdictInv, FallbackReady, RollbackPossible

\* A piece that is written leaves the running slot alone.
LEMMA GrowsAside ==
    ASSUME FlashTypeOK, Grows
    PROVE  /\ slot'[running] = slot[running]
           /\ slot' = slot \/ \E p \in Supply :
                 /\ slot[Other(running)].wrote + p.len <= SlotSize
                 /\ slot'[Other(running)] = Appended(slot[Other(running)], p)
  BY DEF FlashTypeOK, Grows

\* Every step of a device keeps FlashSafe.
LEMMA SafeStep ==
    ASSUME FlashTypeOK, FlashSafe, DeviceStep
    PROVE  FlashSafe'
  <1>t. /\ running \in Slots /\ boot \in Slots /\ update_partition \in Slots
        /\ img \in [Slots -> ImgState]
        /\ slot \in [Slots -> Content]
        /\ update_partition # running
    BY DEF FlashTypeOK
  <1>c. ASSUME Grows PROVE slot'[running] = slot[running] /\ img[running] # "PENDING"
    BY <1>c, GrowsAside DEF Grows, FlashSafe, FallbackReady
  <1>1. CASE Rests
    BY <1>1, <1>t, QuietSafe DEF Rests, FlashSafe, FallbackReady
  <1>2. CASE Erases
    BY <1>2, <1>t, QuietSafe DEF Erases
  <1>3. CASE Writes
    BY <1>3, <1>c, <1>t, QuietSafe DEF Writes
  <1>4. CASE Selects
    <2>1. NewState \in {"NEW", "UNDEFINED"}
      BY DEF NewState
    <2> QED
      BY <1>4, <1>c, <2>1, <1>t DEF Selects, FlashSafe, RunningIsWhole, VerdictInv, FallbackReady
  <1>5. CASE Confirms
    BY <1>5, <1>t
    DEF Confirms, esp_ota_mark_app_valid_cancel_rollback,
        FlashSafe, RunningIsWhole, VerdictInv, FallbackReady, RollbackPossible
  <1>6. CASE RollsBack
    <2> DEFINE im == [img EXCEPT ![boot] = "INVALID"]
    <2>1. /\ Reset(im, Other(boot), slot) /\ slot' = slot
          /\ Whole(slot[Other(boot)])
          /\ img[Other(boot)] \notin {"INVALID", "ABORTED"}
      BY <1>6 DEF RollsBack, esp_ota_mark_app_invalid_rollback_and_reboot, RollbackPossible
    <2>2. /\ im \in [Slots -> ImgState]
          /\ im[boot] = "INVALID"
          /\ im[Other(boot)] = img[Other(boot)]
          /\ im[Other(boot)] \notin {"NEW", "PENDING"}
      BY <1>t DEF ImgState, FlashSafe, VerdictInv
    <2> HIDE DEF im
    <2>3. boot' = Other(boot) /\ running' = Other(boot)
      BY <2>1, <2>2 DEF Reset, Selected
    <2>4. img' = im
      BY <2>1, <2>2, <1>t DEF Reset, Selected, StateAfter
    <2> QED
      BY <2>1, <2>2, <2>3, <2>4, <1>t
      DEF FlashSafe, RunningIsWhole, VerdictInv, FallbackReady
  <1>7. CASE Restarts
    <2>1. CASE slot' = slot
      BY <1>7, <2>1, <1>t, ResetSafe
      DEF Restarts, FlashSafe, RunningIsWhole, VerdictInv, FallbackReady, RollbackPossible
    <2>2. CASE Grows
      BY <1>7, <2>2, <1>c, <1>t, ResetSafe DEF Restarts, FlashSafe, RunningIsWhole, VerdictInv
    <2> QED
      BY <1>7, <2>1, <2>2 DEF Restarts
  <1>8. CASE RestartsSelected
    <2> DEFINE im == [img EXCEPT ![update_partition] = NewState]
    <2>1. /\ Reset(im, update_partition, slot')
          /\ slot'[running] = slot[running]
          /\ img[running] # "PENDING"
          /\ ota_started' = 0
      BY <1>8, <1>c DEF RestartsSelected
    <2>2. NewState \in {"NEW", "UNDEFINED"} /\ NewState \in ImgState
      BY DEF NewState, ImgState
    <2>3. /\ im \in [Slots -> ImgState]
          /\ im[update_partition] = NewState
          /\ im[running] = img[running]
      BY <2>2, <1>t
    <2> HIDE DEF im
    <2> QED
      BY <2>1, <2>2, <2>3, <1>t, ResetSafe DEF FlashSafe, RunningIsWhole, VerdictInv
  <1> QED
    BY <1>1, <1>2, <1>3, <1>4, <1>5, <1>6, <1>7, <1>8 DEF DeviceStep

\* A device flashed over the cable is safe.
LEMMA SafeInit ==
    ASSUME FlashInit, ota_started = 0
    PROVE  FlashSafe /\ Service!ServiceInit
  BY FlashAssumption
  DEF FlashInit, FlashSafe, RunningIsWhole, VerdictInv, FallbackReady, Whole,
      Service!ServiceInit, Startable, Choice, Erased

----------------------------------------------------------------------------
(* The update service.                                                      *)

\* A piece never damages a whole firmware that lies in the slot, it can only
\* complete one.
LEMMA WriteReceives ==
    ASSUME NEW p \in Supply, NEW k \in Content, NEW state,
           k.wrote + p.len <= SlotSize
    PROVE  /\ Startable(Appended(k, p), state) \in Image \cup {NoImage}
           /\ Startable(k, state) # NoImage =>
                 Startable(Appended(k, p), state) = Startable(k, state)
  <1>1. Startable(Appended(k, p), state) \in Image \cup {NoImage}
    BY DEF Startable, Whole
  <1>2. ASSUME Whole(k) PROVE Whole(Appended(k, p)) /\ Appended(k, p).of = k.of
    <2>1. /\ k.of \in Image /\ k.good = ImageSize[k.of] /\ k.good \in Nat /\ k.wrote \in Nat
          /\ ImageSize[k.of] \in 1 .. SlotSize
      BY <1>2, FlashAssumption DEF Whole, Content
    <2>2. /\ p.at \in Nat /\ p.len \in Nat /\ p.len > 0
          /\ p.of \in Image => p.at + p.len <= ImageSize[p.of]
      BY DEF Supply
    <2>3. ~(k.good = k.wrote /\ p.at = k.wrote /\ (k.wrote = 0 \/ k.of = p.of))
      BY <2>1, <2>2
    <2>4. Appended(k, p) = [k EXCEPT !.wrote = @ + p.len]
      BY <2>3 DEF Appended
    <2> QED
      BY <1>2, <2>4 DEF Whole, Content
  <1>3. ASSUME Startable(k, state) # NoImage
        PROVE  Startable(Appended(k, p), state) = Startable(k, state)
    BY <1>2, <1>3 DEF Startable
  <1> QED
    BY <1>1, <1>3

\* A reset that does not end a trial is a restart of the service, with the OTA
\* data im, b and the slots it finds.
LEMMA ResetRestarts ==
    ASSUME running \in Slots, NEW im \in [Slots -> ImgState], NEW b \in Slots,
           \A s \in Slots : im[s] \in {"NEW", "PENDING"} => s = b,
           \A s \in {running, b} : im[s] \notin {"INVALID", "ABORTED"},
           im[running] \notin {"NEW", "PENDING"},
           slot'[running] = slot[running],
           Whole(slot[running]),
           Reset(im, b, slot'),
           ota_started' = 0
    PROVE  Service!RestartWith(Startable(slot'[Other(running)], im[Other(running)]),
                               Choice(im, b))
  <1> DEFINE o == Other(running)
             other == Startable(slot'[o], im[o])
  <1>t. /\ o \in Slots /\ o # running /\ Other(o) = running
        /\ NoImage \notin Image
    BY FlashAssumption
  <1>1. CASE b = running
    <2>1. boot' = running /\ running' = running
      BY <1>1 DEF Reset, Selected
    <2>2. img'[running] = im[running] /\ img'[o] = im[o]
      BY <1>1, <1>t DEF Reset, Selected, StateAfter
    <2> QED
      BY <1>1, <1>t, <2>1, <2>2 DEF Service!RestartWith, Startable, Choice
  <1>2. CASE b = o /\ im[o] = "PENDING"
    <2>1. boot' = running /\ running' = running
      BY <1>2, <1>t DEF Reset, Selected
    <2>2. img'[running] = im[running] /\ img'[o] = "ABORTED"
      BY <1>2, <1>t DEF Reset, Selected, StateAfter
    <2> QED
      BY <1>2, <1>t, <2>1, <2>2 DEF Service!RestartWith, Startable, Choice
  <1>3. CASE b = o /\ im[o] # "PENDING"
    <2>1. /\ boot' = o
          /\ running' = IF Whole(slot'[o]) THEN o ELSE running
      BY <1>3, <1>t DEF Reset, Selected
    <2>2. /\ img'[running] = im[running]
          /\ img'[o] = IF im[o] = "NEW" THEN "PENDING" ELSE im[o]
      BY <1>3, <1>t DEF Reset, Selected, StateAfter
    <2>3. im[o] \notin {"INVALID", "ABORTED"}
      BY <1>3
    <2>4. Choice(im, b) = IF im[o] = "NEW" THEN "trial" ELSE "outright"
      BY <1>3, <1>t DEF Choice
    <2>5. CASE Whole(slot'[o])
      <3>1. other = slot'[o].of /\ other \in Image
        BY <2>3, <2>5 DEF Startable, Whole
      <3>2. running' = o /\ Other(running') = running
        BY <1>t, <2>1, <2>5
      <3>3. Startable(slot'[running], img'[running]) = slot[running].of
        BY <2>2 DEF Startable
      <3>4. (img'[o] = "PENDING") = (Choice(im, b) = "trial")
        BY <1>3, <2>2, <2>4
      <3>5. Choice(img, boot)' = "no"
        BY <2>1, <3>2 DEF Choice
      <3> QED
        BY <1>t, <2>4, <3>1, <3>2, <3>3, <3>4, <3>5 DEF Service!RestartWith
    <2>6. CASE ~Whole(slot'[o])
      <3>1. other = NoImage /\ Startable(slot'[o], img'[o]) = NoImage
        BY <2>6 DEF Startable
      <3>2. running' = running
        BY <2>1, <2>6
      <3>3. Choice(img, boot)' = IF Choice(im, b) = "outright" THEN "outright" ELSE "no"
        BY <1>3, <1>t, <2>1, <2>2, <2>4, <3>2 DEF Choice
      <3>4. Choice(img, boot)' = IF Choice(im, b) = "outright" THEN Choice(im, b) ELSE "no"
        BY <3>3
      <3> QED
        BY <1>t, <2>2, <3>1, <3>2, <3>4 DEF Service!RestartWith
    <2> QED
      BY <2>5, <2>6
  <1> QED
    BY <1>1, <1>2, <1>3, <1>t

\* Every step of a device is a step of the service or shows nothing of it.
LEMMA ServiceStep ==
    ASSUME FlashTypeOK, ota_started \in 0 .. 1, FlashSafe, DeviceStep
    PROVE  Service!ServiceNext \/ UNCHANGED Service!serviceVars
  <1> DEFINE o == Other(running)
  <1>t. /\ running \in Slots /\ boot \in Slots /\ o \in Slots
        /\ o # running /\ Other(o) = running /\ update_partition = o
        /\ img \in [Slots -> ImgState]
        /\ slot \in [Slots -> Content]
        /\ NoImage \notin Image
        /\ Startable(slot[o], img[o]) \in Image \cup {NoImage}
    BY FlashAssumption DEF FlashTypeOK, Startable, Whole
  <1>s. /\ Whole(slot[running])
        /\ \A s \in Slots : img[s] \in {"NEW", "PENDING"} => s = boot
        /\ img[running] # "NEW"
        /\ \A s \in {running, boot} : img[s] \notin {"INVALID", "ABORTED"}
        /\ img[running] = "PENDING" =>
              /\ boot = running
              /\ Whole(slot[o]) /\ img[o] \notin {"INVALID", "ABORTED"}
              /\ ota_started = 0
    BY DEF FlashSafe, RunningIsWhole, VerdictInv, FallbackReady, RollbackPossible
  <1>c. ASSUME Grows
        PROVE  /\ slot'[running] = slot[running]
               /\ \A state : Startable(slot'[o], state) \in Image \cup {NoImage}
               /\ Startable(slot'[o], img[o]) \in Service!Received
               /\ img[running] # "PENDING" /\ ota_started = 1
    <2>1. \A state : /\ Startable(slot'[o], state) \in Image \cup {NoImage}
                     /\ Startable(slot[o], state) # NoImage =>
                           Startable(slot'[o], state) = Startable(slot[o], state)
      <3>1. CASE slot' = slot
        BY <3>1 DEF Startable, Whole
      <3>2. CASE \E p \in Supply : /\ slot[o].wrote + p.len <= SlotSize
                                   /\ slot'[o] = Appended(slot[o], p)
        BY <3>2, <1>t, WriteReceives
      <3> QED
        BY <1>c, <3>1, <3>2, GrowsAside
    <2> QED
      BY <1>c, <2>1, <1>s, <1>t, GrowsAside DEF Grows, Service!Received
  <1>1. CASE Rests
    BY <1>1, <1>t DEF Rests, Service!Abandon, Service!Received, Service!ServiceNext,
                      Service!serviceVars, Choice
  <1>2. CASE Erases
    <2>1. Startable(slot'[o], img[o]) = NoImage /\ slot'[running] = slot[running]
      BY <1>2, <1>t DEF Erases, Startable, Whole, Erased
    <2> QED
      BY <1>2, <2>1, <1>t
      DEF Erases, Service!Begin, Service!BeginFails, Service!ServiceNext, Choice
  <1>3. CASE Writes
    BY <1>3, <1>c, <1>t
    DEF Writes, Service!Receive, Service!Abandon, Service!ServiceNext, Choice
  <1>4. CASE Selects
    <2>1. /\ img'[o] \in {"NEW", "UNDEFINED"} /\ img'[running] = img[running]
          /\ slot'[running] = slot[running] /\ ota_started = 1
          /\ running' = running /\ boot' = o /\ Whole(slot'[o]) /\ ota_started' = 0
      BY <1>4, <1>c, <1>t DEF Selects, NewState
    <2>2. Startable(slot'[o], img'[o]) = slot'[o].of /\ slot'[o].of \in Image
      BY <2>1 DEF Startable, Whole
    <2>3. Choice(img, boot)' \in {"trial", "outright"}
      BY <2>1, <1>t DEF Choice
    <2> QED
      BY <2>1, <2>2, <2>3, <1>t DEF Service!Install, Service!ServiceNext
  <1>5. CASE Confirms
    <2>1. /\ img' = [img EXCEPT ![boot] = "VALID"]
          /\ UNCHANGED <<running, boot, slot, ota_started>>
      BY <1>5 DEF Confirms, esp_ota_mark_app_valid_cancel_rollback
    <2>2. img'[boot] = "VALID" /\ (boot = running => img'[o] = img[o])
      BY <2>1, <1>t
    <2>3. img'[running] # "PENDING"
      BY <2>1, <2>2, <1>t, <1>s
    <2>4. Startable(slot[o], img'[o]) = Startable(slot[o], img[o])
      BY <2>1, <2>2, <1>t, <1>s DEF Startable
    <2>5. Choice(img, boot)' = IF boot = running THEN "no" ELSE "outright"
      BY <2>1, <2>2 DEF Choice
    <2>6. Choice(img, boot)' \in {Choice(img, boot), "outright"}
      BY <2>5 DEF Choice
    <2>7. img[running] = "PENDING" => Choice(img, boot)' = Choice(img, boot)
      BY <2>5, <1>s DEF Choice
    <2> QED
      BY <2>1, <2>3, <2>4, <2>6, <2>7 DEF Service!Confirm, Service!ServiceNext
  <1>6. CASE RollsBack
    <2> DEFINE im == [img EXCEPT ![boot] = "INVALID"]
    <2>1. /\ Reset(im, Other(boot), slot) /\ slot' = slot
          /\ Whole(slot[Other(boot)])
          /\ img[Other(boot)] \notin {"INVALID", "ABORTED"}
          /\ ota_started' = 0
      BY <1>6 DEF RollsBack, esp_ota_mark_app_invalid_rollback_and_reboot, RollbackPossible
    <2>2. /\ im \in [Slots -> ImgState]
          /\ im[boot] = "INVALID"
          /\ im[Other(boot)] = img[Other(boot)]
          /\ im[Other(boot)] \notin {"NEW", "PENDING"}
      BY <1>t, <1>s DEF ImgState
    <2> HIDE DEF im
    <2>3. boot' = Other(boot) /\ running' = Other(boot)
      BY <2>1, <2>2 DEF Reset, Selected
    <2>4. img' = im
      BY <2>1, <2>2, <1>t DEF Reset, Selected, StateAfter
    <2>5. Other(running') = boot /\ running' \in Slots
      BY <2>3, <1>t
    <2>6. Startable(slot'[boot], img'[boot]) = NoImage
      BY <2>2, <2>4 DEF Startable
    <2>7. Choice(img, boot)' = "no"
      BY <2>3 DEF Choice
    <2>8. img'[running'] # "PENDING"
      BY <2>2, <2>3, <2>4
    <2>9. CASE boot = running
      <3>1. running' = o /\ Startable(slot[o], img[o]) = slot[o].of /\ slot[o].of \in Image
        BY <2>1, <2>3, <2>9 DEF Startable, Whole
      <3>2. Choice(img, boot) = "no"
        BY <2>9 DEF Choice
      <3> QED
        BY <1>t, <2>1, <2>5, <2>6, <2>7, <2>8, <3>1, <3>2
        DEF Service!Rollback, Service!ServiceNext
    <2>10. CASE boot # running
      <3>1. running' = running /\ slot[running].of \in Image /\ img[running] # "PENDING"
        BY <2>3, <2>10, <1>t, <1>s DEF Whole
      <3> QED
        BY <1>t, <2>1, <2>5, <2>6, <2>7, <2>8, <3>1 DEF Service!Rollback, Service!ServiceNext
    <2> QED
      BY <2>9, <2>10
  <1>7. CASE Restarts
    <2>1. CASE img[running] = "PENDING"
      <3>0. slot' = slot /\ Reset(img, boot, slot) /\ ota_started' = 0
        BY <1>7, <1>c, <2>1 DEF Restarts
      <3>1. boot' = o /\ running' = o /\ img'[running] = "ABORTED" /\ img'[o] = img[o]
        BY <3>0, <2>1, <1>t, <1>s DEF Reset, Selected, StateAfter
      <3>2. img[o] # "PENDING" /\ img[o] # "NEW"
        BY <2>1, <1>s, <1>t
      <3>3. Startable(slot[o], img[o]) = slot[o].of /\ slot[o].of \in Image
        BY <2>1, <1>s DEF Startable, Whole
      <3>4. Other(running') = running
        BY <3>1, <1>t
      <3>5. Startable(slot'[running], img'[running]) = NoImage
        BY <3>1 DEF Startable
      <3>6. Choice(img, boot) = "no" /\ Choice(img, boot)' = "no"
        BY <2>1, <3>1, <1>s DEF Choice
      <3>7. ota_started = 0
        BY <2>1, <1>s
      <3> QED
        BY <3>0, <1>t, <2>1, <3>1, <3>2, <3>3, <3>4, <3>5, <3>6, <3>7
        DEF Service!TrialFails, Service!ServiceNext
    <2>2. CASE img[running] # "PENDING"
      <3>1. /\ slot'[running] = slot[running] /\ Reset(img, boot, slot') /\ ota_started' = 0
            /\ (slot' = slot \/ ota_started = 1)
            /\ Startable(slot'[o], img[o]) \in Service!Received
        <4>1. CASE slot' = slot
          BY <1>7, <4>1, <1>t DEF Restarts, Service!Received
        <4>2. CASE Grows
          BY <1>7, <4>2, <1>c DEF Restarts
        <4> QED
          BY <1>7, <4>1, <4>2 DEF Restarts
      <3>2. Service!RestartWith(Startable(slot'[o], img[o]), Choice(img, boot))
        BY <3>1, <2>2, <1>t, <1>s, ResetRestarts
      <3> QED
        BY <2>2, <3>1, <3>2 DEF Service!Restart, Service!ServiceNext
    <2> QED
      BY <2>1, <2>2
  <1>8. CASE RestartsSelected
    <2> DEFINE im == [img EXCEPT ![o] = NewState]
    <2>1. /\ Grows /\ Reset(im, o, slot') /\ Whole(slot'[o]) /\ ota_started' = 0
      BY <1>8, <1>t DEF RestartsSelected
    <2>2. NewState \in {"NEW", "UNDEFINED"} /\ NewState \in ImgState
      BY DEF NewState, ImgState
    <2>3. /\ im \in [Slots -> ImgState]
          /\ im[o] = NewState
          /\ im[running] = img[running]
      BY <2>2, <1>t
    <2> HIDE DEF im
    <2>4. Service!RestartWith(Startable(slot'[o], im[o]), Choice(im, o))
      BY <2>1, <2>2, <2>3, <1>c, <1>t, <1>s, ResetRestarts
    <2>5. Startable(slot'[o], im[o]) \in Image
      BY <2>1, <2>2, <2>3 DEF Startable, Whole
    <2>6. Choice(im, o) \in {"trial", "outright"}
      BY <2>2, <2>3, <1>t DEF Choice
    <2> QED
      BY <2>1, <2>4, <2>5, <2>6, <1>c DEF Service!Restart, Service!ServiceNext
  <1> QED
    BY <1>1, <1>2, <1>3, <1>4, <1>5, <1>6, <1>7, <1>8 DEF DeviceStep
=============================================================================
