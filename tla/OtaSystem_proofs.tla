--------------------------- MODULE OtaSystem_proofs --------------------------
(* What windows and device promise together: for any number of windows that *)
(* whatever they do is what some client of OtaWs may do; for one window,    *)
(* that it tells its user the truth.                                        *)
EXTENDS OtaSystem, OtaWs_proofs, SequenceTheorems

USE DEF Slots, Other, update_partition

----------------------------------------------------------------------------
(* Queues of frames.                                                        *)

Has(q, name) == \E i \in 1 .. Len(q) : q[i].name = name

Once(q, name) ==
    \A i, j \in 1 .. Len(q) : q[i].name = name /\ q[j].name = name => i = j

OnlyFirst(q, name) == \A i \in 1 .. Len(q) : q[i].name = name => i = 1

\* The chunk asked for is the one at from.
Asks(q, from) == \A i \in 1 .. Len(q) : q[i].name = "otaGetChunk" => q[i].value = from

\* A chunk that no cancel will overtake begins at from.
Continues(q, from) ==
    \A i \in 1 .. Len(q) :
        q[i].name = "binary" /\ (\A j \in 1 .. i - 1 : q[j].name # "otaCancel")
            => q[i].chunk.at = from

OfFile(q, file) == \A i \in 1 .. Len(q) : q[i].name = "binary" => q[i].chunk.of = file

\* What is left of the frames s when some are lost.
Remains(r, s) ==
    /\ \A name : Has(r, name) => Has(s, name)
    /\ \A name : Once(s, name) => Once(r, name)
    /\ \A n : Asks(s, n) => Asks(r, n)

----------------------------------------------------------------------------
(* Invariants of any number of windows.                                     *)

\* Frames as they really are: a size is that of a file, and no number that is sent
\* to a page is negative.
ToDevice == {f \in CommandType : f.name = "otaSize" => \E i \in Image : f.value = ImageSize[i]}
ToPage == [name : FrameName, value : Nat]

FramesInv ==
    /\ toDev \in [Page -> Seq(ToDevice)]
    /\ toPage \in [Page -> Seq(ToPage)]
    /\ page \in [Page -> PageType]
    /\ conn \in [Page -> {"open", "closing", "closed"}]

----------------------------------------------------------------------------
(* Invariants of a window that is the only one.                             *)

OneWindow == \A p, q \in Page : p = q

\* A page that was loaded anew is new, its two buttons are never there at once, and
\* it knows of a file before it uploads.
PageInv(p) ==
    /\ conn[p] = "closed" => page[p] = NewPage /\ toPage[p] = <<>>
    /\ page[p].otaReStart = "restart" => page[p].otaStartCancel = "hidden"
    /\ page[p].otaStarted = 1 => Loaded(p)

\* There is one occasion for a verdict: the panel, the frame that will show it, or
\* the verdict itself; and as long as there is it is due.
VerdictToken(p) ==
    /\ Once(toDev[p], "otaProcessRollback")
    /\ Has(toDev[p], "otaProcessRollback") => img[running] = "PENDING"
    /\ OnlyFirst(toPage[p], "otaCheckRollback")
    /\ conn[p] = "open" /\ Has(toPage[p], "otaCheckRollback") => page[p].rollback = "hidden"
    /\ conn[p] = "open" /\ (page[p].rollback = "shown" \/ Has(toPage[p], "otaCheckRollback")) =>
          /\ img[running] = "PENDING"
          /\ ~Has(toDev[p], "otaProcessRollback")

\* A size is sent when nothing else is under way, and no file is read meanwhile.
SizeInv(p) ==
    /\ page[p].otaStarted = 1 => \A i \in Image : page[p].reading[i] = 0
    /\ OnlyFirst(toDev[p], "otaSize")
    /\ Has(toDev[p], "otaSize") =>
          /\ ~Has(toDev[p], "binary")
          /\ conn[p] = "open" =>
                /\ toPage[p] = <<>>
                /\ page[p].otaReStart # "restart"
                /\ ~Has(toDev[p], "otaCancel") =>
                      /\ page[p].otaStarted = 1
                      /\ Head(toDev[p]).value = ImageSize[page[p].otaData]

Ready ==
    /\ boot = update_partition
    /\ Whole(slot[boot])
    /\ img[boot] = NewState

\* From the otaEnd on, and until another file is read, the new firmware is there.
EndInv(p) ==
    conn[p] = "open" /\ (page[p].otaReStart = "restart" \/ Has(toPage[p], "otaEnd")) =>
        Ready /\ ota_started = 0

\* One frame keeps an upload going: the size, the request for a chunk, or the chunk.
ChunkToken(p) ==
    /\ Once(toDev[p], "binary")
    /\ Once(toPage[p], "otaGetChunk")
    /\ conn[p] = "open" => ~(Has(toDev[p], "binary") /\ Has(toPage[p], "otaGetChunk"))

\* While a session is on nothing on its way to the page says that it is over.
SessionOn(p) ==
    conn[p] = "open" /\ ota_started = 1 =>
        ~Has(toPage[p], "otaCancel") /\ ~Has(toPage[p], "otaError") /\ ~Has(toPage[p], "otaEnd")

\* What page, device and frames take a running upload to be, until it is cancelled.
UploadInv(p) ==
    /\ conn[p] = "open" /\ page[p].otaStarted = 1 => ~Has(toDev[p], "otaCancel")
    /\ conn[p] = "open" /\ ota_started = 1 /\ ~Has(toDev[p], "otaCancel") =>
          /\ Asks(toPage[p], ota_start_chunk)
          /\ Has(toPage[p], "otaGetChunk") \/ Has(toDev[p], "binary") =>
                page[p].otaStarted = 1 /\ ota_size = ImageSize[page[p].otaData]
    /\ ota_started = 1 => Continues(toDev[p], ota_start_chunk)

\* Of an upload the page shows as running, what is under way and in the flash is of
\* the file whose data the page holds.
FileInv(p) ==
    conn[p] = "open" /\ page[p].otaStarted = 1 =>
        /\ OfFile(toDev[p], page[p].otaData)
        /\ ota_started = 1 /\ ~Has(toDev[p], "otaSize") =>
              slot[update_partition].of \in {NoImage, page[p].otaData}

----------------------------------------------------------------------------
(* What a run of the handler comes to.                                      *)

\* An update is stopped, or an attempt to begin one has failed.
Stopped(f) ==
    /\ ota_started' = 0
    /\ UNCHANGED <<running, boot, img>>
    /\ \/ /\ f.name = "otaCancel"
          /\ slot' = slot
          /\ out' = [sent |-> <<Frame("otaCancel", 0)>>, ret |-> "OK"]
       \/ /\ f.name \in {"otaSize", "binary"}
          /\ out' = [sent |-> <<Frame("otaError", 0)>>, ret |-> "FAIL"]

Begun(f) ==
    /\ f.name = "otaSize"
    /\ ota_started' = 1 /\ ota_start_chunk' = 0 /\ ota_size' = f.value
    /\ slot' = [slot EXCEPT ![update_partition] = Erased]
    /\ UNCHANGED <<running, boot, img>>
    /\ out' = [sent |-> <<Frame("otaSetChunkSize", ChunkSize), Frame("otaGetChunk", 0)>>,
               ret |-> "OK"]

Written(f) ==
    /\ f.name = "binary"
    /\ ota_started = 1 /\ ota_started' = 1
    /\ ota_start_chunk' = ota_start_chunk + f.chunk.len /\ ota_size' = ota_size
    /\ slot' = [slot EXCEPT ![update_partition] = Appended(@, f.chunk)]
    /\ UNCHANGED <<running, boot, img>>
    /\ out' = [sent |-> <<Frame("otaGetChunk", ota_start_chunk')>>, ret |-> "OK"]

Installed(f) ==
    /\ f.name = "binary"
    /\ ota_started = 1 /\ ota_started' = 0
    /\ slot' = [slot EXCEPT ![update_partition] = Appended(@, f.chunk)]
    /\ Whole(slot'[update_partition])
    /\ running' = running
    /\ boot' = update_partition
    /\ img' = [img EXCEPT ![update_partition] = NewState]
    /\ out' = [sent |-> <<Frame("otaEnd", 0)>>, ret |-> "OK"]

Judged(f) ==
    /\ f.name = "otaProcessRollback"
    /\ UNCHANGED <<running, boot, slot, ota_started, ota_start_chunk, ota_size>>
    /\ \/ img' = [img EXCEPT ![boot] = "VALID"] /\ out' = [sent |-> <<>>, ret |-> "OK"]
       \/ img' = img /\ out' = [sent |-> <<>>, ret |-> "FAIL"]

Ignored(f) ==
    /\ f.name = "binary"
    /\ ota_started = 0
    /\ UNCHANGED <<running, boot, img, slot, ota_started, ota_start_chunk, ota_size>>
    /\ out' = [sent |-> <<>>, ret |-> "OK"]

Answer(f) == Stopped(f) \/ Begun(f) \/ Written(f) \/ Installed(f) \/ Judged(f) \/ Ignored(f)

\* The length of a file is a size atoi gets right, and not 0.
LEMMA FileSize ==
    ASSUME NEW i \in Image
    PROVE  ImageSize[i] \in SizeValues /\ ImageSize[i] \in 1 .. SlotSize
  BY PageAssumption, FlashAssumption

\* A frame is answered in one of these ways, or the device restarts.
LEMMA HandleCases ==
    ASSUME NEW p \in Page, NEW f \in ToDevice, Handle(p, f)
    PROVE  \/ Answered(p) /\ Answer(f)
           \/ /\ AllCut /\ ota_started' = 0 /\ out'.sent = <<>>
              /\ f.name \in {"otaProcessRollback", "otaRestartEsp"}
  <1>a. ASSUME NEW code, NEW ret, Failed(code, ret)
        PROVE  ota_started' = 0 /\ out' = [sent |-> <<Frame(code, 0)>>, ret |-> ret]
    BY <1>a DEF Failed, ota_error, ClearSession, Reply
  <1>1. CASE f.name = "otaSize" /\ OtaSize(f.value) /\ Answered(p)
    <2>1. f.value # 0
      BY <1>1, FileSize DEF ToDevice
    <2>2. CASE start_ota_ws /\ size_accepted(f.value)
      <3>1. Begun(f)
        BY <1>1, <2>2 DEF start_ota_ws, esp_ota_begin, esp_ota_begin_as, size_accepted, Reply, Begun
      <3> QED
        BY <1>1, <3>1 DEF Answer
    <2>3. CASE start_ota_ws_fails /\ Failed("otaError", "FAIL")
      <3>1. Stopped(f)
        BY <1>1, <2>3, <1>a DEF start_ota_ws_fails, Stopped
      <3> QED
        BY <1>1, <3>1 DEF Answer
    <2> QED
      BY <1>1, <2>1, <2>2, <2>3 DEF OtaSize
  <1>2. CASE f.name = "otaCancel" /\ StopCommand("otaCancel") /\ Answered(p)
    <2>1. Stopped(f)
      BY <1>2, <1>a DEF StopCommand, Stopped
    <2> QED
      BY <1>2, <2>1 DEF Answer
  <1>3. CASE f.name = "otaProcessRollback" /\ ConfirmApp /\ Answered(p)
    <2>1. Judged(f)
      BY <1>3 DEF ConfirmApp, rollback_ota_ws_confirm, esp_ota_mark_app_valid_cancel_rollback,
                  rollback_ota_ws_fails, no_reply, Reply, espVars, flashVars, Judged
    <2> QED
      BY <1>3, <2>1 DEF Answer
  <1>4. CASE /\ f.name = "otaProcessRollback"
             /\ rollback_ota_ws_fails /\ no_reply("FAIL") /\ Answered(p)
    <2>1. Judged(f)
      BY <1>4 DEF rollback_ota_ws_fails, no_reply, Reply, espVars, flashVars, Judged
    <2> QED
      BY <1>4, <2>1 DEF Answer
  <1>5. CASE f.name = "otaProcessRollback" /\ rollback_ota_ws_rollback /\ restarted /\ AllCut
    BY <1>5 DEF restarted, ClearSession, Reply
  <1>6. CASE f.name = "otaRestartEsp" /\ RestartEsp /\ AllCut
    BY <1>6 DEF RestartEsp, Restarted, restarted, ClearSession, Reply
  <1>7. CASE f.name = "binary" /\ Binary(f.chunk) /\ Answered(p)
    <2> DEFINE c == f.chunk
    <2>1. CASE ChunkWritten(c)
      <3>1. Written(f)
        BY <1>7, <2>1 DEF ChunkWritten, write_ota_ws, esp_ota_write, chunk_written, Reply, Written
      <3> QED
        BY <1>7, <3>1 DEF Answer
    <2>2. CASE ChunkFails(c)
      <3>1. Stopped(f)
        BY <1>7, <2>2, <1>a DEF ChunkFails, Stopped
      <3> QED
        BY <1>7, <3>1 DEF Answer
    <2>3. CASE LastChunkInstalled(c)
      <3>1. Installed(f)
        BY <1>7, <2>3
        DEF LastChunkInstalled, write_ota_ws, esp_ota_write, end_ota_ws, esp_ota_end,
            esp_ota_set_boot_partition, last_chunk_installed, ClearSession, Reply, Installed
      <3> QED
        BY <1>7, <3>1 DEF Answer
    <2>4. CASE LastChunkRefused(c)
      <3>1. Stopped(f)
        BY <1>7, <2>4, <1>a DEF LastChunkRefused, end_ota_ws_fails, Stopped
      <3> QED
        BY <1>7, <3>1 DEF Answer
    <2>5. CASE ChunkIgnored
      <3>1. Ignored(f)
        BY <1>7, <2>5 DEF ChunkIgnored, no_reply, Reply, espVars, flashVars, Ignored
      <3> QED
        BY <1>7, <3>1 DEF Answer
    <2> QED
      BY <1>7, <2>1, <2>2, <2>3, <2>4, <2>5 DEF Binary
  <1> QED
    BY <1>1, <1>2, <1>3, <1>4, <1>5, <1>6, <1>7 DEF Handle

\* A lost frame stops the update.
LEMMA LostCase ==
    ASSUME ReceiveFails
    PROVE  /\ UNCHANGED <<running, boot, img, slot>>
           /\ ota_started' = 0
           /\ out' = [sent |-> <<Frame("otaError", 0)>>, ret |-> "FAIL"]
  BY DEF ReceiveFails, Failed, ota_error, ClearSession, Reply

\* A new client is told of a firmware on trial.
LEMMA HandshakeCase ==
    ASSUME Handshake
    PROVE  /\ UNCHANGED <<running, boot, img, slot, ota_started, ota_start_chunk, ota_size>>
           /\ \/ out' = [sent |-> <<>>, ret |-> "OK"]
              \/ /\ img[running] = "PENDING"
                 /\ out' = [sent |-> <<Frame("otaCheckRollback", 0)>>, ret |-> "OK"]
  BY DEF Handshake, handshake, check_ota_ws_rollback_enable, Reply, espVars, flashVars

\* What a chunk frame holds.
LEMMA BinaryChunk ==
    ASSUME NEW f \in ToDevice, f.name = "binary"
    PROVE  /\ f.chunk \in Chunk
           /\ f.chunk.of \in Image /\ f.chunk.at \in Nat /\ f.chunk.len \in Nat
  <1>1. f.chunk \in Chunk
    BY DEF ToDevice, CommandType, CommandName
  <1> QED
    BY <1>1, FlashAssumption DEF Chunk

\* What a page is sent is fit for one.
LEMMA Replies ==
    ASSUME TypeOK,
           \/ Handshake \/ ReceiveFails
           \/ \E f \in ToDevice : Answer(f)
    PROVE  out'.sent \in Seq(ToPage) /\ out'.ret \in {"OK", "FAIL"}
  <1>1. /\ \A n \in Nat : Frame("otaGetChunk", n) \in ToPage
        /\ Frame("otaSetChunkSize", ChunkSize) \in ToPage
        /\ Frame("otaError", 0) \in ToPage /\ Frame("otaCancel", 0) \in ToPage
        /\ Frame("otaEnd", 0) \in ToPage /\ Frame("otaCheckRollback", 0) \in ToPage
    BY WordAssumption DEF Frame, ToPage, FrameName
  <1>2. /\ <<>> \in Seq(ToPage)
        /\ \A g, h \in ToPage : <<g>> \in Seq(ToPage) /\ <<g, h>> \in Seq(ToPage)
    OBVIOUS
  <1>a. \A frames \in Seq(ToPage), ret \in {"OK", "FAIL"} :
           out' = [sent |-> frames, ret |-> ret]
             => out'.sent \in Seq(ToPage) /\ out'.ret \in {"OK", "FAIL"}
    OBVIOUS
  <1>b. /\ <<Frame("otaError", 0)>> \in Seq(ToPage)
        /\ <<Frame("otaCancel", 0)>> \in Seq(ToPage)
        /\ <<Frame("otaCheckRollback", 0)>> \in Seq(ToPage)
    BY <1>1, <1>2
  <1>3. CASE ReceiveFails
    BY <1>3, <1>a, <1>b, LostCase
  <1>4. CASE Handshake
    BY <1>4, <1>2, <1>a, <1>b, HandshakeCase
  <1>5. ASSUME NEW f \in ToDevice, Answer(f)
        PROVE  out'.sent \in Seq(ToPage) /\ out'.ret \in {"OK", "FAIL"}
    <2>1. CASE Stopped(f)
      BY <2>1, <1>a, <1>b DEF Stopped
    <2>2. CASE Begun(f)
      BY <2>2, <1>1, <1>2 DEF Begun
    <2>3. CASE Written(f)
      <3>1. ota_start_chunk' \in Nat
        BY <2>3, BinaryChunk DEF Written, TypeOK, HttpTypeOK
      <3> QED
        BY <2>3, <3>1, <1>1, <1>2 DEF Written
    <2>4. CASE Installed(f)
      BY <2>4, <1>1, <1>2 DEF Installed
    <2>5. CASE Judged(f)
      BY <2>5, <1>2, <1>a DEF Judged
    <2>6. CASE Ignored(f)
      BY <2>6, <1>2 DEF Ignored
    <2> QED
      BY <1>5, <2>1, <2>2, <2>3, <2>4, <2>5, <2>6 DEF Answer
  <1> QED
    BY <1>3, <1>4, <1>5

----------------------------------------------------------------------------
(* The device within the system.                                            *)

LEMMA HeadIsFrame ==
    ASSUME FramesInv, NEW p \in Page
    PROVE  /\ toDev[p] # <<>> => Head(toDev[p]) \in ToDevice
           /\ toPage[p] # <<>> => Head(toPage[p]) \in ToPage
  BY HeadTailProperties DEF FramesInv

\* Whatever happens in the windows, the device does what it may do for some client.
LEMMA DeviceStepOrNone == ASSUME FramesInv, [SysNext]_sysVars PROVE [Next]_vars
  <1>1. ASSUME NEW p \in Page, DeviceHandles(p) PROVE Next
    <2> DEFINE f == Head(toDev[p])
    <2>1. f \in ToDevice /\ Handle(p, f)
      BY <1>1, HeadIsFrame DEF DeviceHandles
    <2> HIDE DEF f
    <2>2. f.name = "otaSize" => f.value \in SizeValues
      BY <2>1, FileSize DEF ToDevice
    <2>3. f.name = "binary" => f.chunk \in Chunk
      BY <2>1, BinaryChunk
    <2> QED
      BY <2>1, <2>2, <2>3 DEF Handle, RollbackApp, Text, Next
  <1>2. ASSUME NEW p \in Page, FrameLost(p) PROVE Next
    BY <1>2 DEF FrameLost, Next
  <1>3. ASSUME NEW p \in Page, Connect(p) PROVE Next
    BY <1>3 DEF Connect, Next
  <1>4. ASSUME NEW p \in Page, Disconnect(p) PROVE UNCHANGED vars
    BY <1>4 DEF Disconnect
  <1>5. CASE PowerFails
    <2>1. CASE PowerLossIdle
      BY <1>5, <2>1 DEF PowerFails, PowerLoss, Next
    <2>2. ASSUME NEW p \in Page, toDev[p] # <<>>, Head(toDev[p]).name = "binary",
                 \/ PowerLossAfterWrite(Head(toDev[p]).chunk)
                 \/ PowerLossAfterSelect(Head(toDev[p]).chunk)
          PROVE  Next
      <3>1. Head(toDev[p]).chunk \in Chunk
        BY <2>2, HeadIsFrame, BinaryChunk
      <3> QED
        BY <1>5, <2>2, <3>1 DEF PowerFails, PowerLoss, Next
    <2> QED
      BY <1>5, <2>1, <2>2 DEF PowerFails
  <1>6. CASE UNCHANGED sysVars
    BY <1>6 DEF sysVars
  <1> QED
    BY <1>1, <1>2, <1>3, <1>4, <1>5, <1>6 DEF SysNext

----------------------------------------------------------------------------
(* Types of the windows.                                                    *)

\* The page asks its file for a piece of it.
LEMMA SubarrayIsChunk ==
    ASSUME NEW i \in Image, NEW from \in Nat, NEW size \in Nat
    PROVE  /\ Subarray(i, from, size) \in Chunk
           /\ Subarray(i, from, size).of = i
           /\ from <= ImageSize[i] => Subarray(i, from, size).at = from
  BY FileSize, FlashAssumption DEF Subarray, Chunk

LEMMA SentTyping ==
    ASSUME FramesInv, NEW p \in Page, NEW f \in ToDevice, Sent(p, f)
    PROVE  toDev' \in [Page -> Seq(ToDevice)]
  BY DEF FramesInv, Sent

LEMMA CommandIsFrame ==
    /\ \A i \in Image : Command("otaSize", ImageSize[i]) \in ToDevice
    /\ \A name \in {"otaCancel", "otaProcessRollback", "otaRestartEsp"}, v \in 0 .. 1 :
          Command(name, v) \in ToDevice
    /\ \A c \in Chunk : BinaryFrame(c) \in ToDevice
  BY FileSize DEF Command, BinaryFrame, ToDevice, CommandType, CommandName

\* What becomes of the frames of a handler.
LEMMA DeliveredFrames ==
    ASSUME NEW s \in Seq(ToPage), NEW r \in Delivered(s)
    PROVE  r \in Seq(ToPage) /\ Remains(r, s)
  <1>1. r = s \/ r = <<>> \/ \E i \in 1 .. Len(s) : r = <<s[i]>>
    BY DEF Delivered
  <1>2. CASE r = s
    BY <1>2 DEF Remains
  <1>3. CASE r = <<>>
    BY <1>3 DEF Remains, Has, Once, Asks
  <1>4. ASSUME NEW i \in 1 .. Len(s), r = <<s[i]>> PROVE r \in Seq(ToPage) /\ Remains(r, s)
    <2>1. s[i] \in ToPage
      OBVIOUS
    <2>2. Len(r) = 1 /\ r[1] = s[i]
      BY <1>4
    <2> QED
      BY <1>4, <2>1, <2>2 DEF Remains, Has, Once, Asks
  <1> QED
    BY <1>1, <1>2, <1>3, <1>4

\* At most one frame: it comes or it does not.
LEMMA DeliveredOne ==
    ASSUME NEW s, NEW r, r \in Delivered(s)
    PROVE  /\ s = <<>> => r = <<>>
           /\ \A g : s = <<g>> => r = <<>> \/ r = <<g>>
  BY DEF Delivered

\* What callbacks assign to the variables of the script.
LEMMA PageUpdates ==
    ASSUME NEW g \in PageType
    PROVE  /\ [g EXCEPT !.otaStarted = 0] \in PageType
           /\ [g EXCEPT !.otaStarted = 1] \in PageType
           /\ [g EXCEPT !.rollback = "shown"] \in PageType
           /\ [g EXCEPT !.rollback = "hidden"] \in PageType
           /\ \A n \in Nat : [g EXCEPT !.otaSetChunkSize = n] \in PageType
           /\ [g EXCEPT !.otaStarted = 0, !.otaStartCancel = "hidden", !.otaReStart = "restart"]
                 \in PageType
           /\ [g EXCEPT !.otaStarted = 0, !.otaStartCancel = "shown", !.otaReStart = "cancelled"]
                 \in PageType
  <1>2. [g EXCEPT !.otaStarted = 0] \in PageType
    BY DEF PageType
  <1>3. [g EXCEPT !.otaStarted = 1] \in PageType
    <2>1. ASSUME NEW T, NEW R,
                 NEW h \in [otaData : T, fileName : T, reading : R, otaSetChunkSize : Nat,
                            otaStarted : 0 .. 1, rollback : {"shown", "hidden"},
                            otaStartCancel : {"shown", "hidden"},
                            otaReStart : {"hidden", "restart", "cancelled"}]
          PROVE  [h EXCEPT !.otaStarted = 1] \in
                   [otaData : T, fileName : T, reading : R, otaSetChunkSize : Nat,
                    otaStarted : 0 .. 1, rollback : {"shown", "hidden"},
                    otaStartCancel : {"shown", "hidden"},
                    otaReStart : {"hidden", "restart", "cancelled"}]
      OBVIOUS
    <2> QED
      BY <2>1 DEF PageType
  <1>4. ASSUME NEW start \in {"shown", "hidden"}, NEW restart \in {"restart", "cancelled"}
        PROVE  [g EXCEPT !.otaStarted = 0, !.otaStartCancel = start, !.otaReStart = restart]
                   \in PageType
    <2>1. ASSUME NEW h \in PageType PROVE [h EXCEPT !.otaStartCancel = start] \in PageType
      BY DEF PageType
    <2>2. ASSUME NEW h \in PageType PROVE [h EXCEPT !.otaReStart = restart] \in PageType
      BY DEF PageType
    <2>3. [g EXCEPT !.otaStarted = 0, !.otaStartCancel = start, !.otaReStart = restart]
            = [[[g EXCEPT !.otaStarted = 0] EXCEPT !.otaStartCancel = start]
                  EXCEPT !.otaReStart = restart]
      OBVIOUS
    <2> QED
      BY <1>2, <2>1, <2>2, <2>3
  <1>5. [g EXCEPT !.rollback = "shown"] \in PageType
    BY DEF PageType
  <1>6. [g EXCEPT !.rollback = "hidden"] \in PageType
    BY DEF PageType
  <1>7. \A n \in Nat : [g EXCEPT !.otaSetChunkSize = n] \in PageType
    BY DEF PageType
  <1> QED
    BY <1>2, <1>3, <1>4, <1>5, <1>6, <1>7

LEMMA NewPageType == NewPage \in PageType
  <1>1. [i \in Image |-> 0] \in [Image -> 0 .. MaxReaders]
    BY PageAssumption
  <1> QED
    BY <1>1 DEF NewPage, PageType

\* What a file picked, and the callbacks of its FileReader, make of the page.
Picked(g, i) ==
    [[g EXCEPT !.fileName = i] EXCEPT !.reading = [g.reading EXCEPT ![i] = @ + 1]]
ReadOff(g, i) == [g EXCEPT !.reading = [g.reading EXCEPT ![i] = @ - 1]]
Loads(g, i) ==
    [[[ReadOff(g, i) EXCEPT !.otaData = i] EXCEPT !.otaStartCancel = "shown"]
        EXCEPT !.otaReStart = "hidden"]

LEMMA ReaderUpdates ==
    ASSUME NEW g \in PageType, NEW i \in Image
    PROVE  /\ g.reading[i] < MaxReaders => Picked(g, i) \in PageType
           /\ g.reading[i] > 0 => ReadOff(g, i) \in PageType /\ Loads(g, i) \in PageType
  <1> DEFINE R == [Image -> 0 .. MaxReaders]
  <1>1. MaxReaders \in Nat /\ g.reading \in R
    BY PageAssumption DEF PageType
  <1>2. /\ g.reading[i] < MaxReaders => [g.reading EXCEPT ![i] = @ + 1] \in R
        /\ g.reading[i] > 0 => [g.reading EXCEPT ![i] = @ - 1] \in R
    <2> SUFFICES ASSUME NEW r, r = g.reading, r \in R
                 PROVE  /\ r[i] < MaxReaders => [r EXCEPT ![i] = @ + 1] \in R
                        /\ r[i] > 0 => [r EXCEPT ![i] = @ - 1] \in R
      BY <1>1
    <2> QED
      BY <1>1
  <1>3. ASSUME NEW r \in R, NEW h \in PageType PROVE [h EXCEPT !.reading = r] \in PageType
    BY DEF PageType
  <1>4. ASSUME NEW h \in PageType
        PROVE  /\ [h EXCEPT !.fileName = i] \in PageType
               /\ [h EXCEPT !.otaData = i] \in PageType
               /\ [h EXCEPT !.otaStartCancel = "shown"] \in PageType
               /\ [h EXCEPT !.otaReStart = "hidden"] \in PageType
    <2>1. [h EXCEPT !.fileName = i] \in PageType /\ [h EXCEPT !.otaData = i] \in PageType
      BY DEF PageType
    <2>2. [h EXCEPT !.otaStartCancel = "shown"] \in PageType
      BY DEF PageType
    <2>3. [h EXCEPT !.otaReStart = "hidden"] \in PageType
      BY DEF PageType
    <2> QED
      BY <2>1, <2>2, <2>3
  <1> HIDE DEF R
  <1>5. g.reading[i] < MaxReaders => Picked(g, i) \in PageType
    BY <1>2, <1>3, <1>4 DEF Picked
  <1>6. ASSUME g.reading[i] > 0 PROVE ReadOff(g, i) \in PageType /\ Loads(g, i) \in PageType
    <2>1. ReadOff(g, i) \in PageType
      BY <1>2, <1>3, <1>6 DEF ReadOff
    <2> QED
      BY <2>1, <1>4 DEF Loads
  <1> QED
    BY <1>5, <1>6

LEMMA ReaderSteps ==
    ASSUME FramesInv, NEW p \in Page, NEW i \in Image
    PROVE  /\ SelectFile(p, i) => page' = [page EXCEPT ![p] = Picked(page[p], i)]
           /\ FileRead(p, i) => page' = [page EXCEPT ![p] = Loads(page[p], i)]
           /\ FileFails(p, i) => page' = [page EXCEPT ![p] = ReadOff(page[p], i)]
  <1>1. page[p] \in PageType
    BY DEF FramesInv
  <1>2. SelectFile(p, i) => page' = [page EXCEPT ![p] = Picked(page[p], i)]
    BY <1>1 DEF SelectFile, Picked, PageType
  <1>3. FileRead(p, i) => page' = [page EXCEPT ![p] = Loads(page[p], i)]
    <2>1. ASSUME NEW g
          PROVE  Loads(g, i) = [g EXCEPT !.otaData = i, !.reading[i] = @ - 1,
                                         !.otaStartCancel = "shown", !.otaReStart = "hidden"]
      BY DEF Loads, ReadOff
    <2> QED
      BY <2>1 DEF FileRead
  <1>4. FileFails(p, i) => page' = [page EXCEPT ![p] = ReadOff(page[p], i)]
    BY <1>1 DEF FileFails, ReadOff, PageType
  <1> QED
    BY <1>2, <1>3, <1>4

\* The frames and the pages keep their types.
LEMMA FramesStep ==
    ASSUME TypeOK, FramesInv, [SysNext]_sysVars
    PROVE  FramesInv'
  <1>t. /\ toDev \in [Page -> Seq(ToDevice)]
        /\ toPage \in [Page -> Seq(ToPage)]
        /\ page \in [Page -> PageType]
        /\ conn \in [Page -> {"open", "closing", "closed"}]
    BY DEF FramesInv
  <1>n. NewPage \in PageType
    BY NewPageType
  <1>1. ASSUME NEW p \in Page, PageStep(p) PROVE FramesInv'
    <2>1. ASSUME NEW i \in Image, SelectFile(p, i) \/ FileRead(p, i) \/ FileFails(p, i)
          PROVE  FramesInv'
      <3>1. PICK g \in PageType : page' = [page EXCEPT ![p] = g]
        <4>t. page[p] \in PageType
          BY <1>t
        <4>1. CASE SelectFile(p, i)
          <5>1. Picked(page[p], i) \in PageType
            BY <4>1, <4>t, ReaderUpdates DEF SelectFile
          <5> QED
            BY <4>1, <5>1, ReaderSteps
        <4>2. CASE FileRead(p, i)
          <5>1. Loads(page[p], i) \in PageType
            BY <4>2, <4>t, ReaderUpdates DEF FileRead
          <5> QED
            BY <4>2, <5>1, ReaderSteps
        <4>3. CASE FileFails(p, i)
          <5>1. ReadOff(page[p], i) \in PageType
            BY <4>3, <4>t, ReaderUpdates DEF FileFails
          <5> QED
            BY <4>3, <5>1, ReaderSteps
        <4> QED
          BY <2>1, <4>1, <4>2, <4>3
      <3>2. UNCHANGED <<conn, toDev, toPage>>
        BY <2>1 DEF SelectFile, FileRead, FileFails
      <3> QED
        BY <3>1, <3>2, <1>t DEF FramesInv
    <2>3. CASE ClickStart(p)
      <3>1. page[p].otaData \in Image
        BY <2>3, <1>t DEF ClickStart, Loaded, PageType
      <3>2. toDev' \in [Page -> Seq(ToDevice)]
        BY <2>3, <3>1, CommandIsFrame, SentTyping DEF ClickStart
      <3> QED
        BY <2>3, <3>2, <1>t, PageUpdates DEF ClickStart, FramesInv
    <2>4. CASE ClickCancel(p)
      <3>1. toDev' \in [Page -> Seq(ToDevice)]
        BY <2>4, CommandIsFrame, SentTyping DEF ClickCancel
      <3> QED
        BY <2>4, <3>1, <1>t, PageUpdates DEF ClickCancel, FramesInv
    <2>5. CASE ClickReStart(p)
      <3>1. toDev' \in [Page -> Seq(ToDevice)]
        BY <2>5, CommandIsFrame, SentTyping DEF ClickReStart
      <3> QED
        BY <2>5, <3>1, <1>t DEF ClickReStart, FramesInv
    <2>6. CASE ClickVerdict(p)
      <3>1. toDev' \in [Page -> Seq(ToDevice)]
        BY <2>6, CommandIsFrame, SentTyping DEF ClickVerdict
      <3> QED
        BY <2>6, <3>1, <1>t, PageUpdates DEF ClickVerdict, FramesInv
    <2>7. CASE GoHome(p) \/ Reload(p)
      <3>1. <<>> \in Seq(ToPage)
        OBVIOUS
      <3> QED
        BY <2>7, <3>1, <1>t, <1>n DEF GoHome, Reload, FramesInv
    <2>8. CASE PageReceives(p)
      <3> DEFINE f == Head(toPage[p])
      <3>1. f \in ToPage /\ Tail(toPage[p]) \in Seq(ToPage)
        BY <2>8, <1>t, HeadTailProperties DEF PageReceives
      <3>2. toPage' \in [Page -> Seq(ToPage)] /\ conn' = conn /\ Receive(p, f)
        BY <2>8, <3>1, <1>t DEF PageReceives
      <3>3. f.value \in Nat
        BY <3>1 DEF ToPage
      <3> HIDE DEF f
      <3>4. page' \in [Page -> PageType] /\ toDev' \in [Page -> Seq(ToDevice)]
        <4>1. CASE f.name = "otaGetChunk" /\ SendChunk(p, f.value)
          <5>1. CASE Loaded(p)
            <6> DEFINE c == Subarray(page[p].otaData, f.value, page[p].otaSetChunkSize)
            <6>1. page[p].otaData \in Image /\ page[p].otaSetChunkSize \in Nat
              BY <5>1, <1>t DEF Loaded, PageType
            <6>2. c \in Chunk
              BY <6>1, <3>3, SubarrayIsChunk
            <6>3. Sent(p, BinaryFrame(c)) /\ page' = page
              BY <4>1, <5>1 DEF SendChunk
            <6> HIDE DEF c
            <6> QED
              BY <6>2, <6>3, <1>t, CommandIsFrame, SentTyping
          <5> QED
            BY <4>1, <5>1, <1>t DEF SendChunk
        <4>2. CASE page' = [page EXCEPT ![p].otaSetChunkSize = f.value] /\ UNCHANGED toDev
          BY <4>2, <3>3, <1>t, PageUpdates
        <4>3. CASE UploadOver(p, "hidden", "restart")
          BY <4>3, <1>t, PageUpdates DEF UploadOver
        <4>5. CASE UploadOver(p, "shown", "cancelled")
          BY <4>5, <1>t, PageUpdates DEF UploadOver
        <4>4. CASE page' = [page EXCEPT ![p].rollback = "shown"] /\ UNCHANGED toDev
          BY <4>4, <1>t, PageUpdates
        <4> QED
          BY <3>2, <4>1, <4>2, <4>3, <4>4, <4>5 DEF Receive
      <3> QED
        BY <3>2, <3>4, <1>t DEF FramesInv
    <2> QED
      BY <1>1, <2>1, <2>3, <2>4, <2>5, <2>6, <2>7, <2>8 DEF PageStep
  <1>2. ASSUME NEW p \in Page, Connect(p) PROVE FramesInv'
    <2>1. out'.sent \in Seq(ToPage)
      BY <1>2, Replies DEF Connect
    <2>2. PICK r \in Seq(ToPage) : toPage' = [toPage EXCEPT ![p] = r]
      BY <1>2, <2>1, DeliveredFrames DEF Connect
    <2> QED
      BY <1>2, <2>2, <1>t DEF Connect, FramesInv
  <1>3. ASSUME NEW p \in Page, Answered(p), toDev[p] # <<>>, out'.sent \in Seq(ToPage)
        PROVE  FramesInv'
    <2>1. Tail(toDev[p]) \in Seq(ToDevice)
      BY <1>3, <1>t, HeadTailProperties
    <2>2. PICK r \in Seq(ToPage) :
             toPage' = [toPage EXCEPT ![p] = IF conn[p] = "open" THEN @ \o r ELSE @]
      BY <1>3, DeliveredFrames DEF Answered
    <2>3. toPage[p] \o r \in Seq(ToPage)
      BY <1>t
    <2>4. toPage' \in [Page -> Seq(ToPage)]
      BY <2>2, <2>3, <1>t
    <2>5. <<>> \in Seq(ToDevice)
      OBVIOUS
    <2>6. toDev' \in [Page -> Seq(ToDevice)]
      BY <1>3, <2>1, <2>5, <1>t DEF Answered
    <2>7. page' = page /\ conn' \in [Page -> {"open", "closing", "closed"}]
      BY <1>3, <1>t DEF Answered
    <2> QED
      BY <2>4, <2>6, <2>7, <1>t DEF FramesInv
  <1>4. CASE AllCut
    BY <1>4, <1>t DEF AllCut, FramesInv
  <1>5. ASSUME NEW p \in Page, DeviceHandles(p) PROVE FramesInv'
    <2> DEFINE f == Head(toDev[p])
    <2>1. toDev[p] # <<>> /\ f \in ToDevice /\ Handle(p, f)
      BY <1>5, HeadIsFrame DEF DeviceHandles
    <2> HIDE DEF f
    <2>2. CASE Answered(p) /\ Answer(f)
      BY <2>1, <2>2, <1>3, Replies
    <2> QED
      BY <2>1, <2>2, <1>4, HandleCases
  <1>6. ASSUME NEW p \in Page, FrameLost(p) PROVE FramesInv'
    BY <1>6, <1>3, Replies DEF FrameLost
  <1>7. ASSUME NEW p \in Page, Disconnect(p) PROVE FramesInv'
    <2>1. \A n \in 0 .. Len(toDev[p]) : SubSeq(toDev[p], 1, n) \in Seq(ToDevice)
      BY <1>t
    <2> QED
      BY <1>7, <2>1, <1>t DEF Disconnect, FramesInv
  <1>8. CASE PowerFails
    BY <1>8, <1>4 DEF PowerFails
  <1>9. CASE UNCHANGED sysVars
    BY <1>9, <1>t DEF sysVars, pageVars, FramesInv
  <1> QED
    BY <1>1, <1>2, <1>5, <1>6, <1>7, <1>8, <1>9 DEF SysNext

LEMMA FramesInit == SysInit => TypeOK /\ FramesInv
  <1>1. Init => TypeOK
    BY TypingInit
  <1>2. PageInit => FramesInv
    <2>1. NewPage \in PageType /\ <<>> \in Seq(ToDevice) /\ <<>> \in Seq(ToPage)
      BY NewPageType
    <2> QED
      BY <2>1 DEF PageInit, FramesInv
  <1> QED
    BY <1>1, <1>2 DEF SysInit

\* The two are inductive only together: the offset the device asks for next is what
\* the page is sent.
LEMMA TypesAndFrames == SysSpec => [](TypeOK /\ FramesInv)
  <1>1. TypeOK /\ FramesInv /\ [SysNext]_sysVars => (TypeOK /\ FramesInv)'
    BY FramesStep, DeviceStepOrNone, TypingStep
  <1> QED
    BY <1>1, FramesInit, PTL DEF SysSpec

\* Every variable of device and windows stays within its type, for any number of
\* windows and whatever their users do.
THEOREM SystemTyping == SysSpec => []SystemTypeOK
  <1>1. TypeOK /\ FramesInv => SystemTypeOK
    <2>1. ASSUME FramesInv PROVE PageTypeOK
      <3>1. ToDevice \subseteq CommandType /\ ToPage \subseteq FrameType
        BY DEF ToDevice, ToPage, FrameType
      <3>2. \A q \in Seq(ToDevice) : q \in Seq(CommandType)
        BY <3>1, SeqMonotonic
      <3>3. \A q \in Seq(ToPage) : q \in Seq(FrameType)
        BY <3>1, SeqMonotonic
      <3> QED
        BY <2>1, <3>2, <3>3 DEF FramesInv, PageTypeOK
    <2> QED
      BY <2>1 DEF SystemTypeOK
  <1> QED
    BY <1>1, TypesAndFrames, PTL

LEMMA SystemIsDevice == SysSpec => Spec
  <1>1. SysInit => Init
    BY DEF SysInit
  <1>2. TypeOK /\ FramesInv /\ [SysNext]_sysVars => [Next]_vars
    BY DeviceStepOrNone
  <1> QED
    BY <1>1, <1>2, TypesAndFrames, PTL DEF SysSpec, Spec

\* The windows are clients like any other: in the whole system, with any number of
\* them, the device is that of OtaWs, and whatever is proved of it holds.
THEOREM DeviceInSystem == SysSpec => IsDevice
  <1>1. Spec => IsDevice
    <2>1. [Next]_vars => [vars' # vars => Next]_vars
      OBVIOUS
    <2> QED
      BY <2>1, PTL DEF Spec, IsDevice
  <1> QED
    BY <1>1, SystemIsDevice

\* What the proofs about the windows need of the device.
DeviceInv == TypeOK /\ SessionInv /\ FlashSafe

LEMMA DeviceInvariant == SysSpec => [](DeviceInv /\ FramesInv)
  <1>1. TypeOK /\ SessionInv /\ FlashSafe => DeviceInv
    BY DEF DeviceInv
  <1> QED
    BY <1>1, SystemIsDevice, TypesAndFrames, Session, FlashInvariant, PTL

----------------------------------------------------------------------------
(* What queues keep of what is said of them.                                *)

LEMMA EmptyQueue ==
    /\ \A name : ~Has(<<>>, name) /\ Once(<<>>, name) /\ OnlyFirst(<<>>, name)
    /\ \A n : Asks(<<>>, n) /\ Continues(<<>>, n) /\ OfFile(<<>>, n)
  BY DEF Has, Once, OnlyFirst, Asks, Continues, OfFile

LEMMA NoneOf ==
    ASSUME NEW q
    PROVE  /\ \A name : ~Has(q, name) => Once(q, name) /\ OnlyFirst(q, name)
           /\ \A n : ~Has(q, "otaGetChunk") => Asks(q, n)
           /\ \A n : ~Has(q, "binary") => Continues(q, n) /\ OfFile(q, n)
  BY DEF Has, Once, OnlyFirst, Asks, Continues, OfFile

LEMMA HeadOfQueue ==
    ASSUME NEW S, NEW q \in Seq(S), q # <<>>
    PROVE  /\ Has(q, Head(q).name)
           /\ \A n : Asks(q, n) /\ Head(q).name = "otaGetChunk" => Head(q).value = n
           /\ \A n : Continues(q, n) /\ Head(q).name = "binary" => Head(q).chunk.at = n
           /\ \A d : OfFile(q, d) /\ Head(q).name = "binary" => Head(q).chunk.of = d
  <1>1. 1 \in 1 .. Len(q) /\ Head(q) = q[1] /\ 1 .. 0 = {}
    BY EmptySeq
  <1> QED
    BY <1>1 DEF Has, Asks, Continues, OfFile

LEMMA TailOfQueue ==
    ASSUME NEW S, NEW q \in Seq(S), q # <<>>
    PROVE  /\ \A name : Has(Tail(q), name) => Has(q, name)
           /\ \A name : Has(q, name) => Head(q).name = name \/ Has(Tail(q), name)
           /\ \A name : Once(q, name) => Once(Tail(q), name)
           /\ \A name : Once(q, name) /\ Head(q).name = name => ~Has(Tail(q), name)
           /\ \A name : OnlyFirst(q, name) => ~Has(Tail(q), name)
           /\ \A n : Asks(q, n) => Asks(Tail(q), n)
           /\ \A n : Continues(q, n) /\ Head(q).name # "otaCancel" => Continues(Tail(q), n)
           /\ \A d : OfFile(q, d) => OfFile(Tail(q), d)
  <1> DEFINE t == Tail(q)
  <1>1. /\ Len(q) \in Nat \ {0} /\ Len(t) = Len(q) - 1 /\ Head(q) = q[1]
        /\ \A i \in 1 .. Len(t) : t[i] = q[i + 1] /\ i + 1 \in 1 .. Len(q)
        /\ \A i \in 1 .. Len(q) : i # 1 => i - 1 \in 1 .. Len(t) /\ q[i] = t[i - 1]
    BY EmptySeq, HeadTailProperties
  <1> HIDE DEF t
  <1>2. \A name : Has(t, name) => Has(q, name)
    BY <1>1 DEF Has
  <1>3. \A name : Has(q, name) => Head(q).name = name \/ Has(t, name)
    BY <1>1 DEF Has
  <1>4. \A name : Once(q, name) => Once(t, name)
    BY <1>1 DEF Once
  <1>5. \A name : Once(q, name) /\ Head(q).name = name => ~Has(t, name)
    BY <1>1 DEF Once, Has
  <1>6. \A name : OnlyFirst(q, name) => ~Has(t, name)
    BY <1>1 DEF OnlyFirst, Has
  <1>7. \A n : Asks(q, n) => Asks(t, n)
    BY <1>1 DEF Asks
  <1>8. \A d : OfFile(q, d) => OfFile(t, d)
    BY <1>1 DEF OfFile
  <1>9. ASSUME NEW n, Continues(q, n), Head(q).name # "otaCancel" PROVE Continues(t, n)
    <2> SUFFICES ASSUME NEW i \in 1 .. Len(t), t[i].name = "binary",
                        \A j \in 1 .. i - 1 : t[j].name # "otaCancel"
                 PROVE  t[i].chunk.at = n
      BY DEF Continues
    <2>1. i + 1 \in 1 .. Len(q) /\ q[i + 1] = t[i]
      BY <1>1
    <2>2. ASSUME NEW k \in 1 .. (i + 1) - 1 PROVE q[k].name # "otaCancel"
      <3>1. CASE k = 1
        BY <3>1, <1>1, <1>9
      <3>2. CASE k # 1
        <4>1. k \in 1 .. Len(q) /\ k - 1 \in 1 .. i - 1
          BY <3>2, <1>1
        <4> QED
          BY <4>1, <3>2, <1>1
      <3> QED
        BY <3>1, <3>2
    <2> QED
      BY <2>1, <2>2, <1>9 DEF Continues
  <1> QED
    BY <1>2, <1>3, <1>4, <1>5, <1>6, <1>7, <1>8, <1>9 DEF t

LEMMA AppendToQueue ==
    ASSUME NEW S, NEW q \in Seq(S), NEW f \in S
    PROVE  /\ \A name : Has(Append(q, f), name) <=> Has(q, name) \/ f.name = name
           /\ \A name : Once(q, name) /\ (f.name = name => ~Has(q, name))
                          => Once(Append(q, f), name)
           /\ \A name : OnlyFirst(q, name) /\ (f.name = name => q = <<>>)
                          => OnlyFirst(Append(q, f), name)
           /\ q # <<>> => Head(Append(q, f)) = Head(q)
           /\ q = <<>> => Head(Append(q, f)) = f
           /\ \A n : /\ Continues(q, n)
                     /\ f.name = "binary" => f.chunk.at = n \/ Has(q, "otaCancel")
                     => Continues(Append(q, f), n)
           /\ \A d : OfFile(q, d) /\ (f.name = "binary" => f.chunk.of = d)
                       => OfFile(Append(q, f), d)
  <1> DEFINE a == Append(q, f)
  <1>1. /\ Len(q) \in Nat /\ Len(a) = Len(q) + 1
        /\ \A i \in 1 .. Len(q) : a[i] = q[i] /\ i \in 1 .. Len(a) /\ i # Len(a)
        /\ a[Len(a)] = f /\ Len(a) \in 1 .. Len(a)
        /\ \A i \in 1 .. Len(a) : i # Len(a) => i \in 1 .. Len(q)
    BY AppendProperties
  <1>2. (q = <<>> => Len(q) = 0) /\ (q # <<>> => 1 \in 1 .. Len(q) /\ Head(q) = q[1])
    BY EmptySeq
  <1>3. Head(a) = a[1]
    BY <1>1
  <1> HIDE DEF a
  <1>4. \A name : Has(a, name) <=> Has(q, name) \/ f.name = name
    BY <1>1 DEF Has
  <1>5. ASSUME NEW name, Once(q, name), f.name = name => ~Has(q, name) PROVE Once(a, name)
    BY <1>1, <1>5 DEF Once, Has
  <1>6. ASSUME NEW name, OnlyFirst(q, name), f.name = name => q = <<>> PROVE OnlyFirst(a, name)
    BY <1>1, <1>2, <1>6 DEF OnlyFirst
  <1>7. (q # <<>> => Head(a) = Head(q)) /\ (q = <<>> => Head(a) = f)
    BY <1>1, <1>2, <1>3
  <1>8. ASSUME NEW n, Continues(q, n),
               f.name = "binary" => f.chunk.at = n \/ Has(q, "otaCancel")
        PROVE  Continues(a, n)
    <2> SUFFICES ASSUME NEW i \in 1 .. Len(a), a[i].name = "binary",
                        \A j \in 1 .. i - 1 : a[j].name # "otaCancel"
                 PROVE  a[i].chunk.at = n
      BY DEF Continues
    <2>1. CASE i = Len(a)
      <3>1. 1 .. i - 1 = 1 .. Len(q)
        BY <2>1, <1>1
      <3>2. ~Has(q, "otaCancel")
        BY <3>1, <1>1 DEF Has
      <3> QED
        BY <2>1, <3>2, <1>1, <1>8
    <2>2. CASE i # Len(a)
      <3>1. i \in 1 .. Len(q) /\ 1 .. i - 1 \subseteq 1 .. Len(q)
        BY <2>2, <1>1
      <3> QED
        BY <3>1, <1>1, <1>8 DEF Continues
    <2> QED
      BY <2>1, <2>2
  <1>9. \A d : OfFile(q, d) /\ (f.name = "binary" => f.chunk.of = d) => OfFile(a, d)
    BY <1>1 DEF OfFile
  <1> QED
    BY <1>4, <1>5, <1>6, <1>7, <1>8, <1>9 DEF a

\* More frames behind a queue.
LEMMA JoinedQueue ==
    ASSUME NEW S, NEW q \in Seq(S), NEW r \in Seq(S)
    PROVE  /\ \A name : Has(q \o r, name) <=> Has(q, name) \/ Has(r, name)
           /\ \A name : Once(q, name) /\ Once(r, name) /\ ~(Has(q, name) /\ Has(r, name))
                          => Once(q \o r, name)
           /\ \A name : OnlyFirst(q, name) /\ ~Has(r, name) => OnlyFirst(q \o r, name)
           /\ \A n : Asks(q, n) /\ Asks(r, n) => Asks(q \o r, n)
  <1> DEFINE a == q \o r
  <1>1. /\ Len(q) \in Nat /\ Len(r) \in Nat /\ Len(a) = Len(q) + Len(r)
        /\ \A i \in 1 .. Len(a) :
              \/ i \in 1 .. Len(q) /\ a[i] = q[i]
              \/ i \notin 1 .. Len(q) /\ i - Len(q) \in 1 .. Len(r) /\ a[i] = r[i - Len(q)]
        /\ \A i \in 1 .. Len(q) : i \in 1 .. Len(a) /\ a[i] = q[i]
        /\ \A i \in 1 .. Len(r) : i + Len(q) \in 1 .. Len(a) /\ a[i + Len(q)] = r[i]
    BY ConcatProperties
  <1> HIDE DEF a
  <1>2. \A name : Has(a, name) <=> Has(q, name) \/ Has(r, name)
    BY <1>1 DEF Has
  <1>3. ASSUME NEW name, Once(q, name), Once(r, name), ~(Has(q, name) /\ Has(r, name))
        PROVE  Once(a, name)
    <2> SUFFICES ASSUME NEW i \in 1 .. Len(a), NEW j \in 1 .. Len(a),
                        a[i].name = name, a[j].name = name
                 PROVE  i = j
      BY DEF Once
    <2>1. CASE i \in 1 .. Len(q)
      <3>1. Has(q, name)
        BY <2>1, <1>1 DEF Has
      <3>2. j \in 1 .. Len(q)
        BY <3>1, <1>1, <1>3 DEF Has
      <3> QED
        BY <2>1, <3>2, <1>1, <1>3 DEF Once
    <2>2. CASE i \notin 1 .. Len(q)
      <3>1. Has(r, name)
        BY <2>2, <1>1 DEF Has
      <3>2. j \notin 1 .. Len(q)
        BY <3>1, <1>1, <1>3 DEF Has
      <3>3. i - Len(q) = j - Len(q)
        BY <2>2, <3>2, <1>1, <1>3 DEF Once
      <3> QED
        BY <3>3, <1>1
    <2> QED
      BY <2>1, <2>2
  <1>4. ASSUME NEW name, OnlyFirst(q, name), ~Has(r, name) PROVE OnlyFirst(a, name)
    BY <1>1, <1>4 DEF OnlyFirst, Has
  <1>5. ASSUME NEW n, Asks(q, n), Asks(r, n) PROVE Asks(a, n)
    BY <1>1, <1>5 DEF Asks
  <1> QED
    BY <1>2, <1>3, <1>4, <1>5 DEF a

\* The first frames of a queue.
LEMMA CutQueue ==
    ASSUME NEW S, NEW q \in Seq(S), NEW k \in 0 .. Len(q)
    PROVE  /\ \A name : Has(SubSeq(q, 1, k), name) => Has(q, name)
           /\ \A name : Once(q, name) => Once(SubSeq(q, 1, k), name)
           /\ \A name : OnlyFirst(q, name) => OnlyFirst(SubSeq(q, 1, k), name)
           /\ \A n : Continues(q, n) => Continues(SubSeq(q, 1, k), n)
  <1> DEFINE a == SubSeq(q, 1, k)
  <1>1. /\ Len(q) \in Nat /\ Len(a) = k
        /\ \A i \in 1 .. Len(a) : i \in 1 .. Len(q) /\ a[i] = q[i]
    OBVIOUS
  <1> HIDE DEF a
  <1>2. \A name : Has(a, name) => Has(q, name)
    BY <1>1 DEF Has
  <1>3. \A name : Once(q, name) => Once(a, name)
    BY <1>1 DEF Once
  <1>4. \A name : OnlyFirst(q, name) => OnlyFirst(a, name)
    BY <1>1 DEF OnlyFirst
  <1>5. ASSUME NEW n, Continues(q, n) PROVE Continues(a, n)
    <2> SUFFICES ASSUME NEW i \in 1 .. Len(a), a[i].name = "binary",
                        \A j \in 1 .. i - 1 : a[j].name # "otaCancel"
                 PROVE  a[i].chunk.at = n
      BY DEF Continues
    <2>1. 1 .. i - 1 \subseteq 1 .. Len(a)
      BY <1>1
    <2> QED
      BY <2>1, <1>1, <1>5 DEF Continues
  <1> QED
    BY <1>2, <1>3, <1>4, <1>5 DEF a

\* The answers as queues.
LEMMA AnswerQueues ==
    /\ \A name, other : Has(<<Frame(name, 0)>>, other) <=> other = name
    /\ \A n, other : Has(<<Frame("otaGetChunk", n)>>, other) <=> other = "otaGetChunk"
    /\ \A n : Once(<<Frame("otaGetChunk", n)>>, "otaGetChunk")
    /\ \A n : Asks(<<Frame("otaGetChunk", n)>>, n)
    /\ LET both == <<Frame("otaSetChunkSize", ChunkSize), Frame("otaGetChunk", 0)>>
       IN  /\ \A other : Has(both, other) <=> other \in {"otaSetChunkSize", "otaGetChunk"}
           /\ Once(both, "otaGetChunk")
           /\ Asks(both, 0)
  BY DEF Has, Once, Asks, Frame

----------------------------------------------------------------------------
(* What a step is to the only window.                                       *)

\* The page is loaded, and told of a firmware on trial.
Connects(p) ==
    /\ conn[p] = "closed" /\ conn'[p] = "open"
    /\ toDev[p] = <<>> /\ toDev'[p] = <<>>
    /\ page'[p] = page[p]
    /\ \/ toPage'[p] = <<>>
       \/ img[running] = "PENDING" /\ toPage'[p] = <<Frame("otaCheckRollback", 0)>>
    /\ UNCHANGED <<running, boot, img, slot, ota_started, ota_start_chunk, ota_size>>

\* Its next frame is answered.
Served(p, f) ==
    /\ toDev[p] # <<>> /\ f = Head(toDev[p])
    /\ Answer(f)
    /\ toDev'[p] = Tail(toDev[p])
    /\ \E r \in Seq(ToPage) :
          /\ Remains(r, out'.sent)
          /\ toPage'[p] = IF conn[p] = "open" THEN toPage[p] \o r ELSE toPage[p]
    /\ UNCHANGED <<page, conn>>

\* The device closes its socket, or takes it with it.
Dropped(p) ==
    /\ toDev'[p] = <<>>
    /\ page'[p] = page[p]
    /\ conn'[p] # "open" /\ (conn'[p] = "closed" => conn[p] = "closed" /\ toPage'[p] = toPage[p])
    /\ toPage'[p] \in {toPage[p], toPage[p] \o <<>>, toPage[p] \o <<Frame("otaError", 0)>>}

\* The network does.
Cut(p) ==
    /\ \E k \in 0 .. Len(toDev[p]) : toDev'[p] = SubSeq(toDev[p], 1, k)
    /\ conn'[p] = "closing" /\ conn[p] = "open"
    /\ page'[p] = page[p] /\ toPage'[p] = toPage[p]
    /\ UNCHANGED vars

LEMMA WindowStep ==
    ASSUME OneWindow, TypeOK, FramesInv, NEW p \in Page, [SysNext]_sysVars
    PROVE  \/ PageStep(p) /\ UNCHANGED vars
           \/ Connects(p)
           \/ \E f \in ToDevice : Served(p, f) /\ out'.ret = "OK"
           \/ Dropped(p)
           \/ Cut(p)
           \/ UNCHANGED sysVars
  <1>t. /\ toDev \in [Page -> Seq(ToDevice)]
        /\ toPage \in [Page -> Seq(ToPage)]
        /\ page \in [Page -> PageType]
        /\ conn \in [Page -> {"open", "closing", "closed"}]
    BY DEF FramesInv
  <1>p. \A q \in Page : q = p
    BY DEF OneWindow
  <1>1. ASSUME Connect(p) PROVE Connects(p)
    <2>1. PICK r \in Delivered(out'.sent) : toPage' = [toPage EXCEPT ![p] = r]
      BY <1>1 DEF Connect
    <2>2. /\ conn[p] = "closed" /\ toDev[p] = <<>> /\ Handshake
          /\ conn'[p] = "open" /\ toPage'[p] = r
          /\ toDev'[p] = <<>> /\ page'[p] = page[p]
      BY <1>1, <2>1, <1>t DEF Connect
    <2>3. r = <<>> \/ (img[running] = "PENDING" /\ r = <<Frame("otaCheckRollback", 0)>>)
      <3>1. CASE out' = [sent |-> <<>>, ret |-> "OK"]
        <4>1. out'.sent = <<>>
          BY <3>1
        <4> QED
          BY <4>1, DeliveredOne
      <3>2. CASE /\ img[running] = "PENDING"
                 /\ out' = [sent |-> <<Frame("otaCheckRollback", 0)>>, ret |-> "OK"]
        <4>1. out'.sent = <<Frame("otaCheckRollback", 0)>>
          BY <3>2
        <4> QED
          BY <3>2, <4>1, DeliveredOne
      <3> QED
        BY <2>2, <3>1, <3>2, HandshakeCase
    <2> QED
      BY <2>2, <2>3, HandshakeCase DEF Connects
  <1>2. ASSUME Answered(p), out'.ret = "FAIL",
               out'.sent = <<>> \/ out'.sent = <<Frame("otaError", 0)>>
        PROVE  Dropped(p)
    <2>r. PICK r \in Delivered(out'.sent) :
             toPage' = [toPage EXCEPT ![p] = IF conn[p] = "open" THEN @ \o r ELSE @]
      BY <1>2 DEF Answered
    <2>s. r = <<>> \/ r = <<Frame("otaError", 0)>>
      BY <1>2, DeliveredOne
    <2>1. CASE conn[p] = "open"
      BY <1>2, <2>r, <2>s, <2>1, <1>t DEF Answered, Dropped
    <2>2. CASE conn[p] # "open"
      BY <1>2, <2>r, <2>2, <1>t DEF Answered, Dropped
    <2> QED
      BY <2>1, <2>2
  <1>3. ASSUME AllCut PROVE Dropped(p)
    BY <1>3, <1>t DEF AllCut, Dropped
  <1>4. ASSUME DeviceHandles(p)
        PROVE  Dropped(p) \/ \E f \in ToDevice : Served(p, f) /\ out'.ret = "OK"
    <2> DEFINE f == Head(toDev[p])
    <2>1. toDev[p] # <<>> /\ f \in ToDevice /\ Handle(p, f)
      BY <1>4, HeadIsFrame DEF DeviceHandles
    <2>2. CASE Answered(p) /\ Answer(f)
      <3>1. CASE out'.ret = "OK"
        <4>1. toDev'[p] = Tail(toDev[p]) /\ UNCHANGED <<page, conn>>
          BY <2>2, <3>1, <1>t DEF Answered
        <4>0. out'.sent \in Seq(ToPage)
          BY <2>1, <2>2, Replies
        <4>2. \E r \in Seq(ToPage) :
                 /\ Remains(r, out'.sent)
                 /\ toPage'[p] = IF conn[p] = "open" THEN toPage[p] \o r ELSE toPage[p]
          <5>1. PICK r \in Delivered(out'.sent) :
                   toPage' = [toPage EXCEPT ![p] = IF conn[p] = "open" THEN @ \o r ELSE @]
            BY <2>2 DEF Answered
          <5>2. r \in Seq(ToPage) /\ Remains(r, out'.sent)
            BY <4>0, DeliveredFrames
          <5> QED
            BY <5>1, <5>2, <1>t
        <4> QED
          BY <2>1, <2>2, <3>1, <4>1, <4>2 DEF Served
      <3>2. CASE out'.ret = "FAIL"
        <4> HIDE DEF f
        <4>1. out'.sent = <<>> \/ out'.sent = <<Frame("otaError", 0)>>
          BY <2>2, <3>2 DEF Answer, Stopped, Begun, Written, Installed, Judged, Ignored
        <4> QED
          BY <2>2, <3>2, <4>1, <1>2
      <3> QED
        BY <2>1, <2>2, <3>1, <3>2, Replies
    <2>3. CASE AllCut
      BY <2>3, <1>3
    <2> QED
      BY <2>1, <2>2, <2>3, HandleCases
  <1>5. ASSUME FrameLost(p) PROVE Dropped(p)
    BY <1>5, <1>2, LostCase DEF FrameLost
  <1>6. ASSUME Disconnect(p) PROVE Cut(p)
    BY <1>6, <1>t DEF Disconnect, Cut
  <1>7. CASE PowerFails
    BY <1>7, <1>3 DEF PowerFails
  <1> QED
    BY <1>1, <1>4, <1>5, <1>6, <1>7, <1>p DEF SysNext

----------------------------------------------------------------------------
(* What a callback of the page is to its window.                            *)

Same(p, fields) == \A x \in fields : page'[p][x] = page[p][x]

FileChosen(p) ==
    /\ page[p].otaStarted = 0 /\ conn[p] # "closed"
    /\ Same(p, {"otaData", "otaSetChunkSize", "otaStarted", "rollback", "otaStartCancel",
                "otaReStart"})
    /\ toDev'[p] = toDev[p] /\ toPage'[p] = toPage[p] /\ conn'[p] = conn[p]

ReadingEnds(p) ==
    /\ \E i \in Image : page[p].reading[i] # 0
    /\ \A i \in Image : page[p].reading[i] = 0 => page'[p].reading[i] = 0

FileLoaded(p) ==
    /\ ReadingEnds(p) /\ conn[p] # "closed"
    /\ page'[p].otaData # NoImage
    /\ page'[p].otaReStart = "hidden"
    /\ Same(p, {"otaSetChunkSize", "otaStarted", "rollback"})
    /\ toDev'[p] = toDev[p] /\ toPage'[p] = toPage[p] /\ conn'[p] = conn[p]

FileFailed(p) ==
    /\ ReadingEnds(p) /\ conn[p] # "closed"
    /\ Same(p, {"otaData", "otaSetChunkSize", "otaStarted", "rollback", "otaStartCancel",
                "otaReStart"})
    /\ toDev'[p] = toDev[p] /\ toPage'[p] = toPage[p] /\ conn'[p] = conn[p]

\* Clicks.
Sends(p, f) ==
    /\ f \in ToDevice
    /\ toDev'[p] = IF conn[p] = "open" THEN Append(toDev[p], f) ELSE toDev[p]
    /\ toPage'[p] = toPage[p] /\ conn'[p] = conn[p] /\ conn[p] # "closed"

Starts(p) ==
    /\ page[p].otaStartCancel = "shown" /\ Loaded(p)
    /\ Patient => NothingPending(p)
    /\ Sends(p, Command("otaSize", ImageSize[page[p].otaData]))
    /\ page'[p].otaStarted = 1
    /\ Same(p, {"otaData", "reading", "rollback", "otaStartCancel", "otaReStart"})

Cancels(p) ==
    /\ Sends(p, Command("otaCancel", 0))
    /\ page'[p].otaStarted = 0
    /\ Same(p, {"otaData", "reading", "rollback", "otaStartCancel", "otaReStart"})

AsksRestart(p) == Sends(p, Command("otaRestartEsp", 0)) /\ page'[p] = page[p]

Judges(p) ==
    /\ page[p].rollback = "shown" /\ page'[p].rollback = "hidden"
    /\ \E verdict \in 0 .. 1 : Sends(p, Command("otaProcessRollback", verdict))
    /\ Same(p, {"otaData", "reading", "otaStarted", "otaStartCancel", "otaReStart"})

Leaves(p) ==
    /\ conn'[p] = "closed" /\ page'[p] = NewPage
    /\ toPage'[p] = <<>> /\ toDev'[p] = toDev[p]

\* Frames that arrive.
Takes(p, f) ==
    /\ toPage[p] # <<>> /\ f = Head(toPage[p]) /\ f \in ToPage
    /\ toPage'[p] = Tail(toPage[p])
    /\ conn'[p] = conn[p] /\ conn[p] # "closed"

TakesSize(p) ==
    /\ \E f \in ToPage : Takes(p, f) /\ f.name = "otaSetChunkSize"
    /\ toDev'[p] = toDev[p]
    /\ Same(p, {"otaData", "reading", "otaStarted", "rollback", "otaStartCancel", "otaReStart"})

TakesAsk(p) ==
    /\ page'[p] = page[p]
    /\ \E f \in ToPage :
         /\ Takes(p, f) /\ f.name = "otaGetChunk"
         /\ \/ ~Loaded(p) /\ toDev'[p] = toDev[p]
            \/ LET c == Subarray(page[p].otaData, f.value, page[p].otaSetChunkSize)
               IN  /\ c \in Chunk /\ c.of = page[p].otaData
                   /\ f.value <= ImageSize[page[p].otaData] => c.at = f.value
                   /\ Loaded(p)
                   /\ BinaryFrame(c) \in ToDevice
                   /\ toDev'[p] = IF conn[p] = "open" THEN Append(toDev[p], BinaryFrame(c))
                                  ELSE toDev[p]

TakesOver(p) ==
    /\ \E f \in ToPage :
         /\ Takes(p, f)
         /\ \/ /\ f.name = "otaEnd"
               /\ page'[p].otaReStart = "restart" /\ page'[p].otaStartCancel = "hidden"
            \/ /\ f.name \in {"otaError", "otaCancel"}
               /\ page'[p].otaReStart = "cancelled"
    /\ toDev'[p] = toDev[p]
    /\ page'[p].otaStarted = 0
    /\ Same(p, {"otaData", "reading", "rollback"})

TakesTrial(p) ==
    /\ \E f \in ToPage : Takes(p, f) /\ f.name = "otaCheckRollback"
    /\ toDev'[p] = toDev[p]
    /\ page'[p].rollback = "shown"
    /\ Same(p, {"otaData", "reading", "otaStarted", "otaStartCancel", "otaReStart"})

Callback(p) ==
    \/ FileChosen(p) \/ FileLoaded(p) \/ FileFailed(p)
    \/ Starts(p) \/ Cancels(p) \/ AsksRestart(p) \/ Judges(p)
    \/ Leaves(p)
    \/ TakesSize(p) \/ TakesAsk(p) \/ TakesOver(p) \/ TakesTrial(p)

LEMMA Callbacks ==
    ASSUME FramesInv, NEW p \in Page, PageStep(p)
    PROVE  Callback(p)
  <1>t. /\ toDev \in [Page -> Seq(ToDevice)]
        /\ toPage \in [Page -> Seq(ToPage)]
        /\ page \in [Page -> PageType]
        /\ conn \in [Page -> {"open", "closing", "closed"}]
    BY DEF FramesInv
  <1>g. /\ page[p].otaData \in Image \cup {NoImage}
        /\ page[p].otaSetChunkSize \in Nat
    BY <1>t DEF PageType
  <1>r. DOMAIN page[p] = {"otaData", "fileName", "reading", "otaSetChunkSize", "otaStarted",
                          "rollback", "otaStartCancel", "otaReStart"}
    BY <1>t DEF PageType
  <1>f. ASSUME NEW f \in ToDevice, Sent(p, f), UNCHANGED <<conn, toPage>>, Visible(p)
        PROVE  Sends(p, f)
    BY <1>f, <1>t DEF Sent, Sends, Visible
  <1>1. ASSUME NEW i \in Image, SelectFile(p, i) PROVE FileChosen(p)
    <2>1. page'[p] = Picked(page[p], i)
      BY <1>1, <1>t, ReaderSteps
    <2>2. Same(p, {"otaData", "otaSetChunkSize", "otaStarted", "rollback", "otaStartCancel",
                   "otaReStart"})
      BY <2>1, <1>r DEF Picked, Same
    <2> QED
      BY <1>1, <2>2 DEF SelectFile, UpdateShown, Visible, FileChosen
  <1>i. ASSUME NEW i \in Image, page[p].reading[i] > 0,
               page'[p].reading = [page[p].reading EXCEPT ![i] = @ - 1]
        PROVE  ReadingEnds(p)
    <2>1. page[p].reading \in [Image -> 0 .. MaxReaders]
      BY <1>t DEF PageType
    <2> QED
      BY <1>i, <2>1 DEF ReadingEnds
  <1>2. ASSUME NEW i \in Image, FileRead(p, i) PROVE FileLoaded(p)
    <2>1. page'[p] = Loads(page[p], i)
      BY <1>2, <1>t, ReaderSteps
    <2>2. /\ Same(p, {"otaSetChunkSize", "otaStarted", "rollback"})
          /\ page'[p].otaData = i /\ page'[p].otaReStart = "hidden"
          /\ page'[p].reading = [page[p].reading EXCEPT ![i] = @ - 1]
      BY <2>1, <1>r DEF Loads, ReadOff, Same
    <2>3. ReadingEnds(p)
      BY <1>2, <2>2, <1>i DEF FileRead
    <2> QED
      BY <1>2, <2>2, <2>3, FlashAssumption DEF FileRead, Visible, FileLoaded
  <1>9. ASSUME NEW i \in Image, FileFails(p, i) PROVE FileFailed(p)
    <2>1. page'[p] = ReadOff(page[p], i)
      BY <1>9, <1>t, ReaderSteps
    <2>2. /\ Same(p, {"otaData", "otaSetChunkSize", "otaStarted", "rollback",
                      "otaStartCancel", "otaReStart"})
          /\ page'[p].reading = [page[p].reading EXCEPT ![i] = @ - 1]
      BY <2>1, <1>r DEF ReadOff, Same
    <2>3. ReadingEnds(p)
      BY <1>9, <2>2, <1>i DEF FileFails
    <2> QED
      BY <1>9, <2>2, <2>3 DEF FileFails, Visible, FileFailed
  <1>3. ASSUME ClickStart(p) PROVE Starts(p)
    <2>1. Sends(p, Command("otaSize", ImageSize[page[p].otaData]))
      BY <1>3, <1>f, <1>g, CommandIsFrame DEF ClickStart, Loaded, UpdateShown
    <2>2. /\ page'[p].otaStarted = 1
          /\ Same(p, {"otaData", "reading", "rollback", "otaStartCancel", "otaReStart"})
      BY <1>3, <1>t, <1>r DEF ClickStart, Same
    <2> QED
      BY <1>3, <2>1, <2>2 DEF ClickStart, Starts
  <1>4. ASSUME ClickCancel(p) PROVE Cancels(p)
    <2>1. Sends(p, Command("otaCancel", 0))
      BY <1>4, <1>f, CommandIsFrame DEF ClickCancel, UpdateShown
    <2>2. /\ page'[p].otaStarted = 0
          /\ Same(p, {"otaData", "reading", "rollback", "otaStartCancel", "otaReStart"})
      BY <1>4, <1>t, <1>r DEF ClickCancel, Same
    <2> QED
      BY <2>1, <2>2 DEF Cancels
  <1>5. ASSUME ClickReStart(p) PROVE AsksRestart(p)
    BY <1>5, <1>f, CommandIsFrame DEF ClickReStart, UpdateShown, AsksRestart
  <1>6. ASSUME ClickVerdict(p) PROVE Judges(p)
    <2>1. \E verdict \in 0 .. 1 : Sends(p, Command("otaProcessRollback", verdict))
      BY <1>6, <1>f, CommandIsFrame DEF ClickVerdict, MayClick
    <2>2. /\ page[p].rollback = "shown" /\ page'[p].rollback = "hidden"
          /\ Same(p, {"otaData", "reading", "otaStarted", "otaStartCancel", "otaReStart"})
      BY <1>6, <1>t, <1>r DEF ClickVerdict, Same
    <2> QED
      BY <2>1, <2>2 DEF Judges
  <1>7. ASSUME GoHome(p) \/ Reload(p) PROVE Leaves(p)
    BY <1>7, <1>t DEF GoHome, Reload, Leaves
  <1>8. ASSUME PageReceives(p)
        PROVE  TakesSize(p) \/ TakesAsk(p) \/ TakesOver(p) \/ TakesTrial(p)
    <2> DEFINE f == Head(toPage[p])
    <2>1. f \in ToPage /\ Takes(p, f) /\ Receive(p, f)
      BY <1>8, <1>t, HeadIsFrame DEF PageReceives, Visible, Takes
    <2>2. f.value \in Nat
      BY <2>1 DEF ToPage
    <2> HIDE DEF f
    <2>3. CASE /\ f.name = "otaSetChunkSize"
               /\ page' = [page EXCEPT ![p].otaSetChunkSize = f.value] /\ UNCHANGED toDev
      <3>1. Same(p, {"otaData", "reading", "otaStarted", "rollback", "otaStartCancel",
                     "otaReStart"})
        BY <2>3, <1>t, <1>r DEF Same
      <3> QED
        BY <2>1, <2>3, <3>1 DEF TakesSize
    <2>4. CASE f.name = "otaGetChunk" /\ SendChunk(p, f.value)
      <3> DEFINE c == Subarray(page[p].otaData, f.value, page[p].otaSetChunkSize)
      <3>1. CASE ~Loaded(p)
        BY <2>1, <2>4, <3>1 DEF SendChunk, TakesAsk
      <3>2. CASE Loaded(p)
        <4>1. /\ c \in Chunk /\ c.of = page[p].otaData
              /\ f.value <= ImageSize[page[p].otaData] => c.at = f.value
          BY <3>2, <2>2, <1>g, SubarrayIsChunk DEF Loaded
        <4>2. page' = page /\ Sent(p, BinaryFrame(c))
          BY <2>4, <3>2 DEF SendChunk
        <4> HIDE DEF c
        <4>3. BinaryFrame(c) \in ToDevice
          BY <4>1, CommandIsFrame
        <4>4. toDev'[p] = IF conn[p] = "open" THEN Append(toDev[p], BinaryFrame(c))
                          ELSE toDev[p]
          BY <4>2, <1>t DEF Sent
        <4> QED
          BY <2>1, <2>4, <3>2, <4>1, <4>2, <4>3, <4>4 DEF c, TakesAsk
      <3> QED
        BY <3>1, <3>2
    <2>5. CASE \/ f.name = "otaEnd" /\ UploadOver(p, "hidden", "restart")
               \/ f.name \in {"otaError", "otaCancel"} /\ UploadOver(p, "shown", "cancelled")
      <3>1. page'[p].otaStarted = 0 /\ Same(p, {"otaData", "reading", "rollback"})
        BY <2>5, <1>t, <1>r DEF UploadOver, Same
      <3>2. \/ /\ f.name = "otaEnd"
               /\ page'[p].otaReStart = "restart" /\ page'[p].otaStartCancel = "hidden"
            \/ /\ f.name \in {"otaError", "otaCancel"}
               /\ page'[p].otaReStart = "cancelled"
        BY <2>5, <1>t, <1>r DEF UploadOver
      <3> QED
        BY <2>1, <2>5, <3>1, <3>2 DEF UploadOver, TakesOver
    <2>6. CASE /\ f.name = "otaCheckRollback"
               /\ page' = [page EXCEPT ![p].rollback = "shown"] /\ UNCHANGED toDev
      <3>1. /\ page'[p].rollback = "shown"
            /\ Same(p, {"otaData", "reading", "otaStarted", "otaStartCancel", "otaReStart"})
        BY <2>6, <1>t, <1>r DEF Same
      <3> QED
        BY <2>1, <2>6, <3>1 DEF TakesTrial
    <2> QED
      BY <2>1, <2>3, <2>4, <2>5, <2>6 DEF Receive
  <1> QED
    BY <1>1, <1>2, <1>3, <1>4, <1>5, <1>6, <1>7, <1>8, <1>9 DEF PageStep, Callback

Step(p) ==
    \/ Callback(p) /\ UNCHANGED vars
    \/ Connects(p)
    \/ \E f \in ToDevice : Served(p, f) /\ out'.ret = "OK"
    \/ Dropped(p)
    \/ Cut(p)
    \/ UNCHANGED sysVars

LEMMA AnyStep ==
    ASSUME OneWindow, TypeOK, FramesInv, NEW p \in Page, [SysNext]_sysVars
    PROVE  Step(p)
  BY WindowStep, Callbacks DEF Step

LEMMA QueueTypes ==
    ASSUME FramesInv, NEW p \in Page
    PROVE  toDev[p] \in Seq(ToDevice) /\ toPage[p] \in Seq(ToPage)
  BY DEF FramesInv

----------------------------------------------------------------------------
(* The page itself, and the verdict.                                        *)

LEMMA PageStepInv ==
    ASSUME NEW p \in Page, PageInv(p), Step(p)
    PROVE  PageInv(p)'
  <1>1. CASE FileChosen(p) \/ FileLoaded(p) \/ FileFailed(p)
    BY <1>1 DEF FileChosen, FileLoaded, FileFailed, Same, PageInv, Loaded, NewPage
  <1>2. CASE Starts(p) \/ Cancels(p) \/ AsksRestart(p) \/ Judges(p)
    BY <1>2 DEF Starts, Cancels, AsksRestart, Judges, Sends, Same, PageInv, Loaded
  <1>3. CASE Leaves(p)
    BY <1>3 DEF Leaves, PageInv, NewPage
  <1>4. CASE TakesSize(p) \/ TakesAsk(p) \/ TakesOver(p) \/ TakesTrial(p)
    BY <1>4 DEF TakesSize, TakesAsk, TakesOver, TakesTrial, Takes, Same, PageInv, Loaded
  <1>5. CASE Connects(p)
    BY <1>5 DEF Connects, PageInv, Loaded
  <1>6. ASSUME NEW f, Served(p, f) PROVE PageInv(p)'
    BY <1>6 DEF Served, PageInv, Loaded
  <1>7. CASE Dropped(p)
    BY <1>7 DEF Dropped, PageInv, Loaded
  <1>8. CASE Cut(p)
    BY <1>8 DEF Cut, PageInv, Loaded
  <1>9. CASE UNCHANGED sysVars
    BY <1>9 DEF sysVars, pageVars, PageInv, Loaded
  <1> QED
    BY <1>1, <1>2, <1>3, <1>4, <1>5, <1>6, <1>7, <1>8, <1>9 DEF Step, Callback

\* Who may give a verdict, and when: for one window, whatever else its user does.
LEMMA VerdictStep ==
    ASSUME TypeOK, FramesInv, NEW p \in Page, PageInv(p), VerdictToken(p), Step(p)
    PROVE  VerdictToken(p)'
  <1>t. toDev[p] \in Seq(ToDevice) /\ toPage[p] \in Seq(ToPage)
    BY QueueTypes
  <1>s. /\ running \in Slots /\ img \in [Slots -> ImgState]
    BY DEF TypeOK, FlashTypeOK
  <1>a. ASSUME NEW f \in ToDevice, Sends(p, f), f.name # "otaProcessRollback",
               page'[p].rollback = page[p].rollback, UNCHANGED vars
        PROVE  VerdictToken(p)'
    BY <1>a, <1>t, AppendToQueue DEF Sends, VerdictToken, vars, flashVars
  <1>1. CASE (FileChosen(p) \/ FileLoaded(p) \/ FileFailed(p)) /\ UNCHANGED vars
    BY <1>1 DEF FileChosen, FileLoaded, FileFailed, Same, VerdictToken, vars, flashVars
  <1>2. CASE (Starts(p) \/ Cancels(p) \/ AsksRestart(p)) /\ UNCHANGED vars
    BY <1>2, <1>a DEF Starts, Cancels, AsksRestart, Sends, Same, Command
  <1>3. CASE Judges(p) /\ UNCHANGED vars
    <2>1. PICK verdict \in 0 .. 1 : Sends(p, Command("otaProcessRollback", verdict))
      BY <1>3 DEF Judges
    <2>2. Command("otaProcessRollback", verdict).name = "otaProcessRollback"
      BY DEF Command
    <2> QED
      BY <1>3, <2>1, <2>2, <1>t, AppendToQueue
      DEF Judges, Sends, VerdictToken, vars, flashVars
  <1>4. CASE Leaves(p) /\ UNCHANGED vars
    BY <1>4, EmptyQueue DEF Leaves, VerdictToken, vars, flashVars
  <1>b. ASSUME NEW f \in ToPage, Takes(p, f)
        PROVE  /\ ~Has(toPage'[p], "otaCheckRollback")
               /\ f.name = "otaCheckRollback" => Has(toPage[p], "otaCheckRollback")
               /\ conn'[p] = conn[p]
    BY <1>b, <1>t, TailOfQueue, HeadOfQueue DEF Takes, VerdictToken
  <1>5. CASE (TakesSize(p) \/ TakesOver(p) \/ TakesTrial(p)) /\ UNCHANGED vars
    <2>1. ~Has(toPage'[p], "otaCheckRollback") /\ conn'[p] = conn[p] /\ toDev'[p] = toDev[p]
      BY <1>5, <1>b DEF TakesSize, TakesOver, TakesTrial
    <2>2. \/ page'[p].rollback = page[p].rollback
          \/ Has(toPage[p], "otaCheckRollback")
      BY <1>5, <1>b DEF TakesSize, TakesOver, TakesTrial, Same
    <2> QED
      BY <1>5, <2>1, <2>2, NoneOf DEF VerdictToken, vars, flashVars
  <1>6. CASE TakesAsk(p) /\ UNCHANGED vars
    <2>1. /\ Once(toDev[p], "otaProcessRollback") => Once(toDev'[p], "otaProcessRollback")
          /\ Has(toDev'[p], "otaProcessRollback") => Has(toDev[p], "otaProcessRollback")
      BY <1>6, <1>t, AppendToQueue DEF TakesAsk, BinaryFrame
    <2>2. /\ ~Has(toPage'[p], "otaCheckRollback")
          /\ conn'[p] = conn[p] /\ page'[p] = page[p]
          /\ UNCHANGED <<img, running>>
      BY <1>6, <1>b DEF TakesAsk, vars, flashVars
    <2> QED
      BY <2>1, <2>2, NoneOf DEF VerdictToken
  <1>7. CASE Connects(p)
    <2>1. page'[p].rollback = "hidden"
      BY <1>7 DEF Connects, PageInv, NewPage
    <2>2. OnlyFirst(<<Frame("otaCheckRollback", 0)>>, "otaCheckRollback")
      BY DEF OnlyFirst
    <2> QED
      BY <1>7, <2>1, <2>2, EmptyQueue, AnswerQueues DEF Connects, VerdictToken
  <1>8. ASSUME NEW f \in ToDevice, Served(p, f), out'.ret = "OK"
        PROVE  VerdictToken(p)'
    <2>r. PICK r \in Seq(ToPage) :
             /\ Remains(r, out'.sent)
             /\ toPage'[p] = IF conn[p] = "open" THEN toPage[p] \o r ELSE toPage[p]
      BY <1>8 DEF Served
    <2>1. ~Has(r, "otaCheckRollback")
      <3>1. ~Has(out'.sent, "otaCheckRollback")
        <4>1. CASE Stopped(f) \/ Begun(f)
          BY <4>1, AnswerQueues DEF Stopped, Begun
        <4>2. CASE Written(f) \/ Installed(f)
          BY <4>2, AnswerQueues DEF Written, Installed
        <4>3. CASE Judged(f) \/ Ignored(f)
          BY <4>3, EmptyQueue DEF Judged, Ignored
        <4> QED
          BY <1>8, <4>1, <4>2, <4>3 DEF Served, Answer
      <3> QED
        BY <2>r, <3>1 DEF Remains
    <2>2. /\ OnlyFirst(toPage'[p], "otaCheckRollback")
          /\ Has(toPage'[p], "otaCheckRollback") => Has(toPage[p], "otaCheckRollback")
          /\ conn'[p] = conn[p] /\ page'[p] = page[p]
      BY <1>8, <2>r, <2>1, <1>t, JoinedQueue DEF Served, VerdictToken
    <2>3. CASE f.name = "otaProcessRollback"
      <3>1. ~Has(toDev'[p], "otaProcessRollback") /\ Has(toDev[p], "otaProcessRollback")
        BY <1>8, <2>3, <1>t, TailOfQueue, HeadOfQueue DEF Served, VerdictToken
      <3> QED
        BY <2>2, <3>1, NoneOf DEF VerdictToken
    <2>4. CASE f.name # "otaProcessRollback"
      <3>1. img'[running'] = img[running]
        <4>1. Stopped(f) \/ Begun(f) \/ Written(f) \/ Ignored(f) \/ Installed(f)
          BY <1>8, <2>4 DEF Served, Answer, Judged
        <4>2. CASE Stopped(f) \/ Begun(f) \/ Written(f) \/ Ignored(f)
          BY <4>2 DEF Stopped, Begun, Written, Ignored
        <4>3. CASE Installed(f)
          BY <4>3, <1>s DEF Installed
        <4> QED
          BY <4>1, <4>2, <4>3
      <3>2. /\ Once(toDev'[p], "otaProcessRollback")
            /\ Has(toDev'[p], "otaProcessRollback") => Has(toDev[p], "otaProcessRollback")
        BY <1>8, <1>t, TailOfQueue DEF Served, VerdictToken
      <3> QED
        BY <2>2, <3>1, <3>2 DEF VerdictToken
    <2> QED
      BY <2>3, <2>4
  <1>9. CASE Dropped(p)
    <2>1. <<Frame("otaError", 0)>> \in Seq(ToPage) /\ <<>> \in Seq(ToPage)
      BY DEF Frame, ToPage, FrameName
    <2>2. OnlyFirst(toPage'[p], "otaCheckRollback")
      <3>1. ASSUME NEW r \in Seq(ToPage), ~Has(r, "otaCheckRollback")
            PROVE  OnlyFirst(toPage[p] \o r, "otaCheckRollback")
        BY <3>1, <1>t, JoinedQueue DEF VerdictToken
      <3>2. ~Has(<<>>, "otaCheckRollback")
        BY EmptyQueue
      <3>3. ~Has(<<Frame("otaError", 0)>>, "otaCheckRollback")
        BY AnswerQueues
      <3> QED
        BY <1>9, <2>1, <3>1, <3>2, <3>3 DEF Dropped, VerdictToken
    <2> QED
      BY <1>9, <2>2, EmptyQueue DEF Dropped, VerdictToken
  <1>10. CASE Cut(p)
    BY <1>10, <1>t, CutQueue DEF Cut, VerdictToken, vars, flashVars
  <1>11. CASE UNCHANGED sysVars
    BY <1>11 DEF sysVars, vars, flashVars, pageVars, VerdictToken
  <1> QED
    BY <1>1, <1>2, <1>3, <1>4, <1>5, <1>6, <1>7, <1>8, <1>9, <1>10, <1>11 DEF Step, Callback

LEMMA VerdictInvariant ==
    ASSUME OneWindow
    PROVE  SysSpec => [](\A p \in Page : PageInv(p) /\ VerdictToken(p))
  <1> DEFINE Inv == \A p \in Page : PageInv(p) /\ VerdictToken(p)
  <1>1. SysInit => Inv
    BY EmptyQueue DEF SysInit, PageInit, PageInv, NewPage, VerdictToken
  <1>2. DeviceInv /\ FramesInv /\ Inv /\ [SysNext]_sysVars => Inv'
    <2> SUFFICES ASSUME DeviceInv, FramesInv, Inv, [SysNext]_sysVars, NEW p \in Page
                 PROVE  PageInv(p)' /\ VerdictToken(p)'
      OBVIOUS
    <2>1. Step(p) /\ TypeOK
      BY AnyStep DEF DeviceInv
    <2> QED
      BY <2>1, PageStepInv, VerdictStep
  <1> QED
    BY <1>1, <1>2, DeviceInvariant, PTL DEF SysSpec

\* A window that is the only one shows the panel only while the firmware that runs
\* awaits a verdict, whatever else its user does and whatever is lost.
THEOREM PanelTruth == ASSUME OneWindow PROVE SysSpec => []PanelIsTrue
  <1>1. (\A p \in Page : PageInv(p) /\ VerdictToken(p)) => PanelIsTrue
    BY DEF VerdictToken, PanelIsTrue
  <1> QED
    BY <1>1, VerdictInvariant, PTL

\* And the verdict it gives finds the firmware still awaiting one.
THEOREM VerdictTruth == ASSUME OneWindow PROVE SysSpec => VerdictIsDue
  <1> DEFINE Due == \A p \in Page :
                       /\ DeviceHandles(p) /\ Head(toDev[p]).name = "otaProcessRollback"
                       /\ img' # img
                       => img[running] = "PENDING"
  <1>1. FramesInv /\ (\A p \in Page : PageInv(p) /\ VerdictToken(p)) /\ [SysNext]_sysVars
          => [Due]_sysVars
    <2> SUFFICES ASSUME FramesInv, NEW p \in Page, VerdictToken(p), DeviceHandles(p),
                        Head(toDev[p]).name = "otaProcessRollback"
                 PROVE  img[running] = "PENDING"
      OBVIOUS
    <2>1. toDev[p] \in Seq(ToDevice) /\ toDev[p] # <<>>
      BY QueueTypes DEF DeviceHandles
    <2> QED
      BY <2>1, HeadOfQueue DEF VerdictToken
  <1> QED
    BY <1>1, VerdictInvariant, TypesAndFrames, PTL DEF SysSpec, VerdictIsDue

----------------------------------------------------------------------------
(* The restart button, for a user who waits.                                *)

\* What a served frame leaves in the queues.
LEMMA ServedQueues ==
    ASSUME TypeOK, FramesInv, NEW p \in Page, NEW f \in ToDevice, Served(p, f)
    PROVE  /\ \A name : Has(toDev'[p], name) => Has(toDev[p], name)
           /\ \A name : Has(toDev[p], name) => f.name = name \/ Has(toDev'[p], name)
           /\ Has(toDev[p], f.name)
           /\ \A name : Has(toPage'[p], name) =>
                           Has(toPage[p], name) \/ (conn[p] = "open" /\ Has(out'.sent, name))
           /\ conn'[p] = conn[p] /\ page'[p] = page[p]
  <1>1. toDev[p] \in Seq(ToDevice) /\ toPage[p] \in Seq(ToPage)
    BY QueueTypes
  <1>2. \A name : Has(toPage'[p], name) =>
                    Has(toPage[p], name) \/ (conn[p] = "open" /\ Has(out'.sent, name))
    <2>1. PICK r \in Seq(ToPage) :
             /\ Remains(r, out'.sent)
             /\ toPage'[p] = IF conn[p] = "open" THEN toPage[p] \o r ELSE toPage[p]
      BY DEF Served
    <2> QED
      BY <1>1, <2>1, JoinedQueue DEF Remains
  <1> QED
    BY <1>1, <1>2, TailOfQueue, HeadOfQueue DEF Served

\* What a frame the page takes leaves in its queue.
LEMMA TakenQueue ==
    ASSUME FramesInv, NEW p \in Page, NEW f, Takes(p, f)
    PROVE  /\ \A name : Has(toPage'[p], name) => Has(toPage[p], name)
           /\ Has(toPage[p], f.name)
           /\ \A name : Once(toPage[p], name) => Once(toPage'[p], name)
           /\ \A name : Once(toPage[p], name) /\ f.name = name => ~Has(toPage'[p], name)
           /\ \A n : Asks(toPage[p], n) => Asks(toPage'[p], n)
           /\ \A n : Asks(toPage[p], n) /\ f.name = "otaGetChunk" => f.value = n
  BY QueueTypes, TailOfQueue, HeadOfQueue DEF Takes

LEMMA SizeStep ==
    ASSUME Patient, TypeOK, FramesInv, NEW p \in Page, PageInv(p), SizeInv(p), Step(p)
    PROVE  SizeInv(p)'
  <1>t. toDev[p] \in Seq(ToDevice) /\ toPage[p] \in Seq(ToPage)
    BY QueueTypes
  <1>a. ASSUME NEW f \in ToDevice, Sends(p, f), f.name \notin {"otaSize", "binary"},
               Same(p, {"otaData", "reading", "otaReStart"}),
               page'[p].otaStarted \in {0, page[p].otaStarted},
               f.name # "otaCancel" => page'[p].otaStarted = page[p].otaStarted
        PROVE  SizeInv(p)'
    <2>1. CASE conn[p] = "open"
      <3>1. toDev'[p] = Append(toDev[p], f) /\ toPage'[p] = toPage[p] /\ conn'[p] = conn[p]
        BY <1>a, <2>1 DEF Sends
      <3>2. /\ OnlyFirst(toDev'[p], "otaSize")
            /\ Has(toDev'[p], "otaSize") => Has(toDev[p], "otaSize")
            /\ Has(toDev'[p], "binary") => Has(toDev[p], "binary")
            /\ Has(toDev'[p], "otaCancel") <=> Has(toDev[p], "otaCancel") \/ f.name = "otaCancel"
        BY <1>a, <3>1, <1>t, AppendToQueue DEF SizeInv
      <3>3. Has(toDev[p], "otaSize") => Head(toDev'[p]) = Head(toDev[p])
        BY <3>1, <1>t, AppendToQueue, EmptyQueue
      <3> QED
        BY <1>a, <3>1, <3>2, <3>3 DEF SizeInv, Same
    <2>2. CASE conn[p] # "open"
      BY <1>a, <2>2 DEF Sends, SizeInv, Same
    <2> QED
      BY <2>1, <2>2
  <1>1. CASE FileChosen(p)
    BY <1>1 DEF FileChosen, Same, SizeInv
  <1>2. CASE FileLoaded(p) \/ FileFailed(p)
    BY <1>2 DEF FileLoaded, FileFailed, ReadingEnds, Same, SizeInv
  <1>3. CASE Starts(p)
    <2> DEFINE f == Command("otaSize", ImageSize[page[p].otaData])
    <2>1. /\ toDev[p] = <<>> /\ toPage[p] = <<>>
          /\ \A i \in Image : page[p].reading[i] = 0
          /\ page[p].otaReStart # "restart"
          /\ Sends(p, f)
          /\ Same(p, {"otaData", "reading", "rollback", "otaStartCancel", "otaReStart"})
          /\ page'[p].otaStarted = 1
      BY <1>3 DEF Starts, NothingPending, PageInv
    <2>2. f.name = "otaSize" /\ f.value = ImageSize[page[p].otaData]
      BY DEF Command
    <2> HIDE DEF f
    <2>3. CASE conn[p] = "open"
      <3>1. toDev'[p] = Append(toDev[p], f) /\ f \in ToDevice /\ toPage'[p] = <<>>
        BY <2>1, <2>3 DEF Sends
      <3>e. ~Has(toDev[p], "binary") /\ OnlyFirst(toDev[p], "otaSize")
        BY <2>1, EmptyQueue
      <3>f. f.name # "binary"
        BY <2>2
      <3>2. ~Has(toDev'[p], "binary")
        BY <3>1, <3>e, <3>f, <1>t, AppendToQueue
      <3>3. Head(toDev'[p]) = f
        BY <2>1, <3>1, <1>t, AppendToQueue
      <3>4. OnlyFirst(toDev'[p], "otaSize")
        <4>1. toDev[p] \in Seq(ToDevice) /\ toDev[p] = <<>>
          BY <1>t, <2>1
        <4> QED
          BY <3>1, <3>e, <4>1, AppendToQueue
      <3> QED
        BY <2>1, <2>2, <3>1, <3>2, <3>3, <3>4 DEF SizeInv, Same
    <2>4. CASE conn[p] # "open"
      BY <2>1, <2>4, EmptyQueue DEF Sends, SizeInv, Same
    <2> QED
      BY <2>3, <2>4
  <1>4. CASE Cancels(p)
    <2>1. Command("otaCancel", 0).name = "otaCancel"
      BY DEF Command
    <2> QED
      BY <1>4, <2>1, <1>a DEF Cancels, Sends, Same
  <1>5. CASE AsksRestart(p)
    <2>1. Command("otaRestartEsp", 0).name = "otaRestartEsp"
      BY DEF Command
    <2> QED
      BY <1>5, <2>1, <1>a DEF AsksRestart, Sends, Same
  <1>6. CASE Judges(p)
    <2>1. PICK verdict \in 0 .. 1 : Sends(p, Command("otaProcessRollback", verdict))
      BY <1>6 DEF Judges
    <2>2. Command("otaProcessRollback", verdict).name = "otaProcessRollback"
      BY DEF Command
    <2> QED
      BY <1>6, <2>1, <2>2, <1>a DEF Judges, Sends, Same
  <1>7. CASE Leaves(p)
    BY <1>7 DEF Leaves, SizeInv, NewPage
  <1>8. CASE TakesSize(p) \/ TakesOver(p) \/ TakesTrial(p)
    <2>1. toPage[p] # <<>> /\ toDev'[p] = toDev[p] /\ conn'[p] = conn[p]
      BY <1>8 DEF TakesSize, TakesOver, TakesTrial, Takes
    <2>2. page'[p].otaStarted \in {0, page[p].otaStarted} /\ page'[p].reading = page[p].reading
      BY <1>8 DEF TakesSize, TakesOver, TakesTrial, Same
    <2> QED
      BY <2>1, <2>2 DEF SizeInv
  <1>9. CASE TakesAsk(p)
    <2>1. toPage[p] # <<>> /\ page'[p] = page[p] /\ conn'[p] = conn[p]
      BY <1>9 DEF TakesAsk, Takes
    <2>2. CASE conn[p] = "open"
      <3>1. ~Has(toDev[p], "otaSize")
        BY <2>1, <2>2 DEF SizeInv
      <3>2. ASSUME NEW f \in ToDevice, f.name = "binary", toDev'[p] = Append(toDev[p], f)
            PROVE  ~Has(toDev'[p], "otaSize")
        BY <3>1, <3>2, <1>t, AppendToQueue
      <3>3. \A c : BinaryFrame(c).name = "binary"
        BY DEF BinaryFrame
      <3>4. ~Has(toDev'[p], "otaSize")
        BY <1>9, <2>2, <3>1, <3>2, <3>3 DEF TakesAsk
      <3> QED
        BY <2>1, <3>4, NoneOf DEF SizeInv
    <2>3. CASE conn[p] # "open"
      <3>1. toDev'[p] = toDev[p]
        BY <1>9, <2>3 DEF TakesAsk
      <3> QED
        BY <2>1, <2>3, <3>1 DEF SizeInv
    <2> QED
      BY <2>2, <2>3
  <1>10. CASE Connects(p)
    BY <1>10, EmptyQueue DEF Connects, SizeInv
  <1>11. ASSUME NEW f \in ToDevice, Served(p, f) PROVE SizeInv(p)'
    <2>1. ~Has(toDev'[p], "otaSize") /\ page'[p] = page[p]
      BY <1>11, <1>t, TailOfQueue DEF Served, SizeInv
    <2> QED
      BY <2>1, NoneOf DEF SizeInv
  <1>12. CASE Dropped(p)
    BY <1>12, EmptyQueue DEF Dropped, SizeInv
  <1>13. CASE Cut(p)
    BY <1>13, <1>t, CutQueue DEF Cut, SizeInv
  <1>14. CASE UNCHANGED sysVars
    BY <1>14 DEF sysVars, pageVars, SizeInv
  <1> QED
    BY <1>1, <1>2, <1>3, <1>4, <1>5, <1>6, <1>7, <1>8, <1>9, <1>10, <1>11, <1>12, <1>13,
       <1>14 DEF Step, Callback

LEMMA EndStep ==
    ASSUME DeviceInv, FramesInv, NEW p \in Page,
           PageInv(p), VerdictToken(p), SizeInv(p), EndInv(p), Step(p)
    PROVE  EndInv(p)'
  <1>t. toDev[p] \in Seq(ToDevice) /\ toPage[p] \in Seq(ToPage)
    BY QueueTypes
  <1>s. running \in Slots /\ img \in [Slots -> ImgState] /\ slot \in [Slots -> Content]
    BY DEF DeviceInv, TypeOK, FlashTypeOK
  \* Nothing new is promised, and nothing of the device changes.
  <1>a. ASSUME UNCHANGED <<running, boot, img, slot>>, ota_started' \in {0, ota_started},
               conn'[p] = "open" =>
                   /\ conn[p] = "open"
                   /\ page'[p].otaReStart = "restart" \/ Has(toPage'[p], "otaEnd") =>
                         page[p].otaReStart = "restart" \/ Has(toPage[p], "otaEnd")
        PROVE  EndInv(p)'
    BY <1>a DEF EndInv, Ready
  <1>1. CASE /\ FileChosen(p) \/ FileLoaded(p) \/ FileFailed(p) \/ Starts(p) \/ Cancels(p)
                \/ AsksRestart(p) \/ Judges(p)
             /\ UNCHANGED vars
    <2>1. /\ page'[p].otaReStart \in {page[p].otaReStart, "hidden"}
          /\ toPage'[p] = toPage[p] /\ conn'[p] = conn[p]
      BY <1>1
      DEF FileChosen, FileLoaded, FileFailed, Starts, Cancels, AsksRestart, Judges, Sends, Same
    <2> QED
      BY <1>1, <2>1, <1>a DEF vars, flashVars, httpVars
  <1>2. CASE Leaves(p)
    BY <1>2 DEF Leaves, EndInv
  <1>3. CASE (TakesSize(p) \/ TakesAsk(p) \/ TakesTrial(p) \/ TakesOver(p)) /\ UNCHANGED vars
    <2>1. PICK f \in ToPage :
             /\ Takes(p, f)
             /\ page'[p].otaReStart = "restart" =>
                   page[p].otaReStart = "restart" \/ f.name = "otaEnd"
      BY <1>3 DEF TakesSize, TakesAsk, TakesTrial, TakesOver, Same
    <2>2. conn'[p] = conn[p]
      BY <2>1 DEF Takes
    <2> QED
      BY <1>3, <2>1, <2>2, <1>a, TakenQueue DEF vars, flashVars, httpVars
  <1>4. CASE Connects(p)
    <2>1. page'[p].otaReStart # "restart"
      BY <1>4 DEF Connects, PageInv, NewPage
    <2>2. toPage'[p] = <<>> \/ toPage'[p] = <<Frame("otaCheckRollback", 0)>>
      BY <1>4 DEF Connects
    <2>3. ~Has(<<>>, "otaEnd") /\ ~Has(<<Frame("otaCheckRollback", 0)>>, "otaEnd")
      BY EmptyQueue, AnswerQueues
    <2> QED
      BY <2>1, <2>2, <2>3 DEF EndInv
  <1>5. ASSUME NEW f \in ToDevice, Served(p, f), out'.ret = "OK" PROVE EndInv(p)'
    <2>q. /\ conn'[p] = conn[p] /\ page'[p] = page[p] /\ Has(toDev[p], f.name)
          /\ Has(toPage'[p], "otaEnd") =>
                Has(toPage[p], "otaEnd") \/ (conn[p] = "open" /\ Has(out'.sent, "otaEnd"))
      BY <1>5, ServedQueues DEF DeviceInv
    <2>1. CASE Stopped(f)
      <3>1. ~Has(out'.sent, "otaEnd") /\ UNCHANGED <<running, boot, img, slot>>
        BY <1>5, <2>1, AnswerQueues DEF Stopped
      <3> QED
        BY <2>1, <2>q, <3>1, <1>a DEF Stopped
    <2>2. CASE Begun(f)
      <3>1. ~Has(out'.sent, "otaEnd")
        BY <2>2, AnswerQueues DEF Begun
      <3>2. conn[p] = "open" => toPage[p] = <<>> /\ page[p].otaReStart # "restart"
        BY <2>2, <2>q DEF Begun, SizeInv
      <3> QED
        BY <2>q, <3>1, <3>2, EmptyQueue DEF EndInv
    <2>3. CASE Written(f)
      <3>1. ~Has(out'.sent, "otaEnd") /\ ota_started = 1
        BY <2>3, AnswerQueues DEF Written
      <3> QED
        BY <2>q, <3>1 DEF EndInv
    <2>4. CASE Installed(f)
      <3>1. /\ boot' = Other(running) /\ running' = running /\ ota_started' = 0
            /\ Whole(slot'[Other(running)])
            /\ img'[Other(running)] = NewState
        BY <2>4, <1>s DEF Installed
      <3> QED
        BY <3>1 DEF EndInv, Ready
    <2>5. CASE Judged(f)
      <3>1. img[running] = "PENDING"
        BY <2>5, <2>q DEF Judged, VerdictToken
      <3>2. boot = running
        BY <3>1 DEF DeviceInv, FlashSafe, FallbackReady
      <3>3. ~Ready
        BY <3>2, <1>s DEF Ready
      <3>4. ~Has(out'.sent, "otaEnd")
        BY <2>5, EmptyQueue DEF Judged
      <3> QED
        BY <2>q, <3>3, <3>4 DEF EndInv
    <2>6. CASE Ignored(f)
      <3>1. ~Has(out'.sent, "otaEnd")
        BY <2>6, EmptyQueue DEF Ignored
      <3> QED
        BY <2>6, <2>q, <3>1, <1>a DEF Ignored
    <2> QED
      BY <1>5, <2>1, <2>2, <2>3, <2>4, <2>5, <2>6 DEF Served, Answer
  <1>6. CASE Dropped(p) \/ Cut(p)
    BY <1>6 DEF Dropped, Cut, EndInv
  <1>7. CASE UNCHANGED sysVars
    BY <1>7, <1>a DEF sysVars, vars, flashVars, httpVars, pageVars
  <1> QED
    BY <1>1, <1>2, <1>3, <1>4, <1>5, <1>6, <1>7 DEF Step, Callback

----------------------------------------------------------------------------
(* The chunks of an upload, for a user who waits.                           *)

\* What the callbacks but that of a chunk frame leave to the queues.
LEMMA QuietQueues ==
    ASSUME FramesInv, NEW p \in Page, Callback(p), ~TakesAsk(p), ~Leaves(p)
    PROVE  /\ \A name \in {"binary", "otaGetChunk", "otaEnd", "otaCancel", "otaError"} :
                 Has(toPage'[p], name) => Has(toPage[p], name)
           /\ Has(toDev'[p], "binary") => Has(toDev[p], "binary")
           /\ Has(toDev[p], "otaCancel") => Has(toDev'[p], "otaCancel")
           /\ Once(toDev[p], "binary") => Once(toDev'[p], "binary")
           /\ Once(toPage[p], "otaGetChunk") => Once(toPage'[p], "otaGetChunk")
           /\ \A n : Asks(toPage[p], n) => Asks(toPage'[p], n)
           /\ \A n : Continues(toDev[p], n) => Continues(toDev'[p], n)
           /\ \A d : OfFile(toDev[p], d) => OfFile(toDev'[p], d)
           /\ conn'[p] = conn[p]
  <1>t. toDev[p] \in Seq(ToDevice) /\ toPage[p] \in Seq(ToPage)
    BY QueueTypes
  <1>1. ASSUME NEW f, Sends(p, f), f.name # "binary"
        PROVE  /\ Has(toDev'[p], "binary") => Has(toDev[p], "binary")
               /\ Has(toDev[p], "otaCancel") => Has(toDev'[p], "otaCancel")
               /\ Once(toDev[p], "binary") => Once(toDev'[p], "binary")
               /\ \A n : Continues(toDev[p], n) => Continues(toDev'[p], n)
               /\ \A d : OfFile(toDev[p], d) => OfFile(toDev'[p], d)
               /\ toPage'[p] = toPage[p] /\ conn'[p] = conn[p]
    BY <1>1, <1>t, AppendToQueue DEF Sends
  <1>2. \A name, v : name # "binary" => Command(name, v).name # "binary"
    BY DEF Command
  <1>3. CASE Starts(p) \/ Cancels(p) \/ AsksRestart(p) \/ Judges(p)
    <2>1. PICK f : Sends(p, f) /\ f.name # "binary"
      BY <1>3, <1>2 DEF Starts, Cancels, AsksRestart, Judges
    <2> QED
      BY <2>1, <1>1
  <1>4. CASE FileChosen(p) \/ FileLoaded(p) \/ FileFailed(p)
    BY <1>4 DEF FileChosen, FileLoaded, FileFailed
  <1>5. CASE TakesSize(p) \/ TakesOver(p) \/ TakesTrial(p)
    <2>1. PICK f \in ToPage : Takes(p, f)
      BY <1>5 DEF TakesSize, TakesOver, TakesTrial
    <2>2. toDev'[p] = toDev[p] /\ conn'[p] = conn[p]
      BY <1>5, <2>1 DEF TakesSize, TakesOver, TakesTrial, Takes
    <2> QED
      BY <2>1, <2>2, TakenQueue
  <1> QED
    BY <1>3, <1>4, <1>5 DEF Callback

\* What the callback of a chunk frame does to them.
LEMMA AskedQueues ==
    ASSUME FramesInv, NEW p \in Page, TakesAsk(p), PageInv(p)
    PROVE  /\ \A name : Has(toPage'[p], name) => Has(toPage[p], name)
           /\ Has(toPage[p], "otaGetChunk")
           /\ Once(toPage[p], "otaGetChunk") =>
                 Once(toPage'[p], "otaGetChunk") /\ ~Has(toPage'[p], "otaGetChunk")
           /\ Once(toDev[p], "binary") /\ (conn[p] = "open" => ~Has(toDev[p], "binary")) =>
                 Once(toDev'[p], "binary")
           /\ \A name : name # "binary" => (Has(toDev'[p], name) <=> Has(toDev[p], name))
           /\ OfFile(toDev[p], page[p].otaData) => OfFile(toDev'[p], page[p].otaData)
           /\ conn'[p] = conn[p] /\ page'[p] = page[p]
           /\ conn[p] # "open" => toDev'[p] = toDev[p]
           /\ \A n : /\ Continues(toDev[p], n)
                     /\ conn[p] = "open" /\ ~Has(toDev[p], "otaCancel") =>
                           Asks(toPage[p], n) /\ (Loaded(p) => n <= ImageSize[page[p].otaData])
                     => Continues(toDev'[p], n)
  <1>t. toDev[p] \in Seq(ToDevice) /\ toPage[p] \in Seq(ToPage)
    BY QueueTypes
  <1>1. PICK f \in ToPage :
           /\ Takes(p, f) /\ f.name = "otaGetChunk"
           /\ \/ ~Loaded(p) /\ toDev'[p] = toDev[p]
              \/ LET c == Subarray(page[p].otaData, f.value, page[p].otaSetChunkSize)
                 IN  /\ c \in Chunk /\ c.of = page[p].otaData
                     /\ f.value <= ImageSize[page[p].otaData] => c.at = f.value
                     /\ Loaded(p)
                     /\ BinaryFrame(c) \in ToDevice
                     /\ toDev'[p] = IF conn[p] = "open" THEN Append(toDev[p], BinaryFrame(c))
                                    ELSE toDev[p]
    BY DEF TakesAsk
  <1>2. /\ \A name : Has(toPage'[p], name) => Has(toPage[p], name)
        /\ Has(toPage[p], "otaGetChunk")
        /\ Once(toPage[p], "otaGetChunk") =>
              Once(toPage'[p], "otaGetChunk") /\ ~Has(toPage'[p], "otaGetChunk")
        /\ \A n : Asks(toPage[p], n) => f.value = n
        /\ conn'[p] = conn[p] /\ page'[p] = page[p]
    BY <1>1, TakenQueue DEF TakesAsk, Takes
  <1>3. CASE toDev'[p] = toDev[p]
    BY <1>2, <1>3
  <1>4. CASE toDev'[p] # toDev[p]
    <2> DEFINE c == Subarray(page[p].otaData, f.value, page[p].otaSetChunkSize)
               b == BinaryFrame(c)
    <2>1. /\ b \in ToDevice /\ c.of = page[p].otaData
          /\ f.value <= ImageSize[page[p].otaData] => c.at = f.value
          /\ Loaded(p)
          /\ conn[p] = "open" /\ toDev'[p] = Append(toDev[p], b)
      BY <1>1, <1>4
    <2>2. b.name = "binary" /\ b.chunk = c
      BY DEF BinaryFrame
    <2> HIDE DEF b, c
    <2>3. /\ \A name : name # "binary" => (Has(toDev'[p], name) <=> Has(toDev[p], name))
          /\ Once(toDev[p], "binary") /\ ~Has(toDev[p], "binary") => Once(toDev'[p], "binary")
      BY <2>1, <2>2, <1>t, AppendToQueue
    <2>4. OfFile(toDev[p], page[p].otaData) => OfFile(toDev'[p], page[p].otaData)
      BY <2>1, <2>2, <1>t, AppendToQueue
    <2>5. ASSUME NEW n, Continues(toDev[p], n),
                 ~Has(toDev[p], "otaCancel") =>
                    Asks(toPage[p], n) /\ n <= ImageSize[page[p].otaData]
          PROVE  Continues(toDev'[p], n)
      <3>1. ~Has(toDev[p], "otaCancel") => b.chunk.at = n
        BY <2>1, <2>2, <2>5, <1>2
      <3> QED
        BY <2>1, <2>5, <3>1, <1>t, AppendToQueue
    <2> QED
      BY <1>2, <2>1, <2>3, <2>4, <2>5
  <1> QED
    BY <1>3, <1>4

LEMMA TokenStep ==
    ASSUME TypeOK, FramesInv, NEW p \in Page, PageInv(p), SizeInv(p), ChunkToken(p), Step(p)
    PROVE  ChunkToken(p)'
  <1>t. toDev[p] \in Seq(ToDevice) /\ toPage[p] \in Seq(ToPage)
    BY QueueTypes
  <1>1. CASE Callback(p) /\ ~TakesAsk(p) /\ ~Leaves(p)
    BY <1>1, QuietQueues DEF ChunkToken
  <1>2. CASE TakesAsk(p)
    BY <1>2, AskedQueues DEF ChunkToken
  <1>3. CASE Leaves(p)
    BY <1>3, EmptyQueue DEF Leaves, ChunkToken
  <1>4. CASE Connects(p)
    <2>1. toPage'[p] = <<>> \/ toPage'[p] = <<Frame("otaCheckRollback", 0)>>
      BY <1>4 DEF Connects
    <2>2. ~Has(<<>>, "otaGetChunk") /\ ~Has(<<Frame("otaCheckRollback", 0)>>, "otaGetChunk")
      BY EmptyQueue, AnswerQueues
    <2>3. ~Has(toPage'[p], "otaGetChunk") /\ toDev'[p] = <<>>
      BY <1>4, <2>1, <2>2 DEF Connects
    <2> QED
      BY <2>3, NoneOf, EmptyQueue DEF ChunkToken
  <1>5. ASSUME NEW f \in ToDevice, Served(p, f), out'.ret = "OK" PROVE ChunkToken(p)'
    <2>q. /\ conn'[p] = conn[p] /\ Has(toDev[p], f.name)
          /\ Has(toDev'[p], "binary") => Has(toDev[p], "binary")
          /\ Has(toPage'[p], "otaGetChunk") =>
                Has(toPage[p], "otaGetChunk")
                  \/ (conn[p] = "open" /\ Has(out'.sent, "otaGetChunk"))
      BY <1>5, ServedQueues
    <2>d. /\ Once(toDev'[p], "binary")
          /\ f.name = "binary" => ~Has(toDev'[p], "binary")
      BY <1>5, <1>t, TailOfQueue DEF Served, ChunkToken
    <2>s. PICK r \in Seq(ToPage) :
             /\ Remains(r, out'.sent)
             /\ toPage'[p] = IF conn[p] = "open" THEN toPage[p] \o r ELSE toPage[p]
      BY <1>5 DEF Served
    <2>1. ASSUME ~Has(out'.sent, "otaGetChunk") PROVE ChunkToken(p)'
      <3>0. ~Has(r, "otaGetChunk")
        BY <2>1, <2>s DEF Remains
      <3>1. Once(toPage'[p], "otaGetChunk")
        BY <2>s, <3>0, <1>t, NoneOf, JoinedQueue DEF ChunkToken
      <3> QED
        BY <2>1, <2>q, <2>d, <3>1 DEF ChunkToken
    <2>2. ASSUME Once(out'.sent, "otaGetChunk"), ~Has(toDev'[p], "binary"),
                 conn[p] = "open" => ~Has(toPage[p], "otaGetChunk")
          PROVE  ChunkToken(p)'
      <3>0. Once(r, "otaGetChunk")
        BY <2>2, <2>s DEF Remains
      <3>1. Once(toPage'[p], "otaGetChunk")
        BY <2>2, <2>s, <3>0, <1>t, JoinedQueue DEF ChunkToken
      <3> QED
        BY <2>2, <2>q, <2>d, <3>1 DEF ChunkToken
    <2>3. CASE Stopped(f) \/ Installed(f)
      <3>1. PICK name \in {"otaCancel", "otaError", "otaEnd"} : out'.sent = <<Frame(name, 0)>>
        BY <2>3 DEF Stopped, Installed
      <3> QED
        BY <3>1, <2>1, AnswerQueues
    <2>4. CASE Judged(f) \/ Ignored(f)
      <3>1. out'.sent = <<>>
        BY <2>4 DEF Judged, Ignored
      <3> QED
        BY <3>1, <2>1, EmptyQueue
    <2>5. CASE Begun(f)
      <3>1. Once(out'.sent, "otaGetChunk")
        BY <2>5, AnswerQueues DEF Begun
      <3>2. ~Has(toDev[p], "binary") /\ (conn[p] = "open" => toPage[p] = <<>>)
        BY <2>5, <2>q DEF Begun, SizeInv
      <3> QED
        BY <3>1, <3>2, <2>2, <2>q, EmptyQueue
    <2>6. CASE Written(f)
      <3>1. Once(out'.sent, "otaGetChunk") /\ f.name = "binary"
        BY <2>6, AnswerQueues DEF Written
      <3> QED
        BY <3>1, <2>2, <2>q, <2>d DEF ChunkToken
    <2> QED
      BY <1>5, <2>3, <2>4, <2>5, <2>6 DEF Served, Answer
  <1>6. CASE Dropped(p)
    <2>1. <<Frame("otaError", 0)>> \in Seq(ToPage) /\ <<>> \in Seq(ToPage)
      BY DEF Frame, ToPage, FrameName
    <2>2. ~Has(<<>>, "otaGetChunk") /\ ~Has(<<Frame("otaError", 0)>>, "otaGetChunk")
      BY EmptyQueue, AnswerQueues
    <2>3. ASSUME NEW r \in Seq(ToPage), ~Has(r, "otaGetChunk")
          PROVE  Once(toPage[p] \o r, "otaGetChunk")
      BY <2>3, <1>t, NoneOf, JoinedQueue DEF ChunkToken
    <2>4. Once(toPage'[p], "otaGetChunk")
      BY <1>6, <2>1, <2>2, <2>3 DEF Dropped, ChunkToken
    <2> QED
      BY <1>6, <2>4, EmptyQueue DEF Dropped, ChunkToken
  <1>7. CASE Cut(p)
    BY <1>7, <1>t, CutQueue DEF Cut, ChunkToken
  <1>8. CASE UNCHANGED sysVars
    BY <1>8 DEF sysVars, pageVars, ChunkToken
  <1> QED
    BY <1>1, <1>2, <1>3, <1>4, <1>5, <1>6, <1>7, <1>8 DEF Step

LEMMA SessionOnStep ==
    ASSUME TypeOK, FramesInv, NEW p \in Page, SizeInv(p), SessionOn(p), Step(p)
    PROVE  SessionOn(p)'
  <1> DEFINE Over == {"otaCancel", "otaError", "otaEnd"}
  <1>1. CASE Callback(p) /\ ~TakesAsk(p) /\ ~Leaves(p) /\ UNCHANGED vars
    BY <1>1, QuietQueues DEF SessionOn, vars, httpVars
  <1>2. CASE TakesAsk(p) /\ UNCHANGED vars
    <2>1. PICK f \in ToPage : Takes(p, f)
      BY <1>2 DEF TakesAsk
    <2>2. conn'[p] = conn[p]
      BY <2>1 DEF Takes
    <2> QED
      BY <1>2, <2>1, <2>2, TakenQueue DEF SessionOn, vars, httpVars
  <1>3. CASE Leaves(p)
    BY <1>3 DEF Leaves, SessionOn
  <1>4. CASE Connects(p)
    <2>1. toPage'[p] = <<>> \/ toPage'[p] = <<Frame("otaCheckRollback", 0)>>
      BY <1>4 DEF Connects
    <2>2. \A name \in Over : ~Has(<<>>, name) /\ ~Has(<<Frame("otaCheckRollback", 0)>>, name)
      BY EmptyQueue, AnswerQueues
    <2> QED
      BY <2>1, <2>2 DEF SessionOn
  <1>5. ASSUME NEW f \in ToDevice, Served(p, f), out'.ret = "OK" PROVE SessionOn(p)'
    <2>q. /\ conn'[p] = conn[p] /\ Has(toDev[p], f.name)
          /\ \A name : Has(toPage'[p], name) =>
                Has(toPage[p], name) \/ (conn[p] = "open" /\ Has(out'.sent, name))
      BY <1>5, ServedQueues
    <2>1. CASE Stopped(f) \/ Installed(f) \/ Ignored(f)
      BY <2>1 DEF Stopped, Installed, Ignored, SessionOn
    <2>2. CASE Begun(f)
      <3>1. \A name \in Over : ~Has(out'.sent, name) /\ ~Has(<<>>, name)
        BY <2>2, EmptyQueue, AnswerQueues DEF Begun
      <3>2. conn[p] = "open" => toPage[p] = <<>>
        BY <2>2, <2>q DEF Begun, SizeInv
      <3> QED
        BY <2>q, <3>1, <3>2 DEF SessionOn
    <2>3. CASE Written(f)
      <3>1. \A name \in Over : ~Has(out'.sent, name)
        BY <2>3, AnswerQueues DEF Written
      <3> QED
        BY <2>3, <2>q, <3>1 DEF Written, SessionOn
    <2>4. CASE Judged(f)
      <3>1. \A name \in Over : ~Has(out'.sent, name)
        BY <2>4, EmptyQueue DEF Judged
      <3> QED
        BY <2>4, <2>q, <3>1 DEF Judged, SessionOn
    <2> QED
      BY <1>5, <2>1, <2>2, <2>3, <2>4 DEF Served, Answer
  <1>6. CASE Dropped(p) \/ Cut(p)
    BY <1>6 DEF Dropped, Cut, SessionOn
  <1>7. CASE UNCHANGED sysVars
    BY <1>7 DEF sysVars, vars, httpVars, pageVars, SessionOn
  <1> QED
    BY <1>1, <1>2, <1>3, <1>4, <1>5, <1>6, <1>7 DEF Step

\* While a session is on, a verdict is not due, and so none is given.
LEMMA NoVerdictInSession ==
    ASSUME DeviceInv, FramesInv, NEW p \in Page, VerdictToken(p),
           NEW f \in ToDevice, Served(p, f), Judged(f)
    PROVE  ota_started = 0 /\ ota_started' = 0
  <1>1. Has(toDev[p], "otaProcessRollback")
    BY ServedQueues DEF DeviceInv, Judged
  <1> QED
    BY <1>1 DEF DeviceInv, FlashSafe, FallbackReady, VerdictToken, Judged

LEMMA UploadStep ==
    ASSUME DeviceInv, FramesInv, NEW p \in Page, Patient, PageInv(p), VerdictToken(p),
           SizeInv(p), ChunkToken(p), SessionOn(p), UploadInv(p), Step(p)
    PROVE  UploadInv(p)'
  <1>t. /\ toDev[p] \in Seq(ToDevice) /\ toPage[p] \in Seq(ToPage) /\ page[p] \in PageType
        /\ TypeOK /\ SessionInv
    BY QueueTypes DEF DeviceInv, FramesInv
  <1>s. ota_started \in 0 .. 1
    BY <1>t DEF TypeOK, HttpTypeOK
  <1>1. CASE Callback(p) /\ ~TakesAsk(p) /\ ~Leaves(p) /\ UNCHANGED vars
    <2>q. /\ Has(toPage'[p], "otaGetChunk") => Has(toPage[p], "otaGetChunk")
          /\ Has(toDev'[p], "binary") => Has(toDev[p], "binary")
          /\ Has(toDev[p], "otaCancel") => Has(toDev'[p], "otaCancel")
          /\ \A n : Asks(toPage[p], n) => Asks(toPage'[p], n)
          /\ \A n : Continues(toDev[p], n) => Continues(toDev'[p], n)
          /\ conn'[p] = conn[p]
      BY <1>1, QuietQueues
    <2>v. UNCHANGED <<ota_started, ota_start_chunk, ota_size>>
      BY <1>1 DEF vars, httpVars
    <2>c. ASSUME conn[p] = "open" /\ page'[p].otaStarted = 1 => ~Has(toDev'[p], "otaCancel"),
                 \/ page'[p].otaStarted = page[p].otaStarted /\ page'[p].otaData = page[p].otaData
                 \/ ~(conn[p] = "open" /\ ota_started = 1 /\ ~Has(toDev'[p], "otaCancel")
                        /\ (Has(toPage[p], "otaGetChunk") \/ Has(toDev[p], "binary")))
          PROVE  UploadInv(p)'
      BY <2>q, <2>v, <2>c DEF UploadInv
    <2>1. CASE FileChosen(p) \/ FileFailed(p)
      BY <2>1, <2>c DEF FileChosen, FileFailed, Same, UploadInv
    <2>2. CASE FileLoaded(p)
      <3>1. page[p].otaStarted # 1
        BY <2>2 DEF FileLoaded, ReadingEnds, SizeInv
      <3>2. page'[p].otaStarted # 1 /\ toDev'[p] = toDev[p]
        BY <2>2, <3>1 DEF FileLoaded, Same
      <3> QED
        BY <3>1, <3>2, <2>c DEF UploadInv
    <2>3. CASE Starts(p)
      <3>1. toDev[p] = <<>> /\ toPage[p] = <<>>
        BY <2>3 DEF Starts, NothingPending
      <3>2. \A name : ~Has(toDev[p], name) /\ ~Has(toPage[p], name)
        BY <3>1, EmptyQueue
      <3>3. ~Has(toDev'[p], "otaCancel")
        <4> DEFINE f == Command("otaSize", ImageSize[page[p].otaData])
        <4>1. Sends(p, f)
          BY <2>3 DEF Starts
        <4>2. f.name = "otaSize"
          BY DEF Command
        <4> HIDE DEF f
        <4> QED
          BY <4>1, <4>2, <3>2, <1>t, AppendToQueue DEF Sends
      <3> QED
        BY <3>2, <3>3, <2>c
    <2>4. CASE Cancels(p)
      <3>1. page'[p].otaStarted = 0
        BY <2>4 DEF Cancels
      <3>2. conn[p] = "open" => Has(toDev'[p], "otaCancel")
        <4> DEFINE f == Command("otaCancel", 0)
        <4>1. Sends(p, f)
          BY <2>4 DEF Cancels
        <4>2. f.name = "otaCancel"
          BY DEF Command
        <4> HIDE DEF f
        <4> QED
          BY <4>1, <4>2, <1>t, AppendToQueue DEF Sends
      <3> QED
        BY <3>1, <3>2, <2>c
    <2>5. CASE AsksRestart(p) \/ Judges(p)
      <3>1. PICK f \in ToDevice : Sends(p, f) /\ f.name # "otaCancel"
        BY <2>5 DEF AsksRestart, Judges, Sends, Command
      <3>2. Has(toDev'[p], "otaCancel") => Has(toDev[p], "otaCancel")
        BY <3>1, <1>t, AppendToQueue DEF Sends
      <3>3. page'[p].otaStarted = page[p].otaStarted /\ page'[p].otaData = page[p].otaData
        BY <2>5 DEF AsksRestart, Judges, Same
      <3> QED
        BY <3>2, <3>3, <2>c DEF UploadInv
    <2>6. CASE TakesSize(p) \/ TakesTrial(p)
      <3>1. /\ page'[p].otaStarted = page[p].otaStarted /\ page'[p].otaData = page[p].otaData
            /\ toDev'[p] = toDev[p]
        BY <2>6 DEF TakesSize, TakesTrial, Same
      <3> QED
        BY <3>1, <2>c DEF UploadInv
    <2>7. CASE TakesOver(p)
      <3>1. PICK f \in ToPage : Takes(p, f) /\ f.name \in {"otaEnd", "otaError", "otaCancel"}
        BY <2>7 DEF TakesOver
      <3>2. Has(toPage[p], f.name)
        BY <3>1, TakenQueue
      <3>3. conn[p] = "open" => ota_started # 1
        BY <3>1, <3>2 DEF SessionOn
      <3>4. page'[p].otaStarted = 0
        BY <2>7 DEF TakesOver
      <3> QED
        BY <3>3, <3>4, <2>c
    <2> QED
      BY <1>1, <2>1, <2>2, <2>3, <2>4, <2>5, <2>6, <2>7 DEF Callback
  <1>2. CASE TakesAsk(p) /\ UNCHANGED vars
    <2>v. UNCHANGED <<ota_started, ota_start_chunk, ota_size>>
      BY <1>2 DEF vars, httpVars
    <2>q. /\ \A name : Has(toPage'[p], name) => Has(toPage[p], name)
          /\ Has(toPage[p], "otaGetChunk")
          /\ ~Has(toPage'[p], "otaGetChunk")
          /\ \A name : name # "binary" => (Has(toDev'[p], name) <=> Has(toDev[p], name))
          /\ conn'[p] = conn[p] /\ page'[p] = page[p]
      BY <1>2, AskedQueues DEF ChunkToken
    <2>1. ASSUME ota_started = 1, conn[p] = "open", ~Has(toDev[p], "otaCancel")
          PROVE  /\ Asks(toPage[p], ota_start_chunk)
                 /\ page[p].otaStarted = 1 /\ ota_size = ImageSize[page[p].otaData]
                 /\ ota_start_chunk <= ImageSize[page[p].otaData]
      <3>1. /\ Asks(toPage[p], ota_start_chunk)
            /\ page[p].otaStarted = 1 /\ ota_size = ImageSize[page[p].otaData]
        BY <2>1, <2>q DEF UploadInv
      <3>2. page[p].otaData \in Image
        BY <3>1, <1>t DEF PageInv, Loaded, PageType
      <3>3. ota_size \in 0 .. SlotSize
        BY <3>1, <3>2, FileSize, FlashAssumption
      <3>4. Unsigned(ota_size) = ota_size
        BY <3>3, UnsignedSmall
      <3>5. ota_start_chunk < ota_size
        BY <2>1, <3>4, <1>t DEF SessionInv
      <3>6. ota_start_chunk \in Nat /\ ota_size \in Int
        BY <1>t DEF TypeOK, HttpTypeOK
      <3> QED
        BY <3>1, <3>5, <3>6
    <2>2. ota_started = 1 => Continues(toDev'[p], ota_start_chunk)
      BY <1>2, <2>1, AskedQueues DEF UploadInv
    <2>3. Asks(toPage'[p], ota_start_chunk)
      BY <2>q, NoneOf
    <2> QED
      BY <2>v, <2>q, <2>1, <2>2, <2>3 DEF UploadInv
  <1>3. CASE Leaves(p) /\ UNCHANGED vars
    BY <1>3 DEF Leaves, UploadInv, vars, httpVars
  <1>4. CASE Connects(p)
    <2>1. toPage'[p] = <<>> \/ toPage'[p] = <<Frame("otaCheckRollback", 0)>>
      BY <1>4 DEF Connects
    <2>2. ~Has(<<>>, "otaGetChunk") /\ ~Has(<<Frame("otaCheckRollback", 0)>>, "otaGetChunk")
      BY EmptyQueue, AnswerQueues
    <2>3. ~Has(toPage'[p], "otaGetChunk") /\ toDev'[p] = <<>>
      BY <1>4, <2>1, <2>2 DEF Connects
    <2>4. /\ Asks(toPage'[p], ota_start_chunk') /\ Continues(toDev'[p], ota_start_chunk')
          /\ ~Has(toDev'[p], "binary") /\ ~Has(toDev'[p], "otaCancel")
      BY <2>3, NoneOf, EmptyQueue
    <2> QED
      BY <2>3, <2>4 DEF UploadInv
  <1>5. ASSUME NEW f \in ToDevice, Served(p, f), out'.ret = "OK" PROVE UploadInv(p)'
    <2>q. /\ conn'[p] = conn[p] /\ page'[p] = page[p] /\ Has(toDev[p], f.name)
          /\ \A name : Has(toDev'[p], name) => Has(toDev[p], name)
          /\ \A name : Has(toDev[p], name) => f.name = name \/ Has(toDev'[p], name)
          /\ \A name : Has(toPage'[p], name) =>
                Has(toPage[p], name) \/ (conn[p] = "open" /\ Has(out'.sent, name))
      BY <1>5, <1>t, ServedQueues
    <2>s. PICK r \in Seq(ToPage) :
             /\ Remains(r, out'.sent)
             /\ toPage'[p] = IF conn[p] = "open" THEN toPage[p] \o r ELSE toPage[p]
      BY <1>5 DEF Served
    <2>o. ASSUME ota_started' = 0 PROVE UploadInv(p)'
      BY <2>o, <2>q DEF UploadInv
    <2>j. ASSUME NEW n, Asks(out'.sent, n), conn[p] = "open", Asks(toPage[p], n)
          PROVE  Asks(toPage'[p], n)
      <3>1. Asks(r, n)
        BY <2>s, <2>j DEF Remains
      <3> QED
        BY <2>s, <2>j, <3>1, <1>t, JoinedQueue
    <2>1. CASE Stopped(f) \/ Installed(f) \/ Ignored(f) \/ Judged(f)
      BY <1>5, <2>1, <2>o, NoVerdictInSession DEF Stopped, Installed, Ignored
    <2>2. CASE Begun(f)
      <3>1. /\ f.name = "otaSize" /\ f = Head(toDev[p])
            /\ ota_start_chunk' = 0 /\ ota_size' = f.value
        BY <1>5, <2>2 DEF Begun, Served
      <3>2. ~Has(toDev[p], "binary") /\ ~Has(toDev'[p], "binary")
        BY <2>q, <3>1 DEF SizeInv
      <3>3. ASSUME conn[p] = "open", ~Has(toDev'[p], "otaCancel")
            PROVE  /\ page[p].otaStarted = 1 /\ ota_size' = ImageSize[page[p].otaData]
                   /\ Asks(toPage'[p], ota_start_chunk')
        <4>1. ~Has(toDev[p], "otaCancel")
          BY <2>q, <3>1, <3>3
        <4>2. /\ page[p].otaStarted = 1 /\ f.value = ImageSize[page[p].otaData]
              /\ toPage[p] = <<>>
          BY <2>q, <3>1, <3>3, <4>1 DEF SizeInv
        <4>3. Asks(toPage[p], 0)
          BY <4>2, EmptyQueue
        <4>4. Asks(out'.sent, 0)
          BY <2>2, AnswerQueues DEF Begun
        <4> QED
          BY <3>1, <3>3, <4>2, <4>3, <4>4, <2>j
      <3>4. Continues(toDev'[p], ota_start_chunk')
        BY <3>2, NoneOf
      <3> QED
        BY <2>q, <3>3, <3>4 DEF UploadInv
    <2>3. CASE Written(f)
      <3>1. /\ f.name = "binary" /\ ota_started = 1
            /\ ota_size' = ota_size
            /\ out'.sent = <<Frame("otaGetChunk", ota_start_chunk')>>
        BY <2>3 DEF Written
      <3>2. ~Has(toDev'[p], "binary")
        <4>1. toDev[p] # <<>> /\ f = Head(toDev[p]) /\ toDev'[p] = Tail(toDev[p])
          BY <1>5 DEF Served
        <4>2. toDev[p] \in Seq(ToDevice) /\ Once(toDev[p], "binary")
          BY <1>t DEF ChunkToken
        <4> QED
          BY <3>1, <4>1, <4>2, TailOfQueue
      <3>3. ASSUME conn[p] = "open", ~Has(toDev'[p], "otaCancel")
            PROVE  /\ page[p].otaStarted = 1 /\ ota_size' = ImageSize[page[p].otaData]
                   /\ Asks(toPage'[p], ota_start_chunk')
        <4>1. ~Has(toDev[p], "otaCancel") /\ Has(toDev[p], "binary")
          BY <2>q, <3>1, <3>3
        <4>2. page[p].otaStarted = 1 /\ ota_size = ImageSize[page[p].otaData]
          BY <3>1, <3>3, <4>1 DEF UploadInv
        <4>3. ~Has(toPage[p], "otaGetChunk")
          BY <3>3, <4>1 DEF ChunkToken
        <4>4. Asks(toPage[p], ota_start_chunk')
          BY <4>3, NoneOf
        <4>5. Asks(out'.sent, ota_start_chunk')
          BY <3>1, AnswerQueues
        <4> QED
          BY <3>1, <3>3, <4>2, <4>4, <4>5, <2>j
      <3>4. Continues(toDev'[p], ota_start_chunk')
        BY <3>2, NoneOf
      <3> QED
        BY <2>q, <3>3, <3>4 DEF UploadInv
    <2> QED
      BY <1>5, <2>1, <2>2, <2>3 DEF Served, Answer
  <1>6. CASE Dropped(p)
    BY <1>6, EmptyQueue DEF Dropped, UploadInv
  <1>7. CASE Cut(p)
    BY <1>7, <1>t, CutQueue DEF Cut, UploadInv, vars, httpVars
  <1>8. CASE UNCHANGED sysVars
    BY <1>8 DEF sysVars, vars, httpVars, pageVars, UploadInv
  <1> QED
    BY <1>1, <1>2, <1>3, <1>4, <1>5, <1>6, <1>7, <1>8 DEF Step

LEMMA FileStep ==
    ASSUME DeviceInv, FramesInv, NEW p \in Page, Patient, PageInv(p), VerdictToken(p),
           SizeInv(p), FileInv(p), Step(p)
    PROVE  FileInv(p)'
  <1>t. /\ toDev[p] \in Seq(ToDevice) /\ toPage[p] \in Seq(ToPage) /\ TypeOK
        /\ running \in Slots /\ slot \in [Slots -> Content] /\ ota_started \in 0 .. 1
    BY QueueTypes DEF DeviceInv, FramesInv, TypeOK, FlashTypeOK, HttpTypeOK
  <1>1. CASE Callback(p) /\ ~TakesAsk(p) /\ ~Leaves(p) /\ UNCHANGED vars
    <2>q. /\ \A d : OfFile(toDev[p], d) => OfFile(toDev'[p], d)
          /\ conn'[p] = conn[p]
      BY <1>1, QuietQueues
    <2>v. UNCHANGED <<slot, running, ota_started>>
      BY <1>1 DEF vars, flashVars, httpVars
    <2>a. ASSUME /\ page'[p].otaStarted \in {0, page[p].otaStarted}
                 /\ page'[p].otaData = page[p].otaData
                 /\ Has(toDev[p], "otaSize") => Has(toDev'[p], "otaSize")
          PROVE  FileInv(p)'
      BY <2>q, <2>v, <2>a DEF FileInv
    <2>1. CASE FileChosen(p) \/ FileFailed(p) \/ TakesSize(p) \/ TakesTrial(p) \/ TakesOver(p)
      BY <2>1, <2>a DEF FileChosen, FileFailed, TakesSize, TakesTrial, TakesOver, Same
    <2>2. CASE FileLoaded(p)
      BY <2>2 DEF FileLoaded, ReadingEnds, Same, SizeInv, FileInv
    <2>3. CASE Starts(p)
      <3>1. CASE conn[p] = "open"
        <4> DEFINE f == Command("otaSize", ImageSize[page[p].otaData])
        <4>1. Sends(p, f) /\ toDev[p] = <<>>
          BY <2>3 DEF Starts, NothingPending
        <4>2. f.name = "otaSize"
          BY DEF Command
        <4> HIDE DEF f
        <4>3. f \in ToDevice /\ toDev'[p] = Append(toDev[p], f)
          BY <4>1, <3>1, <1>t DEF Sends
        <4>t. toDev[p] \in Seq(ToDevice)
          BY <1>t
        <4>5. Has(toDev'[p], "otaSize")
          BY <4>3, <4>2, <4>t, AppendToQueue
        <4>4. OfFile(toDev'[p], page'[p].otaData)
          BY <4>1, <2>q, EmptyQueue
        <4> QED
          BY <4>5, <4>4 DEF FileInv
      <3>2. CASE conn[p] # "open"
        BY <3>2, <2>q DEF FileInv
      <3> QED
        BY <3>1, <3>2
    <2>4. CASE Cancels(p) \/ AsksRestart(p) \/ Judges(p)
      <3>1. PICK f \in ToDevice : Sends(p, f)
        BY <2>4 DEF Cancels, AsksRestart, Judges, Sends
      <3>2. Has(toDev[p], "otaSize") => Has(toDev'[p], "otaSize")
        BY <3>1, <1>t, AppendToQueue DEF Sends
      <3>3. page'[p].otaStarted \in {0, page[p].otaStarted} /\ page'[p].otaData = page[p].otaData
        BY <2>4 DEF Cancels, AsksRestart, Judges, Same
      <3> QED
        BY <3>2, <3>3, <2>a
    <2> QED
      BY <1>1, <2>1, <2>2, <2>3, <2>4 DEF Callback
  <1>2. CASE TakesAsk(p) /\ UNCHANGED vars
    <2>1. /\ OfFile(toDev[p], page[p].otaData) => OfFile(toDev'[p], page[p].otaData)
          /\ Has(toDev'[p], "otaSize") <=> Has(toDev[p], "otaSize")
          /\ conn'[p] = conn[p] /\ page'[p] = page[p]
      BY <1>2, AskedQueues
    <2>2. UNCHANGED <<slot, running, ota_started>>
      BY <1>2 DEF vars, flashVars, httpVars
    <2> QED
      BY <2>1, <2>2 DEF FileInv
  <1>3. CASE Leaves(p) \/ Dropped(p) \/ Cut(p)
    BY <1>3 DEF Leaves, Dropped, Cut, FileInv
  <1>4. CASE Connects(p)
    <2>1. page'[p].otaStarted = 0
      BY <1>4 DEF Connects, PageInv, NewPage
    <2> QED
      BY <2>1 DEF FileInv
  <1>5. ASSUME NEW f \in ToDevice, Served(p, f), out'.ret = "OK" PROVE FileInv(p)'
    <2>q. /\ conn'[p] = conn[p] /\ page'[p] = page[p] /\ Has(toDev[p], f.name)
          /\ \A d : OfFile(toDev[p], d) => OfFile(toDev'[p], d)
          /\ \A name : Has(toDev[p], name) => f.name = name \/ Has(toDev'[p], name)
      BY <1>5, <1>t, ServedQueues, TailOfQueue DEF Served
    <2>o. ASSUME ota_started' = 0 PROVE FileInv(p)'
      BY <2>o, <2>q DEF FileInv
    <2>1. CASE Stopped(f) \/ Installed(f) \/ Ignored(f) \/ Judged(f)
      BY <1>5, <2>1, <2>o, NoVerdictInSession DEF Stopped, Installed, Ignored
    <2>2. CASE Begun(f)
      <3>1. slot'[Other(running)].of = NoImage /\ running' = running
        BY <2>2, <1>t DEF Begun, Erased
      <3> QED
        BY <3>1, <2>q DEF FileInv
    <2>3. CASE Written(f)
      <3>1. /\ f.name = "binary" /\ f = Head(toDev[p]) /\ ota_started = 1
            /\ slot'[Other(running)] = Appended(slot[Other(running)], f.chunk)
            /\ running' = running
        BY <1>5, <2>3, <1>t DEF Written, Served
      <3>2. ASSUME conn[p] = "open", page[p].otaStarted = 1
            PROVE  slot'[Other(running)].of \in {NoImage, page[p].otaData}
        <4>1. ~Has(toDev[p], "otaSize")
          BY <2>q, <3>1 DEF SizeInv
        <4>2. slot[Other(running)].of \in {NoImage, page[p].otaData}
          BY <3>1, <3>2, <4>1 DEF FileInv
        <4>3. f.chunk.of = page[p].otaData
          BY <1>5, <3>1, <3>2, <1>t, HeadOfQueue DEF Served, FileInv
        <4>4. slot[Other(running)] \in Content
          BY <1>t
        <4> QED
          BY <3>1, <4>2, <4>3, <4>4 DEF Appended, Content
      <3> QED
        BY <3>1, <3>2, <2>q DEF FileInv
    <2> QED
      BY <1>5, <2>1, <2>2, <2>3 DEF Served, Answer
  <1>6. CASE UNCHANGED sysVars
    BY <1>6 DEF sysVars, vars, flashVars, httpVars, pageVars, FileInv
  <1> QED
    BY <1>1, <1>2, <1>3, <1>4, <1>5, <1>6 DEF Step

----------------------------------------------------------------------------
(* What one window and a user who waits are promised.                       *)

WindowInv(p) ==
    /\ PageInv(p) /\ VerdictToken(p)
    /\ SizeInv(p) /\ EndInv(p)
    /\ ChunkToken(p) /\ SessionOn(p) /\ UploadInv(p) /\ FileInv(p)

LEMMA WindowInvariant ==
    ASSUME OneWindow, Patient
    PROVE  SysSpec => [](DeviceInv /\ FramesInv /\ \A p \in Page : WindowInv(p))
  <1> DEFINE Inv == \A p \in Page : WindowInv(p)
  <1>1. SysInit => Inv
    <2> SUFFICES ASSUME SysInit, NEW p \in Page PROVE WindowInv(p)
      OBVIOUS
    <2>1. /\ page[p] = NewPage /\ conn[p] = "closed"
          /\ toDev[p] = <<>> /\ toPage[p] = <<>> /\ ota_started = 0
      BY DEF SysInit, PageInit, Init, HttpInit
    <2>2. page[p].otaStarted = 0 /\ page[p].otaReStart = "hidden"
      BY <2>1 DEF NewPage
    <2> QED
      BY <2>1, <2>2, EmptyQueue
      DEF WindowInv, PageInv, VerdictToken, SizeInv, EndInv, ChunkToken, SessionOn, UploadInv,
          FileInv
  <1>2. DeviceInv /\ FramesInv /\ Inv /\ [SysNext]_sysVars => Inv'
    <2> SUFFICES ASSUME DeviceInv, FramesInv, Inv, [SysNext]_sysVars, NEW p \in Page
                 PROVE  WindowInv(p)'
      OBVIOUS
    <2>1. Step(p) /\ TypeOK /\ WindowInv(p)
      BY AnyStep DEF DeviceInv
    <2> QED
      BY <2>1, PageStepInv, VerdictStep, SizeStep, EndStep, TokenStep, SessionOnStep,
         UploadStep, FileStep DEF WindowInv
  <1> QED
    BY <1>1, <1>2, DeviceInvariant, PTL DEF SysSpec

\* When the page of a user who waits offers to restart with the new firmware, the
\* device will start it: it is selected, whole, and due for its first start.
THEOREM RestartTruth == ASSUME OneWindow, Patient PROVE SysSpec => []RestartIsReady
  <1>1. (\A p \in Page : WindowInv(p)) => RestartIsReady
    BY DEF WindowInv, EndInv, Ready, RestartIsReady
  <1> QED
    BY <1>1, WindowInvariant, PTL

\* No chunk of such a user is written out of place: the one that arrives during a
\* session begins where the last one ended.
THEOREM ChunkOrder == ASSUME OneWindow, Patient PROVE SysSpec => ChunksInOrder
  <1> DEFINE InOrder == \A p \in Page :
               DeviceHandles(p) /\ Head(toDev[p]).name = "binary" /\ ota_started = 1
                   => Head(toDev[p]).chunk.at = ota_start_chunk
  <1>1. FramesInv /\ (\A p \in Page : WindowInv(p)) /\ [SysNext]_sysVars => [InOrder]_sysVars
    <2> SUFFICES ASSUME FramesInv, NEW p \in Page, UploadInv(p), DeviceHandles(p),
                        Head(toDev[p]).name = "binary", ota_started = 1
                 PROVE  Head(toDev[p]).chunk.at = ota_start_chunk
      BY DEF WindowInv
    <2>1. toDev[p] \in Seq(ToDevice) /\ toDev[p] # <<>>
      BY QueueTypes DEF DeviceHandles
    <2> QED
      BY <2>1, HeadOfQueue DEF UploadInv
  <1> QED
    BY <1>1, WindowInvariant, PTL DEF SysSpec, ChunksInOrder

\* And what such an upload installs is one file, the one whose data the page holds;
\* that its name is the one shown is not so.
THEOREM FileTruth == ASSUME OneWindow, Patient PROVE SysSpec => InstalledIsChosen
  <1> DEFINE Chosen == \A p \in Page :
               /\ DeviceHandles(p) /\ out'.sent = <<Frame("otaEnd", 0)>>
               /\ conn[p] = "open" /\ page[p].otaStarted = 1
               => slot'[boot'].of = page[p].otaData
  <1>1. DeviceInv /\ FramesInv /\ (\A p \in Page : WindowInv(p)) /\ [SysNext]_sysVars
          => [Chosen]_sysVars
    <2> SUFFICES ASSUME DeviceInv, FramesInv, NEW p \in Page, WindowInv(p), DeviceHandles(p),
                        out'.sent = <<Frame("otaEnd", 0)>>,
                        conn[p] = "open", page[p].otaStarted = 1
                 PROVE  slot'[boot'].of = page[p].otaData
      OBVIOUS
    <2> DEFINE f == Head(toDev[p])
    <2>t. /\ toDev[p] \in Seq(ToDevice) /\ toDev[p] # <<>> /\ f \in ToDevice /\ Handle(p, f)
          /\ running \in Slots /\ slot \in [Slots -> Content]
      BY QueueTypes, HeadIsFrame DEF DeviceHandles, DeviceInv, TypeOK, FlashTypeOK
    <2>h. Has(toDev[p], f.name) /\ (f.name = "binary" => f.chunk.of = page[p].otaData)
      BY <2>t, HeadOfQueue DEF WindowInv, FileInv
    <2> HIDE DEF f
    <2>1. Installed(f)
      <3>1. \A name : <<Frame(name, 0)>> = <<Frame("otaEnd", 0)>> => name = "otaEnd"
        BY DEF Frame
      <3>2. \A name, n : <<Frame(name, n)>> = <<Frame("otaEnd", 0)>> => name = "otaEnd"
        BY DEF Frame
      <3>3. ~Stopped(f)
        BY <3>1 DEF Stopped
      <3>4. ~Written(f) /\ ~Begun(f)
        BY <3>2 DEF Written, Begun
      <3>0. out'.sent # <<>>
        OBVIOUS
      <3>5. ~Judged(f) /\ ~Ignored(f)
        <4>1. ASSUME Judged(f) PROVE out'.sent = <<>>
          <5>1. CASE out' = [sent |-> <<>>, ret |-> "OK"]
            BY <5>1
          <5>2. CASE out' = [sent |-> <<>>, ret |-> "FAIL"]
            BY <5>2
          <5> QED
            BY <4>1, <5>1, <5>2 DEF Judged
        <4>2. Ignored(f) => out'.sent = <<>>
          BY DEF Ignored
        <4> QED
          BY <3>0, <4>1, <4>2
      <3>6. CASE Answered(p) /\ Answer(f)
        BY <3>3, <3>4, <3>5, <3>6 DEF Answer
      <3>7. CASE ~(Answered(p) /\ Answer(f))
        BY <2>t, <3>0, <3>7, HandleCases
      <3> QED
        BY <3>6, <3>7
    <2>2. /\ ~Has(toDev[p], "otaSize") /\ ota_started = 1
          /\ slot'[boot'] = Appended(slot[Other(running)], f.chunk)
          /\ Whole(slot'[boot'])
          /\ f.chunk.of = page[p].otaData
      BY <2>1, <2>t, <2>h DEF Installed, WindowInv, SizeInv
    <2>3. slot[Other(running)].of \in {NoImage, page[p].otaData}
      BY <2>2 DEF WindowInv, FileInv
    <2>4. slot'[boot'].of \in {NoImage, page[p].otaData}
      BY <2>2, <2>3, <2>t DEF Appended, Content
    <2> QED
      BY <2>2, <2>4, FlashAssumption DEF Whole
  <1> QED
    BY <1>1, WindowInvariant, PTL DEF SysSpec, InstalledIsChosen
=============================================================================
