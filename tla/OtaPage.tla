------------------------------- MODULE OtaPage ------------------------------
(* source/ota_ws_update.html: the script of the page.  A user may keep the  *)
(* page open in several windows; each is a member of Page with a websocket  *)
(* of its own, two FIFO queues of frames.  The page is event driven: every  *)
(* callback is one step, and the clicks come when the user likes.           *)
EXTENDS OtaWs

CONSTANTS
    Page,       \* the open windows
    MaxFrames,  \* the user clicks while fewer frames than this are under way
    MaxReaders, \* a file is chosen again while fewer readers than this read it
    Patient     \* whether the user clicks Start only when nothing is pending

ASSUME PageAssumption ==
    /\ {MaxFrames, MaxReaders} \subseteq Nat
    /\ Patient \in BOOLEAN
    /\ \A i \in Image : ImageSize[i] \in SizeValues  \* atoi gets the length of a file right

VARIABLES
    page,    \* the variables of the script and which elements are shown
    conn,    \* "open"; "closing" once the device is gone; "closed" if no page
    toDev,   \* frames on their way to the device
    toPage   \* frames on their way to the page

pageVars == <<page, conn, toDev, toPage>>

NoChunk == [of |-> NoImage, at |-> 0, len |-> 0]
Command(name, value) == [name |-> name, value |-> value, chunk |-> NoChunk]
BinaryFrame(c) == [name |-> "binary", value |-> 0, chunk |-> c]

CommandName == {"otaSize", "otaCancel", "otaProcessRollback", "otaRestartEsp"}

CommandType ==
    [name : CommandName, value : Nat, chunk : {NoChunk}]
        \cup [name : {"binary"}, value : {0}, chunk : Chunk]

\* fileName: the file the page shows as chosen.  reading: how many FileReaders are at
\* work on each file.
PageType ==
    [otaData : Image \cup {NoImage}, fileName : Image \cup {NoImage},
     reading : [Image -> 0 .. MaxReaders], otaSetChunkSize : Nat, otaStarted : 0 .. 1,
     rollback : {"shown", "hidden"}, otaStartCancel : {"shown", "hidden"},
     otaReStart : {"hidden", "restart", "cancelled"}]

NewPage ==
    [otaData |-> NoImage, fileName |-> NoImage, reading |-> [i \in Image |-> 0],
     otaSetChunkSize |-> 0, otaStarted |-> 0,
     rollback |-> "hidden", otaStartCancel |-> "shown", otaReStart |-> "hidden"]

PageTypeOK ==
    /\ page \in [Page -> PageType]
    /\ conn \in [Page -> {"open", "closing", "closed"}]
    /\ toDev \in [Page -> Seq(CommandType)]
    /\ toPage \in [Page -> Seq(FrameType)]

PageInit ==
    /\ page = [p \in Page |-> NewPage]
    /\ conn = [p \in Page |-> "closed"]
    /\ toDev = [p \in Page |-> <<>>]
    /\ toPage = [p \in Page |-> <<>>]

----------------------------------------------------------------------------
\* socket.send: into a socket that is not open it does nothing.
Sent(p, f) ==
    toDev' = IF conn[p] = "open" THEN [toDev EXCEPT ![p] = Append(@, f)] ELSE toDev

Visible(p) == conn[p] # "closed"
UpdateShown(p) == Visible(p) /\ page[p].rollback = "hidden"
MayClick(p) == Visible(p) /\ Len(toDev[p]) + Len(toPage[p]) < MaxFrames

Loaded(p) == page[p].otaData # NoImage

\* Mutant: the button is not disabled during an upload.
SelectFile_AnyTime(p, i) ==
    /\ UpdateShown(p)
    /\ page[p].reading[i] < MaxReaders
    /\ page' = [page EXCEPT ![p].fileName = i, ![p].reading[i] = @ + 1]
    /\ UNCHANGED <<conn, toDev, toPage>>

\* readOtaFile, with the button otaFileSelect, which a running upload disables.  Each
\* file has a FileReader of its own, whatever others are at work.
SelectFile(p, i) ==
    /\ UpdateShown(p)
    /\ page[p].otaStarted = 0
    /\ page[p].reading[i] < MaxReaders
    /\ page' = [page EXCEPT ![p].fileName = i, ![p].reading[i] = @ + 1]
    /\ UNCHANGED <<conn, toDev, toPage>>

\* Mutant: the restart button is left as it is.
FileRead_KeepsButton(p, i) ==
    /\ Visible(p)
    /\ page[p].reading[i] > 0
    /\ page' = [page EXCEPT ![p].otaData = i,
                            ![p].reading[i] = @ - 1,
                            ![p].otaStartCancel = "shown"]
    /\ UNCHANGED <<conn, toDev, toPage>>

\* reader.onload, in whatever order readers end and whatever the page does by then.
FileRead(p, i) ==
    /\ Visible(p)
    /\ page[p].reading[i] > 0
    /\ page' = [page EXCEPT ![p].otaData = i,
                            ![p].reading[i] = @ - 1,
                            ![p].otaStartCancel = "shown",
                            ![p].otaReStart = "hidden"]
    /\ UNCHANGED <<conn, toDev, toPage>>

\* reader.onerror only writes to the log.
FileFails(p, i) ==
    /\ Visible(p)
    /\ page[p].reading[i] > 0
    /\ page' = [page EXCEPT ![p].reading[i] = @ - 1]
    /\ UNCHANGED <<conn, toDev, toPage>>

NothingPending(p) ==
    toDev[p] = <<>> /\ toPage[p] = <<>> /\ \A i \in Image : page[p].reading[i] = 0

\* One button, otaStartCancel.
ClickStart(p) ==
    /\ MayClick(p) /\ UpdateShown(p) /\ page[p].otaStartCancel = "shown"
    /\ Loaded(p) /\ page[p].otaStarted = 0
    /\ Patient => NothingPending(p)
    /\ Sent(p, Command("otaSize", ImageSize[page[p].otaData]))
    /\ page' = [page EXCEPT ![p].otaStarted = 1]
    /\ UNCHANGED <<conn, toPage>>

ClickCancel(p) ==
    /\ MayClick(p) /\ UpdateShown(p) /\ page[p].otaStartCancel = "shown"
    /\ ~(Loaded(p) /\ page[p].otaStarted = 0)
    /\ Sent(p, Command("otaCancel", 0))
    /\ page' = [page EXCEPT ![p].otaStarted = 0]
    /\ UNCHANGED <<conn, toPage>>

ClickReStart(p) ==
    /\ MayClick(p) /\ UpdateShown(p) /\ page[p].otaReStart = "restart"
    /\ Sent(p, Command("otaRestartEsp", 0))
    /\ UNCHANGED <<page, conn, toPage>>

\* Mutant: the panel stays.
ClickVerdict_KeepsPanel(p) ==
    /\ MayClick(p) /\ page[p].rollback = "shown"
    /\ \E verdict \in 0 .. 1 : Sent(p, Command("otaProcessRollback", verdict))
    /\ UNCHANGED <<page, conn, toPage>>

\* otaVerifyApp sends "false", here 0, and otaRollback "true", here 1.
ClickVerdict(p) ==
    /\ MayClick(p) /\ page[p].rollback = "shown"
    /\ \E verdict \in 0 .. 1 : Sent(p, Command("otaProcessRollback", verdict))
    /\ page' = [page EXCEPT ![p].rollback = "hidden"]
    /\ UNCHANGED <<conn, toPage>>

\* The socket is closed in good order: what was sent before still arrives.
GoHome(p) ==
    /\ Visible(p)
    /\ conn' = [conn EXCEPT ![p] = "closed"]
    /\ page' = [page EXCEPT ![p] = NewPage]
    /\ toPage' = [toPage EXCEPT ![p] = <<>>]
    /\ UNCHANGED toDev

----------------------------------------------------------------------------
(* receiveWsData.                                                           *)

\* Mutant: a size is taken whatever the length of the file.
Subarray_NoEnd(i, from, size) == [of |-> i, at |-> from, len |-> size]

\* otaData.subarray(from, from + size), both ends cut to the length.
Subarray(i, from, size) ==
    LET end(n) == IF n < ImageSize[i] THEN n ELSE ImageSize[i]
    IN  [of |-> i, at |-> end(from), len |-> end(from + size) - end(from)]

\* Without a file the handler throws and the frame is dropped.
SendChunk(p, from) ==
    /\ IF Loaded(p)
       THEN Sent(p, BinaryFrame(Subarray(page[p].otaData, from, page[p].otaSetChunkSize)))
       ELSE UNCHANGED toDev
    /\ UNCHANGED page

UploadOver(p, start, restart) ==
    /\ page' = [page EXCEPT ![p].otaStarted = 0,
                            ![p].otaStartCancel = start,
                            ![p].otaReStart = restart]
    /\ UNCHANGED toDev

Receive(p, f) ==
    \/ /\ f.name = "otaSetChunkSize"
       /\ page' = [page EXCEPT ![p].otaSetChunkSize = f.value]
       /\ UNCHANGED toDev
    \/ f.name = "otaGetChunk" /\ SendChunk(p, f.value)
    \/ f.name = "otaEnd" /\ UploadOver(p, "hidden", "restart")
    \/ f.name \in {"otaError", "otaCancel"} /\ UploadOver(p, "shown", "cancelled")
    \/ /\ f.name = "otaCheckRollback"
       /\ page' = [page EXCEPT ![p].rollback = "shown"]
       /\ UNCHANGED toDev

PageReceives(p) ==
    /\ Visible(p)
    /\ toPage[p] # <<>>
    /\ Receive(p, Head(toPage[p]))
    /\ toPage' = [toPage EXCEPT ![p] = Tail(@)]
    /\ UNCHANGED conn

\* onclose and onerror load the page anew after two seconds.
Reload(p) ==
    /\ conn[p] = "closing"
    /\ conn' = [conn EXCEPT ![p] = "closed"]
    /\ page' = [page EXCEPT ![p] = NewPage]
    /\ toPage' = [toPage EXCEPT ![p] = <<>>]
    /\ UNCHANGED toDev

PageStep(p) ==
    \/ \E i \in Image : SelectFile(p, i) \/ FileRead(p, i) \/ FileFails(p, i)
    \/ ClickStart(p)
    \/ ClickCancel(p)
    \/ ClickReStart(p)
    \/ ClickVerdict(p)
    \/ GoHome(p)
    \/ PageReceives(p)
    \/ Reload(p)
=============================================================================
