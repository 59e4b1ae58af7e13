------------------------------ MODULE OtaSystem -----------------------------
(* The whole system: the windows of OtaPage joined by their websockets with *)
(* the device of OtaWs.  The server reads one frame of one socket at a time *)
(* and runs the handler to its end; a network may cut a socket and power    *)
(* may go at any time.                                                      *)
EXTENDS OtaPage

CONSTANT SendFails  \* whether httpd_ws_send_frame may fail on an open socket

ASSUME SendAssumption == SendFails \in BOOLEAN

sysVars == <<vars, pageVars>>

SysInit == Init /\ PageInit

----------------------------------------------------------------------------
\* What may become of the frames a handler sends, at most two: send_json_string
\* returns what httpd_ws_send_frame made of each, and no caller looks at it.
Delivered(frames) ==
    IF SendFails THEN {<<>>, frames} \cup {<<frames[i]>> : i \in DOMAIN frames}
                 ELSE {frames}

\* The page is loaded and its socket opened.  That is a new TCP connection, two
\* seconds or a click after the last one of this window went: the server is taken to
\* have read by then what it was to get of the last one.
Connect(p) ==
    /\ conn[p] = "closed"
    /\ toDev[p] = <<>>
    /\ Handshake
    /\ conn' = [conn EXCEPT ![p] = "open"]
    /\ \E frames \in Delivered(out'.sent) : toPage' = [toPage EXCEPT ![p] = frames]
    /\ UNCHANGED <<page, toDev>>

\* What becomes of the socket with the return of the handler: frames go to the page
\* if it is there, and an error that is returned closes the socket.
Answered(p) ==
    /\ toDev' = [toDev EXCEPT ![p] = IF out'.ret = "OK" THEN Tail(@) ELSE <<>>]
    /\ \E frames \in Delivered(out'.sent) :
         toPage' = [toPage EXCEPT ![p] = IF conn[p] = "open" THEN @ \o frames ELSE @]
    /\ conn' = IF conn[p] = "open" /\ out'.ret = "FAIL"
               THEN [conn EXCEPT ![p] = "closing"] ELSE conn
    /\ UNCHANGED page

\* A restart of the device takes all sockets with it.
AllCut ==
    /\ toDev' = [p \in Page |-> <<>>]
    /\ conn' = [p \in Page |-> IF conn[p] = "open" THEN "closing" ELSE conn[p]]
    /\ UNCHANGED <<page, toPage>>

\* The handler, by the frame it is given.
Handle(p, f) ==
    \/ f.name = "otaSize" /\ OtaSize(f.value) /\ Answered(p)
    \/ f.name = "otaCancel" /\ StopCommand("otaCancel") /\ Answered(p)
    \/ f.name = "otaProcessRollback" /\ f.value = 0 /\ ConfirmApp /\ Answered(p)
    \/ /\ f.name = "otaProcessRollback" /\ f.value = 1
       /\ \/ rollback_ota_ws_rollback /\ restarted /\ AllCut
          \/ rollback_ota_ws_fails /\ no_reply("FAIL") /\ Answered(p)
    \/ f.name = "otaRestartEsp" /\ RestartEsp /\ AllCut
    \/ f.name = "binary" /\ Binary(f.chunk) /\ Answered(p)

DeviceHandles(p) == toDev[p] # <<>> /\ Handle(p, Head(toDev[p]))

\* The frame cannot be read to its end, or the heap has no room for it.
FrameLost(p) == toDev[p] # <<>> /\ ReceiveFails /\ Answered(p)

\* The network goes: the device still gets some of what was sent.
Disconnect(p) ==
    /\ conn[p] = "open"
    /\ conn' = [conn EXCEPT ![p] = "closing"]
    /\ \E n \in 0 .. Len(toDev[p]) : toDev' = [toDev EXCEPT ![p] = SubSeq(@, 1, n)]
    /\ UNCHANGED <<vars, page, toPage>>

PowerFails ==
    /\ \/ PowerLossIdle
       \/ \E p \in Page :
            /\ toDev[p] # <<>>
            /\ Head(toDev[p]).name = "binary"
            /\ \/ PowerLossAfterWrite(Head(toDev[p]).chunk)
               \/ PowerLossAfterSelect(Head(toDev[p]).chunk)
    /\ Restarted
    /\ AllCut

SysNext ==
    \/ \E p \in Page :
         \/ PageStep(p) /\ UNCHANGED vars
         \/ Connect(p)
         \/ DeviceHandles(p)
         \/ FrameLost(p)
         \/ Disconnect(p)
    \/ PowerFails

SysSpec == SysInit /\ [][SysNext]_sysVars

\* The server's task reads on as long as there is something to read, and so does
\* the browser.  Nothing is assumed of users, network and power.
FairSysSpec ==
    /\ SysSpec
    /\ \A p \in Page :
         /\ WF_sysVars(DeviceHandles(p))
         /\ WF_sysVars(PageReceives(p) /\ UNCHANGED vars)

----------------------------------------------------------------------------
(* Properties.                                                              *)

\* Every variable stays within its type.
SystemTypeOK == TypeOK /\ PageTypeOK

\* The device cannot tell the windows from any other clients: whatever they send,
\* when and in whatever order, is something OtaWs expects, so that what holds of
\* OtaWs holds here.  This is its Spec, with Next asked of a step that moves the device.
IsDevice == Init /\ [][vars' # vars => Next]_vars

\* The panel of the page says of the running firmware that it was loaded but
\* not confirmed.  As long as the socket is open that is so.
PanelIsTrue ==
    \A p \in Page :
        conn[p] = "open" /\ page[p].rollback = "shown" => img[running] = "PENDING"

\* The button of the page says that the firmware is loaded and offers to restart
\* with it: the slot selected is the new one, and it holds a whole image.
RestartIsReady ==
    \A p \in Page :
        conn[p] = "open" /\ page[p].otaReStart = "restart" =>
            /\ boot = update_partition
            /\ Whole(slot[boot])
            /\ img[boot] = NewState

\* Of what the device has to write next it is given exactly that: a chunk that
\* arrives while a session is on begins at the offset the session has reached.
ChunksInOrder ==
    [][\A p \in Page :
         DeviceHandles(p) /\ Head(toDev[p]).name = "binary" /\ ota_started = 1
             => Head(toDev[p]).chunk.at = ota_start_chunk]_sysVars

\* What the upload that the page shows as running installs is one file, the one in
\* otaData: no chunk of a file chosen earlier, or read later, is mixed into it.
InstalledIsChosen ==
    [][\A p \in Page :
         /\ DeviceHandles(p) /\ out'.sent = <<Frame("otaEnd", 0)>>
         /\ conn[p] = "open" /\ page[p].otaStarted = 1
         => slot'[boot'].of = page[p].otaData]_sysVars

\* The page shows the name of a file under the words that it was chosen: that file is
\* the one it installs.
InstalledIsShown ==
    [][\A p \in Page :
         /\ DeviceHandles(p) /\ out'.sent = <<Frame("otaEnd", 0)>>
         /\ conn[p] = "open" /\ page[p].otaStarted = 1
         => slot'[boot'].of = page[p].fileName]_sysVars

\* The page says of an upload that it was cancelled.  When nothing is under way any
\* more, the device is not about to start what was uploaded.
CancelledIsDropped ==
    \A p \in Page :
        conn[p] = "open" /\ page[p].otaReStart = "cancelled" /\ NothingPending(p) =>
            ~(boot = update_partition /\ Whole(slot[boot]) /\ img[boot] = NewState)

\* A verdict changes the OTA data only while the running firmware awaits one.
VerdictIsDue ==
    [][\A p \in Page :
         /\ DeviceHandles(p) /\ Head(toDev[p]).name = "otaProcessRollback"
         /\ img' # img
         => img[running] = "PENDING"]_sysVars

\* An upload that the page shows as running ends, unless the page loses its socket:
\* as long as no reply is lost on the way, neither side ever waits for a frame the
\* other will not send.
UploadEnds ==
    \A p \in Page :
        page[p].otaStarted = 1 /\ conn[p] = "open" ~>
            page[p].otaStarted = 0 \/ conn[p] # "open"
=============================================================================
