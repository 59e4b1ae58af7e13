------------------------------- MODULE OtaDevice ------------------------------
(* What a device with this component owes its owner, whichever backend does *)
(* the work: OtaWs and OtaWsEnc, the two devices, extend this module.       *)
EXTENDS EspOta, OtaHttp

\* Whatever clients send and whenever power goes, the firmware that runs came
\* from a slot that holds a whole image, and nothing erases it: the device can
\* always start again.
RunningIsWhole == Whole(slot[running])

\* Of the two slots only the selected one can be waiting for its first start or
\* for a verdict, the running firmware is past its first start, and neither the
\* running nor the selected slot is one that was given up.
VerdictInv ==
    /\ \A s \in Slots : img[s] \in {"NEW", "PENDING"} => s = boot
    /\ img[running] # "NEW"
    /\ \A s \in {running, boot} : img[s] \notin {"INVALID", "ABORTED"}

\* While a new firmware awaits its verdict, the old one is intact and allowed
\* to start, and no upload is under way that would erase it.
FallbackReady ==
    img[running] = "PENDING" =>
        /\ boot = running
        /\ RollbackPossible
        /\ ota_started = 0

\* The device is an update service: whatever is sent and whenever the power
\* goes, the firmware that runs changes only by a restart, to a whole one that
\* lies beside it.  Without a rollback that is one an update has selected, or the
\* old one after a trial; a rollback also starts one whose upload came to its end
\* and was never selected.  A trial keeps the old firmware and ends at a verdict or
\* at the next restart.
Service == INSTANCE OtaService WITH
    Firmware <- Image,
    Nothing <- NoImage,
    runs <- slot[running].of,
    beside <- Startable(slot[Other(running)], img[Other(running)]),
    trial <- (img[running] = "PENDING"),
    selected <- Choice(img, boot),
    session <- (ota_started = 1)

IsService == Service!ServiceSpec
=============================================================================
