------------------------------ MODULE OtaService ------------------------------
(* What the update service promises to the owner of a device, whichever     *)
(* backend does the work: which firmware runs, which whole one lies beside  *)
(* it, and what a restart does with the two.  Partitions, chunks, handles,  *)
(* image states and commands are details of the modules that implement it.  *)

CONSTANTS
    Firmware,  \* what can be uploaded and run
    Nothing    \* not a firmware

VARIABLES
    runs,      \* the firmware that runs
    beside,    \* the other firmware the device could start, or Nothing
    trial,     \* the firmware that runs awaits its verdict
    selected,  \* what the next start does with the other: see Selection
    session    \* an upload is under way

serviceVars == <<runs, beside, trial, selected, session>>

\* Left where it is, started on trial, or started for good.
Selection == {"no", "trial", "outright"}

ServiceInit ==
    /\ runs \in Firmware
    /\ beside = Nothing
    /\ trial = FALSE
    /\ selected = "no"
    /\ session = FALSE

\* What may lie beside the running firmware after one more chunk of an upload.
Received == IF beside = Nothing THEN Firmware \cup {Nothing} ELSE {beside}

\* An upload takes the place of the other firmware, never during a trial.
Begin ==
    /\ ~trial
    /\ beside' = Nothing
    /\ session' = TRUE
    /\ UNCHANGED <<runs, trial, selected>>

BeginFails ==
    /\ \/ beside' = beside
       \/ ~trial /\ beside' = Nothing
    /\ session' = FALSE
    /\ UNCHANGED <<runs, trial, selected>>

Receive ==
    /\ session
    /\ beside' \in Received
    /\ UNCHANGED <<runs, trial, selected, session>>

Abandon ==
    /\ beside' \in IF session THEN Received ELSE {beside}
    /\ session' = FALSE
    /\ UNCHANGED <<runs, trial, selected>>

\* The only way to be selected, but for Confirm: a whole firmware.
Install ==
    /\ session
    /\ beside' \in Firmware
    /\ selected' \in {"trial", "outright"}
    /\ session' = FALSE
    /\ UNCHANGED <<runs, trial>>

\* Given while the new firmware has not been started, the verdict is its own.
Confirm ==
    /\ trial' = FALSE
    /\ selected' \in {selected, "outright"}
    /\ trial => selected' = selected
    /\ UNCHANGED <<runs, beside, session>>

\* The running firmware is given up, or the one that was selected.  The one beside need
\* not have been installed: it may be what an upload left that was never selected.
Rollback ==
    /\ runs' \in {runs, beside} \ {Nothing}
    /\ trial => runs' = beside
    /\ selected # "no" => runs' = runs
    /\ beside' = Nothing
    /\ trial' = FALSE
    /\ selected' = "no"
    /\ session' = FALSE

\* A restart, with other and choice as an interrupted upload has left them.
RestartWith(other, choice) ==
    /\ session' = FALSE
    /\ \/ /\ choice # "no" /\ other # Nothing        \* the other one is started
          /\ runs' = other /\ beside' = runs
          /\ trial' = (choice = "trial") /\ selected' = "no"
       \/ /\ choice = "no" \/ other = Nothing        \* the same one is started
          /\ runs' = runs /\ beside' \in {other, Nothing}
          /\ trial' = FALSE
          /\ selected' = IF choice = "outright" THEN choice ELSE "no"

Restart ==
    /\ ~trial
    /\ \/ RestartWith(beside, selected)
       \/ session /\ \E other \in Received : RestartWith(other, selected)
       \/ session /\ \E other \in Firmware, choice \in {"trial", "outright"} :
            RestartWith(other, choice)

\* A firmware that restarts before it was confirmed is given up.
TrialFails ==
    /\ trial
    /\ beside # Nothing
    /\ runs' = beside
    /\ beside' = Nothing
    /\ trial' = FALSE
    /\ UNCHANGED <<selected, session>>

ServiceNext ==
    \/ Begin \/ BeginFails \/ Receive \/ Abandon \/ Install
    \/ Confirm \/ Rollback \/ Restart \/ TrialFails

ServiceSpec == ServiceInit /\ [][ServiceNext]_serviceVars
=============================================================================
