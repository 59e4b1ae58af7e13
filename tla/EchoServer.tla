------------------------------ MODULE EchoServer ------------------------------
(* The example application, example_ota_ws/main/example_echo_ws_server.c:   *)
(* the web server in which the update runs is started by the main task and  *)
(* by handlers of network events, and stopped by others.  The handlers run  *)
(* one at a time in the task of the event loop, between any two steps of the *)
(* main task; both write the static server.                                 *)
EXTENDS Integers, Sequences

CONSTANTS
    Server,  \* what httpd_start may give back
    NULL
ASSUME NullAssumption == NULL \notin Server

\* In the order in which their handlers are registered.
Events == <<"STA_GOT_IP", "STA_DISCONNECTED", "AP_STACONNECTED", "AP_STADISCONNECTED">>
Connects == {"STA_GOT_IP", "AP_STACONNECTED"}

Task == {"main", "loop"}

VARIABLES
    server,      \* the static
    running,     \* the server that listens on the port
    pages,       \* its uri handlers are registered
    registered,  \* number of event handlers registered
    pc,          \* where each task is
    new,         \* server in start_webserver, for each task
    last,        \* the last event that was handled
    starved      \* a server could not be started for want of memory

vars == <<server, running, pages, registered, pc, new, last, starved>>

Init ==
    /\ server = NULL /\ running = NULL
    /\ pages = FALSE
    /\ registered = 0
    /\ pc = [t \in Task |-> IF t = "main" THEN "register" ELSE "idle"]
    /\ new = [t \in Task |-> NULL]
    /\ last = "none"
    /\ starved = FALSE

GoTo(t, place) == pc' = [pc EXCEPT ![t] = place]

----------------------------------------------------------------------------
(* start_webserver, in either task.                                         *)

\* There is one port: a second server cannot be started.
httpd_start(t) ==
    /\ pc[t] = "start"
    /\ \/ /\ running = NULL
          /\ \E h \in Server : running' = h /\ new' = [new EXCEPT ![t] = h]
          /\ GoTo(t, "pages")
          /\ UNCHANGED starved
       \/ /\ \/ running # NULL /\ UNCHANGED starved
             \/ starved' = TRUE
          /\ new' = [new EXCEPT ![t] = NULL]
          /\ GoTo(t, "return")
          /\ UNCHANGED running
    /\ UNCHANGED <<server, pages, registered, last>>

register_uri_handlers(t) ==
    /\ pc[t] = "pages"
    /\ pages' = TRUE
    /\ GoTo(t, "return")
    /\ UNCHANGED <<server, running, registered, new, last, starved>>

\* Its result is assigned, be it NULL.
Assign(t) ==
    /\ pc[t] = "return"
    /\ server' = new[t]
    /\ GoTo(t, "idle")
    /\ UNCHANGED <<running, pages, registered, new, last, starved>>

----------------------------------------------------------------------------
(* example_echo_ws_server, in the main task.                                *)

\* Mutant: the end of the registrations is missed.
RegisterEvent_NoEnd ==
    /\ pc["main"] = "register"
    /\ registered' = registered + 1
    /\ GoTo("main", IF registered = Len(Events) THEN "start" ELSE "register")
    /\ UNCHANGED <<server, running, pages, new, last, starved>>

RegisterEvent ==
    /\ pc["main"] = "register"
    /\ registered' = registered + 1
    /\ GoTo("main", IF registered' = Len(Events) THEN "start" ELSE "register")
    /\ UNCHANGED <<server, running, pages, new, last, starved>>

----------------------------------------------------------------------------
(* connect_handler and disconnect_handler, in the event loop.               *)
Handled(e) ==
    /\ pc["loop"] = "idle"
    /\ \E i \in 1 .. registered : Events[i] = e
    /\ last' = e
    /\ UNCHANGED <<server, running, pages, registered, new, starved>>

connect_handler(e) ==
    /\ e \in Connects
    /\ Handled(e)
    /\ GoTo("loop", IF server = NULL THEN "start" ELSE "idle")

disconnect_handler(e) ==
    /\ e \notin Connects
    /\ Handled(e)
    /\ GoTo("loop", IF server = NULL THEN "idle" ELSE "stop")

\* Mutant: the handle of the stopped server is kept.
httpd_stop_KeepsHandle ==
    /\ pc["loop"] = "stop"
    /\ running' = IF server = running THEN NULL ELSE running
    /\ pages' = (pages /\ server # running)
    /\ GoTo("loop", "idle")
    /\ UNCHANGED <<server, registered, new, last, starved>>

\* server is read a second time; httpd_stop(NULL) is an error, and others are
\* possible.
httpd_stop ==
    /\ pc["loop"] = "stop"
    /\ \/ /\ server = running /\ running # NULL
          /\ running' = NULL
          /\ pages' = FALSE
          /\ GoTo("loop", "clear")
       \/ GoTo("loop", "idle") /\ UNCHANGED <<running, pages>>
    /\ UNCHANGED <<server, registered, new, last, starved>>

Clear ==
    /\ pc["loop"] = "clear"
    /\ server' = NULL
    /\ GoTo("loop", "idle")
    /\ UNCHANGED <<running, pages, registered, new, last, starved>>

----------------------------------------------------------------------------
Next ==
    \/ RegisterEvent
    \/ \E t \in Task : httpd_start(t) \/ register_uri_handlers(t) \/ Assign(t)
    \/ \E i \in DOMAIN Events : connect_handler(Events[i]) \/ disconnect_handler(Events[i])
    \/ httpd_stop
    \/ Clear

Spec == Init /\ [][Next]_vars

----------------------------------------------------------------------------
(* Properties.                                                              *)

\* Every variable stays within its type.
TypeOK ==
    /\ {server, running} \subseteq Server \cup {NULL}
    /\ pages \in BOOLEAN /\ starved \in BOOLEAN
    /\ registered \in 0 .. Len(Events)
    /\ pc \in [Task -> {"register", "idle", "start", "pages", "return", "stop", "clear"}]
    /\ new \in [Task -> Server \cup {NULL}]
    /\ last \in {"none"} \cup {Events[i] : i \in DOMAIN Events}

\* Whatever the two tasks do between each other's steps, the static never refers to
\* a server that was stopped, but for the moment before disconnect_handler clears
\* it: no server is stopped twice, and httpd_stop is given the one that runs.
HandleRuns ==
    server # NULL /\ pc["loop"] # "clear" => server = running /\ pages

\* After the last event brought the network up, and the main task is through, a
\* server runs with its pages, unless memory was wanting: also when the two tasks
\* have started it at the same time and one of them failed.
Serves ==
    /\ last \in Connects /\ ~starved
    /\ pc = [t \in Task |-> "idle"]
    => running # NULL /\ pages
=============================================================================
