--------------------------- MODULE EchoServer_proofs ---------------------------
(* The properties of EchoServer for every number of servers.                *)
EXTENDS EchoServer, TLAPS

\* Task t holds a server that is not in the static yet.
Holds(t) == pc[t] \in {"pages", "return"} /\ new[t] # NULL

\* A server that runs is known to one place: to a task that has just started it or
\* to the static, or else it was lost; and what any place knows of runs.
Owned ==
    /\ \A t \in Task : Holds(t) =>
          /\ new[t] = running
          /\ pc[t] = "return" => pages
          /\ server = NULL \/ pc["loop"] = "clear"
    /\ ~(Holds("main") /\ Holds("loop"))
    /\ \A t \in Task : pc[t] = "pages" => new[t] # NULL
    /\ running # NULL /\ ~pages => \E t \in Task : pc[t] = "pages"

\* pc["loop"] in a handler, and what the last event has left.
Brought ==
    /\ pc["main"] \in {"register", "start", "pages", "return", "idle"}
    /\ pc["loop"] # "register"
    /\ pc["loop"] \in {"start", "pages", "return"} => last \in Connects
    /\ pc["loop"] \in {"stop", "clear"} => last \notin Connects
    /\ last \in Connects /\ ~starved /\ pc["loop"] # "start" => running # NULL
    /\ registered < Len(Events) \/ pc["main"] # "register"

ServerInv == TypeOK /\ Owned /\ HandleRuns /\ Brought

LEMMA EventsAre ==
    /\ Len(Events) = 4
    /\ DOMAIN Events = 1 .. 4
    /\ "none" \notin Connects
  BY DEF Events, Connects

LEMMA InitServer == Init => ServerInv
  <1> SUFFICES ASSUME Init PROVE ServerInv
    OBVIOUS
  <1> USE EventsAre DEF Init, Task
  <1>1. TypeOK
    <2>1. {server, running} \subseteq Server \cup {NULL}
      OBVIOUS
    <2>2. pages \in BOOLEAN /\ starved \in BOOLEAN
      OBVIOUS
    <2>3. registered \in 0 .. Len(Events)
      OBVIOUS
    <2>4. pc \in [Task -> {"register", "idle", "start", "pages", "return", "stop", "clear"}]
      OBVIOUS
    <2>5. new \in [Task -> Server \cup {NULL}]
      OBVIOUS
    <2>6. last \in {"none"} \cup {Events[i] : i \in DOMAIN Events}
      OBVIOUS
    <2> QED BY <2>1, <2>2, <2>3, <2>4, <2>5, <2>6 DEF TypeOK
  <1>2. Owned
    BY DEF Owned, Holds
  <1>3. HandleRuns
    BY DEF HandleRuns
  <1>4. Brought
    BY DEF Brought
  <1> QED BY <1>1, <1>2, <1>3, <1>4 DEF ServerInv

LEMMA StartServer ==
    ASSUME ServerInv, NEW t \in Task, httpd_start(t)
    PROVE  ServerInv'
  <1> USE NullAssumption, EventsAre DEF httpd_start, GoTo, ServerInv, TypeOK, Task
  <1>1. TypeOK'
    <2>1. {server', running'} \subseteq Server \cup {NULL}
      OBVIOUS
    <2>2. pages' \in BOOLEAN /\ starved' \in BOOLEAN
      OBVIOUS
    <2>3. pc' \in [Task -> {"register", "idle", "start", "pages", "return", "stop", "clear"}]
      OBVIOUS
    <2>4. new' \in [Task -> Server \cup {NULL}]
      OBVIOUS
    <2> QED BY <2>1, <2>2, <2>3, <2>4
  <1>2. Owned'
    BY DEF Owned, Holds, HandleRuns, Brought
  <1>3. HandleRuns'
    BY DEF HandleRuns, Owned, Holds
  <1>4. Brought'
    BY DEF Brought
  <1> QED BY <1>1, <1>2, <1>3, <1>4

LEMMA RegisterPages ==
    ASSUME ServerInv, NEW t \in Task, register_uri_handlers(t)
    PROVE  ServerInv'
  <1> USE NullAssumption, EventsAre DEF register_uri_handlers, GoTo, ServerInv, TypeOK, Task
  <1>1. TypeOK'
    OBVIOUS
  <1>2. Owned'
    BY DEF Owned, Holds
  <1>3. HandleRuns'
    BY DEF HandleRuns, Owned, Holds
  <1>4. Brought'
    BY DEF Brought
  <1> QED BY <1>1, <1>2, <1>3, <1>4

LEMMA AssignServer ==
    ASSUME ServerInv, NEW t \in Task, Assign(t)
    PROVE  ServerInv'
  <1> USE NullAssumption, EventsAre DEF Assign, GoTo, ServerInv, TypeOK, Task
  <1>1. TypeOK'
    OBVIOUS
  <1>2. Owned'
    BY DEF Owned, Holds, Brought
  <1>3. HandleRuns'
    BY DEF HandleRuns, Owned, Holds
  <1>4. Brought'
    BY DEF Brought
  <1> QED BY <1>1, <1>2, <1>3, <1>4

LEMMA RegisterAnEvent ==
    ASSUME ServerInv, RegisterEvent
    PROVE  ServerInv'
  <1> USE NullAssumption, EventsAre DEF RegisterEvent, GoTo, ServerInv, TypeOK, Task
  <1>1. TypeOK'
    BY DEF Brought
  <1>2. Owned'
    BY DEF Owned, Holds, Brought
  <1>3. HandleRuns'
    BY DEF HandleRuns
  <1>4. Brought'
    BY DEF Brought
  <1> QED BY <1>1, <1>2, <1>3, <1>4

LEMMA HandleAnEvent ==
    ASSUME ServerInv, NEW i \in DOMAIN Events,
           connect_handler(Events[i]) \/ disconnect_handler(Events[i])
    PROVE  ServerInv'
  <1> USE NullAssumption, EventsAre
      DEF connect_handler, disconnect_handler, Handled, GoTo, ServerInv, TypeOK, Task
  <1>1. TypeOK'
    OBVIOUS
  <1>2. Owned'
    BY DEF Owned, Holds
  <1>3. HandleRuns'
    BY DEF HandleRuns
  <1>4. Brought'
    BY DEF Brought, HandleRuns
  <1> QED BY <1>1, <1>2, <1>3, <1>4

LEMMA StopServer ==
    ASSUME ServerInv, httpd_stop \/ Clear
    PROVE  ServerInv'
  <1> USE NullAssumption, EventsAre DEF httpd_stop, Clear, GoTo, ServerInv, TypeOK, Task
  <1>1. TypeOK'
    OBVIOUS
  <1>2. Owned'
    BY DEF Owned, Holds, HandleRuns
  <1>3. HandleRuns'
    BY DEF HandleRuns, Owned, Holds
  <1>4. Brought'
    BY DEF Brought
  <1> QED BY <1>1, <1>2, <1>3, <1>4

LEMMA StutterServer == ServerInv /\ UNCHANGED vars => ServerInv'
  BY DEF vars, ServerInv, TypeOK, Owned, Holds, HandleRuns, Brought

\* Whatever the two tasks do: types, and who knows which server.
THEOREM ServerInvariant == Spec => []ServerInv
  <1>1. ServerInv /\ [Next]_vars => ServerInv'
    <2> SUFFICES ASSUME ServerInv, [Next]_vars PROVE ServerInv'
      OBVIOUS
    <2>1. CASE RegisterEvent
      BY <2>1, RegisterAnEvent
    <2>2. CASE \E t \in Task : httpd_start(t) \/ register_uri_handlers(t) \/ Assign(t)
      BY <2>2, StartServer, RegisterPages, AssignServer
    <2>3. CASE \E i \in DOMAIN Events :
                 connect_handler(Events[i]) \/ disconnect_handler(Events[i])
      BY <2>3, HandleAnEvent
    <2>4. CASE httpd_stop \/ Clear
      BY <2>4, StopServer
    <2>5. CASE UNCHANGED vars
      BY <2>5, StutterServer
    <2> QED BY <2>1, <2>2, <2>3, <2>4, <2>5 DEF Next
  <1> QED BY <1>1, InitServer, PTL DEF Spec

\* The variables of the example's server stay within their types: each handler is
\* registered once, and no task leaves its code.
THEOREM ServerTyping == Spec => []TypeOK
  <1>1. ServerInv => TypeOK
    BY DEF ServerInv
  <1> QED BY <1>1, ServerInvariant, PTL

\* The static never refers to a server that was stopped.
THEOREM HandleIsRunning == Spec => []HandleRuns
  <1>1. ServerInv => HandleRuns
    BY DEF ServerInv
  <1> QED BY <1>1, ServerInvariant, PTL

\* After the last event has brought the network up a server runs.
THEOREM ServerServes == Spec => []Serves
  <1>1. ServerInv => Serves
    BY DEF ServerInv, TypeOK, Serves, Owned, Brought, Task
  <1> QED BY <1>1, ServerInvariant, PTL
=============================================================================
