------------------------------- MODULE Lifecycle -------------------------------
(***************************************************************************)
(* One process of the system: its services are initialized one after the   *)
(* other (catalyst-service.ts), a server is bound for them                 *)
(* (catalyst-hono-server.ts), and SIGTERM or SIGINT stops the server and   *)
(* then the services.  A step is what runs between two awaits.  Nothing    *)
(* keeps a second signal from starting a second stop while the first one   *)
(* waits for its clients; afterwards signals have their default effect.    *)
(***************************************************************************)
EXTENDS Naturals

CONSTANTS
  Service,  \* the services composed on one server
  Client    \* connections that clients open

\* Signals that find the handlers in place; LifecycleInv has no third one.
Stop == {1, 2}

VARIABLES
  process,  \* "running", or how it ended: "exited" (0), "failed" (1), "killed"
  state,    \* _state of each service
  server,   \* _server: "none", "binding" until listen's callback, "bound"
  handlers, \* the signal handlers are registered
  conn,     \* what each client has open: "none", "http", or an upgraded "ws"
  phase,    \* each call of stop: "idle", "closing" the server, "shutting" services
  awaits,   \* services whose shutdown() that stop started
  cleaned   \* history: how often onShutdown was called

vars == <<process, state, server, handlers, conn, phase, awaits, cleaned>>

\* The parts of the state have their types; however many stops there are,
\* onShutdown is called at most once per service (shutdown's check of _state).
TypeOK ==
  /\ process \in {"running", "exited", "failed", "killed"}
  /\ state \in [Service -> {"created", "initializing", "ready", "shutting_down", "stopped"}]
  /\ server \in {"none", "binding", "bound"}
  /\ handlers \in BOOLEAN
  /\ conn \in [Client -> {"none", "http", "ws"}]
  /\ phase \in [Stop -> {"idle", "closing", "shutting"}]
  /\ awaits \in [Stop -> SUBSET Service]
  /\ cleaned \in [Service -> {0, 1}]

Init ==
  /\ process = "running" /\ server = "none" /\ handlers = FALSE
  /\ state = [s \in Service |-> "created"]
  /\ conn = [c \in Client |-> "none"]
  /\ phase = [k \in Stop |-> "idle"]
  /\ awaits = [k \in Stop |-> {}]
  /\ cleaned = [s \in Service |-> 0]

Running == process = "running"
Ready == {s \in Service : state[s] = "ready"}

-----------------------------------------------------------------------------
(* The start: a server is bound once every service is ready. *)

initialize(s) ==
  /\ Running /\ state[s] = "created" /\ \A t \in Service : state[t] # "initializing"
  /\ state' = [state EXCEPT ![s] = "initializing"]
  /\ UNCHANGED <<process, server, handlers, conn, phase, awaits, cleaned>>

Initialized(s) ==
  /\ Running /\ state[s] = "initializing"
  /\ state' = [state EXCEPT ![s] = "ready"]
  /\ UNCHANGED <<process, server, handlers, conn, phase, awaits, cleaned>>

\* The error is rethrown, and nobody catches it but the end of the process.
InitializeFails(s) ==
  /\ Running /\ state[s] = "initializing"
  /\ state' = [state EXCEPT ![s] = "stopped"]
  /\ process' = "failed"
  /\ UNCHANGED <<server, handlers, conn, phase, awaits, cleaned>>

start ==
  /\ Running /\ server = "none" /\ Ready = Service /\ \A k \in Stop : phase[k] = "idle"
  /\ server' = "binding"
  /\ UNCHANGED <<process, state, handlers, conn, phase, awaits, cleaned>>

PortInUse ==
  /\ Running /\ server = "binding"
  /\ process' = "failed"
  /\ UNCHANGED <<state, server, handlers, conn, phase, awaits, cleaned>>

Listening ==
  /\ Running /\ server = "binding"
  /\ server' = "bound" /\ handlers' = TRUE
  /\ UNCHANGED <<process, state, conn, phase, awaits, cleaned>>

-----------------------------------------------------------------------------
(* Clients; Node's server takes no new connection once it is closing. *)

Accept(c) ==
  /\ Running /\ server = "bound" /\ conn[c] = "none"
  /\ conn' = [conn EXCEPT ![c] = "http"]
  /\ UNCHANGED <<process, state, server, handlers, phase, awaits, cleaned>>

Upgrade(c) ==
  /\ Running /\ conn[c] = "http"
  /\ conn' = [conn EXCEPT ![c] = "ws"]
  /\ UNCHANGED <<process, state, server, handlers, phase, awaits, cleaned>>

HangUp(c) ==
  /\ Running /\ conn[c] # "none"
  /\ conn' = [conn EXCEPT ![c] = "none"]
  /\ UNCHANGED <<process, state, server, handlers, phase, awaits, cleaned>>

-----------------------------------------------------------------------------
(* The stop. *)

\* closeAllConnections leaves upgraded sockets alone.
closeAllConnections == conn' = [c \in Client |-> IF conn[c] = "ws" THEN "ws" ELSE "none"]

\* Faulty: shutdown does not look at the state of the service.
StoppableAlways == Service

\* shutdown() of a service: only a ready one does anything.
Stoppable == Ready

\* The rest of stop, once the server is closed or was gone already.
StopServices(k) ==
  /\ handlers' = FALSE
  /\ phase' = [phase EXCEPT ![k] = "shutting"]
  /\ awaits' = [awaits EXCEPT ![k] = Stoppable]
  /\ state' = [s \in Service |-> IF s \in Stoppable THEN "shutting_down" ELSE state[s]]
  /\ cleaned' = [s \in Service |-> IF s \in Stoppable THEN cleaned[s] + 1 ELSE cleaned[s]]

\* Faulty: the handlers are removed before the server is closed.
stopUnhandled(k) ==
  /\ Running /\ handlers /\ phase[k] = "idle" /\ server = "bound"
  /\ server' = "none" /\ handlers' = FALSE
  /\ closeAllConnections
  /\ phase' = [phase EXCEPT ![k] = "closing"]
  /\ UNCHANGED <<process, state, awaits, cleaned>>

\* A signal while the server is bound.
stop(k) ==
  /\ Running /\ handlers /\ phase[k] = "idle" /\ server = "bound"
  /\ server' = "none"
  /\ closeAllConnections
  /\ phase' = [phase EXCEPT ![k] = "closing"]
  /\ UNCHANGED <<process, state, handlers, awaits, cleaned>>

\* Faulty: _server is cleared only once it is closed, so that the second stop
\* waits for it as well.
stopAgainCloses(k) ==
  /\ Running /\ handlers /\ phase[k] = "idle" /\ server # "bound"
  /\ phase' = [phase EXCEPT ![k] = "closing"]
  /\ UNCHANGED <<process, state, server, handlers, conn, awaits, cleaned>>

\* A signal while another stop has the server: no await before the services.
stopAgain(k) ==
  /\ Running /\ handlers /\ phase[k] = "idle" /\ server # "bound"
  /\ StopServices(k)
  /\ UNCHANGED <<process, server, conn>>

Closed(k) ==
  /\ Running /\ phase[k] = "closing" /\ \A c \in Client : conn[c] = "none"
  /\ StopServices(k)
  /\ UNCHANGED <<process, server, conn>>

\* onShutdown and shutdownTelemetry have settled, with an error or without.
shutdown(s) ==
  /\ Running /\ state[s] = "shutting_down"
  /\ state' = [state EXCEPT ![s] = "stopped"]
  /\ UNCHANGED <<process, server, handlers, conn, phase, awaits, cleaned>>

\* shutdownHandler: the services this stop awaits are down.
Exit(k) ==
  /\ Running /\ phase[k] = "shutting" /\ \A s \in awaits[k] : state[s] = "stopped"
  /\ process' = "exited"
  /\ UNCHANGED <<state, server, handlers, conn, phase, awaits, cleaned>>

\* A signal that finds no handler.
Kill ==
  /\ Running /\ ~handlers
  /\ process' = "killed"
  /\ UNCHANGED <<state, server, handlers, conn, phase, awaits, cleaned>>

-----------------------------------------------------------------------------
Next ==
  \/ \E s \in Service :
       initialize(s) \/ Initialized(s) \/ InitializeFails(s) \/ shutdown(s)
  \/ start \/ PortInUse \/ Listening \/ Kill
  \/ \E c \in Client : Accept(c) \/ Upgrade(c) \/ HangUp(c)
  \/ \E k \in Stop : stop(k) \/ stopAgain(k) \/ Closed(k) \/ Exit(k)

\* What the process does by itself once it has been told to stop.
Fairness ==
  /\ \A s \in Service : WF_vars(shutdown(s))
  /\ \A k \in Stop : WF_vars(Closed(k)) /\ WF_vars(Exit(k))

Spec == Init /\ [][Next]_vars
FairSpec == Spec /\ Fairness

-----------------------------------------------------------------------------
Hurried == \A k \in Stop : phase[k] # "idle"
Stopping == \E k \in Stop : phase[k] # "idle"
Stopped == {s \in Service : state[s] = "stopped"}

\* However the process ends after it has served, no service is left without
\* having been told to shut down; and unless a second signal came while the
\* server was closing, services are told only when the last client is gone and
\* the process exits only when all of them are down.
CleanEnd ==
  /\ process = "exited" \/ (process = "killed" /\ (Stopping \/ server = "bound")) => Ready = {}
  /\ ~Hurried =>
       /\ process = "exited" => Stopped = Service
       /\ \A k \in Stop : phase[k] = "shutting" => \A c \in Client : conn[c] = "none"

\* A second signal ends the process whatever the clients do; the first one does
\* provided that the clients with WebSockets hang up, which nothing in stop
\* makes them do.
StopEnds ==
  /\ Hurried ~> ~Running
  /\ (\A c \in Client : []<>(conn[c] # "ws")) => (Stopping ~> ~Running)
===============================================================================
