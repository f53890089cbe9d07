-------------------------------- MODULE Adapters --------------------------------
(***************************************************************************)
(* The services registered with one orchestrator: the queue of the bus     *)
(* that creates and deletes their routes, the health checker that probes   *)
(* them and dispatches what it finds to the same queue (adapter-health.ts),*)
(* and the GraphQL gateway, which a task of the queue tells of every       *)
(* change, waiting for the answer (bus.ts handleGraphqlGatewaySync).  What *)
(* peers announce or withdraw comes to the queue too: the gateway is told  *)
(* of local and learned services alike.                                    *)
(*                                                                         *)
(* The gateway's stub is made on the first call and kept (gateway-client.  *)
(* ts).  It may break at any time after, as its session ends or the        *)
(* gateway dies; then every later call fails at once.  Peers and envoy,    *)
(* which a task tells as well, are the subject of Fleet and Xds.           *)
(***************************************************************************)
EXTENDS Gateway, SequencesExt

CONSTANTS
  GraphQLName,   \* services with a GraphQL protocol
  HttpName,      \* services with an HTTP protocol
  Requests,      \* the creations, deletions and updates that come in
  MaxEvents,     \* bound: requests and restarts of a process
  MaxCycles      \* bound: cycles of the health checker

ASSUME AdaptersAssumption == GraphQLName \subseteq HttpName /\ HttpName \subseteq Name
ASSUME AdaptersBounds == {MaxEvents, MaxCycles} \subseteq Nat

Status  == {"up", "down"}
Unknown == "unknown"
NoRoute == [endpoint |-> Missing, health |-> "none"]
NoCall  == 0

VARIABLES
  table,      \* local routes: endpoint and health
  learned,    \* GraphQL services learned from peers
  queue,      \* actions dispatched and not ended, the running one first
  call,       \* number of the configuration whose answer the queue awaits
  stub,       \* "none", "open", or "broken" for good
  told,       \* what the bus was answered last, and drops
  commits,    \* actions committed
  health,     \* healthMap of the checker
  probe,      \* per service: "idle", or the status known when its probe began
  events, cycles, restarted

busVars == <<table, learned, queue, call, stub, told, commits>>
checkerVars == <<health, probe, cycles>>
adaptersVars == <<gatewayVars, busVars, checkerVars, events, restarted>>

Registered == {n \in Name : table[n] # NoRoute}

-----------------------------------------------------------------------------
(* Planning. *)

Create(n, e)  == [type |-> "LocalRouteCreate", name |-> n, endpoint |-> e]
Delete(n)     == [type |-> "LocalRouteDelete", name |-> n]
Health(n, st) == [type |-> "LocalRouteHealthUpdate", name |-> n, status |-> st]

\* What an update of a peer, or its loss, adds and takes away.
Update(added, removed) ==
  [type |-> "InternalProtocolUpdate", added |-> added, removed |-> removed]

Updates ==
  [type : {"InternalProtocolUpdate"}, added : SUBSET Subgraph, removed : SUBSET Subgraph]

ASSUME RequestsAssumption ==
  Requests \subseteq {Create(n, e) : n \in Name, e \in Endpoint \cup {Missing}}
                       \cup {Delete(n) : n \in Name} \cup Updates

Local(act) == act.type # "InternalProtocolUpdate"

Changes(t, act) == (act.type = "LocalRouteCreate") <=> (t[act.name] = NoRoute)

Planned(t, act) ==
  [t EXCEPT ![act.name] =
     CASE act.type = "LocalRouteCreate" -> [endpoint |-> act.endpoint, health |-> Unknown]
       [] act.type = "LocalRouteDelete" -> NoRoute
       [] act.type = "LocalRouteHealthUpdate" -> [@ EXCEPT !.health = act.status]]

PlannedLearned(l, act) == (l \ act.removed) \cup act.added

GraphqlRoutes(t, l) ==
  {[name |-> n, url |-> t[n].endpoint] : n \in {m \in GraphQLName : t[m] # NoRoute}} \cup l

-----------------------------------------------------------------------------
(* The queue. *)

Event == events < MaxEvents /\ events' = events + 1

\* Somebody asks for a service to be registered or removed.
Request(act) ==
  /\ Event
  /\ queue' = Append(queue, act)
  /\ UNCHANGED <<table, learned, call, stub, told, commits, checkerVars, gatewayVars, restarted>>

TaskEnds == queue' = Tail(queue) /\ call' = NoCall

\* A task plans nothing new.
NoChange(act) ==
  IF Local(act) THEN ~Changes(table, act) ELSE PlannedLearned(learned, act) = learned

\* A task plans a change.  That of an update may be one the model does not tell:
\* a shorter path, a stale route renewed, a route of another protocol.
Plans(act) ==
  \/ /\ Local(act) /\ Changes(table, act)
     /\ table' = Planned(table, act) /\ UNCHANGED learned
  \/ /\ ~Local(act)
     /\ learned' = PlannedLearned(learned, act) /\ UNCHANGED table

RunNoChange ==
  /\ queue # <<>> /\ call = NoCall
  /\ NoChange(Head(queue))
  /\ TaskEnds
  /\ UNCHANGED <<table, learned, stub, told, commits, checkerVars, gatewayVars, events, restarted>>

\* The call returns at once: there is nothing to tell, or no way to.
SyncSkipped(config) ==
  /\ config.services = {} \/ stub = "broken"
  /\ TaskEnds
  /\ UNCHANGED <<stub, told, gatewayVars>>

SyncRefused(config) ==
  /\ config.services # {} /\ stub # "broken"
  /\ Malformed(config)
  /\ stub' = "open" /\ told' = "failure"
  /\ TaskEnds
  /\ UNCHANGED gatewayVars

\* Faulty: the task does not wait for the answer.
SyncUnawaited(config) ==
  /\ config.services # {} /\ stub # "broken"
  /\ ~Malformed(config)
  /\ stub' = "open" /\ told' = "success"
  /\ StartReload(config)
  /\ TaskEnds

SyncStarted(config) ==
  /\ config.services # {} /\ stub # "broken"
  /\ ~Malformed(config)
  /\ stub' = "open" /\ call' = config.number
  /\ StartReload(config)
  /\ UNCHANGED <<queue, told>>

SyncLost(config) ==
  /\ config.services # {} /\ stub # "broken"
  /\ stub' = "broken"
  /\ TaskEnds
  /\ UNCHANGED <<told, gatewayVars>>

handleGraphqlGatewaySync(config) ==
  SyncSkipped(config) \/ SyncRefused(config) \/ SyncStarted(config) \/ SyncLost(config)

\* A task commits and tells the gateway.
RunChange ==
  /\ queue # <<>> /\ call = NoCall
  /\ Plans(Head(queue))
  /\ commits' = commits + 1
  /\ handleGraphqlGatewaySync([number |-> commits', services |-> GraphqlRoutes(table', learned')])
  /\ UNCHANGED <<checkerVars, events, restarted>>

\* Faulty: a failed call leaves the task waiting.
AnsweredOnSuccess(number, result) ==
  IF call = number /\ result = "success" THEN TaskEnds /\ told' = result
  ELSE UNCHANGED <<queue, call, told>>

\* The answer to the call of the running task; errors are swallowed.
Answered(number, result) ==
  IF call = number THEN TaskEnds /\ told' = result
  ELSE UNCHANGED <<queue, call, told>>

Progress(reload) ==
  /\ \/ /\ \E s \in reload.config.services : SubgraphAnswers(reload, s)
        /\ UNCHANGED <<queue, call, told>>
     \/ ReloadFails(reload) /\ Answered(reload.config.number, "failure")
     \/ Install(reload) /\ Answered(reload.config.number, "success")
  /\ UNCHANGED <<table, learned, stub, commits, checkerVars, events, restarted>>

GatewayProgress == \E reload \in reloads : Progress(reload)

\* The session with the gateway ends, and with it a call under way.
Breaks == stub' = "broken" /\ (IF call = NoCall THEN UNCHANGED <<queue, call>> ELSE TaskEnds)

StubBreaks ==
  /\ stub = "open" /\ Breaks
  /\ UNCHANGED <<table, learned, told, commits, checkerVars, gatewayVars, events, restarted>>

-----------------------------------------------------------------------------
(* The health checker. *)

setHealth(n, st) == [health EXCEPT ![n] = st]

\* Faulty: only the first result is dispatched.
DispatchFirst(n, prev, st) == IF prev = Unknown THEN {Health(n, st)} ELSE {}

maybeDispatch(n, prev, st) == IF prev = st THEN {} ELSE {Health(n, st)}

\* Services that are down without a probe, in any order.
Unprobed == {n \in Registered : n \notin HttpName \/ table[n].endpoint = Missing}

\* checkAll, up to where it awaits the probes; entries of removed services go.
Kept == [n \in Name |-> IF n \in Registered THEN health[n] ELSE Unknown]

\* What is dispatched is queued, in any order.
Enqueued(acts) == \E s \in SetToSeqs(acts) : queue' = queue \o s

Idle == \A n \in Name : probe[n] = "idle"

StartCycle ==
  /\ Idle
  /\ cycles < MaxCycles /\ cycles' = cycles + 1
  /\ health' = [n \in Name |-> IF n \in Unprobed THEN "down" ELSE Kept[n]]
  /\ probe' = [n \in Name |-> IF n \in Registered \ Unprobed THEN Kept[n] ELSE "idle"]
  /\ Enqueued(UNION {maybeDispatch(n, Kept[n], "down") : n \in Unprobed})
  /\ UNCHANGED <<table, learned, call, stub, told, commits, gatewayVars, events, restarted>>

\* A probe ends, at the latest with its timeout: checkOne after the await.
ProbeEnds(n, st) ==
  /\ probe[n] # "idle" /\ probe' = [probe EXCEPT ![n] = "idle"]
  /\ health' = setHealth(n, st)
  /\ Enqueued(maybeDispatch(n, probe[n], st))
  /\ UNCHANGED <<table, learned, call, stub, told, commits, gatewayVars, cycles, events, restarted>>

-----------------------------------------------------------------------------
(* Restarts. *)

NoHealth == [n \in Name |-> Unknown]
NoProbe  == [n \in Name |-> "idle"]

\* The table comes back from the journal, if that is the one in SQLite; the
\* gateway is not told of it until the next change.
OrchestratorRestarts ==
  /\ Event /\ restarted' = TRUE
  /\ queue' = <<>> /\ call' = NoCall /\ stub' = "none"
  /\ health' = NoHealth /\ probe' = NoProbe
  /\ UNCHANGED <<table, learned, told, commits, gatewayVars, cycles>>

GatewayRestarts ==
  /\ Event /\ restarted' = TRUE
  /\ GatewayStarts
  /\ IF stub = "open" THEN Breaks ELSE UNCHANGED <<queue, call, stub>>
  /\ UNCHANGED <<table, learned, told, commits, checkerVars>>

AdaptersInit ==
  /\ GatewayInit
  /\ table = [n \in Name |-> NoRoute] /\ learned = {} /\ queue = <<>> /\ call = NoCall
  /\ stub = "none" /\ told = "nothing" /\ commits = 0
  /\ health = NoHealth /\ probe = NoProbe
  /\ events = 0 /\ cycles = 0 /\ restarted = FALSE

AdaptersNext ==
  \/ \E act \in Requests : Request(act)
  \/ RunNoChange \/ RunChange
  \/ GatewayProgress \/ StubBreaks
  \/ StartCycle
  \/ \E n \in Name, st \in Status : ProbeEnds(n, st)
  \/ OrchestratorRestarts \/ GatewayRestarts

AdaptersSpec == AdaptersInit /\ [][AdaptersNext]_adaptersVars

\* Subgraphs answer in the end, with a schema or an error.
AdaptersFairSpec ==
  /\ AdaptersSpec
  /\ WF_adaptersVars(RunNoChange \/ RunChange)
  /\ WF_adaptersVars(GatewayProgress)
-----------------------------------------------------------------------------
Settled == queue = <<>>

\* When no task is left, the gateway serves the GraphQL services of the table,
\* local and learned, unless none is left, the last reload failed, the stub broke,
\* or there was a restart: however slowly and in whatever order subgraphs answer, no earlier
\* reload ends after a later one.
SchemaFollows ==
  /\ Settled /\ ~restarted
  /\ stub # "broken" /\ told # "failure"
  /\ GraphqlRoutes(table, learned) # {}
  => serving = GraphqlRoutes(table, learned)

\* When no task is left, the health in the table, which peers are told, is what
\* the checker found last; or there is none, because the service was removed and
\* registered again before the checker noticed.
HealthAgrees ==
  Settled => \A n \in Registered :
    health[n] = Unknown \/ table[n].health \in {health[n], Unknown}

\* Whatever fails, the queue drains as long as subgraphs answer.
QueueDrains == []<>(queue = <<>>)
===============================================================================
