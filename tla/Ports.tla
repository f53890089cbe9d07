-------------------------------- MODULE Ports --------------------------------
(***************************************************************************)
(* The envoy ports of one orchestrator: between plan and commit the bus    *)
(* releases the ports of removed routes, allocates one to every local      *)
(* route (its ingress listener) and to every pair of learned name and peer *)
(* (their egress listener), and stamps them on the new table and on the    *)
(* announced changes (bus.ts planPortAllocations, port-allocator.ts).      *)
(*                                                                         *)
(* Here Data is the port a route carries, Unset if none.  A restart loads  *)
(* the snapshot, which has the ports of its time, and plans the journaled  *)
(* actions again without allocating; the allocator starts empty.           *)
(*                                                                         *)
(* The order of routes in the code's arrays, which decides who gets which  *)
(* port, is not part of a table: every order is allowed.                   *)
(***************************************************************************)
EXTENDS BusActions, XdsResources, SequencesExt

CONSTANTS
  Self,           \* this node
  Happens,        \* the actions dispatched to it
  Pool,           \* the configured ports, in order
  ProtocolOf,     \* protocol and endpoint of every service; endpoint Missing
  EndpointOf,     \*   if it registered without one
  EnvoyAddress,   \* address of every peer's envoy, Missing if it named none
  MaxDispatches,  \* bound: actions dispatched
  MaxRecoveries   \* bound: restarts of the process

Unset == Missing
Clock == 1

ASSUME PortsAssumption ==
  /\ Self \in Node /\ MaxDispatches \in Nat /\ MaxRecoveries \in Nat
  /\ Pool \in Seq(Data \ {Unset}) /\ IsInjective(Pool) /\ Unset \in Data
ASSUME FinitelyMany == IsFiniteSet(Node) /\ IsFiniteSet(Name)
\* A service registers without a port, and a change of its health is no change
\* of Data.
ASSUME HappensAssumption ==
  /\ Happens \subseteq Action
  /\ \A action \in Happens :
       /\ action.type = "LocalRouteCreate" => action.data = Unset
       /\ action.type # "LocalRouteHealthUpdate"
       /\ action.type = "InternalProtocolUpdate" => IsFiniteSet(action.items)
ASSUME EnvoyAssumption ==
  /\ ProtocolOf \in [Name -> Protocol]
  /\ DOMAIN EndpointOf = Name /\ DOMAIN EnvoyAddress = Node

VARIABLES
  table,       \* rib.state, with ports
  changes,     \* route changes of the last commit, with ports
  ports,       \* the allocator: port[key] of every listener, and the free ones
  recovered,   \* what the snapshot and the journal now lead to
  dispatches,  \* actions dispatched so far
  recoveries   \* restarts so far

portsVars == <<table, changes, ports, recovered, dispatches, recoveries>>

Ingress(name) == IngressKey(name)
Egress(route) == EgressKey(route.name, route.peer)
Listener == {Ingress(n) : n \in Name} \cup (Name \X Node)

-----------------------------------------------------------------------------
(* The allocator. *)

createPortAllocator == [port |-> [k \in Listener |-> Unset], free |-> Pool]

\* The first free port, if there is one and the listener has none yet.
allocate(p, key) ==
  IF p.port[key] # Unset \/ p.free = <<>> THEN p
  ELSE [port |-> [p.port EXCEPT ![key] = Head(p.free)], free |-> Tail(p.free)]

\* Faulty: the listener keeps the port it gives back.
ReleaseKeepsEntry(p, key) ==
  IF p.port[key] = Unset THEN p
  ELSE [p EXCEPT !.free = Append(@, p.port[key])]

release(p, key) ==
  IF p.port[key] = Unset THEN p
  ELSE [port |-> [p.port EXCEPT ![key] = Unset],
        free |-> Append(p.free, p.port[key])]

\* A port for each of these keys, in their order.
allocateAll(p, keys) ==
  LET after[k \in 0..Len(keys)] ==
        IF k = 0 THEN p ELSE allocate(after[k - 1], keys[k])
  IN  after[Len(keys)]

-----------------------------------------------------------------------------
(* The phases of planPortAllocations. *)

\* Phase 1.  The listener of the name goes too, whether or not the route was
\* local; the release operations the planner asks for add nothing to this.
ReleaseRoute(p, route) ==
  LET q == release(p, Ingress(route.name))
  IN  IF isInternalRoute(route) THEN release(q, Egress(route)) ELSE q

ReleaseRoutes(p, routes) ==
  LET after[k \in 0..Len(routes)] ==
        IF k = 0 THEN p ELSE ReleaseRoute(after[k - 1], routes[k])
  IN  after[Len(routes)]

\* Faulty: a learned route that has a port keeps it.
StampOnlyUnset(p, r) ==
  IF p.port[Egress(r)] = Unset \/ r.data # Unset THEN r
  ELSE [r EXCEPT !.data = p.port[Egress(r)]]

\* Phases 2 to 4: a local route keeps its port if it has one; a learned route
\* takes that of its listener, unless the pool is exhausted.
StampLocal(p, n, d) ==
  IF d = Unset THEN p.port[Ingress(n)] ELSE d
StampLearned(p, r) ==
  IF p.port[Egress(r)] = Unset THEN r ELSE [r EXCEPT !.data = p.port[Egress(r)]]

Stamped(p, t) ==
  [t EXCEPT !.local = [n \in Name |-> IF @[n] = NoRoute THEN NoRoute
                                      ELSE StampLocal(p, n, @[n])],
            !.routes = {StampLearned(p, r) : r \in @}]

\* Faulty: changes are announced as planned.
ChangesAsPlanned(p, chs) == chs

\* Phase 5.
StampRoute(p, route) ==
  IF isInternalRoute(route) THEN StampLearned(p, route)
  ELSE [route EXCEPT !.data = StampLocal(p, route.name, @)]

StampedChanges(p, chs) ==
  {IF c.type = "removed" THEN c ELSE [c EXCEPT !.route = StampRoute(p, @)] : c \in chs}

-----------------------------------------------------------------------------
(* Actions. *)

PortsInit ==
  /\ table = newRouteTable /\ changes = {}
  /\ ports = createPortAllocator
  /\ recovered = newRouteTable
  /\ dispatches = 0 /\ recoveries = 0

Removed(plan) == {c.route : c \in {d \in plan.changes : d.type = "removed"}}
Waiting(t)    == {Ingress(n) : n \in {m \in Name : t.local[m] = Unset}}
Learning(t)   == {Egress(r) : r \in t.routes}

\* The bus dispatches an action that changes the table.
Dispatch(action) ==
  LET plan == Plan(Self, table, action, Clock) IN
  /\ dispatches < MaxDispatches /\ dispatches' = dispatches + 1
  /\ plan.changed
  /\ \E gone \in SetToSeqs(Removed(plan)), own \in SetToSeqs(Waiting(plan.table)),
        learned \in SetToSeqs(Learning(plan.table)) :
       ports' = allocateAll(ReleaseRoutes(ports, gone), own \o learned)
  /\ table' = Stamped(ports', plan.table)
  /\ changes' = StampedChanges(ports', plan.changes)
  /\ recovered' = Plan(Self, recovered, action, Clock).table
  /\ UNCHANGED recoveries

\* Compaction takes a snapshot of the table.
Compact ==
  /\ recovered # table /\ recovered' = table
  /\ UNCHANGED <<table, changes, ports, dispatches, recoveries>>

Restart ==
  /\ recoveries < MaxRecoveries /\ recoveries' = recoveries + 1
  /\ table' = recovered
  /\ changes' = {}
  /\ ports' = createPortAllocator
  /\ UNCHANGED <<recovered, dispatches>>

PortsNext == (\E action \in Happens : Dispatch(action)) \/ Compact \/ Restart

PortsSpec == PortsInit /\ [][PortsNext]_portsVars

-----------------------------------------------------------------------------
(* What envoy is made to do with the table and the allocations. *)

\* handleEnvoySync: the committed routes and all allocations.
RouteConfig ==
  [local |-> {[name |-> n, protocol |-> ProtocolOf[n], endpoint |-> EndpointOf[n]] :
                n \in {m \in Name : table.local[m] # NoRoute}},
   internal |-> {[name |-> r.name, peer |-> r.peer, origin |-> r.origin,
                  protocol |-> ProtocolOf[r.name], port |-> r.data,
                  address |-> EnvoyAddress[r.peer]] : r \in table.routes},
   portAllocations |-> ports.port]

Snapshot == buildXdsSnapshot(RouteConfig)

Listening(key) == {l.port : l \in {m \in Snapshot.listeners : m.name = key}}

-----------------------------------------------------------------------------
\* The parts of the state have their types.
PortsTypeOK ==
  /\ table \in Table /\ recovered \in Table
  /\ changes \subseteq [type : {"added", "removed", "updated"},
                        route : InternalRoute \cup LocalRoute]
  /\ ports.port \in [Listener -> ToSet(Pool) \cup {Unset}]
  /\ ports.free \in Seq(ToSet(Pool)) /\ Len(ports.free) <= Len(Pool)
  /\ dispatches \in 0..MaxDispatches /\ recoveries \in 0..MaxRecoveries

Bound == {k \in Listener : ports.port[k] # Unset}

\* Whatever is allocated and released in whatever order, no port serves two
\* listeners, none is free and in use, and none is lost (port-allocator.ts).
PoolIntact ==
  /\ \A k, l \in Bound : ports.port[k] = ports.port[l] => k = l
  /\ IsInjective(ports.free)
  /\ {ports.port[k] : k \in Bound} \cap ToSet(ports.free) = {}
  /\ {ports.port[k] : k \in Bound} \cup ToSet(ports.free) = ToSet(Pool)

\* Until the process restarts, envoy listens for every service with an
\* endpoint on the port that its route has in the table, and for every learned
\* route whose peer has an envoy on the port it has there; none is without a
\* port while one is free, so a port that is released goes to a route that
\* waited (phases 2 and 3 go over the whole table, not only what changed).
\* Whether peers hear of that port is another matter: see PortsAreTold.
RoutesServed ==
  recoveries = 0 =>
    /\ \A n \in Name : table.local[n] # NoRoute /\ EndpointOf[n] # Missing =>
         \/ Listening(Ingress(n)) = {table.local[n]}
         \/ table.local[n] = Unset /\ Listening(Ingress(n)) = {}
    /\ \A r \in table.routes : EnvoyAddress[r.peer] # Missing =>
         \/ Listening(Egress(r)) = {r.data}
         \/ Listening(Egress(r)) = {} /\ Egress(r) \notin Bound
    /\ ports.free # <<>> =>
         \A k \in Waiting(table) \cup Learning(table) : k \in Bound

\* A route that is given another port is announced with it.  Not so: only the
\* changes that were planned anyway are stamped, so peers never hear of a port
\* that was released by one route and went to another that had waited.  Checked
\* by hand with MCPortsTold.cfg, as README.md says.
PortsAreTold ==
  [][(\E action \in Happens : Dispatch(action)) =>
       /\ \A n \in Name :
            table.local[n] # NoRoute /\ table'.local[n] \notin {NoRoute, table.local[n]}
              => \E c \in changes' : c.type # "removed" /\ ~isInternalRoute(c.route)
                                     /\ c.route.name = n
       /\ \A r \in table'.routes :
            (\E q \in table.routes : SameKey(q, r) /\ q.peer = r.peer /\ q.data # r.data)
              => \E c \in changes' : c.type # "removed" /\ c.route = r
    ]_portsVars

\* The restart re-hydrates the allocator: a recovered local route that has a
\* port keeps its listener.
RestartKeepsPorts ==
  \A n \in Name : table.local[n] \notin {NoRoute, Unset} =>
    ports.port[Ingress(n)] = table.local[n]

\* What is announced to peers is what is in the table, ports included.
AnnouncedAsCommitted ==
  \A c \in changes : c.type # "removed" =>
    IF isInternalRoute(c.route) THEN c.route \in table.routes
    ELSE table.local[c.route.name] = c.route.data

\* The cluster behind a learned route is at the port its peer advertised:
\* "route.envoyPort (the upstream peer's port, used for the remote cluster)".
TargetsAdvertised ==
  [][\A action \in Happens :
       (action.type = "InternalProtocolUpdate" /\ Dispatch(action)) =>
         \A i \in action.items, r \in table'.routes :
           (i.action = "add" /\ SameKey(r, i) /\ r.peer = action.peer /\ r.path = i.path)
             => \A cluster \in Snapshot'.clusters :
                  (cluster.name = Egress(r) /\ cluster.route.origin = r.origin)
                    => cluster.port = i.data
    ]_portsVars
===============================================================================
