------------------------------ MODULE RouteTable ------------------------------
(***************************************************************************)
(* The route table of one orchestrator and the pure state transitions the  *)
(* RoutingInformationBase plans on it (packages/routing/src/v2/rib).       *)
(*                                                                         *)
(* A table has three parts.                                                *)
(*   peers   the configured iBGP peers; a peer that is not configured has  *)
(*           status "absent"                                               *)
(*   local   the routes this node originates, by name (NoRoute if none)    *)
(*   routes  the internal routes learned from peers, a set of records      *)
(* What a data channel carries besides its name (endpoint, protocol,       *)
(* health, envoy port) is one abstract member of Data; what a peer's       *)
(* configuration carries besides its name is one member of Info.           *)
(*                                                                         *)
(* Every planner returns the table it leads to, whether the code builds a  *)
(* new state object (the bus then commits and journals), and the route     *)
(* changes it announces to peers, envoy and the gateway.                   *)
(***************************************************************************)
EXTENDS Integers, Sequences, FiniteSets

CONSTANTS
  Node,         \* node names
  Name,         \* data channel names, the route keys
  Info,         \* peer configurations
  Data,         \* data channel contents
  Hold,         \* hold times a peer may propose
  DefaultHold   \* 90_000 ms in the code

ASSUME HoldAssumption == Hold \subseteq Nat /\ DefaultHold \in Nat \ {0}
ASSUME NameAssumption == "none" \notin Info /\ "none" \notin Data

NoInfo  == "none"
NoRoute == "none"
NoHold  == -1     \* an OPEN that proposes no hold time

Status == {"absent", "initializing", "connected", "closed"}

PeerRecord ==
  [status : Status, info : Info \cup {NoInfo}, hold : Nat, lastReceived : Nat]

InternalRoute ==
  [name : Name, origin : Node, peer : Node, path : Seq(Node), data : Data,
   stale : BOOLEAN]

LocalRoute == [name : Name, data : Data]

Table ==
  [peers : [Node -> PeerRecord], local : [Name -> Data \cup {NoRoute}],
   routes : SUBSET InternalRoute]

AbsentPeer ==
  [status |-> "absent", info |-> NoInfo, hold |-> 0, lastReceived |-> 0]

newRouteTable ==
  [peers  |-> [p \in Node |-> AbsentPeer],
   local  |-> [n \in Name |-> NoRoute],
   routes |-> {}]

Known(t, p) == t.peers[p].status # "absent"

RoutesVia(t, p) == {r \in t.routes : r.peer = p}

\* Two internal routes, or a route and an update item, for the same service.
SameKey(r, s) == r.name = s.name /\ r.origin = s.origin

Crosses(node, path) == \E i \in 1..Len(path) : path[i] = node

-----------------------------------------------------------------------------
(* What a planner returns. *)

NoChange(t)     == [table |-> t, changed |-> FALSE, changes |-> {}]
Changed(t, chs) == [table |-> t, changed |-> TRUE, changes |-> chs]

Announce(type, routes) == {[type |-> type, route |-> r] : r \in routes}

isInternalRoute(route) == "peer" \in DOMAIN route

Internal(routes) == {r \in routes : isInternalRoute(r)}

-----------------------------------------------------------------------------
(* Local peers: operator commands. *)

PlanLocalPeerCreate(t, p, info) ==
  IF Known(t, p) THEN NoChange(t)
  ELSE Changed([t EXCEPT !.peers[p] =
                  [status |-> "initializing", info |-> info,
                   hold |-> DefaultHold, lastReceived |-> 0]], {})

PlanLocalPeerUpdate(t, p, info) ==
  IF ~Known(t, p) THEN NoChange(t)
  ELSE Changed([t EXCEPT !.peers[p].info = info], {})

\* Faulty variants, used only to check that the properties notice them.
DeleteKeepsStale(t, p) ==
  LET gone == {r \in RoutesVia(t, p) : ~r.stale}
  IN  IF ~Known(t, p) THEN NoChange(t)
      ELSE Changed([t EXCEPT !.peers[p] = AbsentPeer, !.routes = @ \ gone],
                   Announce("removed", gone))
DeleteDropsTransit(t, p) ==
  LET gone == {r \in t.routes : Crosses(p, r.path)}
  IN  IF ~Known(t, p) THEN NoChange(t)
      ELSE Changed([t EXCEPT !.peers[p] = AbsentPeer, !.routes = @ \ gone],
                   Announce("removed", gone))

PlanLocalPeerDelete(t, p) ==
  IF ~Known(t, p) THEN NoChange(t)
  ELSE Changed([t EXCEPT !.peers[p] = AbsentPeer,
                         !.routes = @ \ RoutesVia(t, p)],
               Announce("removed", RoutesVia(t, p)))

-----------------------------------------------------------------------------
(* Local routes: services register, deregister and change health. *)

AsLocal(n, d) == [name |-> n, data |-> d]

PlanLocalRouteCreate(t, n, d) ==
  IF t.local[n] # NoRoute THEN NoChange(t)
  ELSE Changed([t EXCEPT !.local[n] = d], Announce("added", {AsLocal(n, d)}))

PlanLocalRouteDelete(t, n) ==
  IF t.local[n] = NoRoute THEN NoChange(t)
  ELSE Changed([t EXCEPT !.local[n] = NoRoute],
               Announce("removed", {AsLocal(n, t.local[n])}))

PlanLocalRouteHealthUpdate(t, n, d) ==
  IF t.local[n] \in {NoRoute, d} THEN NoChange(t)
  ELSE Changed([t EXCEPT !.local[n] = d], Announce("updated", {AsLocal(n, d)}))

-----------------------------------------------------------------------------
(* The internal protocol: messages of iBGP peers, handled at time now.     *)

MinOf(a, b) == IF a < b THEN a ELSE b

\* Faulty: an OPEN without a hold time overwrites the configured one.
OpenTakesAnyHold(t, p, hold, now) ==
  IF ~Known(t, p) THEN NoChange(t)
  ELSE Changed([t EXCEPT !.peers[p].status = "connected",
                         !.peers[p].hold = MinOf(@, hold),
                         !.peers[p].lastReceived = now], {})

PlanInternalProtocolOpen(t, p, hold, now) ==
  IF ~Known(t, p) THEN NoChange(t)
  ELSE Changed([t EXCEPT
         !.peers[p].status = "connected",
         !.peers[p].hold = IF hold = NoHold THEN @ ELSE MinOf(@, hold),
         !.peers[p].lastReceived = now], {})

PlanInternalProtocolConnected(t, p, now) ==
  IF ~Known(t, p) THEN NoChange(t)
  ELSE Changed([t EXCEPT
         !.peers[p].status = "connected",
         !.peers[p].hold = DefaultHold,
         !.peers[p].lastReceived = now], {})

CloseCodes == {"NORMAL", "TRANSPORT_ERROR"}

MarkStale(r) == [r EXCEPT !.stale = TRUE]

\* A transport error keeps the peer's routes, marked stale (graceful restart);
\* any other code withdraws them.
PlanInternalProtocolClose(t, p, code) ==
  LET lost == RoutesVia(t, p)
      kept == IF code = "TRANSPORT_ERROR"
              THEN {MarkStale(r) : r \in lost} ELSE {}
  IN  IF ~Known(t, p) THEN NoChange(t)
      ELSE Changed([t EXCEPT !.peers[p].status = "closed",
                             !.routes = (@ \ lost) \cup kept],
                   IF code = "TRANSPORT_ERROR" THEN Announce("updated", kept)
                   ELSE Announce("removed", lost))

(***************************************************************************)
(* An update carries items "add" or "remove".  No two items of an update   *)
(* have the same name and origin (see UpdateLoop, which also shows that    *)
(* the code's loop over the items then computes what is defined here).     *)
(***************************************************************************)
UpdateItem ==
  [action : {"add", "remove"}, name : Name, origin : Node,
   path : Seq(Node), data : Data]

DistinctKeys(items) == \A i, j \in items : SameKey(i, j) => i = j

Learned(p, item) ==
  [name |-> item.name, origin |-> item.origin, peer |-> p,
   path |-> item.path, data |-> item.data, stale |-> FALSE]

\* Loop detection, then best path: new, shorter, or in place of a stale route.
Accepts(self, routes, item) ==
  /\ item.action = "add"
  /\ ~Crosses(self, item.path)
  /\ \A r \in routes :
       SameKey(r, item) => Len(item.path) < Len(r.path) \/ r.stale

\* Faulty: an accepted route is added beside the one it should replace.
OnlyWithdrawn(self, routes, items) ==
  {r \in routes : \E i \in items : SameKey(r, i) /\ i.action = "remove"}

\* The routes an update displaces, and those it puts in place.
Replaced(self, routes, items) ==
  {r \in routes : \E i \in items :
     SameKey(r, i) /\ (i.action = "remove" \/ Accepts(self, routes, i))}
Withdrawn(routes, items) ==
  {r \in routes : \E i \in items : SameKey(r, i) /\ i.action = "remove"}
Accepted(self, routes, items) == {i \in items : Accepts(self, routes, i)}

UpdateChanges(self, routes, p, items) ==
  LET new == {i \in Accepted(self, routes, items) :
                ~\E r \in routes : SameKey(r, i)}
      better == Accepted(self, routes, items) \ new
  IN  Announce("added", {Learned(p, i) : i \in new})
        \cup Announce("updated", {Learned(p, i) : i \in better})
        \cup Announce("removed", Withdrawn(routes, items))

PlanInternalProtocolUpdate(self, t, p, items, now) ==
  LET chs == UpdateChanges(self, t.routes, p, items)
  IN  IF chs = {} /\ ~Known(t, p) THEN NoChange(t)
      ELSE Changed([t EXCEPT
             !.routes = (@ \ Replaced(self, t.routes, items))
               \cup {Learned(p, i) : i \in Accepted(self, t.routes, items)},
             !.peers[p].lastReceived = IF Known(t, p) THEN now ELSE @], chs)

PlanInternalProtocolKeepalive(t, p, now) ==
  IF ~Known(t, p) THEN NoChange(t)
  ELSE Changed([t EXCEPT !.peers[p].lastReceived = now], {})

-----------------------------------------------------------------------------
(* Tick: hold timer expiry, and purge of stale routes past their grace.    *)

\* Faulty: the peer is overdue one unit early.
OverdueEarly(peer, now) ==
  peer.hold > 0 /\ peer.lastReceived > 0 /\ now - peer.lastReceived >= peer.hold

Overdue(peer, now) ==
  peer.hold > 0 /\ peer.lastReceived > 0 /\ now - peer.lastReceived > peer.hold

Expired(t, now) ==
  {p \in Node : t.peers[p].status = "connected" /\ Overdue(t.peers[p], now)}

GraceOver(t, now) ==
  {p \in Node : /\ t.peers[p].status = "closed"
                /\ Overdue(t.peers[p], now)
                /\ \E r \in RoutesVia(t, p) : r.stale}

\* Faulty: purged stale routes are not announced; stale routes are not purged.
TickSilentPurge(t, now) ==
  LET expired == Expired(t, now)
      purged  == expired \cup GraceOver(t, now)
      gone    == {r \in t.routes : r.peer \in purged}
  IN  IF purged = {} THEN NoChange(t)
      ELSE Changed([t EXCEPT
             !.peers = [p \in Node |->
               IF p \in expired THEN [t.peers[p] EXCEPT !.status = "closed"]
               ELSE t.peers[p]],
             !.routes = @ \ gone],
             Announce("removed", {r \in gone : r.peer \in expired}))
TickNoGrace(t, now) ==
  LET expired == Expired(t, now)
      gone    == {r \in t.routes : r.peer \in expired}
  IN  IF expired = {} THEN NoChange(t)
      ELSE Changed([t EXCEPT
             !.peers = [p \in Node |->
               IF p \in expired THEN [t.peers[p] EXCEPT !.status = "closed"]
               ELSE t.peers[p]],
             !.routes = @ \ gone], Announce("removed", gone))

PlanTick(t, now) ==
  LET expired == Expired(t, now)
      purged  == expired \cup GraceOver(t, now)
      gone    == {r \in t.routes : r.peer \in purged}
  IN  IF purged = {} THEN NoChange(t)
      ELSE Changed([t EXCEPT
             !.peers = [p \in Node |->
               IF p \in expired THEN [t.peers[p] EXCEPT !.status = "closed"]
               ELSE t.peers[p]],
             !.routes = @ \ gone], Announce("removed", gone))
===============================================================================
