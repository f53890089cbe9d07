--------------------------------- MODULE Rib ---------------------------------
(***************************************************************************)
(* The RoutingInformationBase of one orchestrator under every action the   *)
(* bus can dispatch to it, in any order.  A step is one dispatched action: *)
(* plan on the current table, then commit (rib.ts plan, commit).           *)
(*                                                                         *)
(* Peers are honest about what they send: a path starts with the sender    *)
(* (enforced in rpc.ts) and ends with the route's origin.  Nothing else is *)
(* assumed: a message may arrive before the peer is configured, after its  *)
(* session closed, or after the peer was deleted.                          *)
(***************************************************************************)
EXTENDS RouteTable

CONSTANTS
  Self,       \* this node's name
  Peer,       \* the nodes it may be configured to peer with
  Path,       \* node paths peers advertise
  MaxItems,   \* bound: items in one update
  MaxTime,    \* bound: the clock stops here
  LastEvent   \* bound: only Tick and the clock run after this time

ASSUME SelfAssumption == Self \in Node /\ Peer \subseteq Node \ {Self}
ASSUME PathAssumption == Path \subseteq Seq(Node) \ {<<>>}
ASSUME BoundAssumption ==
  MaxItems \in Nat /\ MaxTime \in Nat /\ LastEvent \in Nat

VARIABLES
  table,    \* rib.state
  changes,  \* route changes announced by the last dispatched action
  now       \* Date.now()

vars == <<table, changes, now>>

\* Update items an honest peer p can send.
ItemsFrom(p) ==
  {[action |-> a, name |-> n, origin |-> q[Len(q)], path |-> q, data |-> d] :
     a \in {"add", "remove"}, n \in Name, d \in Data,
     q \in {r \in Path : r[1] = p}}

UpdatesFrom(p) ==
  {items \in SUBSET ItemsFrom(p) :
     DistinctKeys(items) /\ Cardinality(items) <= MaxItems}

Init ==
  /\ table = newRouteTable
  /\ changes = {}
  /\ now = 1

\* Commit the plan of one action.
Commit(plan) ==
  /\ table' = plan.table
  /\ changes' = plan.changes
  /\ UNCHANGED now

Dispatch(plan) == now <= LastEvent /\ Commit(plan)

LocalPeerCreate(p, info) == Dispatch(PlanLocalPeerCreate(table, p, info))
LocalPeerUpdate(p, info) == Dispatch(PlanLocalPeerUpdate(table, p, info))
LocalPeerDelete(p)       == Dispatch(PlanLocalPeerDelete(table, p))

LocalRouteCreate(n, d) == Dispatch(PlanLocalRouteCreate(table, n, d))
LocalRouteDelete(n)    == Dispatch(PlanLocalRouteDelete(table, n))
LocalRouteHealthUpdate(n, d) ==
  Dispatch(PlanLocalRouteHealthUpdate(table, n, d))

InternalProtocolOpen(p, hold) ==
  Dispatch(PlanInternalProtocolOpen(table, p, hold, now))
InternalProtocolConnected(p) ==
  Dispatch(PlanInternalProtocolConnected(table, p, now))
InternalProtocolClose(p, code) ==
  Dispatch(PlanInternalProtocolClose(table, p, code))
InternalProtocolUpdate(p, items) ==
  Dispatch(PlanInternalProtocolUpdate(Self, table, p, items, now))
InternalProtocolKeepalive(p) ==
  Dispatch(PlanInternalProtocolKeepalive(table, p, now))

\* A Tick carries the time it was created, which the queue may have delayed.
Tick(at) == Commit(PlanTick(table, at))

PassTime ==
  /\ now < MaxTime
  /\ now' = now + 1
  /\ UNCHANGED <<table, changes>>

Next ==
  \/ \E p \in Peer :
       \/ \E info \in Info :
            LocalPeerCreate(p, info) \/ LocalPeerUpdate(p, info)
       \/ LocalPeerDelete(p)
       \/ \E hold \in Hold \cup {NoHold} : InternalProtocolOpen(p, hold)
       \/ InternalProtocolConnected(p)
       \/ \E code \in CloseCodes : InternalProtocolClose(p, code)
       \/ \E items \in UpdatesFrom(p) : InternalProtocolUpdate(p, items)
       \/ InternalProtocolKeepalive(p)
  \/ \E n \in Name :
       \/ \E d \in Data : LocalRouteCreate(n, d) \/ LocalRouteHealthUpdate(n, d)
       \/ LocalRouteDelete(n)
  \/ \E at \in 1..now : Tick(at)
  \/ PassTime

Spec == Init /\ [][Next]_vars

\* The tick timer keeps firing and the clock keeps running.
FairSpec == Spec /\ WF_vars(Tick(now)) /\ WF_vars(PassTime)

-----------------------------------------------------------------------------
(* Invariants. *)

\* Every part of the state has its type.
TypeOK ==
  /\ table \in Table
  /\ changes \subseteq [type : {"added", "removed", "updated"},
                        route : InternalRoute \cup LocalRoute]
  /\ now \in Nat \ {0}

\* The table never holds two routes for one service of one origin: best-path
\* selection replaces, it never accumulates (rib.ts planInternalProtocolUpdate).
OneRoutePerKey ==
  \A r, s \in table.routes : SameKey(r, s) => r = s

\* No learned route leads back through this node.
LoopFree == \A r \in table.routes : ~Crosses(Self, r.path)

\* A stale route belongs to a configured peer that has had a session: deleting
\* a peer, expiring it or closing it for good leaves none of its stale routes
\* behind, through whichever sequence of closes, dials and ticks.
StaleHasPeer ==
  \A r \in table.routes :
    r.stale => table.peers[r.peer].status \in {"connected", "closed"}

-----------------------------------------------------------------------------
(* Action properties. *)

ChangeOf(type) == {c.route : c \in {d \in changes' : d.type = type}}

\* What a dispatch announces is what happened to the table: peers, envoy and
\* the gateway follow the announced changes alone, so a follower that applies
\* them to its copy of the internal routes again holds exactly the table.
ChangesDescribeDelta ==
  [][LET removed == Internal(ChangeOf("removed"))
         put == Internal(ChangeOf("added") \cup ChangeOf("updated"))
     IN  /\ removed \subseteq table.routes
         /\ \A r \in Internal(ChangeOf("added")) :
              \A s \in table.routes : ~SameKey(r, s)
         /\ table'.routes =
              {r \in table.routes \ removed : \A s \in put : ~SameKey(r, s)}
                \cup put
    ]_<<table, changes>>

\* While a service stays in the table and its route stays fresh, the path to it
\* only changes to a strictly shorter one: no flapping between equal paths, and
\* no detour (a stale route may be replaced by any).
PathOnlyImproves ==
  [][\A r \in table.routes, s \in table'.routes :
       (SameKey(r, s) /\ ~r.stale /\ r.path # s.path)
         => Len(s.path) < Len(r.path)
    ]_table

\* The peer was heard from within its hold time.
HeardFrom(p) == now - table.peers[p].lastReceived <= table.peers[p].hold

\* Losing the session of one peer (deletion, close, expiry) never costs a
\* route learned from another peer that is still being heard from.
LossIsIsolated ==
  [][\A p \in Node :
       ( /\ table.peers[p].status # table'.peers[p].status
         /\ table'.peers[p].status \in {"closed", "absent"} ) =>
         \A r \in table.routes :
           (r.peer # p /\ r \notin table'.routes) =>
             Known(table, r.peer) /\ ~HeardFrom(r.peer)
    ]_table

\* No peer is timed out, and nothing it advertised is purged, while it has
\* been heard from within its hold time, however late a Tick is processed.
NoEarlyExpiry ==
  [][(\E at \in 1..now : Tick(at)) =>
       \A p \in Node : HeardFrom(p) =>
         /\ table'.peers[p] = table.peers[p]
         /\ RoutesVia(table', p) = RoutesVia(table, p)
    ]_table

-----------------------------------------------------------------------------
(* Liveness. *)

\* The stale routes of a lost peer do not stay: within bounded time they are
\* purged unless the peer comes back or a fresh route takes their place.
StalePurged ==
  \A p \in Peer :
    ( /\ table.peers[p].status = "closed"
      /\ table.peers[p].hold > 0
      /\ table.peers[p].lastReceived > 0 )
    ~> ( \/ table.peers[p].status # "closed"
         \/ \A r \in RoutesVia(table, p) : ~r.stale )
===============================================================================
