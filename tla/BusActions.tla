------------------------------ MODULE BusActions ------------------------------
(***************************************************************************)
(* The actions of the bus (packages/routing/src/v2/schema.ts) as records,  *)
(* and the dispatch of an action to its planner (rib.ts plan).             *)
(***************************************************************************)
EXTENDS RouteTable

PeerCreate(p, info)  == [type |-> "LocalPeerCreate", peer |-> p, info |-> info]
PeerUpdate(p, info)  == [type |-> "LocalPeerUpdate", peer |-> p, info |-> info]
PeerDelete(p)        == [type |-> "LocalPeerDelete", peer |-> p]
RouteCreate(n, d)    == [type |-> "LocalRouteCreate", name |-> n, data |-> d]
RouteDelete(n)       == [type |-> "LocalRouteDelete", name |-> n]
RouteHealth(n, d)    == [type |-> "LocalRouteHealthUpdate", name |-> n, data |-> d]
Open(p, hold)        == [type |-> "InternalProtocolOpen", peer |-> p, hold |-> hold]
Connected(p)         == [type |-> "InternalProtocolConnected", peer |-> p]
Close(p, code)       == [type |-> "InternalProtocolClose", peer |-> p, code |-> code]
Keepalive(p)         == [type |-> "InternalProtocolKeepalive", peer |-> p]
Update(p, items)     == [type |-> "InternalProtocolUpdate", peer |-> p, items |-> items]
SystemTick(at)       == [type |-> "Tick", at |-> at]

\* No two items of an update have the same key (RouteTable).
Action ==
  [type : {"LocalPeerCreate", "LocalPeerUpdate"}, peer : Node, info : Info]
    \cup [type : {"LocalPeerDelete", "InternalProtocolConnected",
                  "InternalProtocolKeepalive"}, peer : Node]
    \cup [type : {"LocalRouteCreate", "LocalRouteHealthUpdate"},
          name : Name, data : Data]
    \cup [type : {"LocalRouteDelete"}, name : Name]
    \cup [type : {"InternalProtocolOpen"}, peer : Node, hold : Hold \cup {NoHold}]
    \cup [type : {"InternalProtocolClose"}, peer : Node, code : CloseCodes]
    \cup [type : {"InternalProtocolUpdate"}, peer : Node,
          items : {s \in SUBSET UpdateItem : DistinctKeys(s)}]
    \cup [type : {"Tick"}, at : Nat]

\* What node self plans for action act on table t at time now.
Plan(self, t, act, now) ==
  CASE act.type = "LocalPeerCreate"  -> PlanLocalPeerCreate(t, act.peer, act.info)
    [] act.type = "LocalPeerUpdate"  -> PlanLocalPeerUpdate(t, act.peer, act.info)
    [] act.type = "LocalPeerDelete"  -> PlanLocalPeerDelete(t, act.peer)
    [] act.type = "LocalRouteCreate" -> PlanLocalRouteCreate(t, act.name, act.data)
    [] act.type = "LocalRouteDelete" -> PlanLocalRouteDelete(t, act.name)
    [] act.type = "LocalRouteHealthUpdate" ->
         PlanLocalRouteHealthUpdate(t, act.name, act.data)
    [] act.type = "InternalProtocolOpen" ->
         PlanInternalProtocolOpen(t, act.peer, act.hold, now)
    [] act.type = "InternalProtocolConnected" ->
         PlanInternalProtocolConnected(t, act.peer, now)
    [] act.type = "InternalProtocolClose" ->
         PlanInternalProtocolClose(t, act.peer, act.code)
    [] act.type = "InternalProtocolKeepalive" ->
         PlanInternalProtocolKeepalive(t, act.peer, now)
    [] act.type = "InternalProtocolUpdate" ->
         PlanInternalProtocolUpdate(self, t, act.peer, act.items, now)
    [] act.type = "Tick" -> PlanTick(t, act.at)
===============================================================================
