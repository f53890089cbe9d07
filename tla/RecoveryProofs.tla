---------------------------- MODULE RecoveryProofs ----------------------------
(***************************************************************************)
(* What a crash costs, for every sequence of actions, every configuration  *)
(* of compaction and every time the process is down: nothing of the        *)
(* configuration (ConfigDurable), and nothing at all but the times peers   *)
(* were last heard from, as long as no tick was journaled since the        *)
(* snapshot (StateDurable).                                                *)
(*                                                                         *)
(* Recovery plans the journaled actions again at another time, on tables   *)
(* that may already differ from those they were planned on first.  So the  *)
(* proof first shows that planning respects both equivalences, whatever    *)
(* the clock says, and then that whatever happens to the journal, it       *)
(* leads to a table equivalent to the one in memory.                       *)
(***************************************************************************)
EXTENDS Recovery, PlanProofs

-----------------------------------------------------------------------------
(* What each planner makes of a table, field by field. *)

LEMMA RecordFields ==
  ASSUME NEW t \in Table, NEW p \in Node, NEW rec
  PROVE  LET u == [t EXCEPT !.peers[p] = rec]
         IN  /\ u.local = t.local /\ u.routes = t.routes
             /\ \A q \in Node : u.peers[q] = IF q = p THEN rec ELSE t.peers[q]
BY DEF Table

LEMMA PeerCreateFields ==
  ASSUME NEW t \in Table, NEW p \in Node, NEW info
  PROVE  LET u == PlanLocalPeerCreate(t, p, info).table
         IN  /\ u.local = t.local
             /\ u.routes = t.routes
             /\ \A q \in Node :
                  /\ u.peers[q].info = IF q = p /\ ~Known(t, q) THEN info ELSE t.peers[q].info
                  /\ u.peers[q].status = IF q = p /\ ~Known(t, q) THEN "initializing" ELSE t.peers[q].status
                  /\ u.peers[q].hold = IF q = p /\ ~Known(t, q) THEN DefaultHold ELSE t.peers[q].hold
<1> DEFINE rec == [status |-> "initializing", info |-> info,
                   hold |-> DefaultHold, lastReceived |-> 0]
           u == [t EXCEPT !.peers[p] = rec]
<1>1. CASE Known(t, p)
  BY <1>1 DEF PlanLocalPeerCreate, NoChange
<1>2. CASE ~Known(t, p)
  <2>1. PlanLocalPeerCreate(t, p, info).table = u
    BY <1>2 DEF PlanLocalPeerCreate, Changed
  <2>2. t.peers[p] \in PeerRecord
    BY DEF Table
  <2>3. rec.info = info /\ rec.status = "initializing" /\ rec.hold = DefaultHold
    BY <2>2 DEF PeerRecord
  <2> HIDE DEF rec
  <2>4. /\ u.local = t.local /\ u.routes = t.routes
        /\ \A q \in Node : u.peers[q] = IF q = p THEN rec ELSE t.peers[q]
    BY RecordFields
  <2> HIDE DEF u
  <2> QED BY <1>2, <2>1, <2>3, <2>4
<1> QED BY <1>1, <1>2

LEMMA PeerUpdateFields ==
  ASSUME NEW t \in Table, NEW p \in Node, NEW info
  PROVE  LET u == PlanLocalPeerUpdate(t, p, info).table
         IN  /\ u.local = t.local
             /\ u.routes = t.routes
             /\ \A q \in Node :
                  /\ u.peers[q].info = IF q = p /\ Known(t, q) THEN info ELSE t.peers[q].info
                  /\ u.peers[q].status = t.peers[q].status
                  /\ u.peers[q].hold = t.peers[q].hold
<1> DEFINE rec == [t.peers[p] EXCEPT !.info = info]
           u == [t EXCEPT !.peers[p] = rec]
<1>1. CASE ~Known(t, p)
  BY <1>1 DEF PlanLocalPeerUpdate, NoChange
<1>2. CASE Known(t, p)
  <2>1. PlanLocalPeerUpdate(t, p, info).table = u
    BY <1>2 DEF PlanLocalPeerUpdate, Changed
  <2>2. t.peers[p] \in PeerRecord
    BY DEF Table
  <2>3. /\ rec.info = info /\ rec.status = t.peers[p].status
        /\ rec.hold = t.peers[p].hold
    BY <2>2 DEF PeerRecord
  <2> HIDE DEF rec
  <2>4. /\ u.local = t.local /\ u.routes = t.routes
        /\ \A q \in Node : u.peers[q] = IF q = p THEN rec ELSE t.peers[q]
    BY RecordFields
  <2> HIDE DEF u
  <2> QED BY <1>2, <2>1, <2>3, <2>4
<1> QED BY <1>1, <1>2

LEMMA PeerDeleteFields ==
  ASSUME NEW t \in Table, NEW p \in Node
  PROVE  LET u == PlanLocalPeerDelete(t, p).table
         IN  /\ u.local = t.local
             /\ u.routes = IF Known(t, p) THEN t.routes \ RoutesVia(t, p)
                           ELSE t.routes
             /\ \A q \in Node :
                  /\ u.peers[q].info = IF q = p /\ Known(t, q) THEN NoInfo ELSE t.peers[q].info
                  /\ u.peers[q].status = IF q = p /\ Known(t, q) THEN "absent" ELSE t.peers[q].status
                  /\ u.peers[q].hold = IF q = p /\ Known(t, q) THEN 0 ELSE t.peers[q].hold
<1> DEFINE new == t.routes \ RoutesVia(t, p)
           rec == AbsentPeer
           u == [t EXCEPT !.peers[p] = rec, !.routes = new]
<1>1. CASE ~(Known(t, p))
  BY <1>1 DEF PlanLocalPeerDelete, NoChange
<1>2. CASE Known(t, p)
  <2>1. PlanLocalPeerDelete(t, p).table = u
    BY <1>2 DEF PlanLocalPeerDelete, Changed, RoutesVia
  <2>2. rec.info = NoInfo /\ rec.status = "absent" /\ rec.hold = 0
    BY DEF AbsentPeer
  <2> HIDE DEF rec, new
  <2>3. /\ u.local = t.local /\ u.routes = new
        /\ \A q \in Node : u.peers[q] = IF q = p THEN rec ELSE t.peers[q]
    BY DEF Table
  <2> HIDE DEF u
  <2> QED BY <1>2, <2>1, <2>2, <2>3 DEF new
<1> QED BY <1>1, <1>2

LEMMA LocalFields ==
  ASSUME NEW t \in Table, NEW n \in Name, NEW d,
         NEW u \in {PlanLocalRouteCreate(t, n, d).table,
                    PlanLocalRouteHealthUpdate(t, n, d).table,
                    PlanLocalRouteDelete(t, n).table}
  PROVE  u.peers = t.peers /\ u.routes = t.routes
BY DEF PlanLocalRouteCreate, PlanLocalRouteHealthUpdate, PlanLocalRouteDelete,
       NoChange, Changed, Table

LEMMA LocalContents ==
  ASSUME NEW t \in Table, NEW n \in Name, NEW d
  PROVE  /\ PlanLocalRouteCreate(t, n, d).table.local =
              IF t.local[n] # NoRoute THEN t.local ELSE [t.local EXCEPT ![n] = d]
         /\ PlanLocalRouteHealthUpdate(t, n, d).table.local =
              IF t.local[n] \in {NoRoute, d} THEN t.local
              ELSE [t.local EXCEPT ![n] = d]
         /\ PlanLocalRouteDelete(t, n).table.local =
              IF t.local[n] = NoRoute THEN t.local
              ELSE [t.local EXCEPT ![n] = NoRoute]
BY DEF PlanLocalRouteCreate, PlanLocalRouteHealthUpdate, PlanLocalRouteDelete,
       NoChange, Changed, Table

Proposed(old, hold) == IF hold = NoHold THEN old ELSE MinOf(old, hold)

LEMMA OpenFields ==
  ASSUME NEW t \in Table, NEW p \in Node, NEW hold, NEW at
  PROVE  LET u == PlanInternalProtocolOpen(t, p, hold, at).table
         IN  /\ u.local = t.local
             /\ u.routes = t.routes
             /\ \A q \in Node :
                  /\ u.peers[q].info = t.peers[q].info
                  /\ u.peers[q].status = IF q = p /\ Known(t, q) THEN "connected" ELSE t.peers[q].status
                  /\ u.peers[q].hold = IF q = p /\ Known(t, q) THEN Proposed(t.peers[q].hold, hold)
                              ELSE t.peers[q].hold
<1> DEFINE rec == [t.peers[p] EXCEPT !.status = "connected",
                     !.hold = Proposed(t.peers[p].hold, hold), !.lastReceived = at]
           u == [t EXCEPT !.peers[p] = rec]
<1>1. CASE ~Known(t, p)
  BY <1>1 DEF PlanInternalProtocolOpen, NoChange
<1>2. CASE Known(t, p)
  <2>1. PlanInternalProtocolOpen(t, p, hold, at).table = u
    BY <1>2 DEF PlanInternalProtocolOpen, Changed, Proposed
  <2>2. t.peers[p] \in PeerRecord
    BY DEF Table
  <2>3. /\ rec.info = t.peers[p].info /\ rec.status = "connected"
        /\ rec.hold = Proposed(t.peers[p].hold, hold)
    BY <2>2 DEF PeerRecord
  <2> HIDE DEF rec
  <2>4. /\ u.local = t.local /\ u.routes = t.routes
        /\ \A q \in Node : u.peers[q] = IF q = p THEN rec ELSE t.peers[q]
    BY RecordFields
  <2> HIDE DEF u
  <2> QED BY <1>2, <2>1, <2>3, <2>4
<1> QED BY <1>1, <1>2

LEMMA ConnectedFields ==
  ASSUME NEW t \in Table, NEW p \in Node, NEW at
  PROVE  LET u == PlanInternalProtocolConnected(t, p, at).table
         IN  /\ u.local = t.local
             /\ u.routes = t.routes
             /\ \A q \in Node :
                  /\ u.peers[q].info = t.peers[q].info
                  /\ u.peers[q].status = IF q = p /\ Known(t, q) THEN "connected" ELSE t.peers[q].status
                  /\ u.peers[q].hold = IF q = p /\ Known(t, q) THEN DefaultHold ELSE t.peers[q].hold
<1> DEFINE rec == [t.peers[p] EXCEPT !.status = "connected",
                     !.hold = DefaultHold, !.lastReceived = at]
           u == [t EXCEPT !.peers[p] = rec]
<1>1. CASE ~Known(t, p)
  BY <1>1 DEF PlanInternalProtocolConnected, NoChange
<1>2. CASE Known(t, p)
  <2>1. PlanInternalProtocolConnected(t, p, at).table = u
    BY <1>2 DEF PlanInternalProtocolConnected, Changed
  <2>2. t.peers[p] \in PeerRecord
    BY DEF Table
  <2>3. /\ rec.info = t.peers[p].info /\ rec.status = "connected"
        /\ rec.hold = DefaultHold
    BY <2>2 DEF PeerRecord
  <2> HIDE DEF rec
  <2>4. /\ u.local = t.local /\ u.routes = t.routes
        /\ \A q \in Node : u.peers[q] = IF q = p THEN rec ELSE t.peers[q]
    BY RecordFields
  <2> HIDE DEF u
  <2> QED BY <1>2, <2>1, <2>3, <2>4
<1> QED BY <1>1, <1>2

LEMMA KeepaliveFields ==
  ASSUME NEW t \in Table, NEW p \in Node, NEW at
  PROVE  LET u == PlanInternalProtocolKeepalive(t, p, at).table
         IN  /\ u.local = t.local
             /\ u.routes = t.routes
             /\ \A q \in Node :
                  /\ u.peers[q].info = t.peers[q].info
                  /\ u.peers[q].status = t.peers[q].status
                  /\ u.peers[q].hold = t.peers[q].hold
<1> DEFINE rec == [t.peers[p] EXCEPT !.lastReceived = at]
           u == [t EXCEPT !.peers[p] = rec]
<1>1. CASE ~Known(t, p)
  BY <1>1 DEF PlanInternalProtocolKeepalive, NoChange
<1>2. CASE Known(t, p)
  <2>1. PlanInternalProtocolKeepalive(t, p, at).table = u
    BY <1>2 DEF PlanInternalProtocolKeepalive, Changed
  <2>2. t.peers[p] \in PeerRecord
    BY DEF Table
  <2>3. /\ rec.info = t.peers[p].info /\ rec.status = t.peers[p].status
        /\ rec.hold = t.peers[p].hold
    BY <2>2 DEF PeerRecord
  <2> HIDE DEF rec
  <2>4. /\ u.local = t.local /\ u.routes = t.routes
        /\ \A q \in Node : u.peers[q] = IF q = p THEN rec ELSE t.peers[q]
    BY RecordFields
  <2> HIDE DEF u
  <2> QED BY <1>2, <2>1, <2>3, <2>4
<1> QED BY <1>1, <1>2

\* The routes a table is left with when the session with p is closed.
ClosedRoutes(routes, p, code) ==
  LET lost == {r \in routes : r.peer = p}
  IN  (routes \ lost)
        \cup (IF code = "TRANSPORT_ERROR" THEN {MarkStale(r) : r \in lost} ELSE {})

LEMMA CloseFields ==
  ASSUME NEW t \in Table, NEW p \in Node, NEW code
  PROVE  LET u == PlanInternalProtocolClose(t, p, code).table
         IN  /\ u.local = t.local
             /\ u.routes = IF Known(t, p) THEN ClosedRoutes(t.routes, p, code)
                           ELSE t.routes
             /\ \A q \in Node :
                  /\ u.peers[q].info = t.peers[q].info
                  /\ u.peers[q].status = IF q = p /\ Known(t, q) THEN "closed" ELSE t.peers[q].status
                  /\ u.peers[q].hold = t.peers[q].hold
<1> DEFINE new == ClosedRoutes(t.routes, p, code)
           rec == [t.peers[p] EXCEPT !.status = "closed"]
           u == [t EXCEPT !.peers[p] = rec, !.routes = new]
<1>1. CASE ~(Known(t, p))
  BY <1>1 DEF PlanInternalProtocolClose, NoChange
<1>2. CASE Known(t, p)
  <2>1. PlanInternalProtocolClose(t, p, code).table = u
    BY <1>2 DEF PlanInternalProtocolClose, Changed, ClosedRoutes, RoutesVia
  <2>2. t.peers[p] \in PeerRecord
    BY DEF Table
  <2>3. /\ rec.info = t.peers[p].info /\ rec.status = "closed"
        /\ rec.hold = t.peers[p].hold
    BY <2>2 DEF PeerRecord
  <2> HIDE DEF rec, new
  <2>4. /\ u.local = t.local /\ u.routes = new
        /\ \A q \in Node : u.peers[q] = IF q = p THEN rec ELSE t.peers[q]
    BY DEF Table
  <2> HIDE DEF u
  <2> QED BY <1>2, <2>1, <2>3, <2>4 DEF new
<1> QED BY <1>1, <1>2

LEMMA UpdateFields ==
  ASSUME NEW t \in Table, NEW p \in Node, NEW items, NEW at
  PROVE  LET u == PlanInternalProtocolUpdate(Self, t, p, items, at).table
         IN  /\ u.local = t.local
             /\ u.routes = IF UpdateChanges(Self, t.routes, p, items) = {} /\ ~Known(t, p)
                           THEN t.routes ELSE After(Self, t.routes, p, items)
             /\ \A q \in Node :
                  /\ u.peers[q].info = t.peers[q].info
                  /\ u.peers[q].status = t.peers[q].status
                  /\ u.peers[q].hold = t.peers[q].hold
<1> DEFINE new == After(Self, t.routes, p, items)
           rec == [t.peers[p] EXCEPT !.lastReceived = IF Known(t, p) THEN at ELSE @]
           u == [t EXCEPT !.peers[p] = rec, !.routes = new]
<1>1. CASE UpdateChanges(Self, t.routes, p, items) = {} /\ ~Known(t, p)
  BY <1>1 DEF PlanInternalProtocolUpdate, NoChange
<1>2. CASE ~(UpdateChanges(Self, t.routes, p, items) = {} /\ ~Known(t, p))
  <2>1. PlanInternalProtocolUpdate(Self, t, p, items, at).table = u
    BY <1>2 DEF PlanInternalProtocolUpdate, Changed, After
  <2>2. t.peers[p] \in PeerRecord
    BY DEF Table
  <2>3. /\ rec.info = t.peers[p].info /\ rec.status = t.peers[p].status
        /\ rec.hold = t.peers[p].hold
    BY <2>2 DEF PeerRecord
  <2> HIDE DEF rec, new
  <2>4. /\ u.local = t.local /\ u.routes = new
        /\ \A q \in Node : u.peers[q] = IF q = p THEN rec ELSE t.peers[q]
    BY DEF Table
  <2> HIDE DEF u
  <2> QED BY <1>2, <2>1, <2>3, <2>4 DEF new
<1> QED BY <1>1, <1>2

LEMMA TickFields ==
  ASSUME NEW t \in Table, NEW at
  PROVE  LET u == PlanTick(t, at).table
         IN  /\ u.local = t.local
             /\ \A q \in Node : u.peers[q] =
                  IF q \in Expired(t, at) THEN [t.peers[q] EXCEPT !.status = "closed"]
                  ELSE t.peers[q]
<1> DEFINE purged == Expired(t, at) \cup GraceOver(t, at)
           gone == {r \in t.routes : r.peer \in purged}
<1>1. CASE purged = {}
  BY <1>1 DEF PlanTick, NoChange
<1>2. CASE purged # {}
  <2>1. PlanTick(t, at).table =
          [t EXCEPT
             !.peers = [p \in Node |->
               IF p \in Expired(t, at) THEN [t.peers[p] EXCEPT !.status = "closed"]
               ELSE t.peers[p]],
             !.routes = t.routes \ gone]
    BY <1>2 DEF PlanTick, Changed
  <2> HIDE DEF gone
  <2> QED BY <2>1 DEF Table
<1> QED BY <1>1, <1>2

-----------------------------------------------------------------------------
(* Every action keeps a table good: sound (PlanProofs), and with a known    *)
(* configuration for exactly the peers it knows.                            *)

InfoKnown(t) == \A p \in Node : Known(t, p) <=> t.peers[p].info # NoInfo

Good(t) == SoundTable(Self, t) /\ InfoKnown(t)

-----------------------------------------------------------------------------
(* The effect of an action on all that is not a time, as a function of what *)
(* is not a time; and on the configuration, as a function of that alone.    *)

NextInfo(act, q, info) ==
  IF act.type = "LocalPeerCreate" /\ q = act.peer /\ info = NoInfo THEN act.info
  ELSE IF act.type = "LocalPeerUpdate" /\ q = act.peer /\ info # NoInfo THEN act.info
  ELSE IF act.type = "LocalPeerDelete" /\ q = act.peer THEN NoInfo
  ELSE info

NextStatus(act, q, status) ==
  IF act.type = "LocalPeerCreate" /\ q = act.peer /\ status = "absent"
  THEN "initializing"
  ELSE IF act.type = "LocalPeerDelete" /\ q = act.peer THEN "absent"
  ELSE IF /\ act.type \in {"InternalProtocolOpen", "InternalProtocolConnected"}
          /\ q = act.peer /\ status # "absent" THEN "connected"
  ELSE IF act.type = "InternalProtocolClose" /\ q = act.peer /\ status # "absent"
  THEN "closed"
  ELSE status

NextHold(act, q, status, hold) ==
  IF act.type = "LocalPeerCreate" /\ q = act.peer /\ status = "absent"
  THEN DefaultHold
  ELSE IF act.type = "LocalPeerDelete" /\ q = act.peer /\ status # "absent" THEN 0
  ELSE IF act.type = "InternalProtocolOpen" /\ q = act.peer /\ status # "absent"
  THEN Proposed(hold, act.hold)
  ELSE IF act.type = "InternalProtocolConnected" /\ q = act.peer /\ status # "absent"
  THEN DefaultHold
  ELSE hold

NextRoutes(act, routes, known) ==
  IF act.type = "LocalPeerDelete"
  THEN IF act.peer \in known THEN {r \in routes : r.peer # act.peer} ELSE routes
  ELSE IF act.type = "InternalProtocolClose"
  THEN IF act.peer \in known THEN ClosedRoutes(routes, act.peer, act.code) ELSE routes
  ELSE IF act.type = "InternalProtocolUpdate"
  THEN IF UpdateChanges(Self, routes, act.peer, act.items) = {} /\ act.peer \notin known
       THEN routes ELSE After(Self, routes, act.peer, act.items)
  ELSE routes

NextLocal(act, local) ==
  IF act.type = "LocalRouteCreate"
  THEN IF local[act.name] = NoRoute THEN [local EXCEPT ![act.name] = act.data] ELSE local
  ELSE IF act.type = "LocalRouteHealthUpdate"
  THEN IF local[act.name] \in {NoRoute, act.data} THEN local
       ELSE [local EXCEPT ![act.name] = act.data]
  ELSE IF act.type = "LocalRouteDelete"
  THEN IF local[act.name] = NoRoute THEN local
       ELSE [local EXCEPT ![act.name] = NoRoute]
  ELSE local

KnownPeers(t) == {p \in Node : Known(t, p)}

LEMMA PlanEffect ==
  ASSUME NEW t \in Table, InfoKnown(t), NEW act \in Action, act.type # "Tick", NEW at
  PROVE  LET u == Plan(Self, t, act, at).table
         IN  /\ u.local = NextLocal(act, t.local)
             /\ u.routes = NextRoutes(act, t.routes, KnownPeers(t))
             /\ \A q \in Node :
                  /\ u.peers[q].info = NextInfo(act, q, t.peers[q].info)
                  /\ u.peers[q].status = NextStatus(act, q, t.peers[q].status)
                  /\ u.peers[q].hold = NextHold(act, q, t.peers[q].status, t.peers[q].hold)
<1> DEFINE u == Plan(Self, t, act, at).table
<1>0. \A q \in Node : t.peers[q] \in PeerRecord
  BY DEF Table
<1>1. CASE act.type = "LocalPeerCreate"
  <2> DEFINE w == PlanLocalPeerCreate(t, act.peer, act.info).table
  <2>1. act.peer \in Node
    BY <1>1, ActionFields
  <2>2. /\ w.local = t.local
        /\ w.routes = t.routes
        /\ \A q \in Node :
             /\ w.peers[q].info = IF q = act.peer /\ ~Known(t, q) THEN act.info ELSE t.peers[q].info
             /\ w.peers[q].status = IF q = act.peer /\ ~Known(t, q) THEN "initializing" ELSE t.peers[q].status
             /\ w.peers[q].hold = IF q = act.peer /\ ~Known(t, q) THEN DefaultHold ELSE t.peers[q].hold
    BY <1>0, <2>1, PeerCreateFields DEF PeerRecord, AbsentPeer
  <2>3. u = w
    BY <1>1, PlanCases
  <2> HIDE DEF u, w
  <2>4. /\ u.local = NextLocal(act, t.local)
        /\ u.routes = NextRoutes(act, t.routes, KnownPeers(t))
    BY <1>1, <2>1, <2>2, <2>3 DEF NextLocal, NextRoutes, KnownPeers, RoutesVia
  <2>5. \A q \in Node :
          /\ u.peers[q].info = NextInfo(act, q, t.peers[q].info)
          /\ u.peers[q].status = NextStatus(act, q, t.peers[q].status)
          /\ u.peers[q].hold = NextHold(act, q, t.peers[q].status, t.peers[q].hold)
    BY <1>1, <2>2, <2>3 DEF NextInfo, NextStatus, NextHold, Known, InfoKnown
  <2> QED BY <2>4, <2>5 DEF u
<1>2. CASE act.type = "LocalPeerUpdate"
  <2> DEFINE w == PlanLocalPeerUpdate(t, act.peer, act.info).table
  <2>1. act.peer \in Node
    BY <1>2, ActionFields
  <2>2. /\ w.local = t.local
        /\ w.routes = t.routes
        /\ \A q \in Node :
             /\ w.peers[q].info = IF q = act.peer /\ Known(t, q) THEN act.info ELSE t.peers[q].info
             /\ w.peers[q].status = t.peers[q].status
             /\ w.peers[q].hold = t.peers[q].hold
    BY <1>0, <2>1, PeerUpdateFields DEF PeerRecord, AbsentPeer
  <2>3. u = w
    BY <1>2, PlanCases
  <2> HIDE DEF u, w
  <2>4. /\ u.local = NextLocal(act, t.local)
        /\ u.routes = NextRoutes(act, t.routes, KnownPeers(t))
    BY <1>2, <2>1, <2>2, <2>3 DEF NextLocal, NextRoutes, KnownPeers, RoutesVia
  <2>5. \A q \in Node :
          /\ u.peers[q].info = NextInfo(act, q, t.peers[q].info)
          /\ u.peers[q].status = NextStatus(act, q, t.peers[q].status)
          /\ u.peers[q].hold = NextHold(act, q, t.peers[q].status, t.peers[q].hold)
    BY <1>2, <2>2, <2>3 DEF NextInfo, NextStatus, NextHold, Known, InfoKnown
  <2> QED BY <2>4, <2>5 DEF u
<1>3. CASE act.type = "LocalPeerDelete"
  <2> DEFINE w == PlanLocalPeerDelete(t, act.peer).table
  <2>1. act.peer \in Node
    BY <1>3, ActionFields
  <2>2. /\ w.local = t.local
        /\ w.routes = IF Known(t, act.peer) THEN t.routes \ RoutesVia(t, act.peer)
                       ELSE t.routes
        /\ \A q \in Node :
             /\ w.peers[q].info = IF q = act.peer /\ Known(t, q) THEN NoInfo ELSE t.peers[q].info
             /\ w.peers[q].status = IF q = act.peer /\ Known(t, q) THEN "absent" ELSE t.peers[q].status
             /\ w.peers[q].hold = IF q = act.peer /\ Known(t, q) THEN 0 ELSE t.peers[q].hold
    BY <1>0, <2>1, PeerDeleteFields DEF PeerRecord, AbsentPeer
  <2>3. u = w
    BY <1>3, PlanCases
  <2> HIDE DEF u, w
  <2>4. /\ u.local = NextLocal(act, t.local)
        /\ u.routes = NextRoutes(act, t.routes, KnownPeers(t))
    BY <1>3, <2>1, <2>2, <2>3 DEF NextLocal, NextRoutes, KnownPeers, RoutesVia
  <2>5. \A q \in Node :
          /\ u.peers[q].info = NextInfo(act, q, t.peers[q].info)
          /\ u.peers[q].status = NextStatus(act, q, t.peers[q].status)
          /\ u.peers[q].hold = NextHold(act, q, t.peers[q].status, t.peers[q].hold)
    BY <1>3, <2>2, <2>3 DEF NextInfo, NextStatus, NextHold, Known, InfoKnown
  <2> QED BY <2>4, <2>5 DEF u
<1>4. CASE act.type = "InternalProtocolOpen"
  <2> DEFINE w == PlanInternalProtocolOpen(t, act.peer, act.hold, at).table
  <2>1. act.peer \in Node
    BY <1>4, ActionFields
  <2>2. /\ w.local = t.local
        /\ w.routes = t.routes
        /\ \A q \in Node :
             /\ w.peers[q].info = t.peers[q].info
             /\ w.peers[q].status = IF q = act.peer /\ Known(t, q) THEN "connected" ELSE t.peers[q].status
             /\ w.peers[q].hold = IF q = act.peer /\ Known(t, q) THEN Proposed(t.peers[q].hold, act.hold)
                          ELSE t.peers[q].hold
    BY <1>0, <2>1, OpenFields DEF PeerRecord, AbsentPeer
  <2>3. u = w
    BY <1>4, PlanCases
  <2> HIDE DEF u, w
  <2>4. /\ u.local = NextLocal(act, t.local)
        /\ u.routes = NextRoutes(act, t.routes, KnownPeers(t))
    BY <1>4, <2>1, <2>2, <2>3 DEF NextLocal, NextRoutes, KnownPeers, RoutesVia
  <2>5. \A q \in Node :
          /\ u.peers[q].info = NextInfo(act, q, t.peers[q].info)
          /\ u.peers[q].status = NextStatus(act, q, t.peers[q].status)
          /\ u.peers[q].hold = NextHold(act, q, t.peers[q].status, t.peers[q].hold)
    BY <1>4, <2>2, <2>3 DEF NextInfo, NextStatus, NextHold, Known, InfoKnown
  <2> QED BY <2>4, <2>5 DEF u
<1>5. CASE act.type = "InternalProtocolConnected"
  <2> DEFINE w == PlanInternalProtocolConnected(t, act.peer, at).table
  <2>1. act.peer \in Node
    BY <1>5, ActionFields
  <2>2. /\ w.local = t.local
        /\ w.routes = t.routes
        /\ \A q \in Node :
             /\ w.peers[q].info = t.peers[q].info
             /\ w.peers[q].status = IF q = act.peer /\ Known(t, q) THEN "connected" ELSE t.peers[q].status
             /\ w.peers[q].hold = IF q = act.peer /\ Known(t, q) THEN DefaultHold ELSE t.peers[q].hold
    BY <1>0, <2>1, ConnectedFields DEF PeerRecord, AbsentPeer
  <2>3. u = w
    BY <1>5, PlanCases
  <2> HIDE DEF u, w
  <2>4. /\ u.local = NextLocal(act, t.local)
        /\ u.routes = NextRoutes(act, t.routes, KnownPeers(t))
    BY <1>5, <2>1, <2>2, <2>3 DEF NextLocal, NextRoutes, KnownPeers, RoutesVia
  <2>5. \A q \in Node :
          /\ u.peers[q].info = NextInfo(act, q, t.peers[q].info)
          /\ u.peers[q].status = NextStatus(act, q, t.peers[q].status)
          /\ u.peers[q].hold = NextHold(act, q, t.peers[q].status, t.peers[q].hold)
    BY <1>5, <2>2, <2>3 DEF NextInfo, NextStatus, NextHold, Known, InfoKnown
  <2> QED BY <2>4, <2>5 DEF u
<1>6. CASE act.type = "InternalProtocolKeepalive"
  <2> DEFINE w == PlanInternalProtocolKeepalive(t, act.peer, at).table
  <2>1. act.peer \in Node
    BY <1>6, ActionFields
  <2>2. /\ w.local = t.local
        /\ w.routes = t.routes
        /\ \A q \in Node :
             /\ w.peers[q].info = t.peers[q].info
             /\ w.peers[q].status = t.peers[q].status
             /\ w.peers[q].hold = t.peers[q].hold
    BY <1>0, <2>1, KeepaliveFields DEF PeerRecord, AbsentPeer
  <2>3. u = w
    BY <1>6, PlanCases
  <2> HIDE DEF u, w
  <2>4. /\ u.local = NextLocal(act, t.local)
        /\ u.routes = NextRoutes(act, t.routes, KnownPeers(t))
    BY <1>6, <2>1, <2>2, <2>3 DEF NextLocal, NextRoutes, KnownPeers, RoutesVia
  <2>5. \A q \in Node :
          /\ u.peers[q].info = NextInfo(act, q, t.peers[q].info)
          /\ u.peers[q].status = NextStatus(act, q, t.peers[q].status)
          /\ u.peers[q].hold = NextHold(act, q, t.peers[q].status, t.peers[q].hold)
    BY <1>6, <2>2, <2>3 DEF NextInfo, NextStatus, NextHold, Known, InfoKnown
  <2> QED BY <2>4, <2>5 DEF u
<1>7. CASE act.type = "InternalProtocolClose"
  <2> DEFINE w == PlanInternalProtocolClose(t, act.peer, act.code).table
  <2>1. act.peer \in Node
    BY <1>7, ActionFields
  <2>2. /\ w.local = t.local
        /\ w.routes = IF Known(t, act.peer) THEN ClosedRoutes(t.routes, act.peer, act.code)
                       ELSE t.routes
        /\ \A q \in Node :
             /\ w.peers[q].info = t.peers[q].info
             /\ w.peers[q].status = IF q = act.peer /\ Known(t, q) THEN "closed" ELSE t.peers[q].status
             /\ w.peers[q].hold = t.peers[q].hold
    BY <1>0, <2>1, CloseFields DEF PeerRecord, AbsentPeer
  <2>3. u = w
    BY <1>7, PlanCases
  <2> HIDE DEF u, w
  <2>4. /\ u.local = NextLocal(act, t.local)
        /\ u.routes = NextRoutes(act, t.routes, KnownPeers(t))
    BY <1>7, <2>1, <2>2, <2>3 DEF NextLocal, NextRoutes, KnownPeers, RoutesVia
  <2>5. \A q \in Node :
          /\ u.peers[q].info = NextInfo(act, q, t.peers[q].info)
          /\ u.peers[q].status = NextStatus(act, q, t.peers[q].status)
          /\ u.peers[q].hold = NextHold(act, q, t.peers[q].status, t.peers[q].hold)
    BY <1>7, <2>2, <2>3 DEF NextInfo, NextStatus, NextHold, Known, InfoKnown
  <2> QED BY <2>4, <2>5 DEF u
<1>8. CASE act.type = "InternalProtocolUpdate"
  <2> DEFINE w == PlanInternalProtocolUpdate(Self, t, act.peer, act.items, at).table
  <2>1. act.peer \in Node
    BY <1>8, ActionFields
  <2>2. /\ w.local = t.local
        /\ w.routes = IF UpdateChanges(Self, t.routes, act.peer, act.items) = {} /\ ~Known(t, act.peer)
                       THEN t.routes ELSE After(Self, t.routes, act.peer, act.items)
        /\ \A q \in Node :
             /\ w.peers[q].info = t.peers[q].info
             /\ w.peers[q].status = t.peers[q].status
             /\ w.peers[q].hold = t.peers[q].hold
    BY <1>0, <2>1, UpdateFields DEF PeerRecord, AbsentPeer
  <2>3. u = w
    BY <1>8, PlanCases
  <2> HIDE DEF u, w
  <2>4. /\ u.local = NextLocal(act, t.local)
        /\ u.routes = NextRoutes(act, t.routes, KnownPeers(t))
    BY <1>8, <2>1, <2>2, <2>3 DEF NextLocal, NextRoutes, KnownPeers, RoutesVia
  <2>5. \A q \in Node :
          /\ u.peers[q].info = NextInfo(act, q, t.peers[q].info)
          /\ u.peers[q].status = NextStatus(act, q, t.peers[q].status)
          /\ u.peers[q].hold = NextHold(act, q, t.peers[q].status, t.peers[q].hold)
    BY <1>8, <2>2, <2>3 DEF NextInfo, NextStatus, NextHold, Known, InfoKnown
  <2> QED BY <2>4, <2>5 DEF u
<1>9. CASE act.type \in {"LocalRouteCreate", "LocalRouteHealthUpdate", "LocalRouteDelete"}
  <2>1. act.name \in Name
    BY <1>9, ActionFields
  <2>2. u \in {PlanLocalRouteCreate(t, act.name, act.data).table,
               PlanLocalRouteHealthUpdate(t, act.name, act.data).table,
               PlanLocalRouteDelete(t, act.name).table}
    BY <1>9, PlanCases
  <2>3. u.local = NextLocal(act, t.local)
    BY <1>9, <2>1, PlanCases, LocalContents DEF NextLocal
  <2> HIDE DEF u
  <2>4. u.peers = t.peers /\ u.routes = t.routes
    BY <2>1, <2>2, LocalFields
  <2> QED BY <1>9, <2>3, <2>4 DEF u, NextRoutes, NextInfo, NextStatus, NextHold
<1> QED
  BY <1>1, <1>2, <1>3, <1>4, <1>5, <1>6, <1>7, <1>8, <1>9, ActionTypes

LEMMA PlanKnown ==
  ASSUME NEW t \in Table, InfoKnown(t), NEW act \in Action, NEW at \in Nat
  PROVE  InfoKnown(Plan(Self, t, act, at).table)
<1> DEFINE u == Plan(Self, t, act, at).table
<1>1. CASE act.type = "Tick"
  <2>1. \A q \in Node : u.peers[q] =
          IF q \in Expired(t, act.at) THEN [t.peers[q] EXCEPT !.status = "closed"]
          ELSE t.peers[q]
    BY <1>1, PlanCases, TickFields
  <2>2. \A q \in Expired(t, act.at) : t.peers[q].status = "connected"
    BY DEF Expired
  <2>3. \A q \in Node : t.peers[q] \in PeerRecord
    BY DEF Table
  <2>4. \A q \in Node :
          /\ u.peers[q].info = t.peers[q].info
          /\ u.peers[q].status = "absent" <=> t.peers[q].status = "absent"
    BY <2>1, <2>2, <2>3 DEF PeerRecord
  <2> QED BY <2>4 DEF InfoKnown, Known
<1>2. CASE act.type # "Tick"
  <2>1. \A q \in Node :
          /\ u.peers[q].info = NextInfo(act, q, t.peers[q].info)
          /\ u.peers[q].status = NextStatus(act, q, t.peers[q].status)
    BY <1>2, PlanEffect
  <2>2. act.type \in {"LocalPeerCreate", "LocalPeerUpdate"} => act.info # NoInfo
    BY ActionFields, NameAssumption DEF NoInfo
  <2> QED BY <2>1, <2>2 DEF NextInfo, NextStatus, InfoKnown, Known
<1> QED BY <1>1, <1>2

LEMMA PlanGood ==
  ASSUME NEW t, Good(t), NEW act \in Action, NEW at \in Nat
  PROVE  Good(Plan(Self, t, act, at).table)
BY PlanSound, PlanKnown DEF Good, SoundPlan, SoundTable

LEMMA ConfigSteps ==
  ASSUME NEW t \in Table, InfoKnown(t), NEW u \in Table, InfoKnown(u),
         Config(t) = Config(u), NEW act \in Action, NEW at1 \in Nat, NEW at2 \in Nat
  PROVE  Config(Plan(Self, t, act, at1).table) = Config(Plan(Self, u, act, at2).table)
<1> DEFINE v == Plan(Self, t, act, at1).table
           w == Plan(Self, u, act, at2).table
<1>1. t.local = u.local
  BY DEF Config
<1>2. \A q \in Node : t.peers[q].info = u.peers[q].info
  <2>1. [p \in Node |-> t.peers[p].info] = [p \in Node |-> u.peers[p].info]
    BY DEF Config
  <2> QED BY <2>1
<1>3. v.local = w.local /\ \A q \in Node : v.peers[q].info = w.peers[q].info
  <2>1. CASE act.type = "Tick"
    <3>1. \A x \in Table : \A q \in Node :
            PlanTick(x, act.at).table.peers[q].info = x.peers[q].info
      <4> SUFFICES ASSUME NEW x \in Table, NEW q \in Node
                   PROVE  PlanTick(x, act.at).table.peers[q].info = x.peers[q].info
        OBVIOUS
      <4>1. x.peers[q] \in PeerRecord
        BY DEF Table
      <4>2. PlanTick(x, act.at).table.peers[q] =
              IF q \in Expired(x, act.at) THEN [x.peers[q] EXCEPT !.status = "closed"]
              ELSE x.peers[q]
        BY TickFields
      <4> QED BY <4>1, <4>2 DEF PeerRecord
    <3>2. \A x \in Table : PlanTick(x, act.at).table.local = x.local
      BY TickFields
    <3>3. v = PlanTick(t, act.at).table /\ w = PlanTick(u, act.at).table
      BY <2>1, PlanCases
    <3> HIDE DEF v, w
    <3> QED BY <1>1, <1>2, <3>1, <3>2, <3>3
  <2>2. CASE act.type # "Tick"
    <3>1. /\ v.local = NextLocal(act, t.local)
          /\ \A q \in Node : v.peers[q].info = NextInfo(act, q, t.peers[q].info)
      BY <2>2, PlanEffect
    <3>2. /\ w.local = NextLocal(act, u.local)
          /\ \A q \in Node : w.peers[q].info = NextInfo(act, q, u.peers[q].info)
      BY <2>2, PlanEffect
    <3> HIDE DEF v, w
    <3> QED BY <1>1, <1>2, <3>1, <3>2
  <2> QED BY <2>1, <2>2
<1> HIDE DEF v, w
<1>4. Config(v) = Config(w)
  BY <1>3 DEF Config
<1> QED BY <1>4 DEF v, w

\* Two tables are equal up to the times, field by field.
SameUntimed(t, u) ==
  /\ t.local = u.local /\ t.routes = u.routes
  /\ \A q \in Node : /\ t.peers[q].info = u.peers[q].info
                     /\ t.peers[q].status = u.peers[q].status
                     /\ t.peers[q].hold = u.peers[q].hold

LEMMA UntimedIsSame ==
  ASSUME NEW t \in Table, NEW u \in Table
  PROVE  Untimed(t) = Untimed(u) <=> SameUntimed(t, u)
<1> DEFINE at0(x) == [p \in Node |-> [x.peers[p] EXCEPT !.lastReceived = 0]]
<1>1. ASSUME NEW x \in Table
      PROVE  /\ Untimed(x).local = x.local
             /\ Untimed(x).routes = x.routes
             /\ Untimed(x).peers = at0(x)
             /\ \A y \in Table : at0(x) = at0(y) /\ x.local = y.local /\ x.routes = y.routes
                                => Untimed(x) = Untimed(y)
  <2>1. \A y : Untimed(y) = [y EXCEPT !.peers = at0(y)]
    BY DEF Untimed
  <2> HIDE DEF at0
  <2>2. \A y \in Table :
          [y EXCEPT !.peers = at0(y)] =
            [peers |-> at0(y), local |-> y.local, routes |-> y.routes]
    BY DEF Table
  <2> QED BY <2>1, <2>2
<1>2. ASSUME NEW x \in Table, NEW p \in Node
      PROVE  /\ at0(x)[p].status = x.peers[p].status
             /\ at0(x)[p].info = x.peers[p].info
             /\ at0(x)[p].hold = x.peers[p].hold
             /\ at0(x)[p] = [status |-> x.peers[p].status, info |-> x.peers[p].info,
                             hold |-> x.peers[p].hold, lastReceived |-> 0]
  <2>1. x.peers[p] \in PeerRecord
    BY DEF Table
  <2>2. at0(x)[p] = [x.peers[p] EXCEPT !.lastReceived = 0]
    OBVIOUS
  <2> HIDE DEF at0
  <2> QED BY <2>1, <2>2 DEF PeerRecord
<1>3. ASSUME Untimed(t) = Untimed(u) PROVE SameUntimed(t, u)
  <2>1. at0(t) = at0(u) /\ t.local = u.local /\ t.routes = u.routes
    BY <1>1, <1>3
  <2>2. ASSUME NEW q \in Node
        PROVE  /\ t.peers[q].info = u.peers[q].info
               /\ t.peers[q].status = u.peers[q].status
               /\ t.peers[q].hold = u.peers[q].hold
    <3>1. /\ at0(t)[q].status = t.peers[q].status
          /\ at0(t)[q].info = t.peers[q].info
          /\ at0(t)[q].hold = t.peers[q].hold
      BY <1>2, Zenon
    <3>2. /\ at0(u)[q].status = u.peers[q].status
          /\ at0(u)[q].info = u.peers[q].info
          /\ at0(u)[q].hold = u.peers[q].hold
      BY <1>2, Zenon
    <3> HIDE DEF at0
    <3> QED BY <2>1, <3>1, <3>2
  <2> QED BY <2>1, <2>2 DEF SameUntimed
<1>4. ASSUME SameUntimed(t, u) PROVE Untimed(t) = Untimed(u)
  <2>1. ASSUME NEW p \in Node PROVE at0(t)[p] = at0(u)[p]
    <3>1. at0(t)[p] = [status |-> t.peers[p].status, info |-> t.peers[p].info,
                       hold |-> t.peers[p].hold, lastReceived |-> 0]
      BY <1>2, Zenon
    <3>2. at0(u)[p] = [status |-> u.peers[p].status, info |-> u.peers[p].info,
                       hold |-> u.peers[p].hold, lastReceived |-> 0]
      BY <1>2, Zenon
    <3> HIDE DEF at0
    <3> QED BY <1>4, <3>1, <3>2 DEF SameUntimed
  <2>2. at0(t) = at0(u)
    BY <2>1
  <2> HIDE DEF at0
  <2> QED BY <1>1, <1>4, <2>2 DEF SameUntimed
<1> QED BY <1>3, <1>4

LEMMA UntimedSteps ==
  ASSUME NEW t \in Table, InfoKnown(t), NEW u \in Table, InfoKnown(u),
         SameUntimed(t, u), NEW act \in Action, act.type # "Tick",
         NEW at1 \in Nat, NEW at2 \in Nat
  PROVE  SameUntimed(Plan(Self, t, act, at1).table, Plan(Self, u, act, at2).table)
<1> DEFINE v == Plan(Self, t, act, at1).table
           w == Plan(Self, u, act, at2).table
<1>1. /\ v.local = NextLocal(act, t.local)
      /\ v.routes = NextRoutes(act, t.routes, KnownPeers(t))
      /\ \A q \in Node :
           /\ v.peers[q].info = NextInfo(act, q, t.peers[q].info)
           /\ v.peers[q].status = NextStatus(act, q, t.peers[q].status)
           /\ v.peers[q].hold = NextHold(act, q, t.peers[q].status, t.peers[q].hold)
  BY PlanEffect
<1>2. /\ w.local = NextLocal(act, u.local)
      /\ w.routes = NextRoutes(act, u.routes, KnownPeers(u))
      /\ \A q \in Node :
           /\ w.peers[q].info = NextInfo(act, q, u.peers[q].info)
           /\ w.peers[q].status = NextStatus(act, q, u.peers[q].status)
           /\ w.peers[q].hold = NextHold(act, q, u.peers[q].status, u.peers[q].hold)
  BY PlanEffect
<1>3. KnownPeers(t) = KnownPeers(u)
  BY DEF KnownPeers, Known, SameUntimed
<1> HIDE DEF v, w
<1>4. SameUntimed(v, w)
  BY <1>1, <1>2, <1>3 DEF SameUntimed
<1> QED BY <1>4 DEF v, w

-----------------------------------------------------------------------------
(* What is rebuilt from the rows of a journal and a snapshot. *)

\* f holds the tables recovery at time at goes through, up to row n.
Replays(rows, s, at, n, f) ==
  f = [k \in s.at..n |->
        IF k = s.at THEN s.table
        ELSE IF k \in replay(rows, s.at) THEN Plan(Self, f[k - 1], rows[k], at).table
        ELSE f[k - 1]]

LEMMA ReplaysExist ==
  ASSUME NEW rows, NEW s, s.at \in Nat, NEW at
  PROVE  \A n \in Nat : \E f : Replays(rows, s, at, s.at + n, f)
<1> DEFINE Row(k, t) == IF k \in replay(rows, s.at) THEN Plan(Self, t, rows[k], at).table
                        ELSE t
           T == {n \in Nat : \E f : Replays(rows, s, at, s.at + n, f)}
<1> HIDE DEF Row
<1>0. \A n, f : Replays(rows, s, at, n, f) <=>
        f = [k \in s.at..n |-> IF k = s.at THEN s.table ELSE Row(k, f[k - 1])]
  BY DEF Replays, Row
<1>1. 0 \in T
  <2> DEFINE f == [k \in s.at..(s.at + 0) |-> s.table]
  <2>1. \A k \in s.at..(s.at + 0) : k = s.at
    OBVIOUS
  <2>2. f = [k \in s.at..(s.at + 0) |-> IF k = s.at THEN s.table ELSE Row(k, f[k - 1])]
    BY <2>1
  <2>3. Replays(rows, s, at, s.at + 0, f)
    BY <1>0, <2>2
  <2> QED BY <2>3
<1>2. ASSUME NEW i \in Nat, i \in T PROVE i + 1 \in T
  <2> DEFINE n == s.at + i
  <2>0. n \in Nat /\ n >= s.at /\ s.at + (i + 1) = n + 1
    OBVIOUS
  <2>1. PICK f : Replays(rows, s, at, n, f)
    BY <1>2
  <2> HIDE DEF n
  <2> DEFINE g == [k \in s.at..(n + 1) |-> IF k = n + 1 THEN Row(k, f[n]) ELSE f[k]]
  <2>2. ASSUME NEW k \in s.at..(n + 1)
        PROVE  g[k] = IF k = s.at THEN s.table ELSE Row(k, g[k - 1])
    <3>1. CASE k = n + 1
      <4>1. k # s.at /\ k - 1 = n /\ k - 1 \in s.at..(n + 1) /\ k - 1 # n + 1
        BY <2>0, <3>1
      <4>2. g[k - 1] = f[n]
        BY <4>1
      <4> QED BY <3>1, <4>1, <4>2
    <3>2. CASE k # n + 1
      <4>1. k \in s.at..n /\ g[k] = f[k]
        BY <2>0, <3>2
      <4>0. f = [j \in s.at..n |-> IF j = s.at THEN s.table ELSE Row(j, f[j - 1])]
        BY <1>0, <2>1
      <4>2. f[k] = IF k = s.at THEN s.table ELSE Row(k, f[k - 1])
        BY <4>0, <4>1
      <4>3. k # s.at => k - 1 \in s.at..(n + 1) /\ k - 1 # n + 1
        BY <2>0, <4>1
      <4>4. k # s.at => g[k - 1] = f[k - 1]
        BY <4>3
      <4> QED BY <4>1, <4>2, <4>4
    <3> QED BY <3>1, <3>2
  <2>3. g = [k \in s.at..(n + 1) |-> IF k = s.at THEN s.table ELSE Row(k, g[k - 1])]
    <3>1. g = [k \in s.at..(n + 1) |-> g[k]]
      OBVIOUS
    <3> HIDE DEF g
    <3> QED BY <2>2, <3>1
  <2>4. Replays(rows, s, at, n + 1, g)
    <3> HIDE DEF g
    <3> QED BY <1>0, <2>3
  <2> QED BY <2>0, <2>4
<1>3. Nat \subseteq T
  <2> HIDE DEF T
  <2> QED BY <1>1, <1>2, NatSetInduction
<1> QED BY <1>3

\* Later rows do not matter to the tables before them.
LEMMA ReplaysAgree ==
  ASSUME NEW s, s.at \in Nat, NEW at, NEW n \in Nat, NEW m \in Nat, n <= m,
         NEW rows, NEW more,
         \A k \in (s.at + 1)..n : /\ k \in DOMAIN rows <=> k \in DOMAIN more
                                  /\ rows[k] = more[k],
         NEW f, Replays(rows, s, at, n, f), NEW g, Replays(more, s, at, m, g)
  PROVE  \A k \in s.at..n : f[k] = g[k]
<1> DEFINE T == {i \in Nat : s.at + i <= n => f[s.at + i] = g[s.at + i]}
<1>1. 0 \in T
  <2>1. s.at <= n => s.at \in s.at..n /\ s.at \in s.at..m
    OBVIOUS
  <2> QED BY <2>1 DEF Replays
<1>2. ASSUME NEW i \in Nat, i \in T PROVE i + 1 \in T
  <2> DEFINE k == s.at + (i + 1)
  <2> SUFFICES ASSUME k <= n PROVE f[k] = g[k]
    OBVIOUS
  <2>1. /\ k \in (s.at + 1)..n /\ k \in s.at..n /\ k \in s.at..m
        /\ k # s.at /\ k - 1 = s.at + i /\ s.at + i <= n
    OBVIOUS
  <2>2. f[k - 1] = g[k - 1]
    BY <1>2, <2>1
  <2> HIDE DEF k
  <2>3. k \in replay(rows, s.at) <=> k \in replay(more, s.at)
    BY <2>1 DEF replay
  <2>4. f[k] = IF k \in replay(rows, s.at) THEN Plan(Self, f[k - 1], rows[k], at).table
               ELSE f[k - 1]
    BY <2>1 DEF Replays
  <2>5. g[k] = IF k \in replay(more, s.at) THEN Plan(Self, g[k - 1], more[k], at).table
               ELSE g[k - 1]
    BY <2>1 DEF Replays
  <2> QED BY <2>1, <2>2, <2>3, <2>4, <2>5
<1>3. Nat \subseteq T
  <2> HIDE DEF T
  <2> QED BY <1>1, <1>2, NatSetInduction
<1> SUFFICES ASSUME NEW k \in s.at..n PROVE f[k] = g[k]
  OBVIOUS
<1>4. k - s.at \in T /\ s.at + (k - s.at) = k /\ k <= n
  BY <1>3
<1> QED BY <1>4

\* The rows of a journal of n actions: all those after the snapshot are there.
Journal(rows, s, n) ==
  /\ n \in Nat /\ s.at \in 0..n
  /\ DOMAIN rows \subseteq 1..n /\ (s.at + 1)..n \subseteq DOMAIN rows

LEMMA RebuiltIsReplay ==
  ASSUME NEW rows, NEW s, NEW n, Journal(rows, s, n), NEW at
  PROVE  \E f : Replays(rows, s, at, n, f) /\ Rebuilt(rows, s, at) = f[n]
<1>1. Max({s.at} \cup DOMAIN rows) = n
  <2> DEFINE S == {s.at} \cup DOMAIN rows
  <2>1. n \in S /\ S \subseteq 0..n /\ n \in Nat
    BY DEF Journal
  <2>2. \A x \in S : (\A y \in S : x >= y) <=> x = n
    BY <2>1
  <2> HIDE DEF S
  <2>3. Max(S) = n
    BY <2>1, <2>2 DEF Max
  <2> QED BY <2>3 DEF S
<1> DEFINE f == CHOOSE g : Replays(rows, s, at, n, g)
<1>2. Rebuilt(rows, s, at) = f[n]
  BY <1>1 DEF Rebuilt, Replays
<1>3. \E g : Replays(rows, s, at, n, g)
  <2>1. s.at \in Nat /\ n - s.at \in Nat /\ s.at + (n - s.at) = n
    BY DEF Journal
  <2>2. \E g : Replays(rows, s, at, s.at + (n - s.at), g)
    BY <2>1, ReplaysExist
  <2> QED BY <2>1, <2>2
<1>4. Replays(rows, s, at, n, f)
  BY <1>3
<1> QED BY <1>2, <1>4

LEMMA RebuiltOfSnapshot ==
  ASSUME NEW rows, NEW s, NEW n, Journal(rows, s, n), s.at = n, NEW at
  PROVE  Rebuilt(rows, s, at) = s.table
<1>1. PICK f : Replays(rows, s, at, n, f) /\ Rebuilt(rows, s, at) = f[n]
  BY RebuiltIsReplay
<1>2. n \in s.at..n
  BY DEF Journal
<1> QED BY <1>1, <1>2 DEF Replays

LEMMA RebuiltWith ==
  ASSUME NEW rows, NEW s, NEW n, Journal(rows, s, n), NEW action, NEW at
  PROVE  /\ Journal(With(rows, n + 1, action), s, n + 1)
         /\ Rebuilt(With(rows, n + 1, action), s, at) =
              Plan(Self, Rebuilt(rows, s, at), action, at).table
<1> DEFINE more == With(rows, n + 1, action)
<1>0. n \in Nat /\ s.at \in Nat /\ s.at <= n /\ DOMAIN rows \subseteq 1..n
  BY DEF Journal
<1>1. /\ DOMAIN more = DOMAIN rows \cup {n + 1} /\ more[n + 1] = action
      /\ \A k \in DOMAIN rows : more[k] = rows[k]
  BY <1>0 DEF With
<1> HIDE DEF more
<1>2. Journal(more, s, n + 1)
  BY <1>1 DEF Journal
<1>3. PICK f : Replays(rows, s, at, n, f) /\ Rebuilt(rows, s, at) = f[n]
  BY RebuiltIsReplay
<1>4. PICK g : Replays(more, s, at, n + 1, g) /\ Rebuilt(more, s, at) = g[n + 1]
  BY <1>2, RebuiltIsReplay
<1>5. f[n] = g[n]
  <2>1. \A k \in (s.at + 1)..n : /\ k \in DOMAIN rows <=> k \in DOMAIN more
                                 /\ rows[k] = more[k]
    BY <1>1 DEF Journal
  <2>2. \A k \in s.at..n : f[k] = g[k]
    BY <1>0, <1>3, <1>4, <2>1, ReplaysAgree
  <2> QED BY <1>0, <2>2
<1>6. g[n + 1] = Plan(Self, g[n], action, at).table
  <2>1. n + 1 \in s.at..(n + 1) /\ n + 1 # s.at /\ (n + 1) - 1 = n
    BY <1>0
  <2>2. n + 1 \in replay(more, s.at)
    BY <1>0, <1>1 DEF replay
  <2> QED BY <1>1, <1>4, <2>1, <2>2 DEF Replays
<1> QED BY <1>2, <1>3, <1>4, <1>5, <1>6 DEF more

-----------------------------------------------------------------------------
(* The inductive invariant. *)

TicksJournaled(rows, s) == \E k \in replay(rows, s.at) : rows[k].type = "Tick"

\* Two tables a crash may not tell apart.
Agree(t, u) ==
  /\ Config(t) = Config(u)
  /\ ~TicksJournaled(log, snap) => SameUntimed(t, u)

JournalGood ==
  /\ Journal(log, snap, seq)
  /\ DOMAIN log # {} => seq \in DOMAIN log
  /\ \A k \in DOMAIN log : log[k] \in Action
  /\ phase = "pruning" => snap.at = seq
  /\ tail \in Nat /\ now \in Nat

\* Recovery rebuilds good tables, whenever it runs, and the same ones; while
\* the process is up they are that in memory.
RebuildsGood ==
  /\ Good(snap.table)
  /\ \A at \in Nat : Good(Replayed(at))
  /\ \A at1, at2 \in Nat : Agree(Replayed(at1), Replayed(at2))
  /\ Up => Good(table) /\ \A at \in Nat : Agree(Replayed(at), table)

RecoveryInv == JournalGood /\ RebuildsGood

LEMMA InvImplies == RecoveryInv => ConfigDurable /\ StateDurable
<1> SUFFICES ASSUME RecoveryInv, Up
             PROVE  /\ Config(Replayed(now)) = Config(table)
                    /\ (\A k \in replay(log, snap.at) : log[k].type # "Tick") =>
                         Untimed(Replayed(now)) = Untimed(table)
  BY DEF ConfigDurable, StateDurable
<1>1. Agree(Replayed(now), table) /\ Replayed(now) \in Table /\ table \in Table
  BY DEF RecoveryInv, JournalGood, RebuildsGood, Good, SoundTable
<1> QED BY <1>1, UntimedIsSame DEF Agree, TicksJournaled

LEMMA AgreeIsEquivalence ==
  /\ \A t : Agree(t, t)
  /\ \A t, u : Agree(t, u) => Agree(u, t)
  /\ \A t, u, v : Agree(t, u) /\ Agree(u, v) => Agree(t, v)
BY DEF Agree, SameUntimed

LEMMA NewTableGood == Good(newRouteTable)
<1>1. AbsentPeer \in PeerRecord
  BY DEF AbsentPeer, PeerRecord, Status
<1>2. newRouteTable \in Table
  BY <1>1 DEF newRouteTable, Table
<1>3. newRouteTable.routes = {} /\ \A p \in Node : newRouteTable.peers[p] = AbsentPeer
  BY DEF newRouteTable
<1> QED
  BY <1>2, <1>3 DEF Good, SoundTable, UniqueIn, LoopFreeIn, StaleOwnedIn, InfoKnown,
     Known, AbsentPeer, NoInfo

LEMMA InitInv == Init => RecoveryInv
<1> SUFFICES ASSUME Init PROVE RecoveryInv
  OBVIOUS
<1>1. Journal(log, snap, seq) /\ snap.at = seq /\ snap.table = newRouteTable
  BY DEF Init, Journal, NoSnapshot
<1>2. \A at \in Nat : Replayed(at) = newRouteTable
  BY <1>1, RebuiltOfSnapshot DEF Replayed
<1>3. table = newRouteTable /\ DOMAIN log = {} /\ phase = "running" /\ tail \in Nat /\ now \in Nat
  BY RecoveryAssumption DEF Init
<1>4. JournalGood
  BY <1>1, <1>3 DEF JournalGood
<1>5. RebuildsGood
  BY <1>1, <1>2, <1>3, NewTableGood, AgreeIsEquivalence DEF RebuildsGood
<1> QED BY <1>4, <1>5 DEF RecoveryInv

\* What holds of the journal and of what it leads to keeps holding when
\* neither the rows after the snapshot nor the snapshot change.
LEMMA SameJournal ==
  ASSUME RebuildsGood, snap' = snap,
         \A at \in Nat : Replayed(at)' = Replayed(at),
         TicksJournaled(log, snap)' <=> TicksJournaled(log, snap),
         Up' => \E at \in Nat : Agree(Replayed(at), table') /\ Good(table')
  PROVE  RebuildsGood'
<1>1. \A t, u : Agree(t, u)' <=> Agree(t, u)
  BY DEF Agree
<1>2. \A at \in Nat : Good(Replayed(at)')
  BY DEF RebuildsGood
<1>3. \A at1, at2 \in Nat : Agree(Replayed(at1), Replayed(at2))
  BY DEF RebuildsGood
<1>4. \A at1, at2 \in Nat : Agree(Replayed(at1), Replayed(at2))'
  BY <1>3 DEF Agree
<1>5. ASSUME Up' PROVE Good(table)' /\ \A at \in Nat : Agree(Replayed(at), table)'
  <2>1. PICK a \in Nat : Agree(Replayed(a), table') /\ Good(table')
    BY <1>5
  <2>2. \A at \in Nat : Agree(Replayed(at), table')
    BY <1>3, <2>1, AgreeIsEquivalence
  <2> QED BY <2>1, <2>2 DEF Agree, Good
<1> QED BY <1>2, <1>4, <1>5 DEF RebuildsGood, Good

-----------------------------------------------------------------------------
(* The steps. *)

\* Two tables a crash after this step may not tell apart.
AgreeAfter(t, u) ==
  /\ Config(t) = Config(u)
  /\ ~TicksJournaled(log, snap)' => SameUntimed(t, u)

\* Tables that agree still do when both have planned the action just journaled.
LEMMA AgreeSteps ==
  ASSUME JournalGood, NEW t, Good(t), NEW u, Good(u), Agree(t, u),
         NEW act \in Action, NEW at1 \in Nat, NEW at2 \in Nat,
         log' = With(log, seq + 1, act), snap' = snap
  PROVE  AgreeAfter(Plan(Self, t, act, at1).table, Plan(Self, u, act, at2).table)
<1> DEFINE v == Plan(Self, t, act, at1).table
           w == Plan(Self, u, act, at2).table
<1>1. t \in Table /\ InfoKnown(t) /\ u \in Table /\ InfoKnown(u)
  BY DEF Good, SoundTable
<1>2. Config(v) = Config(w)
  BY <1>1, ConfigSteps DEF Agree
<1>3. ASSUME ~TicksJournaled(log', snap')
      PROVE  SameUntimed(v, w)
  <2>1. /\ seq \in Nat /\ snap.at <= seq /\ snap.at \in Nat /\ DOMAIN log \subseteq 1..seq
        /\ DOMAIN log' = DOMAIN log \cup {seq + 1} /\ log'[seq + 1] = act
        /\ \A k \in DOMAIN log : log'[k] = log[k]
    BY DEF JournalGood, Journal, With
  <2>2. act.type # "Tick"
    BY <1>3, <2>1 DEF TicksJournaled, replay
  <2>3. ~TicksJournaled(log, snap)
    BY <1>3, <2>1 DEF TicksJournaled, replay
  <2> QED BY <1>1, <2>2, <2>3, UntimedSteps DEF Agree
<1> QED BY <1>2, <1>3 DEF AgreeAfter

LEMMA DispatchKeepsInv ==
  ASSUME RecoveryInv, NEW act \in Action, Dispatch(act)
  PROVE  RecoveryInv'
<1>1. /\ phase = "running" /\ UNCHANGED <<tail, snap, phase, now>>
      /\ table' = Plan(Self, table, act, now).table
      /\ log' = With(log, seq + 1, act) /\ seq' = seq + 1
  BY DEF Dispatch, append
<1>2. JournalGood /\ RebuildsGood /\ Journal(log, snap, seq) /\ now \in Nat /\ Up
  BY <1>1 DEF RecoveryInv, JournalGood, Up
<1>3. Journal(log, snap, seq)'
  BY <1>1, <1>2, RebuiltWith
<1>4. ASSUME NEW at
      PROVE  Replayed(at)' = Plan(Self, Replayed(at), act, at).table
  BY <1>1, <1>2, RebuiltWith DEF Replayed
<1>5. JournalGood'
  <2>1. DOMAIN log' = DOMAIN log \cup {seq + 1} /\ DOMAIN log \subseteq 1..seq
        /\ seq \in Nat
        /\ \A k \in DOMAIN log' : log'[k] = IF k = seq + 1 THEN act ELSE log[k]
    BY <1>1, <1>2 DEF Journal, With
  <2>2. \A k \in DOMAIN log' : log'[k] \in Action
    BY <2>1, <1>2 DEF JournalGood
  <2> QED BY <1>1, <1>2, <1>3, <2>1, <2>2 DEF JournalGood
<1>6. /\ Good(table)
      /\ \A at \in Nat : Good(Replayed(at)) /\ Agree(Replayed(at), table)
      /\ \A at1, at2 \in Nat : Agree(Replayed(at1), Replayed(at2))
  BY <1>2 DEF RebuildsGood
<1>7. \A at \in Nat : Good(Replayed(at)') /\ Good(table')
  BY <1>1, <1>2, <1>4, <1>6, PlanGood
<1>8. ASSUME NEW at1 \in Nat, NEW at2 \in Nat
      PROVE  Agree(Replayed(at1), Replayed(at2))'
  <2>1. AgreeAfter(Plan(Self, Replayed(at1), act, at1).table,
                   Plan(Self, Replayed(at2), act, at2).table)
    BY <1>1, <1>2, <1>6, AgreeSteps
  <2> QED BY <1>4, <2>1 DEF AgreeAfter, Agree
<1>9. ASSUME NEW at \in Nat PROVE Agree(Replayed(at), table)'
  <2>1. AgreeAfter(Plan(Self, Replayed(at), act, at).table,
                   Plan(Self, table, act, now).table)
    BY <1>1, <1>2, <1>6, AgreeSteps
  <2> QED BY <1>1, <1>4, <2>1 DEF AgreeAfter, Agree
<1> QED BY <1>1, <1>2, <1>5, <1>7, <1>8, <1>9 DEF RecoveryInv, RebuildsGood, Good

LEMMA LastIsSeq ==
  ASSUME JournalGood, DOMAIN log # {}
  PROVE  lastSeq = seq
<1>1. seq \in DOMAIN log /\ DOMAIN log \subseteq 1..seq /\ seq \in Nat
  BY DEF JournalGood, Journal
<1>2. \A x \in DOMAIN log : (\A y \in DOMAIN log : x >= y) <=> x = seq
  BY <1>1
<1> QED BY <1>1, <1>2 DEF lastSeq, Max

LEMMA SnapshotKeepsInv ==
  ASSUME RecoveryInv, Snapshot
  PROVE  RecoveryInv'
<1>1. /\ phase = "running" /\ phase' = "pruning" /\ DOMAIN log # {}
      /\ UNCHANGED <<table, log, seq, tail, now>>
  BY DEF Snapshot, lastSeq
<1>2. JournalGood /\ RebuildsGood /\ Journal(log, snap, seq) /\ Good(table)
  BY <1>1 DEF RecoveryInv, JournalGood, RebuildsGood, Up
<1>3. snap'.at = seq /\ snap'.table = table
  BY <1>1, <1>2, LastIsSeq DEF Snapshot
<1>4. Journal(log, snap, seq)'
  BY <1>1, <1>2, <1>3 DEF Journal
<1>5. JournalGood'
  BY <1>1, <1>2, <1>3, <1>4 DEF JournalGood
<1>6. \A at : Replayed(at)' = table
  BY <1>1, <1>3, <1>4, RebuiltOfSnapshot DEF Replayed
<1> QED BY <1>1, <1>2, <1>3, <1>5, <1>6
        DEF RecoveryInv, RebuildsGood, Good, Agree, SameUntimed

LEMMA PruneKeepsInv ==
  ASSUME RecoveryInv, Prune
  PROVE  RecoveryInv'
<1> DEFINE from == IF lastSeq < tail THEN 1 ELSE lastSeq - tail + 1
<1>1. /\ phase = "pruning" /\ phase' = "running" /\ UNCHANGED <<table, seq, tail, snap, now>>
      /\ log' = Restrict(log, {k \in DOMAIN log : k >= from})
  BY DEF Prune, prune
<1>2. /\ JournalGood /\ RebuildsGood /\ Journal(log, snap, seq) /\ snap.at = seq
      /\ Up /\ now \in Nat
  BY <1>1 DEF RecoveryInv, JournalGood, Up
<1>3. /\ DOMAIN log' = {k \in DOMAIN log : k >= from}
      /\ \A k \in DOMAIN log' : log'[k] = log[k]
  BY <1>1 DEF Restrict
<1>4. Journal(log, snap, seq)'
  BY <1>1, <1>2, <1>3 DEF Journal
<1>5. DOMAIN log' # {} => seq \in DOMAIN log'
  <2> SUFFICES ASSUME NEW k \in DOMAIN log, k >= from PROVE seq \in DOMAIN log'
    BY <1>3
  <2>1. seq \in DOMAIN log /\ k \in 1..seq /\ seq \in Nat /\ tail \in Nat
    BY <1>2 DEF JournalGood, Journal
  <2>2. lastSeq = seq
    BY <1>2, LastIsSeq
  <2>3. from \in Int
    BY <2>1, <2>2
  <2> HIDE DEF from
  <2> QED BY <1>3, <2>1, <2>3
<1> HIDE DEF from
<1>6. JournalGood'
  BY <1>1, <1>2, <1>3, <1>4, <1>5 DEF JournalGood
<1>7. \A at : Replayed(at)' = Replayed(at)
  BY <1>1, <1>2, <1>4, RebuiltOfSnapshot DEF Replayed
<1>8. ~TicksJournaled(log, snap) /\ ~TicksJournaled(log', snap')
  BY <1>1, <1>2, <1>3 DEF TicksJournaled, replay, Journal
<1>9. Agree(Replayed(now), table') /\ Good(table')
  BY <1>1, <1>2 DEF RebuildsGood
<1>10. RebuildsGood'
  BY <1>1, <1>2, <1>7, <1>8, <1>9, SameJournal
<1> QED BY <1>6, <1>10 DEF RecoveryInv

LEMMA NextInv == RecoveryInv /\ [Next]_vars => RecoveryInv'
<1> SUFFICES ASSUME RecoveryInv, [Next]_vars PROVE RecoveryInv'
  OBVIOUS
<1>1. CASE \E act \in Happens : Dispatch(act)
  BY <1>1, HappensAssumption, DispatchKeepsInv
<1>2. CASE Dispatch(SystemTick(now))
  <2>1. SystemTick(now) \in Action
    BY DEF RecoveryInv, JournalGood, SystemTick, Action
  <2> QED BY <1>2, <2>1, DispatchKeepsInv
<1>3. CASE Snapshot
  BY <1>3, SnapshotKeepsInv
<1>4. CASE Prune
  BY <1>4, PruneKeepsInv
<1>5. ASSUME UNCHANGED <<log, seq, tail, snap>>, now' \in Nat, phase' # "pruning",
             Up' => \E at \in Nat : Agree(Replayed(at), table') /\ Good(table')
      PROVE  RecoveryInv'
  <2>1. JournalGood'
    BY <1>5 DEF RecoveryInv, JournalGood, Journal
  <2>2. \A at \in Nat : Replayed(at)' = Replayed(at)
    BY <1>5 DEF Replayed
  <2>3. TicksJournaled(log, snap)' <=> TicksJournaled(log, snap)
    BY <1>5 DEF TicksJournaled, replay
  <2>4. RebuildsGood'
    BY <1>5, <2>2, <2>3, SameJournal DEF RecoveryInv
  <2> QED BY <2>1, <2>4 DEF RecoveryInv
<1>6. CASE Crash
  BY <1>5, <1>6 DEF Crash, Up, RecoveryInv, JournalGood
<1>7. CASE Recover
  BY <1>5, <1>7, AgreeIsEquivalence DEF Recover, RecoveryInv, JournalGood, RebuildsGood
<1>8. CASE PassTime /\ phase # "pruning"
  BY <1>5, <1>8 DEF PassTime, Up, RecoveryInv, JournalGood, RebuildsGood
<1>9. CASE PassTime /\ phase = "pruning"
  BY <1>9 DEF PassTime, Up, RecoveryInv, JournalGood, RebuildsGood, Agree, Replayed
<1>10. CASE UNCHANGED vars
  BY <1>10 DEF vars, Up, RecoveryInv, JournalGood, RebuildsGood, Agree, Replayed
<1> QED
  BY <1>1, <1>2, <1>3, <1>4, <1>6, <1>7, <1>8, <1>9, <1>10 DEF Next

-----------------------------------------------------------------------------
LEMMA SpecInv == Spec => []RecoveryInv
BY InitInv, NextInv, PTL DEF Spec

\* Whatever crashes, snapshots and prunings came before, and however long the
\* process will be down, a crash costs no configured peer and no registered
\* service, nor does it bring back a deleted one (service.ts, compaction.ts).
THEOREM ConfigSurvives == Spec => []ConfigDurable
BY SpecInv, InvImplies, PTL

\* Nor does it cost anything else but the times peers were last heard from, as
\* long as no tick has been journaled since the last snapshot.
THEOREM StateSurvives == Spec => []StateDurable
BY SpecInv, InvImplies, PTL

\* What recovery rebuilds, now or at any later time.
RecoverySound ==
  /\ \A at \in Nat : SoundTable(Self, Replayed(at))
  /\ \A at1, at2 \in Nat : Config(Replayed(at1)) = Config(Replayed(at2))

\* Recovery always succeeds: at any moment, even between the two writes of a
\* compaction, what is in the database leads to a well typed route table with
\* one route per key, no loop and no orphaned stale route, and to the same
\* configuration whenever it is read (service.ts).
THEOREM RecoveryRebuildsSound == Spec => []RecoverySound
<1>1. RecoveryInv => RecoverySound
  BY DEF RecoveryInv, RebuildsGood, Good, Agree, RecoverySound
<1> QED BY SpecInv, <1>1, PTL
===============================================================================
