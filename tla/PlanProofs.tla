------------------------------ MODULE PlanProofs ------------------------------
(***************************************************************************)
(* What the planners of RouteTable do to a table, for every table and      *)
(* every input.  The proofs about the state machines that dispatch actions *)
(* (Rib, Fleet, Ports, Recovery) rest on these lemmas.                     *)
(*                                                                         *)
(* Every planner maps a sound table of node self to a sound one, where a   *)
(* table is sound if it is well typed, holds one route per key, no route   *)
(* crosses self, and every stale route has a peer with a session.  The     *)
(* four parts need each other: that a planner's result is well typed needs *)
(* well typed routes, and a stale route keeps its peer only because the    *)
(* planners that drop a peer drop its routes from a typed table.           *)
(***************************************************************************)
EXTENDS BusActions, UpdateLoop, WellFoundedInduction, TLAPS

UniqueIn(routes) == \A r, s \in routes : SameKey(r, s) => r = s
LoopFreeIn(self, routes) == \A r \in routes : ~Crosses(self, r.path)
StaleOwnedIn(t) ==
  \A r \in t.routes : r.stale => t.peers[r.peer].status \in {"connected", "closed"}

SoundTable(self, t) ==
  t \in Table /\ UniqueIn(t.routes) /\ LoopFreeIn(self, t.routes) /\ StaleOwnedIn(t)

Change == [type : {"added", "removed", "updated"},
           route : InternalRoute \cup LocalRoute]

SoundPlan(self, plan) == SoundTable(self, plan.table) /\ plan.changes \subseteq Change

LEMMA NoChangeSound ==
  ASSUME NEW self, NEW t, SoundTable(self, t)
  PROVE  SoundPlan(self, NoChange(t))
BY DEF SoundPlan, NoChange

LEMMA AnnounceType ==
  ASSUME NEW type \in {"added", "removed", "updated"},
         NEW routes, routes \subseteq InternalRoute \cup LocalRoute
  PROVE  Announce(type, routes) \subseteq Change
BY DEF Announce, Change

\* A step that leaves the routes alone keeps a table sound if no peer with a
\* session comes to be without one.
LEMMA PeersChangeSound ==
  ASSUME NEW self, NEW t, SoundTable(self, t),
         NEW u \in Table, u.routes = t.routes,
         \A q \in Node : \/ u.peers[q].status \in {"connected", "closed"}
                         \/ t.peers[q].status \notin {"connected", "closed"}
  PROVE  SoundTable(self, u)
<1>1. ASSUME NEW r \in t.routes, r.stale
      PROVE  u.peers[r.peer].status \in {"connected", "closed"}
  <2>1. r.peer \in Node
    BY DEF SoundTable, Table, InternalRoute
  <2>2. t.peers[r.peer].status \in {"connected", "closed"}
    BY <1>1 DEF SoundTable, StaleOwnedIn
  <2> QED
    BY <2>1, <2>2
<1> QED
  BY <1>1 DEF SoundTable, UniqueIn, LoopFreeIn, StaleOwnedIn

\* So does a step that only drops routes, if the peers that lose their session
\* lose their routes.
LEMMA DropRoutesSound ==
  ASSUME NEW self, NEW t, SoundTable(self, t),
         NEW u \in Table, u.routes \subseteq t.routes,
         \A q \in Node : \/ u.peers[q].status \in {"connected", "closed"}
                         \/ t.peers[q].status \notin {"connected", "closed"}
                         \/ RoutesVia(u, q) = {}
  PROVE  SoundTable(self, u)
<1>1. ASSUME NEW r \in u.routes, r.stale
      PROVE  u.peers[r.peer].status \in {"connected", "closed"}
  <2>1. r.peer \in Node
    BY DEF Table, InternalRoute
  <2>2. t.peers[r.peer].status \in {"connected", "closed"}
    BY <1>1 DEF SoundTable, StaleOwnedIn
  <2>3. RoutesVia(u, r.peer) # {}
    BY DEF RoutesVia
  <2> QED
    BY <2>1, <2>2, <2>3
<1> QED
  BY <1>1 DEF SoundTable, UniqueIn, LoopFreeIn, StaleOwnedIn

-----------------------------------------------------------------------------
(* One lemma per planner. *)

LEMMA LocalPeerCreateSound ==
  ASSUME NEW self, NEW t, SoundTable(self, t), NEW p \in Node, NEW info \in Info
  PROVE  SoundPlan(self, PlanLocalPeerCreate(t, p, info))
<1> DEFINE u == PlanLocalPeerCreate(t, p, info).table
<1>1. CASE Known(t, p)
  BY <1>1, NoChangeSound DEF PlanLocalPeerCreate
<1>2. CASE ~Known(t, p)
  <2>1. /\ u = [t EXCEPT !.peers[p] =
                  [status |-> "initializing", info |-> info,
                   hold |-> DefaultHold, lastReceived |-> 0]]
        /\ PlanLocalPeerCreate(t, p, info).changes = {}
    BY <1>2 DEF PlanLocalPeerCreate, Changed
  <2>2. t \in Table
    BY DEF SoundTable
  <2>3. u \in Table /\ u.routes = t.routes
        /\ \A q \in Node \ {p} : u.peers[q] = t.peers[q]
    BY <2>1, <2>2, HoldAssumption DEF Table, PeerRecord, Status
  <2>4. t.peers[p].status \notin {"connected", "closed"}
    BY <1>2 DEF Known
  <2>5. SoundTable(self, u)
    BY <2>3, <2>4, PeersChangeSound
  <2> QED
    BY <2>1, <2>5 DEF SoundPlan
<1> QED
  BY <1>1, <1>2

LEMMA LocalPeerUpdateSound ==
  ASSUME NEW self, NEW t, SoundTable(self, t), NEW p \in Node, NEW info \in Info
  PROVE  SoundPlan(self, PlanLocalPeerUpdate(t, p, info))
<1> DEFINE u == PlanLocalPeerUpdate(t, p, info).table
<1>1. CASE ~Known(t, p)
  BY <1>1, NoChangeSound DEF PlanLocalPeerUpdate
<1>2. CASE Known(t, p)
  <2>1. /\ u = [t EXCEPT !.peers[p].info = info]
        /\ PlanLocalPeerUpdate(t, p, info).changes = {}
    BY <1>2 DEF PlanLocalPeerUpdate, Changed
  <2>2. t \in Table
    BY DEF SoundTable
  <2>3. t.peers \in [Node -> PeerRecord] /\ t.peers[p] \in PeerRecord
    BY <2>2 DEF Table
  <2> DEFINE rec == [t.peers[p] EXCEPT !.info = info]
  <2>4. rec \in PeerRecord /\ rec.status = t.peers[p].status
    BY <2>3 DEF PeerRecord
  <2>5. u = [t EXCEPT !.peers[p] = rec]
    BY <2>1
  <2> HIDE DEF rec, u
  <2>6. u \in Table /\ u.routes = t.routes
        /\ \A q \in Node : u.peers[q].status = t.peers[q].status
    BY <2>2, <2>4, <2>5 DEF Table
  <2>7. SoundTable(self, u)
    BY <2>6, PeersChangeSound
  <2> QED
    BY <2>1, <2>7 DEF SoundPlan, u
<1> QED
  BY <1>1, <1>2

LEMMA LocalPeerDeleteSound ==
  ASSUME NEW self, NEW t, SoundTable(self, t), NEW p \in Node
  PROVE  SoundPlan(self, PlanLocalPeerDelete(t, p))
<1> DEFINE u == PlanLocalPeerDelete(t, p).table
<1>1. CASE ~Known(t, p)
  BY <1>1, NoChangeSound DEF PlanLocalPeerDelete
<1>2. CASE Known(t, p)
  <2>1. /\ u = [t EXCEPT !.peers[p] = AbsentPeer,
                         !.routes = @ \ RoutesVia(t, p)]
        /\ PlanLocalPeerDelete(t, p).changes
             = Announce("removed", RoutesVia(t, p))
    BY <1>2 DEF PlanLocalPeerDelete, Changed
  <2>2. t \in Table
    BY DEF SoundTable
  <2>3. RoutesVia(t, p) \subseteq InternalRoute
    BY <2>2 DEF RoutesVia, Table
  <2>4. AbsentPeer \in PeerRecord
    BY DEF AbsentPeer, PeerRecord, Status
  <2>5. u \in Table /\ u.routes = t.routes \ RoutesVia(t, p)
        /\ \A q \in Node \ {p} : u.peers[q] = t.peers[q]
    BY <2>1, <2>2, <2>4 DEF Table
  <2>6. RoutesVia(u, p) = {}
    BY <2>5 DEF RoutesVia
  <2>7. SoundTable(self, u)
    BY <2>5, <2>6, DropRoutesSound
  <2>8. Announce("removed", RoutesVia(t, p)) \subseteq Change
    BY <2>3, AnnounceType
  <2> QED
    BY <2>1, <2>7, <2>8 DEF SoundPlan
<1> QED
  BY <1>1, <1>2

\* The three planners for local routes only write the local part.
LEMMA LocalChangeSound ==
  ASSUME NEW self, NEW t, SoundTable(self, t), NEW n \in Name,
         NEW d \in Data \cup {NoRoute}
  PROVE  SoundTable(self, [t EXCEPT !.local[n] = d])
<1> DEFINE u == [t EXCEPT !.local[n] = d]
<1>1. t \in Table
  BY DEF SoundTable
<1>2. u \in Table /\ u.routes = t.routes /\ u.peers = t.peers
  BY <1>1 DEF Table
<1> QED
  BY <1>2, PeersChangeSound

LEMMA LocalRouteSound ==
  ASSUME NEW self, NEW t, SoundTable(self, t), NEW n \in Name
  PROVE  /\ \A d \in Data : /\ SoundPlan(self, PlanLocalRouteCreate(t, n, d))
                            /\ SoundPlan(self, PlanLocalRouteHealthUpdate(t, n, d))
         /\ SoundPlan(self, PlanLocalRouteDelete(t, n))
<1>1. t.local[n] \in Data \cup {NoRoute}
  BY DEF SoundTable, Table
<1>2. \A x \in Data : AsLocal(n, x) \in LocalRoute
  BY DEF AsLocal, LocalRoute
<1>3. \A x \in Data : /\ Announce("added", {AsLocal(n, x)}) \subseteq Change
                      /\ Announce("removed", {AsLocal(n, x)}) \subseteq Change
                      /\ Announce("updated", {AsLocal(n, x)}) \subseteq Change
  BY <1>2, AnnounceType
<1>4. \A d \in Data : SoundPlan(self, PlanLocalRouteCreate(t, n, d))
  BY <1>3, NoChangeSound, LocalChangeSound
     DEF PlanLocalRouteCreate, Changed, SoundPlan
<1>5. SoundPlan(self, PlanLocalRouteDelete(t, n))
  BY <1>1, <1>3, NoChangeSound, LocalChangeSound
     DEF PlanLocalRouteDelete, Changed, SoundPlan
<1>6. \A d \in Data : SoundPlan(self, PlanLocalRouteHealthUpdate(t, n, d))
  BY <1>1, <1>3, NoChangeSound, LocalChangeSound
     DEF PlanLocalRouteHealthUpdate, Changed, SoundPlan
<1> QED
  BY <1>4, <1>5, <1>6

-----------------------------------------------------------------------------
(* The planners of the internal protocol. *)

LEMMA RecordChangeSound ==
  ASSUME NEW self, NEW t, SoundTable(self, t), NEW p \in Node,
         NEW rec \in PeerRecord, rec.status \in {"connected", "closed", t.peers[p].status}
  PROVE  SoundTable(self, [t EXCEPT !.peers[p] = rec])
<1> DEFINE u == [t EXCEPT !.peers[p] = rec]
<1>1. t \in Table
  BY DEF SoundTable
<1>2. u \in Table /\ u.routes = t.routes /\ u.peers[p] = rec
      /\ \A q \in Node \ {p} : u.peers[q] = t.peers[q]
  BY <1>1 DEF Table
<1> HIDE DEF u
<1>3. SoundTable(self, u)
  BY <1>2, PeersChangeSound
<1> QED
  BY <1>3 DEF u

LEMMA InternalProtocolOpenSound ==
  ASSUME NEW self, NEW t, SoundTable(self, t), NEW p \in Node,
         NEW hold \in Nat \cup {NoHold}, NEW at \in Nat
  PROVE  SoundPlan(self, PlanInternalProtocolOpen(t, p, hold, at))
<1> DEFINE h   == IF hold = NoHold THEN t.peers[p].hold
                  ELSE MinOf(t.peers[p].hold, hold)
           rec == [t.peers[p] EXCEPT !.status = "connected", !.hold = h,
                                     !.lastReceived = at]
           u   == [t EXCEPT !.peers[p] = rec]
<1>1. CASE ~Known(t, p)
  BY <1>1, NoChangeSound DEF PlanInternalProtocolOpen
<1>2. CASE Known(t, p)
  <2>1. t.peers[p] \in PeerRecord
    BY DEF SoundTable, Table
  <2>2. h \in Nat
    BY <2>1, HoldAssumption DEF PeerRecord, MinOf, NoHold
  <2>3. rec \in PeerRecord /\ rec.status = "connected"
    <3> HIDE DEF h
    <3> QED BY <2>1, <2>2 DEF PeerRecord, Status
  <2>4. PlanInternalProtocolOpen(t, p, hold, at) = Changed(u, {})
    BY <1>2 DEF PlanInternalProtocolOpen
  <2> HIDE DEF rec
  <2>5. SoundTable(self, u)
    BY <2>3, RecordChangeSound
  <2> QED
    BY <2>4, <2>5 DEF SoundPlan, Changed
<1> QED
  BY <1>1, <1>2

LEMMA InternalProtocolConnectedSound ==
  ASSUME NEW self, NEW t, SoundTable(self, t), NEW p \in Node, NEW at \in Nat
  PROVE  SoundPlan(self, PlanInternalProtocolConnected(t, p, at))
<1> DEFINE rec == [t.peers[p] EXCEPT !.status = "connected",
                     !.hold = DefaultHold, !.lastReceived = at]
           u   == [t EXCEPT !.peers[p] = rec]
<1>1. CASE ~Known(t, p)
  BY <1>1, NoChangeSound DEF PlanInternalProtocolConnected
<1>2. CASE Known(t, p)
  <2>1. t.peers[p] \in PeerRecord
    BY DEF SoundTable, Table
  <2>2. rec \in PeerRecord /\ rec.status = "connected"
    BY <2>1, HoldAssumption DEF PeerRecord, Status
  <2>3. PlanInternalProtocolConnected(t, p, at) = Changed(u, {})
    BY <1>2 DEF PlanInternalProtocolConnected
  <2> HIDE DEF rec
  <2>4. SoundTable(self, u)
    BY <2>2, RecordChangeSound
  <2> QED
    BY <2>3, <2>4 DEF SoundPlan, Changed
<1> QED
  BY <1>1, <1>2

LEMMA InternalProtocolKeepaliveSound ==
  ASSUME NEW self, NEW t, SoundTable(self, t), NEW p \in Node, NEW at \in Nat
  PROVE  SoundPlan(self, PlanInternalProtocolKeepalive(t, p, at))
<1> DEFINE rec == [t.peers[p] EXCEPT !.lastReceived = at]
           u   == [t EXCEPT !.peers[p] = rec]
<1>1. CASE ~Known(t, p)
  BY <1>1, NoChangeSound DEF PlanInternalProtocolKeepalive
<1>2. CASE Known(t, p)
  <2>1. t.peers[p] \in PeerRecord
    BY DEF SoundTable, Table
  <2>2. rec \in PeerRecord /\ rec.status = t.peers[p].status
    BY <2>1 DEF PeerRecord
  <2>3. PlanInternalProtocolKeepalive(t, p, at) = Changed(u, {})
    BY <1>2 DEF PlanInternalProtocolKeepalive
  <2> HIDE DEF rec
  <2>4. SoundTable(self, u)
    BY <2>2, RecordChangeSound
  <2> QED
    BY <2>3, <2>4 DEF SoundPlan, Changed
<1> QED
  BY <1>1, <1>2

LEMMA InternalProtocolCloseSound ==
  ASSUME NEW self, NEW t, SoundTable(self, t), NEW p \in Node, NEW code \in CloseCodes
  PROVE  SoundPlan(self, PlanInternalProtocolClose(t, p, code))
<1> DEFINE lost == RoutesVia(t, p)
           kept == IF code = "TRANSPORT_ERROR"
                   THEN {MarkStale(r) : r \in lost} ELSE {}
           rec  == [t.peers[p] EXCEPT !.status = "closed"]
           rts  == (t.routes \ lost) \cup kept
           u    == [t EXCEPT !.peers[p] = rec, !.routes = rts]
<1>1. CASE ~Known(t, p)
  BY <1>1, NoChangeSound DEF PlanInternalProtocolClose
<1>2. CASE Known(t, p)
  <2>1. /\ t \in Table /\ t.peers[p] \in PeerRecord
        /\ t.routes \subseteq InternalRoute /\ lost \subseteq InternalRoute
    BY DEF SoundTable, Table, RoutesVia
  <2>2. rec \in PeerRecord /\ rec.status = "closed"
    BY <2>1 DEF PeerRecord, Status
  <2>3. ASSUME NEW r \in InternalRoute
        PROVE  /\ MarkStale(r) \in InternalRoute
               /\ MarkStale(r).name = r.name /\ MarkStale(r).origin = r.origin
               /\ MarkStale(r).path = r.path /\ MarkStale(r).peer = r.peer
    BY DEF MarkStale, InternalRoute
  <2>4. kept \subseteq InternalRoute
    BY <2>1, <2>3
  <2>5. rts \subseteq InternalRoute
    BY <2>1, <2>4
  <2>6. \A s \in rts : \E r \in t.routes :
          /\ s.name = r.name /\ s.origin = r.origin
          /\ s.path = r.path /\ s.peer = r.peer
          /\ s = IF r \in lost THEN MarkStale(r) ELSE r
    BY <2>1, <2>3 DEF RoutesVia
  <2>7. UniqueIn(rts)
    BY <2>6 DEF SoundTable, UniqueIn, SameKey
  <2>8. LoopFreeIn(self, rts)
    BY <2>6 DEF SoundTable, LoopFreeIn
  <2> HIDE DEF rec, rts
  <2>9. u \in Table /\ u.routes = rts
        /\ \A q \in Node : u.peers[q] = IF q = p THEN rec ELSE t.peers[q]
    BY <2>1, <2>2, <2>5 DEF Table
  <2>10. ASSUME NEW s \in u.routes, s.stale
         PROVE  u.peers[s.peer].status \in {"connected", "closed"}
    <3>1. PICK r \in t.routes : /\ s.peer = r.peer
                                /\ s = IF r \in lost THEN MarkStale(r) ELSE r
      BY <2>6, <2>9
    <3>2. s.peer \in Node
      BY <3>1, <2>1 DEF InternalRoute
    <3>3. CASE s.peer = p
      BY <3>3, <2>2, <2>9, <3>2
    <3>4. CASE s.peer # p
      <4>1. r \notin lost /\ s = r
        BY <3>1, <3>4 DEF RoutesVia
      <4> QED
        BY <4>1, <3>2, <3>4, <2>10, <2>9 DEF SoundTable, StaleOwnedIn
    <3> QED
      BY <3>3, <3>4
  <2>11. SoundTable(self, u)
    BY <2>7, <2>8, <2>9, <2>10 DEF SoundTable, StaleOwnedIn
  <2>12. /\ Announce("updated", kept) \subseteq Change
         /\ Announce("removed", lost) \subseteq Change
    BY <2>1, <2>4, AnnounceType
  <2>13. PlanInternalProtocolClose(t, p, code) =
           Changed(u, IF code = "TRANSPORT_ERROR" THEN Announce("updated", kept)
                      ELSE Announce("removed", lost))
    BY <1>2 DEF PlanInternalProtocolClose, rec, rts
  <2> HIDE DEF u, kept, lost
  <2> QED
    BY <2>11, <2>12, <2>13 DEF SoundPlan, Changed
<1> QED
  BY <1>1, <1>2

LEMMA InternalProtocolUpdateSound ==
  ASSUME NEW self, NEW t, SoundTable(self, t), NEW p \in Node, NEW at \in Nat,
         NEW items, items \subseteq UpdateItem, DistinctKeys(items)
  PROVE  SoundPlan(self, PlanInternalProtocolUpdate(self, t, p, items, at))
<1> DEFINE chs == UpdateChanges(self, t.routes, p, items)
           acc == Accepted(self, t.routes, items)
           new == {Learned(p, i) : i \in acc}
           rts == (t.routes \ Replaced(self, t.routes, items)) \cup new
           rec == [t.peers[p] EXCEPT !.lastReceived =
                     IF Known(t, p) THEN at ELSE t.peers[p].lastReceived]
           u   == [t EXCEPT !.routes = rts, !.peers[p] = rec]
<1>1. /\ t \in Table /\ t.peers[p] \in PeerRecord
      /\ t.routes \subseteq InternalRoute
  BY DEF SoundTable, Table
<1>2. \A i \in UpdateItem :
        /\ Learned(p, i) \in InternalRoute
        /\ Learned(p, i).name = i.name /\ Learned(p, i).origin = i.origin
        /\ Learned(p, i).path = i.path /\ Learned(p, i).stale = FALSE
  BY DEF Learned, UpdateItem, InternalRoute
<1>3. acc \subseteq items /\ acc \subseteq UpdateItem
  BY DEF Accepted
<1>4. new \subseteq InternalRoute /\ rts \subseteq InternalRoute
  BY <1>1, <1>2, <1>3
<1>5. chs \subseteq Change
  <2>1. Withdrawn(t.routes, items) \subseteq InternalRoute
    BY <1>1 DEF Withdrawn
  <2> DEFINE first == {i \in acc : ~\E r \in t.routes : SameKey(r, i)}
  <2>2. /\ {Learned(p, i) : i \in first} \subseteq InternalRoute
        /\ {Learned(p, i) : i \in acc \ first} \subseteq InternalRoute
    BY <1>2, <1>3
  <2>3. chs = Announce("added", {Learned(p, i) : i \in first})
                \cup Announce("updated", {Learned(p, i) : i \in acc \ first})
                \cup Announce("removed", Withdrawn(t.routes, items))
    BY DEF UpdateChanges
  <2> HIDE DEF first, acc, chs
  <2>4. /\ Announce("added", {Learned(p, i) : i \in first}) \subseteq Change
        /\ Announce("updated", {Learned(p, i) : i \in acc \ first}) \subseteq Change
        /\ Announce("removed", Withdrawn(t.routes, items)) \subseteq Change
    BY <2>1, <2>2, AnnounceType
  <2> QED
    BY <2>3, <2>4
<1>6. LoopFreeIn(self, rts)
  <2>1. \A i \in acc : ~Crosses(self, i.path)
    BY DEF Accepted, Accepts
  <2>2. \A r \in new : ~Crosses(self, r.path)
    BY <2>1, <1>2, <1>3
  <2> QED
    BY <2>2 DEF SoundTable, LoopFreeIn
<1>7. UniqueIn(rts)
  <2>1. ASSUME NEW r \in t.routes \ Replaced(self, t.routes, items),
               NEW i \in acc
        PROVE  ~(r.name = i.name /\ r.origin = i.origin)
    BY DEF Accepted, Replaced, SameKey
  <2>2. ASSUME NEW i \in acc, NEW j \in acc,
               i.name = j.name, i.origin = j.origin
        PROVE  i = j
    BY <1>3, <2>2 DEF DistinctKeys, SameKey
  <2>3. ASSUME NEW r \in rts, NEW s \in rts, SameKey(r, s)
        PROVE  r = s
    <3>1. CASE r \in new /\ s \in new
      <4>1. PICK i \in acc, j \in acc : r = Learned(p, i) /\ s = Learned(p, j)
        BY <3>1
      <4> QED
        BY <4>1, <2>2, <2>3, <1>2, <1>3 DEF SameKey
    <3>2. CASE r \in new /\ s \notin new
      <4>1. PICK i \in acc : r = Learned(p, i)
        BY <3>2
      <4> QED
        BY <4>1, <3>2, <2>1, <2>3, <1>2, <1>3 DEF SameKey
    <3>3. CASE r \notin new /\ s \in new
      <4>1. PICK i \in acc : s = Learned(p, i)
        BY <3>3
      <4> QED
        BY <4>1, <3>3, <2>1, <2>3, <1>2, <1>3 DEF SameKey
    <3>4. CASE r \notin new /\ s \notin new
      BY <3>4, <2>3 DEF SoundTable, UniqueIn
    <3> QED
      BY <3>1, <3>2, <3>3, <3>4
  <2> QED
    BY <2>3 DEF UniqueIn
<1>8. rec \in PeerRecord /\ rec.status = t.peers[p].status
  BY <1>1 DEF PeerRecord
<1>9. \A r \in rts : r.stale => r \in t.routes
  BY <1>2, <1>3
<1>10. SoundTable(self, u)
  <2> HIDE DEF rec, rts
  <2>1. u \in Table /\ u.routes = rts
        /\ \A q \in Node : u.peers[q].status = t.peers[q].status
    BY <1>1, <1>4, <1>8 DEF Table
  <2>2. \A r \in rts : r.peer \in Node
    BY <1>4 DEF InternalRoute
  <2>3. StaleOwnedIn(u)
    BY <2>1, <2>2, <1>9 DEF SoundTable, StaleOwnedIn
  <2> QED
    BY <2>1, <2>3, <1>6, <1>7 DEF SoundTable
<1>11. CASE chs = {} /\ ~Known(t, p)
  BY <1>11, NoChangeSound DEF PlanInternalProtocolUpdate
<1>12. CASE ~(chs = {} /\ ~Known(t, p))
  <2>1. PlanInternalProtocolUpdate(self, t, p, items, at) = Changed(u, chs)
    BY <1>12 DEF PlanInternalProtocolUpdate
  <2> HIDE DEF u, chs
  <2> QED
    BY <2>1, <1>5, <1>10 DEF SoundPlan, Changed
<1> QED
  BY <1>11, <1>12

LEMMA TickSound ==
  ASSUME NEW self, NEW t, SoundTable(self, t), NEW at \in Nat
  PROVE  SoundPlan(self, PlanTick(t, at))
<1> DEFINE expired == Expired(t, at)
           purged  == expired \cup GraceOver(t, at)
           gone    == {r \in t.routes : r.peer \in purged}
           ps      == [p \in Node |->
                        IF p \in expired THEN [t.peers[p] EXCEPT !.status = "closed"]
                        ELSE t.peers[p]]
           u       == [t EXCEPT !.peers = ps, !.routes = @ \ gone]
<1>1. /\ t \in Table /\ t.peers \in [Node -> PeerRecord]
      /\ gone \subseteq InternalRoute
  BY DEF SoundTable, Table
<1>2. ps \in [Node -> PeerRecord]
  BY <1>1 DEF PeerRecord, Status
<1>3. \A q \in Node : ps[q].status \in {"closed", t.peers[q].status}
  BY <1>1 DEF PeerRecord
<1> HIDE DEF ps, gone
<1>4. /\ u \in Table /\ u.routes = t.routes \ gone /\ u.peers = ps
  BY <1>1, <1>2 DEF Table
<1>5. SoundTable(self, u)
  <2> HIDE DEF u
  <2> QED
    BY <1>3, <1>4, DropRoutesSound
<1>6. Announce("removed", gone) \subseteq Change
  BY <1>1, AnnounceType
<1>7. CASE purged = {}
  BY <1>7, NoChangeSound DEF PlanTick
<1>8. CASE purged # {}
  <2>1. PlanTick(t, at) = Changed(u, Announce("removed", gone))
    BY <1>8 DEF PlanTick, ps, gone
  <2> HIDE DEF u
  <2> QED
    BY <2>1, <1>5, <1>6 DEF SoundPlan, Changed
<1> QED
  BY <1>7, <1>8

-----------------------------------------------------------------------------
(* All of them: the plan of an action.                                     *)

LEMMA ActionFields ==
  ASSUME NEW act \in Action
  PROVE  /\ act.type \in {"LocalPeerCreate", "LocalPeerUpdate"} =>
              act.peer \in Node /\ act.info \in Info
         /\ act.type \in {"LocalPeerDelete", "InternalProtocolConnected",
                          "InternalProtocolKeepalive"} => act.peer \in Node
         /\ act.type \in {"LocalRouteCreate", "LocalRouteHealthUpdate"} =>
              act.name \in Name /\ act.data \in Data
         /\ act.type = "LocalRouteDelete" => act.name \in Name
         /\ act.type = "InternalProtocolOpen" =>
              act.peer \in Node /\ act.hold \in Nat \cup {NoHold}
         /\ act.type = "InternalProtocolClose" =>
              act.peer \in Node /\ act.code \in CloseCodes
         /\ act.type = "InternalProtocolUpdate" =>
              act.peer \in Node /\ act.items \subseteq UpdateItem /\ DistinctKeys(act.items)
         /\ act.type = "Tick" => act.at \in Nat
BY HoldAssumption DEF Action

LEMMA ActionTypes ==
  ASSUME NEW act \in Action
  PROVE  act.type \in
           {"LocalPeerCreate", "LocalPeerUpdate", "LocalPeerDelete",
            "LocalRouteCreate", "LocalRouteDelete", "LocalRouteHealthUpdate",
            "InternalProtocolOpen", "InternalProtocolConnected",
            "InternalProtocolClose", "InternalProtocolKeepalive",
            "InternalProtocolUpdate", "Tick"}
BY DEF Action

LEMMA PlanCases ==
  ASSUME NEW self, NEW t, NEW act, NEW at
  PROVE  /\ act.type = "LocalPeerCreate" =>
              Plan(self, t, act, at) = PlanLocalPeerCreate(t, act.peer, act.info)
         /\ act.type = "LocalPeerUpdate" =>
              Plan(self, t, act, at) = PlanLocalPeerUpdate(t, act.peer, act.info)
         /\ act.type = "LocalPeerDelete" =>
              Plan(self, t, act, at) = PlanLocalPeerDelete(t, act.peer)
         /\ act.type = "LocalRouteCreate" =>
              Plan(self, t, act, at) = PlanLocalRouteCreate(t, act.name, act.data)
         /\ act.type = "LocalRouteDelete" =>
              Plan(self, t, act, at) = PlanLocalRouteDelete(t, act.name)
         /\ act.type = "LocalRouteHealthUpdate" =>
              Plan(self, t, act, at) = PlanLocalRouteHealthUpdate(t, act.name, act.data)
         /\ act.type = "InternalProtocolOpen" =>
              Plan(self, t, act, at) = PlanInternalProtocolOpen(t, act.peer, act.hold, at)
         /\ act.type = "InternalProtocolConnected" =>
              Plan(self, t, act, at) = PlanInternalProtocolConnected(t, act.peer, at)
         /\ act.type = "InternalProtocolClose" =>
              Plan(self, t, act, at) = PlanInternalProtocolClose(t, act.peer, act.code)
         /\ act.type = "InternalProtocolKeepalive" =>
              Plan(self, t, act, at) = PlanInternalProtocolKeepalive(t, act.peer, at)
         /\ act.type = "InternalProtocolUpdate" =>
              Plan(self, t, act, at) =
                PlanInternalProtocolUpdate(self, t, act.peer, act.items, at)
         /\ act.type = "Tick" => Plan(self, t, act, at) = PlanTick(t, act.at)
BY DEF Plan

LEMMA PlanSound ==
  ASSUME NEW self, NEW t, SoundTable(self, t), NEW act \in Action, NEW at \in Nat
  PROVE  SoundPlan(self, Plan(self, t, act, at))
<1>1. CASE act.type \in {"LocalPeerCreate", "LocalPeerUpdate", "LocalPeerDelete"}
  BY <1>1, ActionFields, PlanCases, LocalPeerCreateSound, LocalPeerUpdateSound,
     LocalPeerDeleteSound
<1>2. CASE act.type \in {"LocalRouteCreate", "LocalRouteHealthUpdate"}
  BY <1>2, ActionFields, PlanCases, LocalRouteSound
<1>3. CASE act.type = "LocalRouteDelete"
  BY <1>3, ActionFields, PlanCases, LocalRouteSound
<1>4. CASE act.type = "InternalProtocolOpen"
  <2>1. act.peer \in Node /\ act.hold \in Nat \cup {NoHold}
    BY <1>4, ActionFields
  <2>2. SoundPlan(self, PlanInternalProtocolOpen(t, act.peer, act.hold, at))
    BY <2>1, InternalProtocolOpenSound
  <2> QED BY <1>4, <2>2, PlanCases
<1>8. CASE act.type \in {"InternalProtocolConnected", "InternalProtocolKeepalive"}
  BY <1>8, ActionFields, PlanCases, InternalProtocolConnectedSound,
     InternalProtocolKeepaliveSound
<1>5. CASE act.type = "InternalProtocolClose"
  BY <1>5, ActionFields, PlanCases, InternalProtocolCloseSound
<1>6. CASE act.type = "InternalProtocolUpdate"
  BY <1>6, ActionFields, PlanCases, InternalProtocolUpdateSound
<1>7. CASE act.type = "Tick"
  BY <1>7, ActionFields, PlanCases, TickSound
<1> QED
  BY <1>1, <1>2, <1>3, <1>4, <1>5, <1>6, <1>7, <1>8, ActionTypes

-----------------------------------------------------------------------------
(* Which planners leave the learned routes alone. *)

Ended == {"closed", "absent"}

Calm(t, plan) ==
  /\ plan.table.routes = t.routes
  /\ \A c \in plan.changes : c.route \in LocalRoute
  /\ \A q \in Node : \/ plan.table.peers[q].status = t.peers[q].status
                     \/ plan.table.peers[q].status \notin Ended

LEMMA NoChangeCalm == \A t : Calm(t, NoChange(t))
BY DEF Calm, NoChange

\* A planner that only writes the record of one peer.
LEMMA RecordCalm ==
  ASSUME NEW t \in Table, NEW p \in Node, NEW rec,
         rec.status \notin Ended \/ rec.status = t.peers[p].status
  PROVE  Calm(t, Changed([t EXCEPT !.peers[p] = rec], {}))
BY DEF Calm, Changed, Table

LEMMA LocalPeerCalm ==
  ASSUME NEW t \in Table, NEW p \in Node, NEW info \in Info
  PROVE  /\ Calm(t, PlanLocalPeerCreate(t, p, info))
         /\ Calm(t, PlanLocalPeerUpdate(t, p, info))
<1>1. t.peers[p] \in PeerRecord
  BY DEF Table
<1>2. Calm(t, PlanLocalPeerCreate(t, p, info))
  BY RecordCalm, NoChangeCalm DEF PlanLocalPeerCreate, Ended
<1>3. Calm(t, PlanLocalPeerUpdate(t, p, info))
  <2> DEFINE rec == [t.peers[p] EXCEPT !.info = info]
  <2>1. rec.status = t.peers[p].status
    BY <1>1 DEF PeerRecord
  <2> HIDE DEF rec
  <2>2. Calm(t, Changed([t EXCEPT !.peers[p] = rec], {}))
    BY <2>1, RecordCalm
  <2> QED
    BY <2>2, NoChangeCalm DEF PlanLocalPeerUpdate, rec
<1> QED
  BY <1>2, <1>3

LEMMA LocalRouteCalm ==
  ASSUME NEW t \in Table, NEW n \in Name
  PROVE  /\ \A d \in Data : /\ Calm(t, PlanLocalRouteCreate(t, n, d))
                            /\ Calm(t, PlanLocalRouteHealthUpdate(t, n, d))
         /\ Calm(t, PlanLocalRouteDelete(t, n))
<1>1. ASSUME NEW type, NEW x \in Data, NEW y
      PROVE  Calm(t, Changed([t EXCEPT !.local[n] = y],
                             Announce(type, {AsLocal(n, x)})))
  BY DEF Calm, Changed, Announce, AsLocal, LocalRoute, Table
<1>2. t.local[n] \in Data \cup {NoRoute}
  BY DEF Table
<1>3. \A d \in Data : Calm(t, PlanLocalRouteCreate(t, n, d))
  BY <1>1, NoChangeCalm DEF PlanLocalRouteCreate
<1>4. \A d \in Data : Calm(t, PlanLocalRouteHealthUpdate(t, n, d))
  BY <1>1, NoChangeCalm DEF PlanLocalRouteHealthUpdate
<1>5. Calm(t, PlanLocalRouteDelete(t, n))
  BY <1>1, <1>2, NoChangeCalm DEF PlanLocalRouteDelete
<1> QED
  BY <1>3, <1>4, <1>5

LEMMA SessionCalm ==
  ASSUME NEW t \in Table, NEW p \in Node, NEW at
  PROVE  /\ \A hold : Calm(t, PlanInternalProtocolOpen(t, p, hold, at))
         /\ Calm(t, PlanInternalProtocolConnected(t, p, at))
         /\ Calm(t, PlanInternalProtocolKeepalive(t, p, at))
<1>1. t.peers[p] \in PeerRecord
  BY DEF Table
<1>2. ASSUME NEW hold
      PROVE  Calm(t, PlanInternalProtocolOpen(t, p, hold, at))
  <2> DEFINE h == IF hold = NoHold THEN t.peers[p].hold
                  ELSE MinOf(t.peers[p].hold, hold)
             rec == [t.peers[p] EXCEPT !.status = "connected", !.hold = h,
                                       !.lastReceived = at]
  <2>1. rec.status = "connected"
    BY <1>1 DEF PeerRecord
  <2>2. Known(t, p) => PlanInternalProtocolOpen(t, p, hold, at)
                         = Changed([t EXCEPT !.peers[p] = rec], {})
    BY DEF PlanInternalProtocolOpen
  <2> HIDE DEF rec
  <2>3. Calm(t, Changed([t EXCEPT !.peers[p] = rec], {}))
    BY <2>1, RecordCalm DEF Ended
  <2> QED
    BY <2>2, <2>3, NoChangeCalm DEF PlanInternalProtocolOpen
<1>3. Calm(t, PlanInternalProtocolConnected(t, p, at))
  <2> DEFINE rec == [t.peers[p] EXCEPT !.status = "connected",
                       !.hold = DefaultHold, !.lastReceived = at]
  <2>1. rec.status = "connected"
    BY <1>1 DEF PeerRecord
  <2>2. Known(t, p) => PlanInternalProtocolConnected(t, p, at)
                         = Changed([t EXCEPT !.peers[p] = rec], {})
    BY DEF PlanInternalProtocolConnected
  <2> HIDE DEF rec
  <2>3. Calm(t, Changed([t EXCEPT !.peers[p] = rec], {}))
    BY <2>1, RecordCalm DEF Ended
  <2> QED
    BY <2>2, <2>3, NoChangeCalm DEF PlanInternalProtocolConnected
<1>4. Calm(t, PlanInternalProtocolKeepalive(t, p, at))
  <2> DEFINE rec == [t.peers[p] EXCEPT !.lastReceived = at]
  <2>1. rec.status = t.peers[p].status
    BY <1>1 DEF PeerRecord
  <2>2. Known(t, p) => PlanInternalProtocolKeepalive(t, p, at)
                         = Changed([t EXCEPT !.peers[p] = rec], {})
    BY DEF PlanInternalProtocolKeepalive
  <2> HIDE DEF rec
  <2>3. Calm(t, Changed([t EXCEPT !.peers[p] = rec], {}))
    BY <2>1, RecordCalm
  <2> QED
    BY <2>2, <2>3, NoChangeCalm DEF PlanInternalProtocolKeepalive
<1> QED
  BY <1>2, <1>3, <1>4

-----------------------------------------------------------------------------
(* What the others do to the learned routes and to the records of peers. *)

Improves(old, new) ==
  \A r \in old, s \in new :
    (SameKey(r, s) /\ ~r.stale /\ r.path # s.path) => Len(s.path) < Len(r.path)

LEMMA KeptImproves ==
  ASSUME NEW old, UniqueIn(old), NEW new, new \subseteq old
  PROVE  Improves(old, new)
BY DEF UniqueIn, Improves

LEMMA CloseImproves ==
  ASSUME NEW self, NEW t, SoundTable(self, t), NEW p \in Node, NEW code
  PROVE  Improves(t.routes, PlanInternalProtocolClose(t, p, code).table.routes)
<1> DEFINE u == PlanInternalProtocolClose(t, p, code).table
<1>1. /\ UniqueIn(t.routes) /\ t.routes \subseteq InternalRoute /\ t \in Table
  BY DEF SoundTable, Table
<1>2. ASSUME NEW s \in u.routes
      PROVE  \E r \in t.routes : SameKey(r, s) /\ s.path = r.path
  <2>1. CASE s \in t.routes
    BY <2>1 DEF SameKey
  <2>2. CASE s \notin t.routes
    <3>1. PICK r \in RoutesVia(t, p) : s = MarkStale(r)
      BY <1>1, <1>2, <2>2 DEF PlanInternalProtocolClose, NoChange, Changed, Table
    <3>2. r \in t.routes /\ r \in InternalRoute
      BY <1>1 DEF RoutesVia
    <3> QED
      BY <3>1, <3>2 DEF MarkStale, InternalRoute, SameKey
  <2> QED
    BY <2>1, <2>2
<1> HIDE DEF u
<1>3. ASSUME NEW r \in t.routes, NEW s \in u.routes, SameKey(r, s)
      PROVE  r.path = s.path
  BY <1>1, <1>2, <1>3 DEF UniqueIn, SameKey
<1> QED
  BY <1>3 DEF Improves, u

\* The learned routes after an update, whether or not it changes anything.
LEMMA UpdateRoutes ==
  ASSUME NEW self, NEW t \in Table, NEW p \in Node, NEW items, NEW at
  PROVE  PlanInternalProtocolUpdate(self, t, p, items, at).table.routes =
           (t.routes \ Replaced(self, t.routes, items))
             \cup {Learned(p, i) : i \in Accepted(self, t.routes, items)}
<1> DEFINE plan == PlanInternalProtocolUpdate(self, t, p, items, at)
           chs == UpdateChanges(self, t.routes, p, items)
           acc == Accepted(self, t.routes, items)
           gone == Replaced(self, t.routes, items)
           rts == (t.routes \ gone) \cup {Learned(p, i) : i \in acc}
<1>1. CASE chs = {} /\ ~Known(t, p)
  <2>1. plan.table = t
    BY <1>1 DEF PlanInternalProtocolUpdate, NoChange
  <2>2. acc = {}
    BY <1>1 DEF UpdateChanges, Announce
  <2>3. Withdrawn(t.routes, items) = {}
    BY <1>1 DEF UpdateChanges, Announce
  <2>4. gone = {}
    BY <2>2, <2>3 DEF Replaced, Withdrawn, Accepted
  <2> QED
    BY <2>1, <2>2, <2>4
<1>2. CASE ~(chs = {} /\ ~Known(t, p))
  BY <1>2 DEF PlanInternalProtocolUpdate, Changed, Table
<1> QED
  BY <1>1, <1>2

LEMMA UpdateImproves ==
  ASSUME NEW self, NEW t, SoundTable(self, t), NEW p \in Node, NEW items, NEW at
  PROVE  Improves(t.routes,
                  PlanInternalProtocolUpdate(self, t, p, items, at).table.routes)
<1> DEFINE acc == Accepted(self, t.routes, items)
<1>1. UniqueIn(t.routes) /\ t \in Table
  BY DEF SoundTable
<1>2. ASSUME NEW i \in acc, NEW r \in t.routes, SameKey(r, Learned(p, i)), ~r.stale
      PROVE  Len(Learned(p, i).path) < Len(r.path)
  BY <1>2 DEF Accepted, Accepts, Learned, SameKey
<1> HIDE DEF acc
<1>3. Improves(t.routes, (t.routes \ Replaced(self, t.routes, items))
                           \cup {Learned(p, i) : i \in acc})
  BY <1>1, <1>2 DEF Improves, UniqueIn
<1>4. PlanInternalProtocolUpdate(self, t, p, items, at).table.routes =
        (t.routes \ Replaced(self, t.routes, items)) \cup {Learned(p, i) : i \in acc}
  BY <1>1, UpdateRoutes DEF acc
<1> QED
  BY <1>3, <1>4

LEMMA DeleteRoutes ==
  ASSUME NEW t \in Table, NEW p \in Node
  PROVE  PlanLocalPeerDelete(t, p).table.routes \subseteq t.routes
BY DEF PlanLocalPeerDelete, NoChange, Changed, Table

LEMMA TickRoutes ==
  ASSUME NEW t \in Table, NEW at
  PROVE  PlanTick(t, at).table.routes =
           {r \in t.routes : r.peer \notin Expired(t, at) \cup GraceOver(t, at)}
BY DEF PlanTick, NoChange, Changed, Table

LEMMA TickPeers ==
  ASSUME NEW t \in Table, NEW at, NEW p \in Node, p \notin Expired(t, at)
  PROVE  PlanTick(t, at).table.peers[p] = t.peers[p]
BY DEF PlanTick, NoChange, Changed, Table

\* A deletion and a close write the record of one peer and lose its routes only.
LEMMA EndOfOne ==
  ASSUME NEW t \in Table, NEW p \in Node, NEW plan,
         \/ plan = PlanLocalPeerDelete(t, p)
         \/ \E code : plan = PlanInternalProtocolClose(t, p, code)
  PROVE  /\ \A q \in Node \ {p} : plan.table.peers[q] = t.peers[q]
         /\ t.routes \ RoutesVia(t, p) \subseteq plan.table.routes
<1>1. CASE plan = PlanLocalPeerDelete(t, p)
  BY <1>1 DEF PlanLocalPeerDelete, NoChange, Changed, Table
<1>2. ASSUME NEW code, plan = PlanInternalProtocolClose(t, p, code)
      PROVE  /\ \A q \in Node \ {p} : plan.table.peers[q] = t.peers[q]
             /\ t.routes \ RoutesVia(t, p) \subseteq plan.table.routes
  BY <1>2 DEF PlanInternalProtocolClose, NoChange, Changed, Table
<1> QED
  BY <1>1, <1>2

LEMMA UpdatePeers ==
  ASSUME NEW self, NEW t \in Table, NEW p \in Node, NEW items, NEW at, NEW q \in Node
  PROVE  PlanInternalProtocolUpdate(self, t, p, items, at).table.peers[q].status
           = t.peers[q].status
<1> DEFINE rec == [t.peers[p] EXCEPT !.lastReceived =
                     IF Known(t, p) THEN at ELSE t.peers[p].lastReceived]
<1>1. t.peers[p] \in PeerRecord
  BY DEF Table
<1>2. rec.status = t.peers[p].status
  BY <1>1 DEF PeerRecord
<1> HIDE DEF rec
<1>3. \A rts : [t EXCEPT !.routes = rts, !.peers[p] = rec].peers[q].status = t.peers[q].status
  BY <1>2 DEF Table
<1> QED
  BY <1>3 DEF PlanInternalProtocolUpdate, NoChange, Changed, rec

-----------------------------------------------------------------------------
(* The announced changes describe what happened to the table. *)

Of(chs, type) == {c.route : c \in {d \in chs : d.type = type}}

\* A follower with routes old that applies chs: what it is told is true of old,
\* and it ends up with new.
Follows(old, chs, new) ==
  LET removed == Internal(Of(chs, "removed"))
      put == Internal(Of(chs, "added") \cup Of(chs, "updated"))
  IN  /\ removed \subseteq old
      /\ \A r \in Internal(Of(chs, "added")) : \A s \in old : ~SameKey(r, s)
      /\ new = {r \in old \ removed : \A s \in put : ~SameKey(r, s)} \cup put

LEMMA InternalOrLocal ==
  /\ \A routes : routes \subseteq InternalRoute => Internal(routes) = routes
  /\ \A routes : routes \subseteq LocalRoute => Internal(routes) = {}
<1>1. \A r \in InternalRoute : isInternalRoute(r)
  BY DEF InternalRoute, isInternalRoute
<1>2. \A r \in LocalRoute : ~isInternalRoute(r)
  BY DEF LocalRoute, isInternalRoute
<1> QED
  BY <1>1, <1>2 DEF Internal

LEMMA CalmFollows ==
  ASSUME NEW t, NEW plan, Calm(t, plan)
  PROVE  Follows(t.routes, plan.changes, plan.table.routes)
<1>1. \A type : Of(plan.changes, type) \subseteq LocalRoute
  BY DEF Calm, Of
<1>2. /\ Internal(Of(plan.changes, "removed")) = {}
      /\ Internal(Of(plan.changes, "added")) = {}
      /\ Internal(Of(plan.changes, "added") \cup Of(plan.changes, "updated")) = {}
  BY <1>1, InternalOrLocal
<1> QED
  BY <1>2 DEF Calm, Follows

LEMMA OfAnnounce ==
  ASSUME NEW type, NEW routes
  PROVE  /\ Of(Announce(type, routes), type) = routes
         /\ \A other : other # type => Of(Announce(type, routes), other) = {}
<1> DEFINE chs == Announce(type, routes)
<1>1. \A c \in chs : c.type = type /\ c.route \in routes
  BY DEF Announce
<1>2. ASSUME NEW r \in routes
      PROVE  \E c \in chs : c.type = type /\ c.route = r
  <2>1. [type |-> type, route |-> r] \in chs
    BY DEF Announce
  <2> QED
    BY <2>1
<1> HIDE DEF chs
<1>3. Of(chs, type) = routes
  BY <1>1, <1>2 DEF Of
<1>4. ASSUME NEW other, other # type
      PROVE  Of(chs, other) = {}
  BY <1>1, <1>4 DEF Of
<1> QED
  BY <1>3, <1>4 DEF chs

LEMMA OfUnion ==
  \A chs, more, type : Of(chs \cup more, type) = Of(chs, type) \cup Of(more, type)
BY DEF Of

\* The three parts of a list of changes.
LEMMA OfAnnounced ==
  ASSUME NEW added, NEW updated, NEW removed, NEW chs,
         chs = Announce("added", added) \cup Announce("updated", updated)
                 \cup Announce("removed", removed)
  PROVE  /\ Of(chs, "added") = added /\ Of(chs, "updated") = updated
         /\ Of(chs, "removed") = removed
<1>1. /\ Of(Announce("added", added), "added") = added
      /\ Of(Announce("updated", updated), "updated") = updated
      /\ Of(Announce("removed", removed), "removed") = removed
  BY OfAnnounce
<1>2. /\ Of(Announce("added", added), "updated") = {}
      /\ Of(Announce("added", added), "removed") = {}
      /\ Of(Announce("updated", updated), "added") = {}
      /\ Of(Announce("updated", updated), "removed") = {}
      /\ Of(Announce("removed", removed), "added") = {}
      /\ Of(Announce("removed", removed), "updated") = {}
  BY OfAnnounce
<1>3. ASSUME NEW type
      PROVE  Of(chs, type) = Of(Announce("added", added), type)
                               \cup Of(Announce("updated", updated), type)
                               \cup Of(Announce("removed", removed), type)
  <2> DEFINE both == Announce("added", added) \cup Announce("updated", updated)
  <2>1. Of(both, type) = Of(Announce("added", added), type)
                           \cup Of(Announce("updated", updated), type)
    BY OfUnion
  <2> HIDE DEF both
  <2>2. Of(both \cup Announce("removed", removed), type) =
          Of(both, type) \cup Of(Announce("removed", removed), type)
    BY OfUnion
  <2> QED
    BY <2>1, <2>2 DEF both
<1> QED
  BY <1>1, <1>2, <1>3

LEMMA FollowsAnnounced ==
  ASSUME NEW old, NEW new, NEW chs,
         NEW added, NEW updated, NEW removed,
         added \cup updated \cup removed \subseteq InternalRoute,
         chs = Announce("added", added) \cup Announce("updated", updated)
                 \cup Announce("removed", removed),
         removed \subseteq old,
         \A r \in added : \A s \in old : ~SameKey(r, s),
         new = {r \in old \ removed : \A s \in added \cup updated : ~SameKey(r, s)}
                 \cup (added \cup updated)
  PROVE  Follows(old, chs, new)
<1>1. /\ Of(chs, "added") = added /\ Of(chs, "updated") = updated
      /\ Of(chs, "removed") = removed
  BY OfAnnounced
<1>2. /\ Internal(Of(chs, "removed")) = removed
      /\ Internal(Of(chs, "added")) = added
      /\ Internal(Of(chs, "added") \cup Of(chs, "updated")) = added \cup updated
  BY <1>1, InternalOrLocal
<1> QED
  BY <1>2 DEF Follows

\* A planner that only drops routes.
LEMMA DropFollows ==
  ASSUME NEW t \in Table, NEW gone, gone \subseteq t.routes
  PROVE  Follows(t.routes, Announce("removed", gone), t.routes \ gone)
<1>1. gone \subseteq InternalRoute
  BY DEF Table
<1>2. Announce("removed", gone) =
        Announce("added", {}) \cup Announce("updated", {}) \cup Announce("removed", gone)
  BY DEF Announce
<1> QED
  BY <1>1, <1>2, FollowsAnnounced

LEMMA NoChangeFollows ==
  ASSUME NEW t \in Table
  PROVE  Follows(t.routes, NoChange(t).changes, NoChange(t).table.routes)
BY NoChangeCalm, CalmFollows

LEMMA DeleteFollows ==
  ASSUME NEW t \in Table, NEW p \in Node
  PROVE  LET plan == PlanLocalPeerDelete(t, p)
         IN  Follows(t.routes, plan.changes, plan.table.routes)
<1>1. CASE ~Known(t, p)
  BY <1>1, NoChangeFollows DEF PlanLocalPeerDelete
<1>2. CASE Known(t, p)
  <2>1. RoutesVia(t, p) \subseteq t.routes
    BY DEF RoutesVia
  <2>2. /\ PlanLocalPeerDelete(t, p).table.routes = t.routes \ RoutesVia(t, p)
        /\ PlanLocalPeerDelete(t, p).changes = Announce("removed", RoutesVia(t, p))
    BY <1>2 DEF PlanLocalPeerDelete, Changed, Table
  <2> QED
    BY <2>1, <2>2, DropFollows
<1> QED
  BY <1>1, <1>2

LEMMA TickFollows ==
  ASSUME NEW t \in Table, NEW at
  PROVE  LET plan == PlanTick(t, at)
         IN  Follows(t.routes, plan.changes, plan.table.routes)
<1> DEFINE purged == Expired(t, at) \cup GraceOver(t, at)
           gone == {r \in t.routes : r.peer \in purged}
<1>1. CASE purged = {}
  BY <1>1, NoChangeFollows DEF PlanTick
<1>2. CASE purged # {}
  <2>1. /\ PlanTick(t, at).table.routes = t.routes \ gone
        /\ PlanTick(t, at).changes = Announce("removed", gone)
    BY <1>2 DEF PlanTick, Changed, Table
  <2>2. gone \subseteq t.routes
    OBVIOUS
  <2> HIDE DEF gone
  <2> QED
    BY <2>1, <2>2, DropFollows
<1> QED
  BY <1>1, <1>2

\* Marking the routes of a lost peer stale replaces each by its stale copy.
LEMMA MarkFollows ==
  ASSUME NEW self, NEW t, SoundTable(self, t), NEW lost, lost \subseteq t.routes
  PROVE  LET kept == {MarkStale(r) : r \in lost}
         IN  Follows(t.routes, Announce("updated", kept), (t.routes \ lost) \cup kept)
<1> DEFINE kept == {MarkStale(r) : r \in lost}
<1>1. t.routes \subseteq InternalRoute /\ UniqueIn(t.routes)
  BY DEF SoundTable, Table
<1>2. \A r \in InternalRoute : MarkStale(r) \in InternalRoute /\ SameKey(r, MarkStale(r))
  BY DEF MarkStale, InternalRoute, SameKey
<1>3. kept \subseteq InternalRoute
  BY <1>1, <1>2
<1>4. ASSUME NEW r \in t.routes
      PROVE  r \in lost <=> \E s \in kept : SameKey(r, s)
  <2>1. ASSUME r \in lost PROVE \E s \in kept : SameKey(r, s)
    BY <1>1, <1>2, <2>1
  <2>2. ASSUME NEW s \in kept, SameKey(r, s) PROVE r \in lost
    <3>1. PICK q \in lost : s = MarkStale(q)
      OBVIOUS
    <3>2. SameKey(q, s) /\ q \in t.routes
      BY <1>1, <1>2, <3>1
    <3>3. SameKey(q, r)
      BY <2>2, <3>2 DEF SameKey
    <3> QED
      BY <1>1, <3>2, <3>3 DEF UniqueIn
  <2> QED
    BY <2>1, <2>2
<1> HIDE DEF kept
<1>5. Announce("updated", kept) =
        Announce("added", {}) \cup Announce("updated", kept) \cup Announce("removed", {})
  BY DEF Announce
<1>6. (t.routes \ lost) \cup kept =
        {r \in t.routes \ {} : \A s \in {} \cup kept : ~SameKey(r, s)} \cup ({} \cup kept)
  BY <1>4
<1>7. Follows(t.routes, Announce("updated", kept), (t.routes \ lost) \cup kept)
  BY <1>3, <1>5, <1>6, FollowsAnnounced
<1> QED
  BY <1>7 DEF kept

LEMMA CloseFollows ==
  ASSUME NEW self, NEW t, SoundTable(self, t), NEW p \in Node, NEW code
  PROVE  LET plan == PlanInternalProtocolClose(t, p, code)
         IN  Follows(t.routes, plan.changes, plan.table.routes)
<1> DEFINE plan == PlanInternalProtocolClose(t, p, code)
           lost == RoutesVia(t, p)
           kept == {MarkStale(r) : r \in lost}
<1>1. t \in Table /\ lost \subseteq t.routes
  BY DEF SoundTable, RoutesVia
<1>2. CASE ~Known(t, p)
  BY <1>1, <1>2, NoChangeFollows DEF PlanInternalProtocolClose
<1>3. CASE Known(t, p) /\ code = "TRANSPORT_ERROR"
  <2>1. /\ plan.table.routes = (t.routes \ lost) \cup kept
        /\ plan.changes = Announce("updated", kept)
    BY <1>1, <1>3 DEF PlanInternalProtocolClose, Changed, Table
  <2> HIDE DEF plan, lost
  <2>2. Follows(t.routes, plan.changes, plan.table.routes)
    BY <1>1, <2>1, MarkFollows
  <2> QED
    BY <2>2 DEF plan
<1>4. CASE Known(t, p) /\ code # "TRANSPORT_ERROR"
  <2>1. /\ plan.table.routes = t.routes \ lost
        /\ plan.changes = Announce("removed", lost)
    BY <1>1, <1>4 DEF PlanInternalProtocolClose, Changed, Table
  <2> HIDE DEF plan, lost
  <2>2. Follows(t.routes, plan.changes, plan.table.routes)
    BY <1>1, <2>1, DropFollows
  <2> QED
    BY <2>2 DEF plan
<1> QED
  BY <1>2, <1>3, <1>4

LEMMA UpdateFollows ==
  ASSUME NEW self, NEW t, SoundTable(self, t), NEW p \in Node, NEW at,
         NEW items, items \subseteq UpdateItem
  PROVE  LET plan == PlanInternalProtocolUpdate(self, t, p, items, at)
         IN  Follows(t.routes, plan.changes, plan.table.routes)
<1> DEFINE plan == PlanInternalProtocolUpdate(self, t, p, items, at)
           acc == Accepted(self, t.routes, items)
           first == {i \in acc : ~\E r \in t.routes : SameKey(r, i)}
           added == {Learned(p, i) : i \in first}
           updated == {Learned(p, i) : i \in acc \ first}
           removed == Withdrawn(t.routes, items)
<1>1. t \in Table /\ t.routes \subseteq InternalRoute
  BY DEF SoundTable, Table
<1>2. \A i \in acc : /\ Learned(p, i) \in InternalRoute
                     /\ \A r : SameKey(r, i) <=> SameKey(r, Learned(p, i))
  BY DEF Accepted, Learned, UpdateItem, InternalRoute, SameKey
<1>3. added \cup updated \cup removed \subseteq InternalRoute /\ removed \subseteq t.routes
  BY <1>1, <1>2 DEF Withdrawn
<1>4. plan.changes = Announce("added", added) \cup Announce("updated", updated)
                       \cup Announce("removed", removed)
  BY DEF PlanInternalProtocolUpdate, NoChange, Changed, UpdateChanges
<1>5. \A r \in added : \A s \in t.routes : ~SameKey(r, s)
  BY <1>2 DEF SameKey
<1>6. added \cup updated = {Learned(p, i) : i \in acc}
  OBVIOUS
<1>7. ASSUME NEW r \in t.routes
      PROVE  r \in Replaced(self, t.routes, items) <=>
               r \in removed \/ \E s \in added \cup updated : SameKey(r, s)
  <2>1. r \in Replaced(self, t.routes, items) <=>
          r \in removed \/ \E i \in acc : SameKey(r, i)
    BY DEF Replaced, Withdrawn, Accepted
  <2>2. (\E i \in acc : SameKey(r, i)) <=>
          \E s \in {Learned(p, i) : i \in acc} : SameKey(r, s)
    BY <1>2
  <2> QED
    BY <2>1, <2>2, <1>6
<1>8. plan.table.routes = (t.routes \ Replaced(self, t.routes, items)) \cup (added \cup updated)
  <2>1. plan.table.routes = (t.routes \ Replaced(self, t.routes, items))
                              \cup {Learned(p, i) : i \in acc}
    BY <1>1, UpdateRoutes
  <2> QED
    BY <1>6, <2>1
<1> HIDE DEF plan, added, updated, removed
<1>9. plan.table.routes =
        {r \in t.routes \ removed : \A s \in added \cup updated : ~SameKey(r, s)}
          \cup (added \cup updated)
  BY <1>7, <1>8
<1>10. Follows(t.routes, plan.changes, plan.table.routes)
  BY <1>3, <1>4, <1>5, <1>9, FollowsAnnounced
<1> QED
  BY <1>10 DEF plan

-----------------------------------------------------------------------------
(* Induction over the natural numbers, with a set in place of a predicate. *)

LEMMA NatSetInduction ==
  ASSUME NEW T, 0 \in T, \A k \in Nat : k \in T => k + 1 \in T
  PROVE  Nat \subseteq T
<1> DEFINE R == OpToRel(<, Nat)
           M == Nat \ T
<1>1. IsWellFoundedOn(R, Nat)
  BY NatLessThanWellFounded
<1> SUFFICES ASSUME M # {} PROVE FALSE
  OBVIOUS
<1>2. M \subseteq Nat
  OBVIOUS
<1>3. \E x \in M : \A y \in M : ~(<<y, x>> \in R)
  <2> HIDE DEF R, M
  <2> QED BY <1>1, <1>2, WFMin
<1>4. PICK x \in M : \A y \in M : ~(<<y, x>> \in R)
  BY <1>3
<1>5. x \in Nat /\ x # 0 /\ x - 1 \in Nat
  OBVIOUS
<1>6. x - 1 \in T
  <2>1. SUFFICES ASSUME x - 1 \notin T PROVE FALSE
    OBVIOUS
  <2>2. <<x - 1, x>> \in R
    BY <1>5 DEF OpToRel
  <2> QED BY <1>4, <1>5, <2>1, <2>2
<1> QED
  BY <1>5, <1>6

-----------------------------------------------------------------------------
(* One more item in an update whose other items have other keys. *)

Fresh(item, set) == \A i \in set : ~SameKey(i, item)

LEMMA AcceptedGrows ==
  ASSUME NEW node, NEW rs, NEW set, NEW item
  PROVE  Accepted(node, rs, set \cup {item}) =
           Accepted(node, rs, set)
             \cup (IF Accepts(node, rs, item) THEN {item} ELSE {})
  BY DEF Accepted

\* The route an item installs, and those it displaces.
Installed(node, rs, p, item) ==
  IF Accepts(node, rs, item) THEN {Learned(p, item)} ELSE {}
Displaced(node, rs, item) ==
  {r \in rs : SameKey(r, item) /\ (item.action = "remove" \/ Accepts(node, rs, item))}

LEMMA ReplacedGrows ==
  ASSUME NEW node, NEW rs, NEW set, NEW item
  PROVE  Replaced(node, rs, set \cup {item}) =
           Replaced(node, rs, set) \cup Displaced(node, rs, item)
  BY DEF Replaced, Displaced

LEMMA WithdrawnGrows ==
  ASSUME NEW rs, NEW set, NEW item
  PROVE  Withdrawn(rs, set \cup {item}) =
           Withdrawn(rs, set)
             \cup {r \in rs : SameKey(r, item) /\ item.action = "remove"}
  BY DEF Withdrawn

\* What the plan does with one item, on its own.
Delta(node, rs, p, item) ==
  IF item.action = "remove"
  THEN Announce("removed", {r \in rs : SameKey(r, item)})
  ELSE IF ~Accepts(node, rs, item) THEN {}
  ELSE Announce(IF \E r \in rs : SameKey(r, item) THEN "updated" ELSE "added",
                {Learned(p, item)})

LEMMA ChangesGrow ==
  ASSUME NEW node, NEW rs, NEW p, NEW set, NEW item, Fresh(item, set)
  PROVE  UpdateChanges(node, rs, p, set \cup {item}) =
           UpdateChanges(node, rs, p, set) \cup Delta(node, rs, p, item)
<1> DEFINE all == set \cup {item}
           New(s) == {i \in Accepted(node, rs, s) : ~\E r \in rs : SameKey(r, i)}
           Better2(s) == Accepted(node, rs, s) \ New(s)
           Put1(s) == Announce("added", {Learned(p, i) : i \in New(s)})
           Put2(s) == Announce("updated", {Learned(p, i) : i \in Better2(s)})
           Out(s) == Announce("removed", Withdrawn(rs, s))
<1>1. \A s : UpdateChanges(node, rs, p, s) = Put1(s) \cup Put2(s) \cup Out(s)
  BY DEF UpdateChanges
<1>2. CASE item.action = "remove"
  <2>1. ~Accepts(node, rs, item)
    BY <1>2 DEF Accepts
  <2>2. Accepted(node, rs, all) = Accepted(node, rs, set)
    BY <2>1, AcceptedGrows
  <2>3. Put1(all) = Put1(set) /\ Put2(all) = Put2(set)
    BY <2>2
  <2>4. Withdrawn(rs, all) = Withdrawn(rs, set) \cup {r \in rs : SameKey(r, item)}
    BY <1>2, WithdrawnGrows
  <2>5. Out(all) = Out(set) \cup Announce("removed", {r \in rs : SameKey(r, item)})
    BY <2>4 DEF Announce
  <2> QED BY <1>1, <1>2, <2>3, <2>5 DEF Delta
<1>3. CASE item.action # "remove"
  <2>1. Withdrawn(rs, all) = Withdrawn(rs, set)
    BY <1>3, WithdrawnGrows
  <2>2. Out(all) = Out(set)
    BY <2>1
  <2>3. CASE ~Accepts(node, rs, item)
    <3>1. Accepted(node, rs, all) = Accepted(node, rs, set)
      BY <2>3, AcceptedGrows
    <3>2. Put1(all) = Put1(set) /\ Put2(all) = Put2(set)
      BY <3>1
    <3> QED BY <1>1, <1>3, <2>2, <2>3, <3>2 DEF Delta
  <2>4. CASE Accepts(node, rs, item)
    <3>1. Accepted(node, rs, all) = Accepted(node, rs, set) \cup {item}
      BY <2>4, AcceptedGrows
    <3>2. CASE \E r \in rs : SameKey(r, item)
      <4>1. New(all) = New(set)
        BY <3>1, <3>2
      <4>2. Better2(all) = Better2(set) \cup {item}
        BY <3>1, <3>2
      <4>3. Put2(all) = Put2(set) \cup Announce("updated", {Learned(p, item)})
        BY <4>2 DEF Announce
      <4>4. Put1(all) = Put1(set)
        BY <4>1
      <4> QED BY <1>1, <1>3, <2>2, <2>4, <3>2, <4>3, <4>4 DEF Delta
    <3>3. CASE ~\E r \in rs : SameKey(r, item)
      <4>1. New(all) = New(set) \cup {item}
        BY <3>1, <3>3
      <4>2. Better2(all) = Better2(set)
        BY <3>1, <3>3, <4>1
      <4>3. Put1(all) = Put1(set) \cup Announce("added", {Learned(p, item)})
        BY <4>1 DEF Announce
      <4>4. Put2(all) = Put2(set)
        BY <4>2
      <4> QED BY <1>1, <1>3, <2>2, <2>4, <3>3, <4>3, <4>4 DEF Delta
    <3> QED BY <3>2, <3>3
  <2> QED BY <2>3, <2>4
<1> QED BY <1>2, <1>3

\* The routes the plan of some items leads to.
After(node, rs, p, set) ==
  (rs \ Replaced(node, rs, set))
    \cup {Learned(p, i) : i \in Accepted(node, rs, set)}

\* Neither the routes it displaces nor those it installs concern a fresh item.
LEMMA RoutesOfFreshItem ==
  ASSUME NEW node, NEW rs, NEW p, NEW set, NEW item, Fresh(item, set)
  PROVE  {r \in After(node, rs, p, set) : SameKey(r, item)} =
           {r \in rs : SameKey(r, item)}
<1>1. \A r \in Replaced(node, rs, set) : ~SameKey(r, item)
  BY DEF Replaced, Fresh, SameKey
<1>2. \A i \in Accepted(node, rs, set) : ~SameKey(Learned(p, i), item)
  BY DEF Accepted, Fresh, SameKey, Learned
<1> QED BY <1>1, <1>2 DEF After, Replaced

LEMMA AfterGrows ==
  ASSUME NEW node, NEW rs, NEW p, NEW set, NEW item, Fresh(item, set)
  PROVE  After(node, rs, p, set \cup {item}) =
           (After(node, rs, p, set) \ Displaced(node, rs, item))
             \cup Installed(node, rs, p, item)
<1>1. \A i \in Accepted(node, rs, set) : ~SameKey(Learned(p, i), item)
  BY DEF Accepted, Fresh, SameKey, Learned
<1>2. \A i \in Accepted(node, rs, set) : Learned(p, i) \notin Displaced(node, rs, item)
  BY <1>1 DEF Displaced
<1>3. {Learned(p, i) : i \in Accepted(node, rs, set \cup {item})} =
        {Learned(p, i) : i \in Accepted(node, rs, set)}
          \cup Installed(node, rs, p, item)
  <2>1. CASE Accepts(node, rs, item)
    <3>1. Accepted(node, rs, set \cup {item}) = Accepted(node, rs, set) \cup {item}
      BY <2>1, AcceptedGrows
    <3> QED BY <2>1, <3>1 DEF Installed
  <2>2. CASE ~Accepts(node, rs, item)
    <3>1. Accepted(node, rs, set \cup {item}) = Accepted(node, rs, set)
      BY <2>2, AcceptedGrows
    <3> QED BY <2>2, <3>1 DEF Installed
  <2> QED BY <2>1, <2>2
<1> HIDE DEF Fresh
<1> QED BY <1>2, <1>3, ReplacedGrows DEF After

-----------------------------------------------------------------------------
(* The loop over the items of an update. *)

KeysDiffer(items) ==
  \A i, j \in DOMAIN items : SameKey(items[i], items[j]) => i = j

\* f holds what the loop holds after each of the first n items.
Loops(self, p, rs, items, n, f) ==
  f = [k \in 0..n |-> IF k = 0 THEN [routes |-> rs, changes |-> {}]
                     ELSE Take(self, p, f[k - 1], items[k])]

LEMMA LoopsExist ==
  ASSUME NEW self, NEW p, NEW rs, NEW items
  PROVE  \A n \in Nat : \E f : Loops(self, p, rs, items, n, f)
<1> DEFINE T == {n \in Nat : \E f : Loops(self, p, rs, items, n, f)}
<1>1. 0 \in T
  <2> DEFINE f == [k \in 0..0 |-> [routes |-> rs, changes |-> {}]]
  <2>1. \A k \in 0..0 : k = 0
    OBVIOUS
  <2>2. Loops(self, p, rs, items, 0, f)
    BY <2>1 DEF Loops
  <2> QED BY <2>2
<1>2. ASSUME NEW n \in Nat, n \in T PROVE n + 1 \in T
  <2>1. PICK f : Loops(self, p, rs, items, n, f)
    BY <1>2
  <2> DEFINE g == [k \in 0..(n + 1) |->
                     IF k = n + 1 THEN Take(self, p, f[n], items[n + 1]) ELSE f[k]]
  <2>2. ASSUME NEW k \in 0..(n + 1)
        PROVE  g[k] = IF k = 0 THEN [routes |-> rs, changes |-> {}]
                      ELSE Take(self, p, g[k - 1], items[k])
    <3>1. CASE k = n + 1
      <4>1. k # 0 /\ k - 1 = n /\ k - 1 \in 0..(n + 1) /\ k - 1 # n + 1
        BY <3>1
      <4>2. g[k - 1] = f[n]
        BY <4>1
      <4> QED BY <3>1, <4>1, <4>2
    <3>2. CASE k # n + 1
      <4>1. k \in 0..n /\ g[k] = f[k]
        BY <3>2
      <4>2. f[k] = IF k = 0 THEN [routes |-> rs, changes |-> {}]
                   ELSE Take(self, p, f[k - 1], items[k])
        BY <2>1, <4>1 DEF Loops
      <4>3. k # 0 => k - 1 \in 0..(n + 1) /\ k - 1 # n + 1
        BY <4>1
      <4>4. k # 0 => g[k - 1] = f[k - 1]
        BY <4>3
      <4> QED BY <4>1, <4>2, <4>4
    <3> QED BY <3>1, <3>2
  <2>3. Loops(self, p, rs, items, n + 1, g)
    <3>1. g = [k \in 0..(n + 1) |-> g[k]]
      OBVIOUS
    <3> HIDE DEF g
    <3> QED BY <2>2, <3>1 DEF Loops
  <2> QED BY <2>3
<1>3. Nat \subseteq T
  <2> HIDE DEF T
  <2> QED BY <1>1, <1>2, NatSetInduction
<1> QED BY <1>3

\* What a turn does to a table that has not seen a route of its item's key yet.
LEMMA TakeFresh ==
  ASSUME NEW self, NEW p, NEW rs, DistinctKeys(rs),
         NEW at, NEW item \in UpdateItem,
         Same(at.routes, item) = {r \in rs : SameKey(r, item)},
         at = [routes |-> at.routes, changes |-> at.changes]
  PROVE  Take(self, p, at, item) =
           [routes  |-> (at.routes \ Displaced(self, rs, item))
                          \cup Installed(self, rs, p, item),
            changes |-> at.changes \cup Delta(self, rs, p, item)]
<1> DEFINE same == {r \in rs : SameKey(r, item)}
           old  == CHOOSE r \in same : TRUE
<1>1. \A r \in same : same = {r}
  BY DEF DistinctKeys, SameKey
<1>2. CASE item.action = "remove"
  <2>1. ~Accepts(self, rs, item) /\ item.action # "add"
    BY <1>2 DEF Accepts
  <2>2. Displaced(self, rs, item) = same /\ Installed(self, rs, p, item) = {}
        /\ Delta(self, rs, p, item) = Announce("removed", same)
    BY <1>2, <2>1 DEF Displaced, Installed, Delta
  <2> QED BY <2>1, <2>2 DEF Take, TakeRemove
<1>3. CASE item.action = "add" /\ Crosses(self, item.path)
  <2>1. ~Accepts(self, rs, item)
    BY <1>3 DEF Accepts
  <2>2. Displaced(self, rs, item) = {} /\ Installed(self, rs, p, item) = {}
        /\ Delta(self, rs, p, item) = {}
    BY <1>3, <2>1 DEF Displaced, Installed, Delta
  <2> QED BY <1>3, <2>2 DEF Take, TakeAdd
<1>4. CASE item.action = "add" /\ ~Crosses(self, item.path) /\ same = {}
  <2>1. Accepts(self, rs, item)
    BY <1>4 DEF Accepts
  <2>2. Displaced(self, rs, item) = {}
        /\ Installed(self, rs, p, item) = {Learned(p, item)}
        /\ Delta(self, rs, p, item) = Announce("added", {Learned(p, item)})
    BY <1>4, <2>1 DEF Displaced, Installed, Delta
  <2> QED BY <1>4, <2>2 DEF Take, TakeAdd, Put
<1>5. CASE item.action = "add" /\ ~Crosses(self, item.path) /\ same # {}
  <2>1. old \in same /\ same = {old}
    BY <1>1, <1>5
  <2>2. Accepts(self, rs, item) <=> Better(item, old)
    BY <1>5, <2>1 DEF Accepts, Better
  <2>3. Displaced(self, rs, item) = IF Better(item, old) THEN {old} ELSE {}
    BY <1>5, <2>1, <2>2 DEF Displaced
  <2>4. Installed(self, rs, p, item) =
          IF Better(item, old) THEN {Learned(p, item)} ELSE {}
    BY <2>2 DEF Installed
  <2>5. Delta(self, rs, p, item) =
          IF Better(item, old) THEN Announce("updated", {Learned(p, item)}) ELSE {}
    BY <1>5, <2>1, <2>2 DEF Delta
  <2>6. Take(self, p, at, item) =
          IF Better(item, old) THEN Put(at, "updated", Learned(p, item), {old}) ELSE at
    BY <1>5 DEF Take, TakeAdd
  <2> HIDE DEF old
  <2>7. CASE Better(item, old)
    BY <2>3, <2>4, <2>5, <2>6, <2>7 DEF Put
  <2>8. CASE ~Better(item, old)
    BY <2>3, <2>4, <2>5, <2>6, <2>8
  <2> QED BY <2>7, <2>8
<1>6. item.action \in {"add", "remove"}
  BY DEF UpdateItem
<1> QED BY <1>2, <1>3, <1>4, <1>5, <1>6

\* So a turn does for its item what the plan does.
LEMMA TakeGrows ==
  ASSUME NEW self, NEW p, NEW rs, DistinctKeys(rs),
         NEW set, NEW item \in UpdateItem, Fresh(item, set)
  PROVE  Take(self, p, [routes  |-> After(self, rs, p, set),
                        changes |-> UpdateChanges(self, rs, p, set)], item) =
           [routes  |-> After(self, rs, p, set \cup {item}),
            changes |-> UpdateChanges(self, rs, p, set \cup {item})]
<1> DEFINE at == [routes  |-> After(self, rs, p, set),
                  changes |-> UpdateChanges(self, rs, p, set)]
<1>1. Same(After(self, rs, p, set), item) = {r \in rs : SameKey(r, item)}
  BY RoutesOfFreshItem DEF Same
<1>2. /\ at.routes = After(self, rs, p, set)
      /\ at.changes = UpdateChanges(self, rs, p, set)
      /\ at = [routes |-> at.routes, changes |-> at.changes]
  OBVIOUS
<1> HIDE DEF at
<1>3. Same(at.routes, item) = {r \in rs : SameKey(r, item)}
  BY <1>1, <1>2
<1>4. Take(self, p, at, item) =
        [routes  |-> (at.routes \ Displaced(self, rs, item))
                       \cup Installed(self, rs, p, item),
         changes |-> at.changes \cup Delta(self, rs, p, item)]
  BY <1>2, <1>3, TakeFresh
<1>5. After(self, rs, p, set \cup {item}) =
        (After(self, rs, p, set) \ Displaced(self, rs, item))
          \cup Installed(self, rs, p, item)
  BY AfterGrows
<1>6. UpdateChanges(self, rs, p, set \cup {item}) =
        UpdateChanges(self, rs, p, set) \cup Delta(self, rs, p, item)
  BY ChangesGrow
<1> QED BY <1>2, <1>4, <1>5, <1>6 DEF at

First(items, k) == {items[i] : i \in 1..k}

\* For every route table, every update without two items of one key, and every
\* order of its items, the code's loop computes what RouteTable defines for the
\* update as a whole (rib.ts planInternalProtocolUpdate).
THEOREM LoopComputesPlan ==
  ASSUME NEW self, NEW p, NEW rs, DistinctKeys(rs),
         NEW items \in Seq(UpdateItem), KeysDiffer(items)
  PROVE  LET all == {items[i] : i \in DOMAIN items}
         IN  Loop(self, p, rs, items) =
               [routes  |-> (rs \ Replaced(self, rs, all))
                              \cup {Learned(p, i) : i \in Accepted(self, rs, all)},
                changes |-> UpdateChanges(self, rs, p, all)]
<1> DEFINE f == CHOOSE g : Loops(self, p, rs, items, Len(items), g)
           Outcome(set) == [routes  |-> After(self, rs, p, set),
                         changes |-> UpdateChanges(self, rs, p, set)]
           T == {k \in Nat : k <= Len(items) => f[k] = Outcome(First(items, k))}
<1>1. Loop(self, p, rs, items) = f[Len(items)]
  BY DEF Loop, Loops
<1>2. Loops(self, p, rs, items, Len(items), f)
  <2>1. Len(items) \in Nat
    OBVIOUS
  <2>2. \E g : Loops(self, p, rs, items, Len(items), g)
    BY <2>1, LoopsExist
  <2> QED BY <2>2
<1> HIDE DEF f
<1>3. 0 \in T
  <2>1. f[0] = [routes |-> rs, changes |-> {}]
    BY <1>2 DEF Loops
  <2>2. First(items, 0) = {}
    BY DEF First
  <2>3. Replaced(self, rs, {}) = {} /\ Accepted(self, rs, {}) = {} /\ Withdrawn(rs, {}) = {}
    BY DEF Replaced, Accepted, Withdrawn
  <2>4. UpdateChanges(self, rs, p, {}) = {}
    BY <2>3 DEF UpdateChanges, Announce
  <2> QED BY <2>1, <2>2, <2>3, <2>4 DEF After
<1>4. ASSUME NEW k \in Nat, k \in T PROVE k + 1 \in T
  <2> SUFFICES ASSUME k + 1 <= Len(items)
               PROVE  f[k + 1] = Outcome(First(items, k + 1))
    OBVIOUS
  <2> DEFINE last == items[k + 1]
             past  == First(items, k)
  <2>1. k + 1 \in DOMAIN items /\ last \in UpdateItem
    OBVIOUS
  <2>2. f[k + 1] = Take(self, p, f[k], last)
    <3>1. k + 1 \in 0..Len(items) /\ k + 1 # 0 /\ (k + 1) - 1 = k
      OBVIOUS
    <3> QED BY <1>2, <3>1 DEF Loops
  <2>3. f[k] = Outcome(past)
    BY <1>4
  <2>4. Fresh(last, past)
    <3> SUFFICES ASSUME NEW j \in 1..k, SameKey(items[j], last) PROVE FALSE
      BY DEF Fresh, First
    <3>1. j \in DOMAIN items /\ j # k + 1
      OBVIOUS
    <3> QED BY <2>1, <3>1 DEF KeysDiffer
  <2>5. First(items, k + 1) = past \cup {last}
    <3>1. 1..(k + 1) = 1..k \cup {k + 1}
      OBVIOUS
    <3> QED BY <3>1 DEF First
  <2> HIDE DEF last, past
  <2>6. Take(self, p, Outcome(past), last) = Outcome(past \cup {last})
    BY <2>1, <2>4, TakeGrows
  <2> QED BY <2>2, <2>3, <2>5, <2>6
<1>5. Len(items) \in T
  <2>1. Nat \subseteq T
    <3> HIDE DEF T
    <3> QED BY <1>3, <1>4, NatSetInduction
  <2> QED BY <2>1
<1>6. First(items, Len(items)) = {items[i] : i \in DOMAIN items}
  BY DEF First
<1>7. f[Len(items)] = Outcome(First(items, Len(items)))
  BY <1>5
<1> QED BY <1>1, <1>6, <1>7 DEF After
===============================================================================
